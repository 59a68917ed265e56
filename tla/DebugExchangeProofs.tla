------------------------ MODULE DebugExchangeProofs -------------------------
(***************************************************************************)
(* For any number of module containers: the blocking sends of Debug and    *)
(* of its peers never wait for each other.  All waiting is between Debug   *)
(* and one peer, so this excludes every circular wait.                     *)
(***************************************************************************)
EXTENDS DebugExchange, TLAPS

USE DebugExchangeAssumption DEF DebugExchangeAssumption

\* A semaphore's count stays a natural number, and is not zero afterwards
\* (Semaphore::post).
LEMMA PostType == ASSUME NEW count \in Nat PROVE Post(count) \in Nat /\ Post(count) > 0
  BY DEF Post, Min

\* Debug::init leaves all channels empty.
LEMMA InitIInv == Init => IInv
  BY DEF Init, IInv, TypeOK, OneEndEmpty, DebugWindow, PeerWindow, PacketsSignalled,
         DebugPast, PeerPast, Peer, Console, Container

\* A frame of the Debug thread: it enters a peer's window with that peer's
\* channel just emptied, and leaves it with the packet it sends.
LEMMA DebugSteps == IInv /\ DebugNext => IInv'
  <1> SUFFICES ASSUME IInv, DebugNext PROVE IInv'
    OBVIOUS
  <1> USE DEF IInv, TypeOK, OneEndEmpty, DebugWindow, PeerWindow, PacketsSignalled,
              DebugPast, PeerPast, Peer, Console, Container, peerVars, simVars, debugVars,
              Thread, Debug
  <1>1. CASE DebugWake
    BY <1>1 DEF DebugWake
  <1>2. CASE DebugStops
    BY <1>2 DEF DebugStops
  <1>3. CASE DebugTop
    BY <1>3 DEF DebugTop
  <1>4. CASE DebugCheck
    BY <1>4 DEF DebugCheck
  <1>5. CASE DebugSend
    <2>1. TypeOK'
      BY <1>5, PostType DEF DebugSend, AfterSend
    <2>2. OneEndEmpty'
      BY <1>5 DEF DebugSend, AfterSend
    <2>3. PacketsSignalled'
      BY <1>5, PostType DEF DebugSend, AfterSend
    <2> QED
      BY <2>1, <2>2, <2>3
  <1>6. CASE DebugSendNothing
    BY <1>6 DEF DebugSendNothing, AfterSend
  <1> QED
    BY <1>1, <1>2, <1>3, <1>4, <1>5, <1>6 DEF DebugNext

\* A frame of a peer, from its point of view the same.
LEMMA PeerSteps == ASSUME NEW p \in Peer PROVE IInv /\ PeerNext(p) => IInv'
  <1> SUFFICES ASSUME IInv, PeerNext(p) PROVE IInv'
    OBVIOUS
  <1> USE DEF IInv, TypeOK, OneEndEmpty, DebugWindow, PeerWindow, PacketsSignalled,
              DebugPast, PeerPast, Peer, Console, Container, peerVars, simVars, debugVars,
              Thread, Debug
  <1>1. CASE PeerWake(p)
    BY <1>1 DEF PeerWake
  <1>2. CASE PeerStops(p)
    BY <1>2 DEF PeerStops
  <1>3. CASE PeerSend(p)
    <2>1. TypeOK'
      <3>1. debugSignal' \in Nat
        BY <1>3, PostType DEF PeerSend
      <3>2. updatedSignal' \in Nat
        BY <1>3 DEF PeerSend, AfterPeerSend
      <3>3. UNCHANGED <<debugVars, toPeer, peerSignal, updateSignal, sim, running>>
        BY <1>3 DEF PeerSend
      <3>4. /\ fromPeer' \in [Peer -> BOOLEAN] /\ peerOut' \in [Peer -> BOOLEAN]
            /\ ppc' \in [Peer -> {"wait", "top", "main", "send", "stopped"}]
        BY <1>3 DEF PeerSend, AfterPeerSend
      <3> QED
        BY <3>1, <3>2, <3>3, <3>4
    <2>2. OneEndEmpty'
      BY <1>3 DEF PeerSend, AfterPeerSend
    <2>3. PacketsSignalled'
      <3>1. debugSignal' \in Nat /\ debugSignal' > 0
        BY <1>3, PostType DEF PeerSend
      <3>2. UNCHANGED <<toPeer, peerSignal>>
        BY <1>3 DEF PeerSend
      <3>3. \A q \in Peer : ppc'[q] = ppc[q] \/ (q = p /\ PeerPast(p))
        BY <1>3 DEF PeerSend, AfterPeerSend
      <3>4. \A q \in Peer : PeerPast(q)' => PeerPast(q)
        BY <3>3
      <3> QED
        BY <3>1, <3>2, <3>4, Zenon DEF PacketsSignalled
    <2> QED
      BY <2>1, <2>2, <2>3
  <1>4. CASE PeerSendNothing(p)
    <2>1. TypeOK'
      BY <1>4 DEF PeerSendNothing, AfterPeerSend
    <2>2. OneEndEmpty'
      BY <1>4 DEF PeerSendNothing, AfterPeerSend
    <2>3. PacketsSignalled'
      BY <1>4 DEF PeerSendNothing, AfterPeerSend
    <2> QED
      BY <2>1, <2>2, <2>3
  <1>5. CASE p \in Container /\ ContainerFrame(p)
    BY <1>5 DEF ContainerFrame
  <1>6. CASE p = Console /\ ConsoleTop
    BY <1>6 DEF ConsoleTop
  <1>7. CASE p = Console /\ ConsoleMain
    <2>1. TypeOK'
      <3>1. updateSignal' \in Nat
        BY <1>7 DEF ConsoleMain
      <3>2. UNCHANGED <<debugVars, toPeer, debugSignal, fromPeer, peerSignal,
                        updatedSignal, sim, running>>
        BY <1>7 DEF ConsoleMain
      <3>3. /\ peerOut' \in [Peer -> BOOLEAN]
            /\ ppc' \in [Peer -> {"wait", "top", "main", "send", "stopped"}]
        BY <1>7 DEF ConsoleMain
      <3> QED
        BY <3>1, <3>2, <3>3
    <2>2. OneEndEmpty'
      BY <1>7 DEF ConsoleMain
    <2>3. PacketsSignalled'
      BY <1>7 DEF ConsoleMain
    <2> QED
      BY <2>1, <2>2, <2>3
  <1> QED
    BY <1>1, <1>2, <1>3, <1>4, <1>5, <1>6, <1>7 DEF PeerNext

\* The simulator's main thread touches no channel (LocalRobot::update,
\* RoboCupCtrl::stop).
LEMMA SimulatorSteps ==
  ASSUME \/ Update \/ Command \/ Stop
         \/ \E t \in Thread : AnnounceStop(t)
         \/ Finish \/ UNCHANGED vars
  PROVE  IInv => IInv'
  <1> SUFFICES ASSUME IInv,
                      \/ Update \/ Command \/ Stop
                      \/ \E t \in Thread : AnnounceStop(t)
                      \/ UNCHANGED vars
               PROVE  IInv'
    BY DEF Finish
  <1> USE DEF IInv, TypeOK, OneEndEmpty, DebugWindow, PeerWindow, PacketsSignalled,
              DebugPast, PeerPast, Peer, Console, Container, peerVars, simVars, debugVars,
              Thread, Debug
  <1>1. CASE Update
    <2>1. TypeOK'
      <3>1. updateSignal' \in Nat /\ updatedSignal' \in Nat
        BY <1>1 DEF Update
      <3>2. UNCHANGED <<debugVars, toPeer, debugSignal, ppc, fromPeer, sim, running>>
        BY <1>1 DEF Update
      <3>3. peerOut' \in [Peer -> BOOLEAN] /\ peerSignal' \in [Peer -> Nat]
        BY <1>1, PostType DEF Update
      <3> QED
        BY <3>1, <3>2, <3>3
    <2>2. OneEndEmpty'
      BY <1>1 DEF Update
    <2>3. PacketsSignalled'
      BY <1>1, PostType DEF Update
    <2> QED
      BY <2>1, <2>2, <2>3
  <1>2. CASE Command
    BY <1>2 DEF Command
  <1>3. CASE Stop
    BY <1>3 DEF Stop
  <1>4. ASSUME NEW t \in Thread, AnnounceStop(t), Tell(t) PROVE IInv'
    BY <1>4 DEF AnnounceStop, Tell
  <1>5. ASSUME NEW t \in Thread, AnnounceStop(t), Trigger(t) PROVE IInv'
    <2>1. TypeOK'
      BY <1>5, PostType DEF AnnounceStop, Trigger
    <2>2. OneEndEmpty'
      BY <1>5 DEF Trigger
    <2>3. PacketsSignalled'
      BY <1>5, PostType DEF Trigger
    <2> QED
      BY <2>1, <2>2, <2>3
  <1>6. CASE UNCHANGED vars
    BY <1>6 DEF vars
  <1> QED
    BY <1>1, <1>2, <1>3, <1>4, <1>5, <1>6 DEF AnnounceStop

\* The inductive invariant of the debug message exchange.
THEOREM Invariance == Spec => []IInv
  <1>1. IInv /\ [Next]_vars => IInv'
    BY DebugSteps, PeerSteps, SimulatorSteps DEF Next, EndThreads
  <1> QED
    BY <1>1, InitIInv, PTL DEF Spec

\* Type correctness of the debug message exchange.
THEOREM TypeCorrect == Spec => []TypeOK
  <1>1. IInv => TypeOK
    BY DEF IInv
  <1> QED
    BY <1>1, Invariance, PTL

\* Between check and send of both, a packet is pending at one end at most.
THEOREM OneEnd == Spec => []OneEndEmpty
  <1>1. IInv => OneEndEmpty
    BY DEF IInv
  <1> QED
    BY <1>1, Invariance, PTL

\* Debug::main and ModuleContainer::main or LocalRobot::main never spin on each
\* other's channel, whatever the number of containers.
THEOREM NeverBlocked == Spec => []NoMutualBlocking
  <1>1. IInv => NoMutualBlocking
    BY DEF IInv, TypeOK, OneEndEmpty, NoMutualBlocking, DebugWindow, PeerWindow,
           DebugBlockedOn, PeerBlocked, Peer, Console, Container
  <1> QED
    BY <1>1, Invariance, PTL

\* ThreadFrame::wait and the triggers of the senders: nobody sleeps while a packet
\* for him is pending, although he may have looked just before it was sent.
THEOREM NothingMissed == Spec => []NoMissedPacket
  <1>1. IInv => NoMissedPacket
    <2> SUFFICES ASSUME IInv PROVE NoMissedPacket
      OBVIOUS
    <2>1. ASSUME NEW p \in Peer, dpc = "wait", debugSignal = 0 PROVE ~fromPeer[p]
      <3>1. DebugPast(p) /\ ~(debugSignal > 0)
        BY <2>1 DEF DebugPast
      <3> QED
        BY <3>1, Zenon DEF IInv, PacketsSignalled
    <2>2. ASSUME NEW p \in Peer, ppc[p] = "wait", peerSignal[p] = 0 PROVE ~toPeer[p]
      <3>1. PeerPast(p) /\ ~(peerSignal[p] > 0)
        BY <2>2 DEF PeerPast
      <3> QED
        BY <3>1, Zenon DEF IInv, PacketsSignalled
    <2> QED
      BY <2>1, <2>2 DEF NoMissedPacket
  <1> QED
    BY <1>1, Invariance, PTL
=============================================================================
