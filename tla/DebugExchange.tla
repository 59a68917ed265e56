--------------------------- MODULE DebugExchange ----------------------------
(***************************************************************************)
(* The threads of the simulated robot exchanging debug messages: the Debug *)
(* thread in the middle, the module containers 1..N and the console        *)
(* (LocalRobot, peer 0) around it, and the simulator's main thread that    *)
(* calls LocalRobot::update.  Debug and the console always send blocking,  *)
(* the containers when a log file is replayed.  Everybody sends to a       *)
(* thread that may itself be blocked sending to him.                       *)
(*                                                                         *)
(* The channels are the one-place channels DebugChannel implements; a      *)
(* queue or a channel is reduced to whether it holds anything.             *)
(***************************************************************************)
EXTENDS Naturals

CONSTANTS
  N,              \* number of module containers
  LogReplay,      \* SystemCall::getMode() == SystemCall::logFileReplay
  SignalBound     \* bound: a semaphore's count saturates here

ASSUME DebugExchangeAssumption ==
  /\ N \in Nat \ {0}
  /\ LogReplay \in BOOLEAN
  /\ SignalBound \in Nat \ {0}

VARIABLES
  dpc,            \* Debug's control location
  dpos,           \* the receiver or sender Debug's loop is at
  debugOut,       \* per peer: is Debug's queue for it filled?
  toPeer,         \* per peer: is a packet from Debug pending?
  debugSignal,    \* count of Debug's semaphore
  ppc,            \* the peers' control locations
  peerOut,        \* per peer: is its queue for Debug filled?
  fromPeer,       \* per peer: is a packet for Debug pending?
  peerSignal,     \* counts of the peers' semaphores
  updateSignal, updatedSignal,  \* LocalRobot's two semaphores
  sim,            \* what the simulator's main thread does
  running         \* running[t]: Thread::running of Debug and of each peer

debugVars == <<dpc, dpos, debugOut>>
peerVars == <<ppc, peerOut>>
simVars == <<updateSignal, updatedSignal, sim, running>>
vars == <<debugVars, toPeer, debugSignal, peerVars, fromPeer, peerSignal, simVars>>

Console   == 0
Container == 1..N
Peer      == 0..N
Debug     == N + 1
Thread    == Peer \union {Debug}

Min(a, b) == IF a <= b THEN a ELSE b
Post(count) == Min(count + 1, SignalBound)

\* Debug::init has put the module configuration into the containers' queues.
Init ==
  /\ dpc = "top" /\ dpos = 1
  /\ debugOut = [p \in Peer |-> p \in Container]
  /\ toPeer = [p \in Peer |-> FALSE]
  /\ debugSignal = 0
  /\ ppc = [p \in Peer |-> "top"]
  /\ peerOut = [p \in Peer |-> FALSE]
  /\ fromPeer = [p \in Peer |-> FALSE]
  /\ peerSignal = [p \in Peer |-> 0]
  /\ updateSignal = 0 /\ updatedSignal = 1
  /\ sim = "updating" /\ running = [t \in Thread |-> TRUE]

\* RoboCupCtrl::stop sets DebugSenderBase::terminating first.
terminating == sim # "updating"

-----------------------------------------------------------------------------
(* The Debug thread: ThreadFrame::threadMain around Debug::main. *)

DebugWake ==
  /\ dpc = "wait" /\ debugSignal > 0
  /\ debugSignal' = debugSignal - 1
  /\ dpc' = "top"
  /\ UNCHANGED <<dpos, debugOut, toPeer, peerVars, fromPeer, peerSignal, simVars>>

DebugStops ==
  /\ dpc = "top" /\ ~running[Debug]
  /\ dpc' = "stopped"
  /\ UNCHANGED <<dpos, debugOut, toPeer, debugSignal, peerVars, fromPeer,
                 peerSignal, simVars>>

\* Mutant: Debug does not look for the console's packet.
DebugTopDeaf ==
  /\ dpc = "top" /\ running[Debug]
  /\ dpc' = "check" /\ dpos' = 1
  /\ UNCHANGED <<debugOut, toPeer, debugSignal, peerVars, fromPeer, peerSignal, simVars>>

\* What the console sent is distributed over the queues of all threads,
\* including the one back to the console.
DebugTop ==
  /\ dpc = "top" /\ running[Debug]
  /\ fromPeer' = [fromPeer EXCEPT ![Console] = FALSE]
  /\ \E targets \in SUBSET Peer :
       /\ targets # {} => fromPeer[Console]
       /\ debugOut' = [p \in Peer |-> debugOut[p] \/ p \in targets]
  /\ dpc' = "check" /\ dpos' = 1
  /\ UNCHANGED <<toPeer, debugSignal, peerVars, peerSignal, simVars>>

\* receiver.checkForPacket() for each container; what arrived is moved to the
\* queue for the console.
DebugCheck ==
  /\ dpc = "check"
  /\ fromPeer' = [fromPeer EXCEPT ![dpos] = FALSE]
  /\ debugOut' = [debugOut EXCEPT ![Console] = @ \/ fromPeer[dpos]]
  /\ IF dpos < N THEN dpos' = dpos + 1 /\ dpc' = dpc
                 ELSE dpos' = 1 /\ dpc' = "send"
  /\ UNCHANGED <<toPeer, debugSignal, peerVars, peerSignal, simVars>>

\* sender.send(true) for each container, then debugSender->send(true).
AfterSend ==
  CASE dpos = Console -> dpos' = 1 /\ dpc' = "wait"
    [] dpos = N       -> dpos' = Console /\ dpc' = dpc
    [] OTHER          -> dpos' = dpos + 1 /\ dpc' = dpc

DebugSend ==
  /\ dpc = "send" /\ debugOut[dpos] /\ ~toPeer[dpos]
  /\ toPeer' = [toPeer EXCEPT ![dpos] = TRUE]
  /\ debugOut' = [debugOut EXCEPT ![dpos] = FALSE]
  /\ peerSignal' = [peerSignal EXCEPT ![dpos] = Post(@)]
  /\ AfterSend
  /\ UNCHANGED <<debugSignal, peerVars, fromPeer, simVars>>

DebugSendNothing ==
  /\ dpc = "send"
  /\ ~debugOut[dpos] \/ (toPeer[dpos] /\ terminating)
  /\ AfterSend
  /\ UNCHANGED <<debugOut, toPeer, debugSignal, peerVars, fromPeer, peerSignal,
                 simVars>>

-----------------------------------------------------------------------------
(* The peers: threadMain around ModuleContainer::main and LocalRobot::main. *)

PeerWake(p) ==
  /\ ppc[p] = "wait" /\ peerSignal[p] > 0
  /\ peerSignal' = [peerSignal EXCEPT ![p] = @ - 1]
  /\ ppc' = [ppc EXCEPT ![p] = "top"]
  /\ UNCHANGED <<debugVars, toPeer, debugSignal, peerOut, fromPeer, simVars>>

PeerStops(p) ==
  /\ ppc[p] = "top" /\ ~running[p]
  /\ ppc' = [ppc EXCEPT ![p] = "stopped"]
  /\ UNCHANGED <<debugVars, toPeer, debugSignal, peerOut, fromPeer, peerSignal,
                 simVars>>

\* Mutant: a container that executes a frame looks for its packet another time.
FrameBeforePacket(c) ==
  /\ ppc[c] = "top" /\ running[c]
  /\ \/ /\ ppc' = [ppc EXCEPT ![c] = "send"]
        /\ \E output \in BOOLEAN : peerOut' = [peerOut EXCEPT ![c] = @ \/ output]
        /\ UNCHANGED toPeer
     \/ /\ ppc' = [ppc EXCEPT ![c] = "wait"]
        /\ toPeer' = [toPeer EXCEPT ![c] = FALSE]
        /\ UNCHANGED peerOut
  /\ UNCHANGED <<debugVars, debugSignal, fromPeer, peerSignal, simVars>>

\* The packet from Debug is taken. Then a container executes a frame, in which it
\* may or may not output anything, or has no frame to execute.
ContainerFrame(c) ==
  /\ ppc[c] = "top" /\ running[c]
  /\ toPeer' = [toPeer EXCEPT ![c] = FALSE]
  /\ \/ /\ ppc' = [ppc EXCEPT ![c] = "send"]
        /\ \E output \in BOOLEAN : peerOut' = [peerOut EXCEPT ![c] = @ \/ output]
     \/ ppc' = [ppc EXCEPT ![c] = "wait"] /\ UNCHANGED peerOut
  /\ UNCHANGED <<debugVars, debugSignal, fromPeer, peerSignal, simVars>>

ConsoleTop ==
  /\ ppc[Console] = "top" /\ running[Console]
  /\ toPeer' = [toPeer EXCEPT ![Console] = FALSE]
  /\ ppc' = [ppc EXCEPT ![Console] = "main"]
  /\ UNCHANGED <<debugVars, debugSignal, peerOut, fromPeer, peerSignal, simVars>>

\* LocalRobot::main sends only after the simulator has called update(), and it
\* holds the lock of the console while it does ("send").
ConsoleMain ==
  /\ ppc[Console] = "main"
  /\ IF updateSignal > 0
       THEN /\ updateSignal' = updateSignal - 1
            /\ ppc' = [ppc EXCEPT ![Console] = "send"]
            /\ \E output \in BOOLEAN :
                 peerOut' = [peerOut EXCEPT ![Console] = @ \/ output]
       ELSE /\ ppc' = [ppc EXCEPT ![Console] = "wait"]
            /\ UNCHANGED <<updateSignal, peerOut>>
  /\ UNCHANGED <<debugVars, toPeer, debugSignal, fromPeer, peerSignal,
                 updatedSignal, sim, running>>

Blocking(p) == p = Console \/ LogReplay

\* The end of a frame. A container with the next frame at hand does not wait.
AfterPeerSend(p) ==
  IF p = Console
    THEN /\ updatedSignal' = updatedSignal + 1
         /\ ppc' = [ppc EXCEPT ![p] = "wait"]
    ELSE /\ UNCHANGED updatedSignal
         /\ \E next \in {"wait", "top"} : ppc' = [ppc EXCEPT ![p] = next]

\* Mutant: the packet is sent without triggering Debug.
PeerSendSilently(p) ==
  /\ ppc[p] = "send" /\ peerOut[p] /\ ~fromPeer[p]
  /\ fromPeer' = [fromPeer EXCEPT ![p] = TRUE]
  /\ peerOut' = [peerOut EXCEPT ![p] = FALSE]
  /\ AfterPeerSend(p)
  /\ UNCHANGED <<debugVars, toPeer, debugSignal, peerSignal, updateSignal, sim, running>>

PeerSend(p) ==
  /\ ppc[p] = "send" /\ peerOut[p] /\ ~fromPeer[p]
  /\ fromPeer' = [fromPeer EXCEPT ![p] = TRUE]
  /\ peerOut' = [peerOut EXCEPT ![p] = FALSE]
  /\ debugSignal' = Post(debugSignal)
  /\ AfterPeerSend(p)
  /\ UNCHANGED <<debugVars, toPeer, peerSignal, updateSignal, sim, running>>

PeerSendNothing(p) ==
  /\ ppc[p] = "send"
  /\ \/ ~peerOut[p]
     \/ fromPeer[p] /\ (~Blocking(p) \/ terminating)
  /\ AfterPeerSend(p)
  /\ UNCHANGED <<debugVars, toPeer, debugSignal, peerOut, fromPeer, peerSignal,
                 updateSignal, sim, running>>

-----------------------------------------------------------------------------
(* The simulator's main thread. *)

\* Mutant: update() does not trigger the console's thread.
UpdateSilently ==
  /\ sim = "updating" /\ updatedSignal > 0
  /\ updatedSignal' = updatedSignal - 1
  /\ updateSignal' = updateSignal + 1
  /\ \E output \in BOOLEAN :
       peerOut' = [peerOut EXCEPT ![Console] = @ \/ output]
  /\ UNCHANGED <<debugVars, toPeer, debugSignal, ppc, fromPeer, peerSignal, sim, running>>

\* LocalRobot::update past the wait for updatedSignal: commands and log frames
\* go to the console's queue.
Update ==
  /\ sim = "updating" /\ updatedSignal > 0
  /\ updatedSignal' = updatedSignal - 1
  /\ updateSignal' = updateSignal + 1
  /\ peerSignal' = [peerSignal EXCEPT ![Console] = Post(@)]
  /\ \E output \in BOOLEAN :
       peerOut' = [peerOut EXCEPT ![Console] = @ \/ output]
  /\ UNCHANGED <<debugVars, toPeer, debugSignal, ppc, fromPeer, sim, running>>

\* A command typed or clicked between two calls of update(): handleConsole and
\* its kind add to the console's queue under the lock LocalRobot::main holds
\* while it is sending.
Command ==
  /\ sim = "updating" /\ ppc[Console] # "send"
  /\ peerOut' = [peerOut EXCEPT ![Console] = TRUE]
  /\ UNCHANGED <<debugVars, toPeer, debugSignal, ppc, fromPeer, peerSignal, simVars>>

\* RoboCupCtrl::stop: terminating is set, while all threads still run.
Stop ==
  /\ sim = "updating" /\ sim' = "stopping"
  /\ UNCHANGED <<debugVars, toPeer, debugSignal, peerVars, fromPeer, peerSignal,
                 updateSignal, updatedSignal, running>>

\* The threads before t in Robot's list: Debug is the first one, the console the
\* second one, the containers follow.
Before(t) == IF t = Debug THEN {} ELSE {Debug} \union 0..(t - 1)

NotTold(t) ==
  running[t] /\ \A s \in Before(t) : ~running[s]
LastTold(t) ==
  {s \in Thread : ~running[s]} = Before(t) \union {t}

Tell(t) ==
  /\ running' = [running EXCEPT ![t] = FALSE]
  /\ UNCHANGED <<debugVars, toPeer, debugSignal, peerVars, fromPeer, peerSignal,
                 updateSignal, updatedSignal>>

Trigger(t) ==
  /\ debugSignal' = IF t = Debug THEN Post(debugSignal) ELSE debugSignal
  /\ peerSignal' = [p \in Peer |-> IF p = t THEN Post(peerSignal[p]) ELSE peerSignal[p]]
  /\ UNCHANGED <<debugVars, toPeer, peerVars, fromPeer, updateSignal, updatedSignal, running>>

\* Mutant: the thread is woken before it is told.
AnnounceStopLate(t) ==
  \/ sim = "stopping" /\ sim' = "triggering" /\ NotTold(t) /\ Trigger(t)
  \/ sim = "triggering" /\ sim' = "stopping" /\ NotTold(t) /\ Tell(t)

\* ThreadList::announceStop tells the threads one after another to stop, and wakes
\* each before it turns to the next one.  Those it has not told yet go on exchanging
\* packets, even with threads that have ended.
AnnounceStop(t) ==
  \/ sim = "stopping" /\ sim' = "triggering" /\ NotTold(t) /\ Tell(t)
  \/ sim = "triggering" /\ sim' = "stopping" /\ LastTold(t) /\ Trigger(t)

EndThreads == \E t \in Thread : AnnounceStop(t)

Stopped == dpc = "stopped" /\ \A p \in Peer : ppc[p] = "stopped"
Finish == Stopped /\ UNCHANGED vars

DebugNext ==
  DebugWake \/ DebugStops \/ DebugTop \/ DebugCheck \/ DebugSend \/ DebugSendNothing
PeerNext(p) ==
  \/ PeerWake(p) \/ PeerStops(p) \/ PeerSend(p) \/ PeerSendNothing(p)
  \/ p \in Container /\ ContainerFrame(p)
  \/ p = Console /\ (ConsoleTop \/ ConsoleMain)
Next ==
  \/ DebugNext \/ \E p \in Peer : PeerNext(p)
  \/ Update \/ Command \/ Stop \/ EndThreads
  \/ Finish

Spec == Init /\ [][Next]_vars
\* Every thread is scheduled; when the simulator updates or stops is up to it.
FairSpec ==
  /\ Spec
  /\ WF_vars(DebugNext) /\ \A p \in Peer : WF_vars(PeerNext(p))
  /\ WF_vars(Update) /\ WF_vars(EndThreads)

-----------------------------------------------------------------------------
TypeOK ==
  /\ dpc \in {"wait", "top", "check", "send", "stopped"} /\ dpos \in Peer
  /\ dpc = "check" => dpos \in Container
  /\ debugOut \in [Peer -> BOOLEAN] /\ toPeer \in [Peer -> BOOLEAN]
  /\ debugSignal \in Nat
  /\ ppc \in [Peer -> {"wait", "top", "main", "send", "stopped"}]
  /\ peerOut \in [Peer -> BOOLEAN] /\ fromPeer \in [Peer -> BOOLEAN]
  /\ peerSignal \in [Peer -> Nat]
  /\ updateSignal \in Nat /\ updatedSignal \in Nat
  /\ sim \in {"updating", "stopping", "triggering"} /\ running \in [Thread -> BOOLEAN]

DebugBlockedOn(p) ==
  dpc = "send" /\ dpos = p /\ debugOut[p] /\ toPeer[p] /\ ~terminating
PeerBlocked(p) ==
  ppc[p] = "send" /\ Blocking(p) /\ peerOut[p] /\ fromPeer[p] /\ ~terminating

\* Debug has looked for p's packet and not yet sent its own in this frame; p has
\* looked for Debug's packet and not yet sent its own.
DebugWindow(p) ==
  \/ p = Console /\ dpc \in {"check", "send"}
  \/ /\ p \in Container
     /\ \/ dpc = "check" /\ p < dpos
        \/ dpc = "send" /\ dpos \in 1..p
PeerWindow(p) == ppc[p] \in {"main", "send"}

\* Why there is no circular wait: when both are past their checks, a packet can
\* be pending at one end only, since whoever sends has left his window, and
\* entering a window empties one's own end.
OneEndEmpty ==
  \A p \in Peer : DebugWindow(p) /\ PeerWindow(p) => ~(toPeer[p] /\ fromPeer[p])

\* Debug does not look for p's packet again before it waits, nor does p for Debug's.
DebugPast(p) ==
  \/ dpc \in {"send", "wait"}
  \/ dpc = "check" /\ (p = Console \/ p < dpos)
PeerPast(p) == ppc[p] \in {"main", "send", "wait"}

\* Why no packet is missed: the count that stands for it is not taken before the
\* frame that looks for it.
PacketsSignalled ==
  \A p \in Peer : /\ fromPeer[p] /\ DebugPast(p) => debugSignal > 0
                  /\ toPeer[p] /\ PeerPast(p) => peerSignal[p] > 0

IInv == TypeOK /\ OneEndEmpty /\ PacketsSignalled

\* Debug and a peer never wait for each other, although both send blocking into
\* one-place channels: each of them empties its own end at the start of the
\* frame and fills the other one's only once per frame.
NoMutualBlocking == \A p \in Peer : ~(DebugBlockedOn(p) /\ PeerBlocked(p))

\* No thread sleeps while a packet for it is pending.
NoMissedPacket ==
  /\ dpc = "wait" /\ debugSignal = 0 => \A p \in Peer : ~fromPeer[p]
  /\ \A p \in Peer : ppc[p] = "wait" /\ peerSignal[p] = 0 => ~toPeer[p]

\* The simulator's call of update() always returns: LocalRobot::main gets round
\* to its post, although on its way there it sends blocking to Debug, which may
\* be blocked on a container that is blocked on Debug.
UpdateReturns ==
  (updatedSignal = 0 /\ ~terminating) ~> (updatedSignal > 0 \/ terminating)

\* No thread stays in a blocking send for ever, so that the user's command, which
\* needs the lock the console's thread holds while it is blocked, gets through.
BlockedSendsEnd == []<>(dpc # "send") /\ \A p \in Peer : []<>(ppc[p] # "send")

\* RoboCupCtrl::stop: all threads end, whatever they are blocked on or wait for when
\* it is their turn to be told, and whoever has ended before them.
ShutdownCompletes == terminating ~> Stopped
=============================================================================
