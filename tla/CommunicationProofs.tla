----------------------- MODULE CommunicationProofs ------------------------
(***************************************************************************)
(* Proofs about the two kinds of senders through the triple buffer:        *)
(* DebugChannel, for every number of messages, every queue capacity and    *)
(* both kinds of sending, and LatestValue, for every number of packets.    *)
(* The two are proved apart; they share the steps of TripleBuffer.         *)
(***************************************************************************)
EXTENDS DebugChannel, LatestValue, SequenceTheorems, TLAPS

\* A sequence over 1..m is one over 1..n for every n >= m.
LEMMA SeqOfFewer ==
  ASSUME NEW m \in Nat, NEW n \in Nat, m <= n, NEW s \in Seq(1..m)
  PROVE  s \in Seq(1..n)
  OBVIOUS

\* The slot setPacket chooses exists: three slots, two of them taken.
LEMMA FreeSlot ==
  ASSUME NEW a \in Slot, NEW r \in Slot
  PROVE  LET w == CHOOSE w \in Slot : /\ w \notin {a, r}
                                      /\ \A v \in Slot : v \notin {a, r} => w <= v
         IN  w \in Slot /\ w # a /\ w # r
<1> DEFINE P(w) == w \notin {a, r} /\ \A v \in Slot : v \notin {a, r} => w <= v
<1>1. \E w \in Slot : P(w)
  <2>1. CASE 0 \notin {a, r}
    <3>1. P(0) BY <2>1 DEF Slot
    <3> QED BY <3>1 DEF Slot
  <2>2. CASE 0 \in {a, r} /\ 1 \notin {a, r}
    <3>1. P(1) BY <2>2 DEF Slot
    <3> QED BY <3>1 DEF Slot
  <2>3. CASE 0 \in {a, r} /\ 1 \in {a, r}
    <3>1. P(2) BY <2>3 DEF Slot
    <3> QED BY <3>1 DEF Slot
  <2> QED BY <2>1, <2>2, <2>3
<1> QED BY <1>1

-----------------------------------------------------------------------------
\* The buffer and the queues as the constructors leave them satisfy the invariant.
LEMMA InitIInv == Init => IInv
<1> SUFFICES ASSUME Init PROVE IInv
  OBVIOUS
<1> USE DEF Init, BufferInit, Slot, None
<1>1. live = {} BY DEF live
<1>2. TypeOK
  <2>1. BufferTypeOK
    BY <1>1 DEF BufferTypeOK, SenderLocation, ReceiverLocation
  <2>2. written \in 0..MaxMessages
    BY DebugChannelAssumption
  <2>3. outQueue \in Seq(1..written) /\ delivered \in Seq(1..written)
    OBVIOUS
  <2>4. QED
    BY <2>1, <2>2, <2>3 DEF TypeOK
<1>3. QED
  BY <1>1, <1>2 DEF IInv, OnlyActualFilled, ReceiverReadsActual, SlotsDisjoint,
     HeapMatches, Sending

-----------------------------------------------------------------------------
(* One lemma per step of the two threads. *)

\* A packet still on the heap was produced by an earlier obtain, so obtain's next
\* pointer is a new one.
LEMMA LivePointers == IInv => \A p \in live : p \in 1..sent /\ p # None /\ p # sent + 1
<1> SUFFICES ASSUME IInv, NEW p \in live
             PROVE  p \in 1..sent /\ p # None /\ p # sent + 1
  OBVIOUS
<1>1. sent \in Nat /\ live \subseteq 1..sent
  BY DEF IInv, TypeOK, BufferTypeOK
<1>2. QED
  BY <1>1 DEF None

\* DebugSender::send allocates a packet only when the slots hold none it could
\* overwrite.
LEMMA ObtainStep == IInv /\ Send => IInv'
<1> SUFFICES ASSUME IInv, Send PROVE IInv'
  OBVIOUS
<1> USE DEF IInv, TypeOK, BufferTypeOK, Slot, None, Send, Obtain, queueVars,
            hasPendingPacket, Sending, live
<1>1. sent + 1 \notin live /\ None \notin live /\ sent + 1 \in Nat \ {0}
  BY LivePointers
<1>2. /\ outgoing' = sent + 1 /\ live' = live \cup {sent + 1}
      /\ heap'[sent + 1] = outQueue /\ \A p \in live : heap'[p] = heap[p]
  BY <1>1
<1>3. live = {}
  BY <1>1 DEF HeapMatches
<1>4. TypeOK'
  BY <1>1, <1>2 DEF SenderLocation
<1>5. OnlyActualFilled' /\ ReceiverReadsActual' /\ SlotsDisjoint'
  BY DEF OnlyActualFilled, ReceiverReadsActual, SlotsDisjoint
<1>6. HeapMatches'
  BY <1>1, <1>2, <1>3 DEF HeapMatches
<1>7. QED
  BY <1>4, <1>5, <1>6

\* setPacket keeps the slots of the two threads disjoint.
LEMMA SetPacketStep == IInv /\ setPacketStep /\ UNCHANGED queueVars => IInv'
<1> SUFFICES ASSUME IInv, setPacketStep, UNCHANGED queueVars PROVE IInv'
  OBVIOUS
<1> USE DEF IInv, TypeOK, BufferTypeOK, SenderLocation, Slot, None, queueVars,
            Sending, live
<1>1. CASE ChooseSlot
  <2>1. writing' \in Slot /\ writing' # actual /\ writing' # reading
    BY <1>1, FreeSlot DEF ChooseSlot
  <2>2. TypeOK'
    BY <1>1, <2>1 DEF ChooseSlot
  <2>3. OnlyActualFilled' /\ ReceiverReadsActual' /\ HeapMatches'
    BY <1>1 DEF ChooseSlot, OnlyActualFilled, ReceiverReadsActual, HeapMatches
  <2>4. SlotsDisjoint'
    BY <1>1, <2>1 DEF ChooseSlot, OnlyActualFilled, ReceiverReadsActual, SlotsDisjoint
  <2>5. QED
    BY <2>2, <2>3, <2>4
<1>2. CASE FreeOld
  <2>1. packet[writing] = None /\ None \notin live
    BY <1>2 DEF FreeOld, OnlyActualFilled, SlotsDisjoint
  <2>2. live' = live /\ \A p \in live : heap'[p] = heap[p]
    BY <1>2, <2>1 DEF FreeOld, Freed, Restrict
  <2>3. TypeOK'
    BY <1>2, <2>2 DEF FreeOld
  <2>4. OnlyActualFilled' /\ ReceiverReadsActual' /\ SlotsDisjoint' /\ HeapMatches'
    BY <1>2, <2>2 DEF FreeOld, OnlyActualFilled, ReceiverReadsActual, SlotsDisjoint,
                      HeapMatches
  <2>5. QED
    BY <2>3, <2>4
<1>3. CASE StorePacket
  <2>1. TypeOK'
    BY <1>3 DEF StorePacket
  <2>2. OnlyActualFilled' /\ ReceiverReadsActual' /\ SlotsDisjoint' /\ HeapMatches'
    BY <1>3 DEF StorePacket, OnlyActualFilled, ReceiverReadsActual, SlotsDisjoint,
                HeapMatches
  <2>3. QED
    BY <2>1, <2>2
<1>4. CASE Publish
  <2>1. outgoing # None /\ packet[writing] = outgoing /\ outgoing \in live
    BY <1>4 DEF Publish, OnlyActualFilled, HeapMatches
  <2>2. TypeOK'
    BY <1>4 DEF Publish
  <2>3. OnlyActualFilled' /\ ReceiverReadsActual' /\ SlotsDisjoint' /\ HeapMatches'
    BY <1>4, <2>1 DEF Publish, OnlyActualFilled, ReceiverReadsActual, SlotsDisjoint,
                HeapMatches
  <2>4. QED
    BY <2>2, <2>3
<1>5. QED
  BY <1>1, <1>2, <1>3, <1>4 DEF setPacketStep

\* checkForPacket: the slot it reserves keeps its packet until the packet was
\* read, freed and cleared, in that order.
LEMMA ReceiverSteps == IInv /\ ReceiverStep /\ UNCHANGED queueVars => IInv'
<1> SUFFICES ASSUME IInv, ReceiverStep, UNCHANGED queueVars PROVE IInv'
  OBVIOUS
<1> USE DEF IInv, TypeOK, BufferTypeOK, ReceiverLocation, Slot, None, queueVars,
            Sending, live
<1>1. CASE Wake
  <2>1. TypeOK'
    BY <1>1 DEF Wake
  <2>2. QED
    BY <1>1, <2>1 DEF Wake, OnlyActualFilled, ReceiverReadsActual, SlotsDisjoint,
                HeapMatches
<1>2. CASE LoadActual
  <2>1. TypeOK'
    BY <1>2 DEF LoadActual
  <2>2. QED
    BY <1>2, <2>1 DEF LoadActual, OnlyActualFilled, ReceiverReadsActual,
                SlotsDisjoint, HeapMatches
<1>3. CASE StoreReading
  <2>1. TypeOK'
    BY <1>3 DEF StoreReading
  <2>2. QED
    BY <1>3, <2>1 DEF StoreReading, OnlyActualFilled, ReceiverReadsActual,
                SlotsDisjoint, HeapMatches
<1>4. CASE TestPacket
  <2>1. TypeOK'
    BY <1>4 DEF TestPacket
  <2>2. packet[reading] # None => reading = actual
    BY DEF OnlyActualFilled, SlotsDisjoint
  <2>3. QED
    BY <1>4, <2>1, <2>2 DEF TestPacket, OnlyActualFilled, ReceiverReadsActual,
                SlotsDisjoint, HeapMatches
<1>5. CASE FreePacket
  <2>1. live' = live \ {packet[actual]} /\ \A p \in live' : heap'[p] = heap[p]
    BY <1>5 DEF FreePacket, Freed, Restrict, ReceiverReadsActual
  <2>2. outgoing = None /\ None \notin live
    BY <1>5 DEF FreePacket, ReceiverReadsActual, OnlyActualFilled, HeapMatches
  <2>3. TypeOK'
    BY <1>5, <2>1 DEF FreePacket
  <2>4. OnlyActualFilled' /\ ReceiverReadsActual' /\ SlotsDisjoint'
    BY <1>5 DEF FreePacket, OnlyActualFilled, ReceiverReadsActual, SlotsDisjoint
  <2>5. HeapMatches'
    BY <1>5, <2>1, <2>2 DEF FreePacket, HeapMatches, OnlyActualFilled, ReceiverReadsActual
  <2>6. QED
    BY <2>3, <2>4, <2>5
<1>6. CASE ClearPacket
  <2>1. TypeOK'
    BY <1>6 DEF ClearPacket
  <2>2. OnlyActualFilled' /\ ReceiverReadsActual' /\ SlotsDisjoint'
    BY <1>6 DEF ClearPacket, OnlyActualFilled, ReceiverReadsActual, SlotsDisjoint
  <2>3. live = {}
    <3>1. outgoing = None /\ packet[actual] \notin live
      BY <1>6 DEF ClearPacket, HeapMatches, ReceiverReadsActual, OnlyActualFilled
    <3>2. QED
      BY <3>1, LivePointers DEF HeapMatches
  <2>4. packet'[actual] = None /\ outgoing' = outgoing /\ ~Sending
    BY <1>6 DEF ClearPacket, ReceiverReadsActual, OnlyActualFilled
  <2>5. HeapMatches'
    BY <1>6, <2>3, <2>4 DEF ClearPacket, HeapMatches
  <2>6. QED
    BY <2>1, <2>2, <2>5
<1>7. QED
  BY <1>1, <1>2, <1>3, <1>4, <1>5, <1>6 DEF ReceiverStep

\* The receiver deserializes a packet that is still on the heap.
LEMMA ReceiveStep == IInv /\ Receive => IInv'
<1> SUFFICES ASSUME IInv, Receive PROVE IInv'
  OBVIOUS
<1> USE DEF IInv, TypeOK, BufferTypeOK, ReceiverLocation, Slot, None, Receive,
            Deserialize, Sending, live
<1>1. pointer \in live /\ heap[pointer] \in Seq(1..written)
  BY DEF ReceiverReadsActual, HeapMatches
<1>2. delivered' = delivered \o heap[pointer]
  BY <1>1
<1>3. delivered' \in Seq(1..written)
  BY <1>1, <1>2
<1>4. TypeOK'
  BY <1>3
<1>5. QED
  BY <1>4 DEF OnlyActualFilled, ReceiverReadsActual, SlotsDisjoint, HeapMatches

\* Writing into the sender's queue does not disturb the buffer.
LEMMA WriteStep == IInv /\ Write => IInv'
<1> SUFFICES ASSUME IInv, Write PROVE IInv'
  OBVIOUS
<1>1. /\ written \in Nat /\ written' = written + 1 /\ written' \in 0..MaxMessages
      /\ outQueue \in Seq(1..written) /\ delivered \in Seq(1..written)
      /\ outQueue' \in {outQueue, Append(outQueue, written')}
      /\ UNCHANGED <<bufferVars, delivered, terminating>> /\ spc = "idle"
  BY DebugChannelAssumption DEF Write, IInv, TypeOK
<1>2. \A s \in Seq(1..written) : s \in Seq(1..written')
  BY <1>1, SeqOfFewer
<1>3. Append(outQueue, written') \in Seq(1..written')
  BY <1>1, <1>2
<1>4. TypeOK'
  BY <1>1, <1>2, <1>3 DEF IInv, TypeOK, BufferTypeOK, bufferVars, live
<1>5. OnlyActualFilled' /\ ReceiverReadsActual' /\ SlotsDisjoint'
  BY <1>1 DEF IInv, OnlyActualFilled, ReceiverReadsActual, SlotsDisjoint, bufferVars,
     Sending, None
<1>6. HeapMatches'
  BY <1>1, <1>2 DEF IInv, HeapMatches, bufferVars, Sending, live
<1>7. QED
  BY <1>4, <1>5, <1>6 DEF IInv

\* The steps that touch neither the heap nor the slots: spinning, signalling,
\* shutting down.
LEMMA OtherSteps ==
  IInv /\ (Spin \/ GiveUp \/ TriggerAndClear \/ Terminate \/ ReceiverStops
           \/ (WakeOtherwise /\ UNCHANGED queueVars) \/ UNCHANGED vars) => IInv'
<1> USE DEF IInv, TypeOK, BufferTypeOK, SenderLocation, ReceiverLocation, Slot,
            None, queueVars, bufferVars, Sending, live
<1>1. IInv /\ Spin => IInv'
  BY DEF Spin, OnlyActualFilled, ReceiverReadsActual, SlotsDisjoint, HeapMatches
<1>2. IInv /\ GiveUp => IInv'
  BY DEF GiveUp, OnlyActualFilled, ReceiverReadsActual, SlotsDisjoint, HeapMatches
<1>3. IInv /\ TriggerAndClear => IInv'
  <2> SUFFICES ASSUME IInv, TriggerAndClear PROVE IInv'
    OBVIOUS
  <2>1. TypeOK'
    BY DEF TriggerAndClear, Trigger
  <2>2. QED
    BY <2>1 DEF TriggerAndClear, Trigger, OnlyActualFilled, ReceiverReadsActual,
              SlotsDisjoint, HeapMatches
<1>4. IInv /\ Terminate => IInv'
  BY DEF Terminate, OnlyActualFilled, ReceiverReadsActual, SlotsDisjoint, HeapMatches
<1>5. IInv /\ ReceiverStops => IInv'
  BY DEF ReceiverStops, OnlyActualFilled, ReceiverReadsActual, SlotsDisjoint, HeapMatches
<1>6. IInv /\ WakeOtherwise /\ UNCHANGED queueVars => IInv'
  BY DEF WakeOtherwise, OnlyActualFilled, ReceiverReadsActual, SlotsDisjoint, HeapMatches
<1>7. IInv /\ UNCHANGED vars => IInv'
  BY DEF vars, OnlyActualFilled, ReceiverReadsActual, SlotsDisjoint, HeapMatches
<1>8. QED
  BY <1>1, <1>2, <1>3, <1>4, <1>5, <1>6, <1>7

-----------------------------------------------------------------------------
\* The inductive invariant holds in every reachable state: at most one packet is
\* under way, and the threads keep to disjoint slots (DebugSender::send's test
\* of requestedNew is what setPacket and checkForPacket rely on).
THEOREM Invariance == Spec => []IInv
<1>1. IInv /\ [Next]_vars => IInv'
  BY ObtainStep, SetPacketStep, ReceiverSteps, ReceiveStep, WriteStep, OtherSteps
     DEF Next, SenderNext, ReceiverNext
<1>2. QED
  BY InitIInv, <1>1, PTL DEF Spec

\* Every variable keeps to its type.
THEOREM TypeCorrect == Spec => []TypeOK
<1>1. IInv => TypeOK
  BY DEF IInv
<1>2. QED
  BY <1>1, Invariance, PTL

\* ASSERT(writing != reading) never fails for a DebugSender, and stays true until
\* the slot is overwritten.
THEOREM NeverReserved == Spec => []SlotNotReserved
<1>1. IInv => SlotNotReserved
  BY DEF IInv, SlotsDisjoint, SlotNotReserved
<1>2. QED
  BY <1>1, Invariance, PTL

\* No packet is read or freed after it was freed.
THEOREM Safety == Spec => []MemorySafe
<1>1. IInv => MemorySafe
  BY DEF IInv, TypeOK, BufferTypeOK, OnlyActualFilled, ReceiverReadsActual,
         SlotsDisjoint, HeapMatches, MemorySafe, Sending
<1>2. QED
  BY <1>1, Invariance, PTL

\* No packet is overwritten without having been freed.
THEOREM LeakFree == Spec => []NoLeak
<1>1. IInv => NoLeak
  <2> SUFFICES ASSUME IInv PROVE NoLeak
    OBVIOUS
  <2>1. actual \in Slot
    BY DEF IInv, TypeOK, BufferTypeOK
  <2>2. ASSUME NEW p \in live
        PROVE  (p = outgoing /\ spc # "idle") \/ \E i \in Slot : packet[i] = p
    BY <2>1, LivePointers DEF IInv, HeapMatches, Sending
  <2>3. ASSUME NEW i \in Slot, NEW j \in Slot, i # j, packet[i] # None
        PROVE  packet[i] # packet[j]
    BY <2>3 DEF IInv, OnlyActualFilled, Sending
  <2>4. QED
    BY <2>2, <2>3 DEF NoLeak
<1>2. QED
  BY <1>1, Invariance, PTL

\* Both together: every packet a DebugSender sends is freed exactly once and never
\* used afterwards.
THEOREM HeapIsSound == Spec => []HeapSound
<1>1. MemorySafe /\ NoLeak => HeapSound
  BY DEF HeapSound
<1>2. QED
  BY <1>1, Safety, LeakFree, PTL

-----------------------------------------------------------------------------
(* The lock-free exchange implements the one-place channel. *)

\* Before the first send the channel is empty on both sides.
LEMMA InitMaps == Init => Channel!Init
  BY DEF Init, BufferInit, Channel!Init, Carried, Slot, None

\* The sender's step that publishes `actual` is the channel's Send; its others
\* stutter.
LEMMA SenderMaps ==
  ASSUME IInv, Send \/ Spin \/ GiveUp \/ TriggerAndClear
                \/ (setPacketStep /\ UNCHANGED queueVars)
  PROVE  Channel!Next \/ UNCHANGED Channel!vars
<1> USE DEF IInv, TypeOK, BufferTypeOK, Slot, None, queueVars, Sending, live,
            Carried, Channel!vars
<1>1. CASE Send
  <2>1. packet'[actual'] = None /\ packet[actual] = None /\ spc' = "choose"
    BY <1>1 DEF Send, Obtain, hasPendingPacket
  <2>2. QED
    BY <1>1, <2>1 DEF Send, Obtain
<1>2. CASE Spin
  BY <1>2 DEF Spin
<1>3. CASE GiveUp
  BY <1>3 DEF GiveUp
<1>4. CASE TriggerAndClear
  BY <1>4 DEF TriggerAndClear, Trigger
<1>5. CASE ChooseSlot /\ UNCHANGED queueVars
  BY <1>5 DEF ChooseSlot
<1>6. CASE FreeOld /\ UNCHANGED queueVars
  BY <1>6 DEF FreeOld, OnlyActualFilled
<1>7. CASE StorePacket /\ UNCHANGED queueVars
  BY <1>7 DEF StorePacket, OnlyActualFilled, SlotsDisjoint
<1>8. CASE Publish /\ UNCHANGED queueVars
  <2>1. /\ packet[actual] = None /\ packet[writing] = outgoing /\ outgoing # None
        /\ heap[outgoing] = outQueue /\ outQueue # <<>>
        /\ rpc \notin {"free", "clear"}
    BY <1>8 DEF Publish, OnlyActualFilled, HeapMatches, ReceiverReadsActual
  <2>2. Channel!Transmit
    BY <1>8, <2>1 DEF Publish, Channel!Transmit
  <2>3. QED
    BY <2>2 DEF Channel!Next
<1>9. QED
  BY <1>1, <1>2, <1>3, <1>4, <1>5, <1>6, <1>7, <1>8 DEF setPacketStep

\* The receiver's step that takes `actual` is the channel's Receive; its others
\* stutter.
LEMMA ReceiverMaps ==
  ASSUME IInv, Receive \/ (ReceiverStep /\ UNCHANGED queueVars)
                \/ (WakeOtherwise /\ UNCHANGED queueVars) \/ ReceiverStops
  PROVE  Channel!Next \/ UNCHANGED Channel!vars
<1> USE DEF IInv, TypeOK, BufferTypeOK, Slot, None, queueVars, Sending, live,
            Carried, Channel!vars
<1>1. CASE Receive
  <2>1. /\ pointer = packet[actual] /\ packet[actual] # None /\ pointer \in live
        /\ heap[pointer] # <<>>
    BY <1>1 DEF Receive, Deserialize, ReceiverReadsActual, HeapMatches
  <2>2. Channel!Deliver
    BY <1>1, <2>1 DEF Receive, Deserialize, Channel!Deliver
  <2>3. QED
    BY <2>2 DEF Channel!Next
<1>2. CASE Wake /\ UNCHANGED queueVars
  BY <1>2 DEF Wake
<1>3. CASE LoadActual /\ UNCHANGED queueVars
  BY <1>3 DEF LoadActual
<1>4. CASE StoreReading /\ UNCHANGED queueVars
  BY <1>4 DEF StoreReading
<1>5. CASE TestPacket /\ UNCHANGED queueVars
  BY <1>5 DEF TestPacket
<1>6. CASE FreePacket /\ UNCHANGED queueVars
  BY <1>6 DEF FreePacket
<1>7. CASE ClearPacket /\ UNCHANGED queueVars
  BY <1>7 DEF ClearPacket, ReceiverReadsActual
<1>8. CASE WakeOtherwise /\ UNCHANGED queueVars
  BY <1>8 DEF WakeOtherwise
<1>9. CASE ReceiverStops
  BY <1>9 DEF ReceiverStops
<1>10. QED
  BY <1>1, <1>2, <1>3, <1>4, <1>5, <1>6, <1>7, <1>8, <1>9 DEF ReceiverStep

\* Writing a message, and the steps that touch neither buffer nor queue.
LEMMA OtherMaps ==
  ASSUME IInv, Write \/ Terminate \/ UNCHANGED vars
  PROVE  Channel!Next \/ UNCHANGED Channel!vars
<1> USE DEF IInv, bufferVars, Carried, live, Channel!vars
<1>1. CASE Write
  <2>1. Channel!Write
    BY <1>1 DEF Write, Channel!Write
  <2>2. QED
    BY <2>1 DEF Channel!Next
<1>2. CASE Terminate
  BY <1>2 DEF Terminate
<1>3. CASE UNCHANGED vars
  BY <1>3 DEF vars, queueVars
<1>4. QED
  BY <1>1, <1>2, <1>3

\* DebugSender and DebugReceiver together are a channel that loses, duplicates
\* and reorders nothing it accepted.
THEOREM Implementation == Spec => ImplementsChannel
<1>1. IInv /\ [Next]_vars => [Channel!Next]_Channel!vars
  BY SenderMaps, ReceiverMaps, OtherMaps DEF Next, SenderNext, ReceiverNext
<1>2. QED
  BY InitMaps, <1>1, Invariance, PTL DEF Spec, Channel!Spec, ImplementsChannel

-----------------------------------------------------------------------------
(* The one-place channel keeps the messages in order and duplicates none, whatever is
   written, refused, sent and received. *)

\* The channel's queue and all that is between the receiver and the end of that queue.
Queued == IF spc = "trigger" THEN <<>> ELSE outQueue
Stream == delivered \o Carried \o Queued

StreamTypeOK ==
  /\ written \in Nat
  /\ Queued \in Seq(1..written) /\ Carried \in Seq(1..written)
  /\ delivered \in Seq(1..written)

Ascending == \A i, j \in DOMAIN Stream : i < j => Stream[i] < Stream[j]

\* These are the channel's own notions.
LEMMA ChannelStream ==
  /\ Channel!IInv <=> StreamTypeOK /\ Ascending
  /\ Channel!IInv' <=> StreamTypeOK' /\ Ascending'
  BY DEF Channel!IInv, Channel!TypeOK, Channel!InOrder, Channel!Stream, StreamTypeOK, Ascending,
     Stream, Queued

\* A channel that was just created holds nothing.
LEMMA ChannelInit == Channel!Init => Channel!IInv
<1> SUFFICES ASSUME Channel!Init PROVE StreamTypeOK /\ Ascending
  BY ChannelStream
<1>1. written = 0 /\ Queued = <<>> /\ Carried = <<>> /\ delivered = <<>>
  BY DEF Channel!Init, Queued
<1> QED
  BY <1>1 DEF StreamTypeOK, Ascending, Stream

\* An accepted message is appended to the stream, a refused one is not.
LEMMA ChannelWrite == Channel!IInv /\ Channel!Write => Channel!IInv'
<1> SUFFICES ASSUME StreamTypeOK, Ascending, Channel!Write PROVE StreamTypeOK' /\ Ascending'
  BY ChannelStream
<1> DEFINE N == 1..written
           NN == 1..written'
           front == delivered \o Carried
<1>0. /\ written' = written + 1
      /\ Queued' = Queued \/ Queued' = Append(Queued, written')
      /\ UNCHANGED <<Carried, delivered>>
  BY DEF Channel!Write, Queued
<1>1. /\ written \in Nat /\ written' = written + 1
      /\ Queued \in Seq(N) /\ front \in Seq(N)
      /\ UNCHANGED <<Carried, delivered>>
  BY <1>0, ConcatProperties DEF StreamTypeOK
<1>2. \A s \in Seq(N) : s \in Seq(NN)
  <2> SUFFICES ASSUME NEW s \in Seq(N) PROVE s \in Seq(NN)
    OBVIOUS
  <2>1. written' \in Nat /\ written <= written'
    BY <1>1
  <2> QED
    BY <2>1, <1>1, SeqOfFewer
<1>3. StreamTypeOK'
  <2>1. Queued \in Seq(NN) /\ Carried \in Seq(NN) /\ delivered \in Seq(NN)
    BY <1>2 DEF StreamTypeOK
  <2>2. written' \in Nat /\ written' \in NN
    BY <1>1
  <2>3. Queued' \in Seq(NN)
    <3>1. Append(Queued, written') \in Seq(NN)
      BY <2>1, <2>2
    <3> QED
      BY <3>1, <2>1, <1>0, Zenon
  <2> QED
    BY <1>1, <2>1, <2>2, <2>3 DEF StreamTypeOK
<1>4. CASE Queued' = Queued
  BY <1>1, <1>3, <1>4 DEF Ascending, Stream
<1>5. CASE Queued' = Append(Queued, written')
  <2>1. /\ Stream = front \o Queued /\ Stream' = front \o Append(Queued, written')
        /\ front \in Seq(NN) /\ Queued \in Seq(NN) /\ Append(Queued, written') \in Seq(NN)
    BY <1>1, <1>2, <1>5 DEF Stream
  <2>2. Len(front) \in Nat /\ Len(Queued) \in Nat
    BY <1>1, LenProperties
  <2>3. /\ DOMAIN Stream = 1..(Len(front) + Len(Queued))
        /\ DOMAIN Stream' = 1..(Len(front) + Len(Queued) + 1)
        /\ \A i \in DOMAIN Stream : Stream'[i] = Stream[i]
        /\ Stream'[Len(front) + Len(Queued) + 1] = written'
    <3> DEFINE longer == Append(Queued, written')
    <3>1. /\ Len(longer) = Len(Queued) + 1 /\ longer[Len(Queued) + 1] = written'
          /\ \A i \in 1..Len(Queued) : longer[i] = Queued[i]
      BY <2>1
    <3>2. /\ Len(Stream) = Len(front) + Len(Queued) /\ Stream \in Seq(NN)
          /\ \A i \in 1..(Len(front) + Len(Queued)) :
               Stream[i] = IF i <= Len(front) THEN front[i] ELSE Queued[i - Len(front)]
      BY <2>1, ConcatProperties
    <3>3. /\ Len(Stream') = Len(front) + Len(longer) /\ Stream' \in Seq(NN)
          /\ \A i \in 1..(Len(front) + Len(longer)) :
               Stream'[i] = IF i <= Len(front) THEN front[i] ELSE longer[i - Len(front)]
      BY <2>1, ConcatProperties
    <3>4. DOMAIN Stream = 1..Len(Stream) /\ DOMAIN Stream' = 1..Len(Stream')
      BY <3>2, <3>3, LenProperties
    <3> HIDE DEF longer, front
    <3>5. \A i \in DOMAIN Stream : Stream'[i] = Stream[i]
      <4> SUFFICES ASSUME NEW i \in 1..(Len(front) + Len(Queued))
                   PROVE  Stream'[i] = Stream[i]
        BY <3>2, <3>4
      <4>1. i \in 1..(Len(front) + Len(longer))
        BY <3>1, <2>2
      <4>2. CASE i <= Len(front)
        BY <4>1, <4>2, <3>2, <3>3
      <4>3. CASE ~(i <= Len(front))
        <5>1. i - Len(front) \in 1..Len(Queued)
          BY <4>3, <2>2
        <5> QED
          BY <4>1, <4>3, <5>1, <3>1, <3>2, <3>3
      <4> QED
        BY <4>2, <4>3
    <3>6. Stream'[Len(front) + Len(Queued) + 1] = written'
      BY <3>1, <3>3, <2>2
    <3> QED
      BY <3>1, <3>2, <3>3, <3>4, <3>5, <3>6
  <2>4. \A i \in DOMAIN Stream : Stream[i] \in 1..written
    <3>1. Stream \in Seq(1..written)
      BY <1>1, <2>1, ConcatProperties
    <3>2. Stream \in [DOMAIN Stream -> 1..written]
      BY <3>1, LenProperties
    <3> QED
      BY <3>2
  <2>5. Ascending'
    <3> SUFFICES ASSUME NEW i \in DOMAIN Stream', NEW j \in DOMAIN Stream', i < j
                 PROVE  Stream'[i] < Stream'[j]
      BY DEF Ascending
    <3>1. i \in DOMAIN Stream
      BY <2>2, <2>3
    <3>2. CASE j \in DOMAIN Stream
      BY <3>1, <3>2, <2>3 DEF Ascending
    <3>3. CASE j \notin DOMAIN Stream
      <4>1. j = Len(front) + Len(Queued) + 1
        BY <3>3, <2>2, <2>3
      <4> QED
        BY <4>1, <3>1, <2>3, <2>4, <1>1
    <3> QED
      BY <3>2, <3>3
  <2> QED
    BY <2>5, <1>3
<1> QED
  BY <1>0, <1>4, <1>5

\* Sending and receiving move messages along the stream and leave it as it is.
LEMMA ChannelMove ==
  Channel!IInv /\ (Channel!Transmit \/ Channel!Deliver \/ UNCHANGED Channel!vars)
    => Channel!IInv'
<1> SUFFICES ASSUME StreamTypeOK, Ascending,
                    Channel!Transmit \/ Channel!Deliver \/ UNCHANGED Channel!vars
             PROVE  StreamTypeOK' /\ Ascending'
  BY ChannelStream
<1>1. /\ written' = written
      /\ \/ /\ Carried = <<>> /\ Carried' = Queued /\ Queued' = <<>>
            /\ delivered' = delivered
         \/ /\ delivered' = delivered \o Carried /\ Carried' = <<>> /\ Queued' = Queued
         \/ UNCHANGED <<Carried, Queued, delivered>>
  BY DEF Channel!Transmit, Channel!Deliver, Channel!vars, Queued
<1> DEFINE S == Seq(1..written)
<1>2. /\ written \in Nat /\ Queued \in S /\ Carried \in S /\ delivered \in S
      /\ delivered \o Queued \in S /\ delivered \o Carried \in S /\ <<>> \in S
  BY EmptySeq, ConcatProperties DEF StreamTypeOK
<1>3. StreamTypeOK' /\ Stream' = Stream
  <2>1. CASE /\ Carried = <<>> /\ Carried' = Queued /\ Queued' = <<>>
             /\ delivered' = delivered
    <3>1. /\ Stream = (delivered \o <<>>) \o Queued
          /\ Stream' = (delivered \o Queued) \o <<>>
      BY <2>1 DEF Stream
    <3>2. Stream' = Stream
      BY <3>1, <1>2, ConcatEmptySeq
    <3> QED
      BY <3>2, <2>1, <1>1, <1>2 DEF StreamTypeOK
  <2>2. CASE /\ delivered' = delivered \o Carried /\ Carried' = <<>> /\ Queued' = Queued
    <3>1. /\ Stream = (delivered \o Carried) \o Queued
          /\ Stream' = ((delivered \o Carried) \o <<>>) \o Queued
      BY <2>2 DEF Stream
    <3>2. Stream' = Stream
      BY <3>1, <1>2, ConcatEmptySeq
    <3> QED
      BY <3>2, <2>2, <1>1, <1>2 DEF StreamTypeOK
  <2>3. CASE UNCHANGED <<Carried, Queued, delivered>>
    BY <2>3, <1>1, <1>2 DEF StreamTypeOK, Stream
  <2> QED
    BY <1>1, <2>1, <2>2, <2>3
<1> QED
  BY <1>3 DEF Ascending

\* What the abstract channel accepts stays in the order of writing, each message once
\* (MessageQueueBase::finishMessage, DebugSender::send).
THEOREM ChannelOrdered == Channel!Spec => []Channel!InOrder
<1>1. Channel!IInv /\ [Channel!Next]_Channel!vars => Channel!IInv'
  BY ChannelWrite, ChannelMove DEF Channel!Next
<1>2. Channel!IInv => Channel!InOrder
  BY DEF Channel!IInv
<1>3. QED
  BY <1>1, <1>2, ChannelInit, PTL DEF Channel!Spec

\* Nothing that was accepted overtakes on its way through the three slots or
\* arrives twice: the order of the abstract channel is the order of this one.
THEOREM Ordered == Spec => []InOrder
  BY Implementation, ChannelOrdered, PTL DEF ImplementsChannel, InOrder

-----------------------------------------------------------------------------
(* The plain sender under its pacing. *)

\* What is used or freed is on the heap: it follows from the rest of the invariant.
LEMMA ValueMemory ==
  ASSUME ValueTypeOK, SlotsDisjoint, PacketsHeld, ReceiverAhead
  PROVE  MemorySafe
<1> USE DEF ValueTypeOK, BufferTypeOK, None
<1>1. rpc = "stream" => pointer \in live
  BY DEF SlotsDisjoint, PacketsHeld, ReceiverAhead
<1>2. rpc = "free" => packet[reading] \in live
  BY DEF SlotsDisjoint, PacketsHeld, ReceiverAhead
<1>3. spc = "reserve" /\ packet[writing] # None => packet[writing] \in live
  BY DEF SlotsDisjoint, PacketsHeld
<1> QED
  BY <1>1, <1>2, <1>3 DEF MemorySafe

\* The constructor leaves an empty buffer.
LEMMA ValueStart == ValueInit => ValueIInv
<1> SUFFICES ASSUME ValueInit PROVE ValueIInv
  OBVIOUS
<1> USE DEF ValueInit, BufferInit, Slot, None
<1>1. live = {}
  BY DEF live
<1>2. ValueTypeOK
  BY <1>1, MaxSendsAssumption
     DEF ValueTypeOK, BufferTypeOK, SenderLocation, ReceiverLocation
<1>3. NoLeak /\ SlotsDisjoint /\ PacketsHeld /\ NewestInActual /\ ReceiverAhead
  BY <1>1 DEF NoLeak, SlotsDisjoint, PacketsHeld, NewestInActual, ReceiverAhead, Published,
     Sending
<1> QED
  BY <1>2, <1>3, ValueMemory DEF ValueIInv, BufferSound, HeapSound

\* It is enough to show all but what ValueMemory adds.
LEMMA ValuePreserved ==
  ASSUME ValueTypeOK', NoLeak', SlotsDisjoint', PacketsHeld', NewestInActual', ReceiverAhead'
  PROVE  ValueIInv'
<1>1. MemorySafe'
  BY ValueMemory, PTL
<1> QED
  BY <1>1 DEF ValueIInv, BufferSound, HeapSound

\* Sender::send allocates a packet with a number of its own.
LEMMA ValueSend == ASSUME ValueIInv, SendValue PROVE ValueIInv'
<1> USE DEF ValueIInv, BufferSound, HeapSound, ValueTypeOK, BufferTypeOK, Slot, None,
            Sending, Published
<1>1. /\ sent + 1 \notin live /\ None \notin live /\ sent \in Nat /\ outgoing = None
      /\ spc = "idle" /\ spc' = "choose" /\ sent' = sent + 1 /\ outgoing' = sent + 1
      /\ UNCHANGED <<packet, reading, actual, writing, rpc, latest, pointer, signals, received>>
  BY DEF SendValue, Obtain, PacketsHeld
<1>2. live' = live \cup {sent + 1} /\ heap'[sent + 1] = sent + 1
      /\ \A p \in live : heap'[p] = heap[p]
  BY <1>1 DEF SendValue, Obtain, live
<1>3. ValueTypeOK'
  <2>1. sent + 1 <= MaxSends
    BY MaxSendsAssumption DEF SendValue
  <2> QED
    BY <1>1, <1>2, <2>1 DEF SenderLocation
<1>4. \A i \in Slot : packet[i] # sent + 1
  BY <1>1 DEF PacketsHeld
<1>5. NoLeak' /\ SlotsDisjoint'
  BY <1>1, <1>2 DEF NoLeak, SlotsDisjoint
<1>6. PacketsHeld'
  BY <1>1, <1>2, <1>4 DEF PacketsHeld
<1>7. NewestInActual' /\ ReceiverAhead'
  BY <1>1 DEF NewestInActual, ReceiverAhead
<1> HIDE DEF ValueIInv, ValueTypeOK
<1> QED
  BY <1>3, <1>5, <1>6, <1>7, ValuePreserved

\* setPacket, if the receiver's look at "actual" is not out of date when the slot is
\* chosen.
LEMMA ValueChoose ==
  ASSUME ValueIInv, ChooseSlot, Pacing, UNCHANGED received PROVE ValueIInv'
<1> USE DEF ValueIInv, BufferSound, HeapSound, ValueTypeOK, BufferTypeOK, Slot, None,
            Sending, Published
<1>1. /\ spc = "choose" /\ spc' = "reserve"
      /\ UNCHANGED <<packet, reading, actual, heap, sent, outgoing, rpc, latest, pointer,
                     signals, received>>
  BY DEF ChooseSlot
<1>2. writing' \in Slot /\ writing' # actual /\ writing' # reading
  BY FreeSlot DEF ChooseSlot
<1>3. ValueTypeOK'
  BY <1>1, <1>2 DEF SenderLocation, live
<1>4. NoLeak' /\ SlotsDisjoint'
  BY <1>1, <1>2 DEF NoLeak, SlotsDisjoint, Pacing, live
<1>5. PacketsHeld'
  BY <1>1 DEF PacketsHeld, live
<1>6. NewestInActual' /\ ReceiverAhead'
  BY <1>1 DEF NewestInActual, ReceiverAhead
<1> HIDE DEF ValueIInv, ValueTypeOK
<1> QED
  BY <1>3, <1>4, <1>5, <1>6, ValuePreserved

\* setPacket frees the packet it is about to replace.
LEMMA ValueFreeOld ==
  ASSUME ValueIInv, FreeOld, UNCHANGED received PROVE ValueIInv'
<1> USE DEF ValueIInv, BufferSound, HeapSound, ValueTypeOK, BufferTypeOK, Slot, None,
            Sending, Published
<1>1. /\ spc = "reserve" /\ spc' = "store"
      /\ UNCHANGED <<packet, reading, actual, sent, outgoing, writing, rpc, latest, pointer,
                     signals, received>>
  BY DEF FreeOld
<1>2. live' = live \ {packet[writing]} /\ \A p \in live' : heap'[p] = heap[p]
  BY DEF FreeOld, Freed, Restrict, live
<1>3. /\ packet[writing] # outgoing /\ packet[writing] \notin live'
      /\ \A i \in Slot : i # writing => (packet[i] \in live' <=> packet[i] \in live)
  BY <1>1, <1>2 DEF PacketsHeld, NoLeak
<1>4. ValueTypeOK'
  BY <1>1, <1>2 DEF SenderLocation
<1>5. NoLeak' /\ SlotsDisjoint'
  BY <1>1, <1>2 DEF NoLeak, SlotsDisjoint
<1>6. PacketsHeld'
  BY <1>1, <1>2, <1>3 DEF PacketsHeld
<1>7. NewestInActual' /\ ReceiverAhead'
  BY <1>1 DEF NewestInActual, ReceiverAhead
<1> HIDE DEF ValueIInv, ValueTypeOK
<1> QED
  BY <1>4, <1>5, <1>6, <1>7, ValuePreserved

\* setPacket stores the new packet.
LEMMA ValueStore ==
  ASSUME ValueIInv, StorePacket, UNCHANGED received PROVE ValueIInv'
<1> USE DEF ValueIInv, BufferSound, HeapSound, ValueTypeOK, BufferTypeOK, Slot, None,
            Sending, Published
<1>1. /\ spc = "store" /\ spc' = "publish"
      /\ UNCHANGED <<reading, actual, heap, sent, outgoing, writing, rpc, latest, pointer,
                     signals, received>>
      /\ packet'[writing] = outgoing
      /\ \A i \in Slot : i # writing => packet'[i] = packet[i]
      /\ packet' \in [Slot -> Nat]
  BY DEF StorePacket
<1>2. /\ outgoing = sent /\ outgoing \in live /\ packet[writing] \notin live
      /\ writing # reading /\ writing # actual /\ (rpc = "reserve" => latest # writing)
      /\ \A i \in Slot : packet[i] # outgoing
  BY <1>1 DEF PacketsHeld, SlotsDisjoint
<1>3. ValueTypeOK'
  BY <1>1 DEF SenderLocation, live
<1>4. NoLeak' /\ SlotsDisjoint'
  <2>1. ASSUME NEW p \in live' PROVE p = outgoing' \/ \E i \in Slot : packet'[i] = p
    BY <1>1, <1>2 DEF NoLeak, live
  <2> QED
    BY <1>1, <1>2, <2>1 DEF NoLeak, SlotsDisjoint
<1>5. PacketsHeld'
  BY <1>1, <1>2 DEF PacketsHeld, live
<1>6. NewestInActual' /\ ReceiverAhead'
  BY <1>1, <1>2 DEF NewestInActual, ReceiverAhead
<1> HIDE DEF ValueIInv, ValueTypeOK
<1> QED
  BY <1>3, <1>4, <1>5, <1>6, ValuePreserved

\* setPacket makes the new packet the most actual one.
LEMMA ValuePublish ==
  ASSUME ValueIInv, Publish, UNCHANGED received PROVE ValueIInv'
<1> USE DEF ValueIInv, BufferSound, HeapSound, ValueTypeOK, BufferTypeOK, Slot, None,
            Sending, Published
<1>1. /\ spc = "publish" /\ spc' = "trigger" /\ actual' = writing /\ outgoing' = None
      /\ UNCHANGED <<packet, reading, heap, sent, writing, rpc, latest, pointer, signals,
                     received>>
  BY DEF Publish
<1>2. packet[writing] = sent /\ sent > 0 /\ received < sent
  BY <1>1 DEF PacketsHeld, NewestInActual
<1>3. ValueTypeOK'
  BY <1>1 DEF SenderLocation, live
<1>4. NoLeak' /\ SlotsDisjoint'
  BY <1>1, <1>2 DEF NoLeak, SlotsDisjoint, PacketsHeld, live
<1>5. PacketsHeld'
  BY <1>1, <1>2 DEF PacketsHeld, live
<1>6. NewestInActual' /\ ReceiverAhead'
  BY <1>1, <1>2 DEF NewestInActual, ReceiverAhead
<1> HIDE DEF ValueIInv, ValueTypeOK
<1> QED
  BY <1>3, <1>4, <1>5, <1>6, ValuePreserved

\* Waking up, being woken and the wake-up itself move nothing.
LEMMA ValueWakes ==
  ASSUME ValueIInv, Trigger \/ Wake \/ WakeOtherwise, UNCHANGED received PROVE ValueIInv'
<1> USE DEF ValueIInv, BufferSound, HeapSound, ValueTypeOK, BufferTypeOK, Slot, None,
            Sending, Published
<1>1. /\ \/ spc = "trigger" /\ spc' = "idle" /\ rpc' = rpc
         \/ rpc = "wait" /\ rpc' = "load" /\ spc' = spc
      /\ signals' \in Nat
      /\ UNCHANGED <<packet, reading, actual, heap, sent, outgoing, writing, latest, pointer,
                     received>>
  BY DEF Trigger, Wake, WakeOtherwise
<1>2. ValueTypeOK'
  BY <1>1 DEF SenderLocation, ReceiverLocation, live
<1>3. NoLeak' /\ SlotsDisjoint'
  BY <1>1 DEF NoLeak, SlotsDisjoint, PacketsHeld, live
<1>4. PacketsHeld'
  BY <1>1 DEF PacketsHeld, live
<1>5. NewestInActual' /\ ReceiverAhead'
  BY <1>1 DEF NewestInActual, ReceiverAhead
<1> HIDE DEF ValueIInv, ValueTypeOK
<1> QED
  BY <1>2, <1>3, <1>4, <1>5, ValuePreserved

\* checkForPacket decides for a slot: what was the most actual packet when it looked was
\* not received before.
LEMMA ValueReserve ==
  ASSUME ValueIInv, LoadActual \/ StoreReading \/ TestPacket, UNCHANGED received
  PROVE  ValueIInv'
<1> USE DEF ValueIInv, BufferSound, HeapSound, ValueTypeOK, BufferTypeOK, Slot, None,
            Sending, Published
<1>1. /\ \/ rpc = "load" /\ rpc' = "reserve" /\ latest' = actual /\ UNCHANGED <<reading, pointer>>
         \/ rpc = "reserve" /\ rpc' = "test" /\ reading' = latest /\ UNCHANGED <<latest, pointer>>
         \/ /\ rpc = "test" /\ rpc' \in {"wait", "stream"} /\ pointer' = packet[reading]
            /\ rpc' = "stream" => packet[reading] # None
            /\ UNCHANGED <<latest, reading>>
      /\ UNCHANGED <<packet, actual, heap, sent, spc, outgoing, writing, signals, received>>
  BY DEF LoadActual, StoreReading, TestPacket
<1>2. ValueTypeOK'
  BY <1>1 DEF ReceiverLocation, live
<1>3. NoLeak' /\ SlotsDisjoint'
  BY <1>1 DEF NoLeak, SlotsDisjoint, live
<1>4. PacketsHeld'
  BY <1>1 DEF PacketsHeld, live
<1>5. NewestInActual' /\ ReceiverAhead'
  BY <1>1 DEF NewestInActual, ReceiverAhead
<1> HIDE DEF ValueIInv, ValueTypeOK
<1> QED
  BY <1>2, <1>3, <1>4, <1>5, ValuePreserved

\* What is deserialized is on the heap and later than all that was received.
LEMMA ReceivedLater ==
  ASSUME ValueIInv, ReceiveValue
  PROVE  received' = packet[reading] /\ received' > received /\ received' <= Published
<1> USE DEF ValueIInv, BufferSound, HeapSound, ValueTypeOK, BufferTypeOK, None
<1>1. rpc = "stream" /\ pointer \in live /\ pointer = packet[reading]
  BY DEF ReceiveValue, Deserialize, MemorySafe, ReceiverAhead
<1>2. received' = packet[reading]
  BY <1>1 DEF ReceiveValue, PacketsHeld
<1>3. received' > received
  BY <1>1, <1>2 DEF ReceiverAhead
<1>4. ~(spc = "publish" /\ reading = writing)
  BY DEF SlotsDisjoint
<1> QED
  BY <1>2, <1>3, <1>4 DEF PacketsHeld

\* checkForPacket deserializes the packet.
LEMMA ValueReceive == ASSUME ValueIInv, ReceiveValue PROVE ValueIInv'
<1> USE DEF ValueIInv, BufferSound, HeapSound, ValueTypeOK, BufferTypeOK, Slot, None,
            Sending
<1>1. /\ rpc = "stream" /\ rpc' = "free"
      /\ UNCHANGED <<packet, reading, actual, heap, sent, spc, outgoing, writing, latest, pointer,
                     signals>>
  BY DEF ReceiveValue, Deserialize
<1>2. received' = packet[reading] /\ received' > received /\ received' <= Published
  BY ReceivedLater
<1>3. Published \in Int /\ Published' = Published /\ Published <= sent
  BY <1>1 DEF Published
<1>4. ValueTypeOK'
  BY <1>1, <1>2, <1>3 DEF ReceiverLocation, live
<1>5. NoLeak' /\ SlotsDisjoint'
  BY <1>1 DEF NoLeak, SlotsDisjoint, live
<1>6. PacketsHeld'
  BY <1>1, <1>3 DEF PacketsHeld, live
<1>7. NewestInActual'
  <2>1. CASE reading = actual
    BY <1>1, <1>2, <1>3, <2>1 DEF NewestInActual
  <2>2. CASE reading # actual
    <3>1. packet[actual] # None => packet[actual] # packet[reading]
      BY <2>2 DEF NoLeak
    <3> QED
      BY <1>1, <1>2, <1>3, <2>2, <3>1 DEF NewestInActual
  <2> QED
    BY <2>1, <2>2
<1>8. ReceiverAhead'
  BY <1>1, <1>2 DEF ReceiverAhead
<1> HIDE DEF ValueIInv, ValueTypeOK
<1> QED
  BY <1>4, <1>5, <1>6, <1>7, <1>8, ValuePreserved

\* checkForPacket frees the packet it deserialized.
LEMMA ValueFree ==
  ASSUME ValueIInv, FreePacket, UNCHANGED received PROVE ValueIInv'
<1> USE DEF ValueIInv, BufferSound, HeapSound, ValueTypeOK, BufferTypeOK, Slot, None,
            Sending, Published
<1>1. /\ rpc = "free" /\ rpc' = "clear"
      /\ UNCHANGED <<packet, reading, actual, sent, spc, outgoing, writing, latest, pointer,
                     signals, received>>
  BY DEF FreePacket
<1>2. live' = live \ {packet[reading]} /\ \A p \in live' : heap'[p] = heap[p]
  BY DEF FreePacket, Freed, Restrict, live
<1>3. /\ packet[reading] # None /\ (Sending => packet[reading] # outgoing)
      /\ packet[reading] \notin live'
      /\ \A i \in Slot : i # reading => (packet[i] \in live' <=> packet[i] \in live)
  BY <1>1, <1>2 DEF PacketsHeld, NoLeak, SlotsDisjoint, MemorySafe
<1>4. ValueTypeOK'
  BY <1>1, <1>2 DEF ReceiverLocation
<1>5. NoLeak' /\ SlotsDisjoint'
  BY <1>1, <1>2 DEF NoLeak, SlotsDisjoint
<1>6. PacketsHeld'
  BY <1>1, <1>2, <1>3 DEF PacketsHeld, SlotsDisjoint
<1>7. NewestInActual' /\ ReceiverAhead'
  BY <1>1 DEF NewestInActual, ReceiverAhead
<1> HIDE DEF ValueIInv, ValueTypeOK
<1> QED
  BY <1>4, <1>5, <1>6, <1>7, ValuePreserved

\* checkForPacket clears the slot of the packet it freed.
LEMMA ValueClear ==
  ASSUME ValueIInv, ClearPacket, UNCHANGED received PROVE ValueIInv'
<1> USE DEF ValueIInv, BufferSound, HeapSound, ValueTypeOK, BufferTypeOK, Slot, None,
            Sending, Published
<1>1. /\ rpc = "clear" /\ rpc' = "wait" /\ pointer' = None
      /\ UNCHANGED <<reading, actual, heap, sent, spc, outgoing, writing, latest, signals,
                     received>>
      /\ packet'[reading] = None
      /\ \A i \in Slot : i # reading => packet'[i] = packet[i]
      /\ packet' \in [Slot -> Nat]
  BY DEF ClearPacket
<1>2. packet[reading] \notin live /\ None \notin live
  BY <1>1 DEF PacketsHeld
<1>3. ValueTypeOK'
  BY <1>1 DEF ReceiverLocation, live
<1>4. NoLeak' /\ SlotsDisjoint'
  <2>1. ASSUME NEW p \in live'
        PROVE  (p = outgoing' /\ spc' # "idle") \/ \E i \in Slot : packet'[i] = p
    BY <1>1, <1>2 DEF NoLeak, live
  <2> QED
    BY <1>1, <2>1 DEF NoLeak, SlotsDisjoint
<1>5. PacketsHeld'
  BY <1>1, <1>2 DEF PacketsHeld, SlotsDisjoint, live
<1>6. NewestInActual' /\ ReceiverAhead'
  BY <1>1 DEF NewestInActual, ReceiverAhead
<1> HIDE DEF ValueIInv, ValueTypeOK
<1> QED
  BY <1>3, <1>4, <1>5, <1>6, ValuePreserved

\* All steps together.
LEMMA ValueSteps == ValueIInv /\ [PacedNext]_valueVars => ValueIInv'
<1>1. ValueIInv /\ UNCHANGED valueVars => ValueIInv'
  BY DEF valueVars, bufferVars, ValueIInv, BufferSound, HeapSound, ValueTypeOK, BufferTypeOK,
         MemorySafe, NoLeak, SlotsDisjoint, PacketsHeld, NewestInActual, ReceiverAhead, Sending,
         Published, live
<1> QED
  BY <1>1, ValueSend, ValueChoose, ValueFreeOld, ValueStore, ValuePublish, ValueWakes,
     ValueReserve, ValueReceive, ValueFree, ValueClear
     DEF PacedNext, ValueNext, ValueSender, ValueReceiver, setPacketStep, ReceiverStep

\* Under Pacing the plain sender and receiver share the buffer safely, although they
\* take no lock (ReceiverBase::setPacket, Receiver::checkForPacket).
THEOREM PacedInvariance == PacedSpec => []ValueIInv
  BY ValueStart, ValueSteps, PTL DEF PacedSpec

\* No packet is used after it was freed, freed twice or leaked, however many are sent.
THEOREM PacedMemory == PacedSpec => []BufferSound
<1>1. ValueIInv => BufferSound
  BY DEF ValueIInv
<1> QED
  BY <1>1, PacedInvariance, PTL

\* What the receiver gets is later than all it got before (Communication.h:103).
THEOREM AlwaysNewer == PacedSpec => NeverOlder
<1>1. ValueIInv /\ [PacedNext]_valueVars => [received' > received]_received
  <2> SUFFICES ASSUME ValueIInv, [PacedNext]_valueVars, ~UNCHANGED received
               PROVE  received' > received
    OBVIOUS
  <2>1. ReceiveValue
    BY DEF PacedNext, ValueNext, ValueSender, ValueReceiver, SendValue, valueVars
  <2> QED
    BY <2>1, ReceivedLater
<1> QED
  BY <1>1, PacedInvariance, PTL DEF PacedSpec, NeverOlder
=============================================================================
