---------------------------- MODULE DebugChannel ----------------------------
(***************************************************************************)
(* DebugSender<MessageQueue> sending to a DebugReceiver through the triple *)
(* buffer.  Unlike the plain Sender it first asks whether the last packet  *)
(* was taken, and sends a queue only then (DebugSender::send); a blocking  *)
(* sender spins until it was, or until the simulator terminates.           *)
(* A packet's content is the sequence of the messages in it.               *)
(***************************************************************************)
EXTENDS TripleBuffer, Sequences

CONSTANTS
  MaxMessages,      \* bound: the number of messages written
  Capacity          \* the number of messages the sender's queue holds

ASSUME DebugChannelAssumption ==
  /\ MaxMessages \in Nat
  /\ Capacity \in Nat \ {0}

VARIABLES
  written,          \* messages written so far, accepted or refused
  outQueue,         \* the sender's MessageQueue
  delivered,        \* everything deserialized into the receiver, in order
  terminating       \* DebugSenderBase::terminating

queueVars == <<written, outQueue, delivered, terminating>>
vars == <<bufferVars, queueVars>>

Init ==
  /\ BufferInit
  /\ written = 0 /\ outQueue = <<>> /\ delivered = <<>>
  /\ terminating = FALSE

-----------------------------------------------------------------------------
\* Mutant: a full queue drops its first message.
WriteDroppingFirst ==
  /\ spc = "idle" /\ written < MaxMessages
  /\ written' = written + 1
  /\ outQueue' = Append(IF Len(outQueue) < Capacity THEN outQueue ELSE Tail(outQueue),
                        written')
  /\ UNCHANGED <<bufferVars, delivered, terminating>>

\* OUTPUT in the sending thread; a full queue refuses the message.
Write ==
  /\ spc = "idle" /\ written < MaxMessages
  /\ written' = written + 1
  /\ outQueue' = IF Len(outQueue) < Capacity THEN Append(outQueue, written')
                                             ELSE outQueue
  /\ UNCHANGED <<bufferVars, delivered, terminating>>

\* DebugSender::send with a non-empty queue and the last packet taken; the
\* second disjunct is the end of the spin loop.
Send ==
  /\ spc = "idle" \/ spc = "blocked"
  /\ outQueue # <<>> /\ ~hasPendingPacket
  /\ Obtain(outQueue)
  /\ UNCHANGED queueVars

\* DebugSender::send(true) when the last packet was not taken yet.  send(false)
\* returns and keeps the queue for the next frame.
Spin ==
  /\ spc = "idle" /\ ~terminating
  /\ outQueue # <<>> /\ hasPendingPacket
  /\ spc' = "blocked"
  /\ UNCHANGED <<packet, reading, actual, heap, sent, outgoing, writing, rpc,
                 latest, pointer, signals, queueVars>>

\* Mutant: while(hasPendingPacket());
SpinForEver == FALSE /\ UNCHANGED vars

GiveUp ==
  /\ spc = "blocked" /\ terminating /\ hasPendingPacket
  /\ spc' = "idle"
  /\ UNCHANGED <<packet, reading, actual, heap, sent, outgoing, writing, rpc,
                 latest, pointer, signals, queueVars>>

\* setPacket's last step and then MessageQueue::clear().
TriggerAndClear ==
  /\ Trigger
  /\ outQueue' = <<>>
  /\ UNCHANGED <<written, delivered, terminating>>

\* memory >> data; a freed pointer would yield nothing that was sent.
Receive ==
  /\ Deserialize
  /\ delivered' = delivered \o (IF pointer \in live THEN heap[pointer] ELSE <<>>)
  /\ UNCHANGED <<written, outQueue, terminating>>

\* RoboCupCtrl::stop
Terminate ==
  /\ ~terminating
  /\ terminating' = TRUE
  /\ UNCHANGED <<bufferVars, written, outQueue, delivered>>

\* while(isRunning()) in the receiving thread, after stop announced the end.
ReceiverStops ==
  /\ terminating /\ rpc = "load"
  /\ rpc' = "stopped"
  /\ UNCHANGED <<packet, reading, actual, heap, sent, spc, outgoing, writing,
                 latest, pointer, signals, queueVars>>

SenderNext ==
  \/ Send \/ GiveUp \/ TriggerAndClear
  \/ setPacketStep /\ UNCHANGED queueVars
ReceiverNext == Receive \/ (ReceiverStep /\ UNCHANGED queueVars)
Next ==
  \/ SenderNext \/ Spin \/ ReceiverNext \/ Write
  \/ WakeOtherwise /\ UNCHANGED queueVars
  \/ Terminate \/ ReceiverStops

Spec == Init /\ [][Next]_vars

\* Both threads keep being scheduled: they execute frame after frame.  Whether a
\* call of send() blocks is up to the caller.
FairSpec == Spec /\ WF_vars(SenderNext) /\ WF_vars(ReceiverNext)

-----------------------------------------------------------------------------
TypeOK ==
  /\ BufferTypeOK
  /\ written \in 0..MaxMessages
  /\ outQueue \in Seq(1..written) /\ delivered \in Seq(1..written)
  /\ terminating \in BOOLEAN

\* Why the buffer is safe here: a packet is sent only into an empty buffer, so the
\* slot "actual" is the only filled one, the receiver can be at most one packet
\* behind, and only while that packet is still in its slot.
OnlyActualFilled ==
  /\ \A i \in Slot : packet[i] # None => i = actual \/ (spc = "publish" /\ i = writing)
  /\ Sending => packet[actual] = None
  /\ spc = "publish" => packet[writing] = outgoing

ReceiverReadsActual ==
  /\ rpc \in {"stream", "free", "clear"} =>
       reading = actual /\ packet[actual] # None /\ pointer = packet[actual]
  /\ rpc = "reserve" /\ latest # actual => packet[actual] # None

HeapMatches ==
  /\ IF Sending
       THEN outgoing \in live /\ heap[outgoing] = outQueue /\ outQueue # <<>>
       ELSE outgoing = None
  /\ \A p \in live : p = outgoing \/ p = packet[actual]
  /\ packet[actual] # None => (packet[actual] \in live <=> rpc # "clear")
  /\ \A p \in live : heap[p] \in Seq(1..written) /\ heap[p] # <<>>

IInv == TypeOK /\ OnlyActualFilled /\ ReceiverReadsActual /\ SlotsDisjoint /\ HeapMatches

\* The packet under way, as long as the receiver has not deserialized it.
Carried ==
  IF packet[actual] = None \/ rpc \in {"free", "clear"} THEN <<>>
                                                     ELSE heap[packet[actual]]

\* The queue counts as empty from the moment its packet can be seen.
Channel == INSTANCE MessageChannel
             WITH queued  <- IF spc = "trigger" THEN <<>> ELSE outQueue,
                  carried <- Carried

\* The lock-free exchange implements a channel that neither loses nor
\* duplicates nor reorders an accepted message.
ImplementsChannel == Channel!Spec

\* Along the whole way, from what was delivered over the packet in a slot to
\* the sender's queue, the messages are in the order they were written, each
\* once: nothing overtakes, although a queue is cleared only after its packet
\* became visible to the receiver.
InOrder == Channel!InOrder

\* A message in the sender's queue reaches the receiver, unless the simulator
\* shuts down: neither a wake-up nor the emptied slot is ever overlooked.
EveryMessageArrives ==
  \A m \in 1..MaxMessages :
    (\E i \in DOMAIN outQueue : outQueue[i] = m)
      ~> (terminating \/ \E i \in DOMAIN delivered : delivered[i] = m)

\* A sender that blocks on a receiver that has stopped returns at shutdown.
NeverStuck == (terminating /\ spc = "blocked") ~> spc = "idle"
=============================================================================
