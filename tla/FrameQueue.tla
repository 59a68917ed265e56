----------------------------- MODULE FrameQueue -----------------------------
(***************************************************************************)
(* How the threads put brackets around the debug messages of each frame.   *)
(* A thread opens the bracket before the frame (idFrameBegin); at the end  *)
(* of the frame it closes it (idFrameFinished), or takes it back if there  *)
(* is nothing in it.  Then it sends the queue, unless the last packet is   *)
(* still waiting, and goes on collecting.                                  *)
(***************************************************************************)
EXTENDS MessageQueue

CONSTANTS
  Thread,                    \* the module containers
  maximumSize,               \* debugSenderSize
  reserveForInfrastructure,  \* debugSenderInfrastructureSize
  bracketSize,               \* bracketSize[t]: size of idFrameBegin and idFrameFinished of t
  size,                      \* size[id]: size of the other messages
  outputs,                   \* outputs[t]: the messages thread t may write
  MaxFrames,                 \* bound: MaxFrames[t], the frames of thread t
  MaxOutputs                 \* bound: after so many messages a frame writes no more

Ordinary == DOMAIN size

ASSUME FrameQueueAssumption ==
  /\ maximumSize \in Nat /\ reserveForInfrastructure \in Nat
  /\ bracketSize \in [Thread -> Nat \ {0}]
  /\ size \in [Ordinary -> Nat \ {0}]
  /\ Ordinary \cap Brackets = {}
  /\ {"idStopwatch", "idAnnotation"} \subseteq Ordinary
  /\ outputs \in [Thread -> SUBSET Ordinary]
  /\ MaxFrames \in [Thread -> Nat] /\ MaxOutputs \in Nat

\* The reserve holds both brackets.  (threads.cfg: at least 100000 bytes; a bracket has
\* the name of the thread and 8 bytes.)
ASSUME ReserveAssumption ==
  /\ reserveForInfrastructure <= maximumSize
  /\ \A t \in Thread : 2 * bracketSize[t] <= reserveForInfrastructure

VARIABLES
  queue,             \* queue[t]: the thread's debugSender
  numberOfMessages,  \* numberOfMessages[t]: ModuleContainer::numberOfMessages
  copying,           \* copying[t]: messages still to be copied one by one
  packet,            \* packet[t]: what Debug did not take yet
  frames             \* frames[t]: number of the current frame (history)

frameVars == <<queue, numberOfMessages, copying, packet, frames>>

Message ==
  [id : Ordinary \cup Brackets, from : Thread, frame : Nat, size : Nat \ {0}]
Content == {m \in Message : m.id \notin Brackets}

\* Mutant: idFrameBegin also contains the number of the frame.
BracketNumbered(id, t, frame) ==
  [id |-> id, from |-> t, frame |-> frame,
   size |-> bracketSize[t] + IF id = "idFrameBegin" THEN 1 ELSE 0]

\* A bracket contains the name of its thread.  Of the other messages thread and frame are
\* not in the code; they tell the messages apart.
Bracket(id, t, frame) == [id |-> id, from |-> t, frame |-> frame, size |-> bracketSize[t]]
Output(id, t) == [id |-> id, from |-> t, frame |-> frames[t], size |-> size[id]]

Finish(q, m) == finishMessage(q, m, maximumSize, reserveForInfrastructure)

\* ModuleContainer::init prepares the first frame.
Init ==
  /\ queue = [t \in Thread |-> Finish(Empty, Bracket("idFrameBegin", t, 1))]
  /\ numberOfMessages = [t \in Thread |-> 0]
  /\ copying = [t \in Thread |-> <<>>]
  /\ packet = [t \in Thread |-> Empty]
  /\ frames = [t \in Thread |-> 1]

-----------------------------------------------------------------------------
\* Bounds: the frames, and the messages of a frame.
MayOutput(t) ==
  /\ frames[t] <= MaxFrames[t]
  /\ queue[t].numberOfMessages <= numberOfMessages[t] + MaxOutputs

\* In a frame come first the messages of the modules, then the timing, then the
\* annotations.  What the queue holds of older frames does not count, also if it was too
\* full for the idFrameBegin of this one.
Stage(id) == CASE id = "idAnnotation" -> 2 [] id = "idStopwatch" -> 1 [] OTHER -> 0
CurrentStage(t) ==
  LET ms == queue[t].messages
  IN  IF Len(ms) <= numberOfMessages[t] THEN 0 ELSE Stage(ms[Len(ms)].id)

\* A module writes a message.
Write(t, id) ==
  /\ copying[t] = <<>> /\ MayOutput(t)
  /\ Stage(id) = 0 /\ CurrentStage(t) = 0
  /\ queue' = [queue EXCEPT ![t] = Finish(@, Output(id, t))]
  /\ UNCHANGED <<numberOfMessages, copying, packet, frames>>

\* What TimingManager or AnnotationManager may have collected.
Collections(t) ==
  {ids \in {<<"idStopwatch">>, <<"idAnnotation">>, <<"idAnnotation", "idAnnotation">>} :
     ids[1] \in outputs[t]}

Collected(t, ids) ==
  [messages |-> [i \in DOMAIN ids |-> Output(ids[i], t)],
   usedSize |-> Len(ids) * size[ids[1]],
   numberOfMessages |-> Len(ids),
   overdrawn |-> FALSE]

MayCopy(t, ids) ==
  copying[t] = <<>> /\ MayOutput(t) /\ CurrentStage(t) < Stage(ids[1])

\* Timing and annotations are copied: all at once ...
CopyAtOnce(t, ids) ==
  LET other == Collected(t, ids)
  IN  /\ MayCopy(t, ids)
      /\ reserve(queue[t], other.usedSize, maximumSize)
      /\ queue' = [queue EXCEPT
                     ![t] = copyAtOnce(other, @, maximumSize, reserveForInfrastructure)]
      /\ UNCHANGED <<numberOfMessages, copying, packet, frames>>

\* ... or, if they do not fit in, one by one.
CopyStepByStep(t, ids) ==
  LET other == Collected(t, ids)
  IN  /\ MayCopy(t, ids)
      /\ ~reserve(queue[t], other.usedSize, maximumSize)
      /\ copying' = [copying EXCEPT ![t] = other.messages]
      /\ UNCHANGED <<queue, numberOfMessages, packet, frames>>

copyMessage(t) ==
  /\ copying[t] /= <<>>
  /\ queue' = [queue EXCEPT ![t] = Finish(@, Head(copying[t]))]
  /\ copying' = [copying EXCEPT ![t] = Tail(@)]
  /\ UNCHANGED <<numberOfMessages, packet, frames>>

-----------------------------------------------------------------------------
\* The end of a frame's bracket.
Close(t) ==
  IF queue[t].numberOfMessages > numberOfMessages[t] + 1
    THEN Finish(queue[t], Bracket("idFrameFinished", t, frames[t]))
    ELSE removeLastMessage(queue[t])

\* DebugSender::send without blocking: an empty queue is not sent, and none while the
\* last packet was not taken.
Sends(t) == packet[t] = Empty /\ Close(t).numberOfMessages > 0

\* Mutant: the messages of the next frame are counted from zero, though the queue may
\* still hold older ones.
RestFromZero(t) == [queue |-> IF Sends(t) THEN Empty ELSE Close(t), number |-> 0]

\* What remains in the queue, and the number of messages before the next frame.
Rest(t) ==
  LET q == IF Sends(t) THEN Empty ELSE Close(t)
  IN  [queue |-> q, number |-> q.numberOfMessages]

\* The end of main: close the bracket, send, open the bracket of the next frame.
EndFrame(t) ==
  LET rest == Rest(t)
  IN  /\ copying[t] = <<>> /\ frames[t] <= MaxFrames[t]
      /\ packet' = IF Sends(t) THEN [packet EXCEPT ![t] = Close(t)] ELSE packet
      /\ numberOfMessages' = [numberOfMessages EXCEPT ![t] = rest.number]
      /\ queue' = [queue EXCEPT
           ![t] = Finish(rest.queue, Bracket("idFrameBegin", t, frames[t] + 1))]
      /\ frames' = [frames EXCEPT ![t] = @ + 1]
      /\ UNCHANGED copying

\* Debug takes packets.
Take(T) ==
  /\ packet' = [t \in Thread |-> IF t \in T THEN Empty ELSE packet[t]]
  /\ UNCHANGED <<queue, numberOfMessages, copying, frames>>

ThreadNext(t) ==
  \/ \E id \in outputs[t] : Write(t, id)
  \/ \E ids \in Collections(t) : CopyAtOnce(t, ids) \/ CopyStepByStep(t, ids)
  \/ copyMessage(t)
  \/ EndFrame(t)

FrameNext ==
  \/ \E t \in Thread : ThreadNext(t)
  \/ \E T \in SUBSET Thread : Take(T)

FrameSpec == Init /\ [][FrameNext]_frameVars

-----------------------------------------------------------------------------
MessageQueueOK(q) ==
  /\ q \in [messages : Seq(Message), usedSize : Int, numberOfMessages : Nat,
            overdrawn : BOOLEAN]
  /\ q.numberOfMessages = Len(q.messages)
  /\ q.usedSize = Bytes(q.messages)
  /\ q.usedSize <= maximumSize

\* No queue ever uses more bytes than it has, and the numbers of messages are right.
TypeOK ==
  /\ \A t \in Thread : MessageQueueOK(queue[t]) /\ MessageQueueOK(packet[t])
  /\ numberOfMessages \in [Thread -> Nat]
  /\ copying \in [Thread -> Seq(Content)]
  /\ queue = [t \in Thread |-> queue[t]] /\ packet = [t \in Thread |-> packet[t]]
  /\ frames \in [Thread -> Nat]

\* Begin and end alternate, with something in between.
Alternating(ms) ==
  /\ ms /= <<>> => ms[1].id = "idFrameBegin"
  /\ \A i \in 1 .. Len(ms) - 1 :
       /\ ms[i].id = "idFrameBegin" => ms[i + 1].id \notin Brackets
       /\ ms[i].id = "idFrameFinished" <=> ms[i + 1].id = "idFrameBegin"

\* The messages of complete frames.
Complete(ms) ==
  /\ Alternating(ms)
  /\ ms /= <<>> => ms[Len(ms)].id = "idFrameFinished"

\* Thread t has opened a bracket behind the first k messages of q, and the reserve has
\* room for its end and for the brackets that follow.
BracketOpen(q, k, t) ==
  LET ms == q.messages
  IN  /\ k < Len(ms)
      /\ ms[k + 1].id = "idFrameBegin" /\ ms[k + 1].size = bracketSize[t]
      /\ \A i \in k + 2 .. Len(ms) : ms[i].id \notin Brackets
      /\ Alternating(ms)
      /\ q.usedSize + reserveForInfrastructure <=
           maximumSize + (IF Len(ms) = k + 1 THEN 2 * bracketSize[t] ELSE 0)

\* The invariant that implies CompleteFrames.
FramesInOrder ==
  /\ TypeOK
  /\ \A t \in Thread :
       /\ ~queue[t].overdrawn => BracketOpen(queue[t], numberOfMessages[t], t)
       /\ ~packet[t].overdrawn => Complete(packet[t].messages)

\* Messages of thread t that begin with a bracket, whatever was refused behind it.
Own(ms, t) ==
  /\ ms /= <<>> => ms[1].id = "idFrameBegin"
  /\ \A i \in 1 .. Len(ms) :
       /\ ms[i].from = t
       /\ ms[i].id \in Brackets => ms[i].size = bracketSize[t]

\* A thread never writes into an empty queue, even if the reserve was used by others.
OwnMessages ==
  \A t \in Thread :
    /\ Own(queue[t].messages, t) /\ queue[t].messages /= <<>>
    /\ Own(packet[t].messages, t)
    /\ \A i \in 1 .. Len(copying[t]) : copying[t][i].from = t

\* As long as the reserve was left to the brackets (see overdrawn), every packet
\* consists of complete frames: brackets are never refused (MessageQueueBase.cpp:186), and
\* removeLastMessage (ModuleContainer.cpp:126) takes back nothing but the open bracket.
CompleteFrames ==
  \A t \in Thread : ~packet[t].overdrawn => Complete(packet[t].messages)
=============================================================================
