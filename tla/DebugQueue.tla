----------------------------- MODULE DebugQueue -----------------------------
(***************************************************************************)
(* The Debug thread moves the messages of all threads into one queue and   *)
(* removes repetitions before it offers the queue to the console.  What    *)
(* the console does not accept stays and is reduced again, together with   *)
(* what arrives later.  The threads are those of FrameQueue.               *)
(***************************************************************************)
EXTENDS FrameQueue, FiniteSets, SequencesExt

CONSTANTS
  receivers,      \* the receivers of Debug, a sequence of all threads
  debugSize,      \* size of Debug's own queue, which reserves nothing
  TextLimit,      \* 20: so many texts may follow one that is kept
  CounterSize,    \* 65536: messages of a type are counted in an unsigned short
  MaxAnswers      \* bound: answers of Debug itself

ASSUME DebugQueueAssumption ==
  /\ receivers \in Seq(Thread) /\ Range(receivers) = Thread
  /\ debugSize \in Nat /\ TextLimit \in Nat /\ MaxAnswers \in Nat
  /\ CounterSize \in Nat \ {0}
  /\ "idTypeInfo" \notin Ordinary

VARIABLES
  debugQueue,     \* Debug's debugSender, the queue to the console
  answers,        \* how many answers Debug wrote
  moved,          \* whether main has already moved the messages
  reduced,        \* whether repetitions were removed in the last main (history)
  arrived,        \* all messages that debugQueue accepted since it was last empty (history)
  lossless        \* since then, no queue has refused anything and the counters were wide
                  \* enough (history)

debugVars == <<debugQueue, answers, moved, reduced, arrived, lossless>>
vars == <<frameVars, debugVars>>

Unknown == "unknown"

DebugInit ==
  /\ Init
  /\ debugQueue = Empty
  /\ answers = 0
  /\ moved = FALSE /\ reduced = FALSE
  /\ arrived = <<>> /\ lossless = TRUE

-----------------------------------------------------------------------------
\* Debug's queue after 0, 1, 2... of the messages of q were copied.
Copied(q, other) ==
  LET copied[i \in 0 .. Len(q.messages)] ==
        IF i = 0 THEN other
                 ELSE finishMessage(copied[i - 1], q.messages[i], debugSize, 0)
  IN  copied

\* Copying all messages to Debug's queue: the direct copy if it is possible, otherwise one
\* by one.
copyAllMessages(q, other) ==
  IF reserve(other, q.usedSize, debugSize)
    THEN copyAtOnce(q, other, debugSize, 0)
    ELSE Copied(q, other)[Len(q.messages)]

\* Debug's queue after the packets of 0, 1, 2... receivers.
Received(start) ==
  LET received[i \in 0 .. Len(receivers)] ==
        IF i = 0 THEN start
                 ELSE copyAllMessages(packet[receivers[i]], received[i - 1])
  IN  received

\* Debug's answer to a request for the types.
TypeInfo == [id |-> "idTypeInfo", from |-> Unknown, frame |-> answers, size |-> 1]

\* Debug's own answer and the packets that arrived, in the order of the receivers.
Move(own) ==
  LET start == IF own THEN finishMessage(debugQueue, TypeInfo, debugSize, 0) ELSE debugQueue
      received == Received(start)
      all == received[Len(receivers)]
  IN  /\ debugQueue' = all
      /\ arrived' = arrived \o SubSeq(all.messages, Len(debugQueue.messages) + 1,
                                      Len(all.messages))
      /\ lossless' = /\ lossless
                     /\ \A t \in Thread : ~packet[t].overdrawn
                     /\ own => start /= debugQueue
                     /\ \A i \in 1 .. Len(receivers) :
                          received[i].numberOfMessages =
                            received[i - 1].numberOfMessages
                              + packet[receivers[i]].numberOfMessages
                     /\ all.numberOfMessages < CounterSize
      /\ packet' = [t \in Thread |-> Empty]

\* The first half of Debug::main.
MoveMessages ==
  /\ ~moved
  /\ \E own \in BOOLEAN :
       /\ own => answers < MaxAnswers
       /\ Move(own)
       /\ answers' = answers + IF own THEN 1 ELSE 0
  /\ moved' = TRUE
  /\ UNCHANGED <<queue, numberOfMessages, copying, frames, reduced>>

-----------------------------------------------------------------------------
AlwaysKept ==
  {"idDebugRequest", "idDebugResponse", "idDebugDataResponse", "idPlot", "idConsole",
   "idAudioData", "idAnnotation", "idLogResponse"}

\* idRobotPose stands for all messages that may be in log files (below
\* numOfDataMessageIDs) and are not mentioned elsewhere.
LatestFrameOnly ==
  {"idStopwatch", "idDebugImage", "idDebugDrawing", "idDebugDrawing3D", "idRobotPose"}

MessageID == Ordinary \cup Brackets \cup {"idTypeInfo"}

\* Which messages are counted down.
Counted(id) == id \notin AlwaysKept \cup LatestFrameOnly \cup {"idFrameBegin"}

\* The thread whose idFrameBegin is the last before message i.  What comes before the first
\* idFrameBegin is from an unknown thread.
Sender(ms, i) ==
  LET begins == {j \in 1 .. i : ms[j].id = "idFrameBegin"}
  IN  IF begins = {} THEN Unknown ELSE ms[Max(begins)].from

\* The messages of a type and a thread behind message i.
Left(ms, i, name, id) ==
  {j \in i + 1 .. Len(ms) : ms[j].id = id /\ Sender(ms, j) = name}

\* The first pass: how many messages of each type a thread sent.
Count(ms) ==
  [name \in Thread \cup {Unknown} |->
     [id \in MessageID |-> Cardinality(Left(ms, 0, name, id)) % CounterSize]]

\* Whether message m is kept, given what the scan s knows and how many messages of its
\* thread are left.
Copy(m, s, left) ==
  \/ m.id = "idText" /\ left["idText"] <= TextLimit
  \/ m.id \in AlwaysKept \cup {"idFrameBegin"}
  \/ m.id \in LatestFrameOnly /\ left["idFrameFinished"] = 1
  \/ m.id = "idFrameFinished" /\ ~s.frameEmpty
  \/ Counted(m.id) /\ m.id \notin {"idText", "idFrameFinished"} /\ left[m.id] = 0

NoFrame == -1

\* Mutant: the position is remembered although messages were kept after it.
FrameBeginRemembered(s, m, position, copy) ==
  IF copy /\ m.id = "idFrameBegin" THEN position ELSE s.frameBegin

\* Where to go back to if the next idFrameBegin comes: to the last one, but only as long
\* as nothing was kept after it.
FrameBegin(s, m, position, copy) ==
  CASE copy /\ m.id = "idFrameBegin" -> position
    [] copy /\ m.id \notin Brackets -> NoFrame
    [] OTHER -> s.frameBegin

\* How many messages are deleted by one step of the second pass.
Deleted(reverts, copy) == (IF reverts THEN 1 ELSE 0) + (IF copy THEN 0 ELSE 1)

\* The second pass for one message.  An idFrameBegin is kept for the time being; the next
\* one goes back to it if nothing was kept in between.
Scan(s, m) ==
  LET name == IF m.id = "idFrameBegin" THEN m.from ELSE s.name
      threads == IF Counted(m.id) THEN [s.threads EXCEPT ![name][m.id] = (@ - 1) % CounterSize]
                                  ELSE s.threads
      reverts == m.id = "idFrameBegin" /\ s.frameBegin /= NoFrame
      kept == IF reverts THEN SubSeq(s.kept, 1, s.frameBegin) ELSE s.kept
      copy == Copy(m, s, threads[name])
  IN  [name |-> name,
       threads |-> threads,
       kept |-> IF copy THEN Append(kept, m) ELSE kept,
       deleted |-> s.deleted + Deleted(reverts, copy),
       frameBegin |-> FrameBegin(s, m, Len(kept), copy),
       frameEmpty |-> IF copy THEN m.id \in Brackets ELSE s.frameEmpty]

\* Before the second pass, and after 0, 1, 2... messages.
ScanStart(ms) ==
  [name |-> Unknown, threads |-> Count(ms), kept |-> <<>>, deleted |-> 0,
   frameBegin |-> NoFrame, frameEmpty |-> TRUE]
Scanned(ms) ==
  LET scanned[i \in 0 .. Len(ms)] ==
        IF i = 0 THEN ScanStart(ms) ELSE Scan(scanned[i - 1], ms[i])
  IN  scanned

removeRepetitions(q) ==
  LET end == Scanned(q.messages)[Len(q.messages)]
  IN  [q EXCEPT !.messages = end.kept,
                !.numberOfMessages = @ - end.deleted,
                !.usedSize = Bytes(end.kept)]

\* The second half of Debug::main.  The console gets the queue if it has taken the last
\* one; with "debug:keepAllMessages" nothing is removed.
RemoveAndSend ==
  /\ moved /\ moved' = FALSE
  /\ \E keepAll, requestedNew \in BOOLEAN :
       LET q == IF keepAll THEN debugQueue ELSE removeRepetitions(debugQueue)
       IN  IF requestedNew
             THEN debugQueue' = Empty /\ arrived' = <<>> /\ lossless' = TRUE
                  /\ reduced' = FALSE
             ELSE debugQueue' = q /\ reduced' = ~keepAll /\ UNCHANGED <<arrived, lossless>>
  /\ UNCHANGED <<frameVars, answers>>

Next ==
  \/ \E t \in Thread : ThreadNext(t) /\ UNCHANGED debugVars
  \/ MoveMessages
  \/ RemoveAndSend

Spec == DebugInit /\ [][Next]_vars

-----------------------------------------------------------------------------
\* The number and the size of the messages in Debug's queue are what it says.
DebugQueueOK ==
  /\ debugQueue.numberOfMessages = Len(debugQueue.messages)
  /\ debugQueue.usedSize = Bytes(debugQueue.messages)
  /\ debugQueue.usedSize <= debugSize

\* removeRepetitions may rely on what it asserts (MessageQueueBase.cpp:296): an idFrameFinished
\* is of the thread that sent the last idFrameBegin, whatever was refused before.
Matched(ms) ==
  \A i \in 1 .. Len(ms) : ms[i].id = "idFrameFinished" => Sender(ms, i) = ms[i].from
FinishedMatches == Matched(debugQueue.messages)

\* What removeRepetitions takes for granted of the queue.
DebugQueueSound == DebugQueueOK /\ FinishedMatches

DebugMessage ==
  [id : MessageID, from : Thread \cup {Unknown}, frame : Nat, size : Nat \ {0}]

DebugTypeOK ==
  /\ debugQueue \in [messages : Seq(DebugMessage), usedSize : Int, numberOfMessages : Nat,
                      overdrawn : BOOLEAN]
  /\ answers \in Nat
  /\ arrived \in Seq(DebugMessage)

\* Message i of ms is not repeated by a later one.
Kept(ms, i) ==
  LET later(id) == Left(ms, i, Sender(ms, i), id)
      id == ms[i].id
  IN  CASE id \in AlwaysKept -> TRUE
        [] id \in LatestFrameOnly -> Cardinality(later("idFrameFinished")) = 1
        [] id = "idText" -> Cardinality(later(id)) <= TextLimit
        [] OTHER -> later(id) = {}

\* Message i is no bracket and carries information that no later message replaces.
Carries(ms, i) == ms[i].id \notin Brackets /\ Kept(ms, i)

\* Between messages i and j there is none of these types.
NoneBetween(ms, i, j, ids) == \A k \in i + 1 .. j - 1 : ms[k].id \notin ids

\* A bracket stays if there is something in it, and the last idFrameBegin.
Stays(ms, i) ==
  CASE ms[i].id = "idFrameBegin" ->
         \/ NoneBetween(ms, i, Len(ms) + 1, {"idFrameBegin"})
         \/ \E k \in i + 1 .. Len(ms) :
              Carries(ms, k) /\ NoneBetween(ms, i, k, {"idFrameBegin"})
    [] ms[i].id = "idFrameFinished" ->
         \E k \in 1 .. i - 1 : Carries(ms, k) /\ NoneBetween(ms, k, i, Brackets)
    [] OTHER -> Kept(ms, i)

\* The messages at the positions K.
Rank(K, i) == Cardinality({k \in K : k <= i})
Picked(ms, K) == [n \in 1 .. Cardinality(K) |-> ms[CHOOSE i \in K : Rank(K, i) = n]]

\* The messages of ms that carry information a later message does not replace, and the
\* brackets around them.
Latest(ms) == Picked(ms, {i \in 1 .. Len(ms) : Stays(ms, i)})

\* However often the console was not ready and repetitions were removed from what was left
\* over, Debug's queue holds what removing them from all messages at once would leave: of
\* each thread the latest messages, in the brackets of their frames.
LatestOfAllArrived ==
  reduced /\ ~moved /\ lossless => debugQueue.messages = Latest(arrived)

\* What is only kept for the latest frame is in a frame with an end.
FramesEnd(ms) ==
  \A i \in 1 .. Len(ms) : ms[i].id \in LatestFrameOnly =>
    \E j \in i + 1 .. Len(ms) : ms[j].id = "idFrameFinished" /\ NoneBetween(ms, i, j, Brackets)

\* Why LatestOfAllArrived holds: nothing is lost with the messages that were removed.
SameLatest ==
  lossless =>
    /\ FramesEnd(debugQueue.messages) /\ FramesEnd(arrived)
    /\ Latest(debugQueue.messages) = Latest(arrived)
    /\ debugQueue.numberOfMessages < CounterSize

\* The invariant that implies CompleteFrames and DebugQueueSound: what Debug gets from a
\* thread begins with the thread's idFrameBegin, so that nothing can follow another
\* thread's.
IInv ==
  /\ FramesInOrder /\ OwnMessages
  /\ DebugTypeOK /\ DebugQueueSound
  /\ SameLatest /\ LatestOfAllArrived
=============================================================================
