---------------------------- MODULE MessageQueue ----------------------------
(***************************************************************************)
(* The queue in which a thread collects its debug messages.  Of the bytes  *)
(* of the buffer the model keeps the messages they hold, in order; a size  *)
(* includes the header of the message.                                     *)
(***************************************************************************)
EXTENDS Integers, Sequences

\* Messages that may also use the bytes reserved for infrastructure.
Infrastructure ==
  {"idFrameBegin", "idFrameFinished", "idDebugRequest", "idDebugResponse",
   "idDebugDataResponse", "idDebugDataChangeRequest", "idTypeInfo", "idModuleTable",
   "idModuleRequest", "idLogResponse", "idDrawingManager", "idDrawingManager3D",
   "idConsole", "idRobotname", "idFieldColors", "idAudioData"}

Brackets == {"idFrameBegin", "idFrameFinished"}

\* A new or cleared queue.  overdrawn is a history variable: since the queue was empty,
\* an infrastructure message other than a bracket or a direct copy used the reserve.
Empty ==
  [messages |-> <<>>, usedSize |-> 0, numberOfMessages |-> 0, overdrawn |-> FALSE]

\* The bytes of the first 0, 1, 2... messages, and of all of them.
BytesTo(ms) ==
  LET bytes[i \in 0 .. Len(ms)] == IF i = 0 THEN 0 ELSE bytes[i - 1] + ms[i].size
  IN  bytes
Bytes(ms) == BytesTo(ms)[Len(ms)]

AppendMessage(q, m, overdraws) ==
  [messages |-> Append(q.messages, m),
   usedSize |-> q.usedSize + m.size,
   numberOfMessages |-> q.numberOfMessages + 1,
   overdrawn |-> q.overdrawn \/ overdraws]

\* Whether size bytes still fit into a queue with maximumSize bytes.
reserve(q, size, maximumSize) == q.usedSize + size <= maximumSize

\* Mutant: the message's own size is left out of the comparison.
AcceptsBeforeSize(q, m, maximumSize, reserveForInfrastructure) ==
  /\ reserve(q, m.size, maximumSize)
  /\ \/ reserveForInfrastructure <= maximumSize - q.usedSize
     \/ m.id \in Infrastructure

\* Whether a message was written completely and may take its place.  All messages write
\* something, if only no bytes of a copied one, so reserve was called and the difference
\* (of size_t) is not negative.
Accepts(q, m, maximumSize, reserveForInfrastructure) ==
  /\ reserve(q, m.size, maximumSize)
  /\ \/ reserveForInfrastructure <= maximumSize - q.usedSize - m.size
     \/ m.id \in Infrastructure

\* Writing a message and finishing it.
finishMessage(q, m, maximumSize, reserveForInfrastructure) ==
  IF Accepts(q, m, maximumSize, reserveForInfrastructure)
    THEN AppendMessage(q, m,
           /\ m.id \in Infrastructure \ Brackets
           /\ maximumSize - q.usedSize - m.size < reserveForInfrastructure)
    ELSE q

removeLastMessage(q) ==
  IF q.numberOfMessages = 0
    THEN q
    ELSE LET n == Len(q.messages)
         IN  [q EXCEPT !.messages = SubSeq(q.messages, 1, n - 1),
                       !.usedSize = @ - q.messages[n].size,
                       !.numberOfMessages = @ - 1]

\* The direct copy of a queue: everything at once, without a look at the reserve.
copyAtOnce(q, other, maximumSize, reserveForInfrastructure) ==
  [messages |-> other.messages \o q.messages,
   usedSize |-> other.usedSize + q.usedSize,
   numberOfMessages |-> other.numberOfMessages + q.numberOfMessages,
   overdrawn |->
     \/ other.overdrawn
     \/ maximumSize - other.usedSize - q.usedSize < reserveForInfrastructure]

=============================================================================
