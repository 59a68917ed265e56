---------------------------- MODULE LoggerProofs -----------------------------
(***************************************************************************)
(* For any number of threads, buffers and frames: buffers have one owner,  *)
(* the front that the writer looks at without the lock is there, and the   *)
(* frames of each thread follow each other in the log file.                *)
(***************************************************************************)
EXTENDS Logger, FiniteSetTheorems, SequenceTheorems, TLAPS

USE LoggerAssumption DEF LoggerAssumption

\* A frame is not the content of a clear buffer.
LEMMA ClearIsNoFrame == Clear \notin Frame
  BY DEF Clear, Frame

\* What is put into a clear buffer is a frame of its own.
LEMMA FilledContent ==
  ASSUME NEW t \in Threads, NEW n \in 1..MaxFrames
  PROVE  /\ Clear \o <<t, n>> = <<t, n>>
         /\ <<t, n>> \in Frame /\ <<t, n>> # Clear
         /\ <<t, n>>[1] = t /\ <<t, n>>[2] = n
<1>1. <<t, n>> \in Seq(Threads \cup (1..MaxFrames))
  OBVIOUS
<1>2. Clear \o <<t, n>> = <<t, n>>
  BY <1>1, ConcatEmptySeq DEF Clear
<1>3. <<t, n>> \in Frame
  BY DEF Frame
<1> QED
  BY <1>2, <1>3, ClearIsNoFrame

\* The parts of a frame.
LEMMA FrameParts ==
  ASSUME NEW f \in Frame PROVE f[1] \in Threads /\ f[2] \in 1..MaxFrames
  BY DEF Frame

\* The posting threads are finitely many; each thread counts once.
LEMMA PostingCounted ==
  ASSUME TypeOK, NEW t \in Threads
  PROVE  /\ Cardinality(Posting) \in Nat
         /\ Cardinality(Posting \cup {t})
              = IF pc[t] = "post" THEN Cardinality(Posting) ELSE Cardinality(Posting) + 1
         /\ Cardinality(Posting \ {t})
              = IF pc[t] = "post" THEN Cardinality(Posting) - 1 ELSE Cardinality(Posting)
<1>1. IsFiniteSet(Posting)
  BY FS_Subset DEF Posting
<1>2. t \in Posting <=> pc[t] = "post"
  BY DEF Posting
<1> QED
  BY <1>1, <1>2, FS_CardinalityType, FS_AddElement, FS_RemoveElement

\* At the start all buffers are in the pool.
LEMMA InitIInv == Init => IInv
<1> SUFFICES ASSUME Init PROVE IInv
  OBVIOUS
<1> USE DEF Init
<1>1. toWrite \in Seq(Buffers) /\ file \in Seq(Frame) /\ DOMAIN toWrite = {}
  <2>1. toWrite = <<>> /\ file = <<>>
    OBVIOUS
  <2> HIDE DEF Init
  <2> QED
    BY <2>1, EmptySeq
<1>2. TypeOK
  <2>1. logging \in BOOLEAN /\ hasLogged \in BOOLEAN /\ running \in BOOLEAN
    BY Zenon
  <2>2. loggingNow \in [Threads -> BOOLEAN] /\ frames \in [Threads -> 0..MaxFrames]
    OBVIOUS
  <2> QED
    BY <1>1, <2>1, <2>2 DEF TypeOK
<1>3. OneOwner
  <2>1. Waiting = {}
    BY <1>1 DEF Waiting
  <2>2. \A t \in Threads : mine[t] = Nobody
    OBVIOUS
  <2> QED
    BY <1>1, <2>1, <2>2 DEF OneOwner
<1>4. FramesHeld /\ ThreadsSound /\ FrontIsThere
  BY <1>1 DEF FramesHeld, ThreadsSound, FrontIsThere
<1>5. PostsCounted
  <2>1. Posting = {}
    BY DEF Posting
  <2> QED
    BY <2>1, FS_EmptySet DEF PostsCounted
<1>6. FramesInOrder
  BY DEF FramesInOrder, Logged, Precedes
<1> QED
  BY <1>2, <1>3, <1>4, <1>5, <1>6 DEF IInv

-----------------------------------------------------------------------------
(* Steps that move a thread on, but no buffer. *)

\* A frame that is still logged before the next step of its thread.
StillLogged(f) ==
  f # Clear => /\ f[2] <= frames'[f[1]]
               /\ pc'[f[1]] \in {"fill", "push"} => f[2] < frames'[f[1]]

\* While the frames of the threads only grow and no thread starts or stops filling a
\* buffer, what was logged before stays so.
LEMMA LoggedStays ==
  ASSUME TypeOK, TypeOK', NEW f \in Frame \cup {Clear}, Logged(f),
         \A t \in Threads : /\ frames[t] <= frames'[t]
                            /\ pc'[t] \in {"fill", "push"} =>
                                 pc[t] \in {"fill", "push"} \/ frames[t] < frames'[t]
  PROVE  StillLogged(f)
<1> SUFFICES ASSUME f # Clear
             PROVE  /\ f[2] <= frames'[f[1]]
                    /\ pc'[f[1]] \in {"fill", "push"} => f[2] < frames'[f[1]]
  BY DEF StillLogged
<1>1. f[1] \in Threads /\ f[2] \in 1..MaxFrames
  BY FrameParts
<1>2. frames[f[1]] \in Nat /\ frames'[f[1]] \in Nat
  BY <1>1 DEF TypeOK
<1>3. f[2] <= frames[f[1]] /\ (pc[f[1]] \in {"fill", "push"} => f[2] < frames[f[1]])
  BY DEF Logged
<1> HIDE DEF TypeOK
<1> QED
  BY <1>1, <1>2, <1>3

\* The contents of the queue, the file and the compressed buffer have their types.
LEMMA FramesTyped ==
  ASSUME TypeOK
  PROVE  /\ \A i \in DOMAIN toWrite :
              toWrite[i] \in Buffers /\ content[toWrite[i]] \in Frame \cup {Clear}
         /\ \A i \in DOMAIN file : file[i] \in Frame
         /\ compressed \in Frame \cup {Clear}
         /\ Len(toWrite) \in Nat /\ DOMAIN toWrite = 1..Len(toWrite)
  BY ElementOfSeq, LenProperties DEF TypeOK

\* So the order stays when no frame is moved.
LEMMA OrderStays ==
  ASSUME TypeOK, TypeOK', FramesInOrder, UNCHANGED <<toWrite, compressed, file>>,
         \A i \in DOMAIN toWrite : content'[toWrite[i]] = content[toWrite[i]],
         \A t \in Threads : /\ frames[t] <= frames'[t]
                            /\ pc'[t] \in {"fill", "push"} =>
                                 pc[t] \in {"fill", "push"} \/ frames[t] < frames'[t]
  PROVE  FramesInOrder'
<1> USE FramesTyped DEF FramesInOrder
<1>1. Logged(compressed)'
  BY LoggedStays DEF Logged, StillLogged
<1>2. \A i \in DOMAIN file : Logged(file[i])'
  BY LoggedStays DEF Logged, StillLogged
<1>3. \A j \in DOMAIN toWrite : Logged(content[toWrite[j]])'
  BY LoggedStays DEF Logged, StillLogged
<1> QED
  BY <1>1, <1>2, <1>3 DEF Precedes

\* The look at the game state, the flags, the search for a buffer that ends without one.
LEMMA QuietSteps ==
  ASSUME IInv, NEW t \in Threads,
         \/ Enter(t) \/ Decide(t) \/ NameFile(t) \/ Switch(t) \/ CheckFinished(t) \/ Say(t)
         \/ StartFrame(t) \/ SetHasLogged(t) \/ Drop(t)
  PROVE  IInv'
<1> USE DEF IInv
<1>1. /\ UNCHANGED <<available, toWrite, framesToWrite, content, mine, running, wpc, buffer,
                     compressed, file>>
      /\ pc[t] \notin {"fill", "push", "post"}
      /\ \E l \in {"idle", "decide", "name", "switch", "finished?", "logged?", "empty?",
                   "say", "log?", "claim"} :
           /\ pc' = [pc EXCEPT ![t] = l]
           /\ l \in {"decide", "name"} => t \in GameInfoThreads
           /\ l = "claim" => frames'[t] < MaxFrames
      /\ \/ frames' = frames
         \/ pc[t] = "claim" /\ frames' = [frames EXCEPT ![t] = @ + 1]
  <2> USE DEF Goto, poolVars, writerVars, TypeOK
  <2>1. CASE Decide(t)
    BY <2>1 DEF Decide, ThreadsSound
  <2>9. CASE Enter(t)
    BY <2>9 DEF Enter
  <2>2. CASE NameFile(t)
    BY <2>2 DEF NameFile
  <2>3. CASE Switch(t)
    BY <2>3 DEF Switch
  <2>4. CASE CheckFinished(t)
    BY <2>4 DEF CheckFinished
  <2>5. CASE Say(t)
    BY <2>5 DEF Say
  <2>6. CASE StartFrame(t)
    BY <2>6 DEF StartFrame
  <2>7. CASE SetHasLogged(t)
    BY <2>7 DEF SetHasLogged
  <2>8. CASE Drop(t)
    BY <2>8 DEF Drop
  <2> QED
    BY <2>1, <2>2, <2>3, <2>4, <2>5, <2>6, <2>7, <2>8, <2>9
<1>2. /\ gameInfoThreadName' \in GameInfoThreads \cup {Nobody}
      /\ logging' \in BOOLEAN /\ hasLogged' \in BOOLEAN
      /\ loggingNow' \in [Threads -> BOOLEAN]
  <2>1. /\ gameInfoThreadName' = gameInfoThreadName \/ gameInfoThreadName' \in GameInfoThreads
        /\ logging' = logging \/ logging' = loggingNow[t]
        /\ hasLogged' = hasLogged \/ hasLogged' \in BOOLEAN
        /\ loggingNow' = loggingNow
             \/ \E now \in BOOLEAN : loggingNow' = [loggingNow EXCEPT ![t] = now]
    BY Zenon DEF Enter, Decide, NameFile, Switch, CheckFinished, Say, StartFrame, SetHasLogged, Drop,
           flagVars, ThreadsSound
  <2>2. /\ gameInfoThreadName \in GameInfoThreads \cup {Nobody}
        /\ logging \in BOOLEAN /\ hasLogged \in BOOLEAN
        /\ loggingNow \in [Threads -> BOOLEAN]
    BY Zenon DEF TypeOK
  <2>3. loggingNow[t] \in BOOLEAN
    BY <2>2, Zenon
  <2>4. logging' \in BOOLEAN /\ hasLogged' \in BOOLEAN
    BY <2>1, <2>2, <2>3, Zenon
  <2>5. loggingNow' \in [Threads -> BOOLEAN]
    BY <2>1, <2>2
  <2>6. gameInfoThreadName' \in GameInfoThreads \cup {Nobody}
    BY <2>1, <2>2, Zenon
  <2> QED
    BY <2>4, <2>5, <2>6, Zenon
<1>3. TypeOK'
  <2>1. pc' \in [Threads -> {"idle", "decide", "name", "switch", "finished?", "logged?",
                            "empty?", "say", "log?", "claim", "fill", "push", "post", "logged"}]
    BY <1>1 DEF TypeOK
  <2>2. frames' \in [Threads -> 0..MaxFrames]
    BY <1>1 DEF TypeOK, ThreadsSound
  <2>3. running' \in BOOLEAN
    BY <1>1, Zenon DEF TypeOK
  <2> QED
    BY <1>1, <1>2, <2>1, <2>2, <2>3 DEF TypeOK
<1>4. OneOwner'
  BY <1>1 DEF OneOwner, Waiting
<1>5. FramesHeld' /\ FrontIsThere'
  BY <1>1 DEF FramesHeld, FrontIsThere
<1>6. ThreadsSound'
  BY <1>1 DEF ThreadsSound, TypeOK
<1>7. PostsCounted'
  <2>1. Posting' = Posting
    BY <1>1 DEF Posting, TypeOK
  <2> QED
    BY <1>1, <2>1 DEF PostsCounted
<1>8. FramesInOrder'
  <2>1. \A u \in Threads : /\ frames[u] <= frames'[u]
                           /\ pc'[u] \in {"fill", "push"} => pc[u] \in {"fill", "push"}
    BY <1>1 DEF TypeOK
  <2> QED
    BY <1>1, <1>3, <2>1, OrderStays
<1> QED
  BY <1>3, <1>4, <1>5, <1>6, <1>7, <1>8

-----------------------------------------------------------------------------
(* The way of a buffer from the pool to the queue. *)

Locations == {"idle", "decide", "name", "switch", "finished?", "logged?", "empty?", "say",
              "log?", "claim", "fill", "push", "post", "logged"}

\* The thread takes a buffer out of the pool.
LEMMA ClaimStep == ASSUME IInv, NEW t \in Threads, Claim(t) PROVE IInv'
<1> USE DEF IInv
<1>1. PICK b \in available : /\ available' = available \ {b}
                             /\ mine' = [mine EXCEPT ![t] = b]
  BY DEF Claim
<1>2. /\ UNCHANGED <<gameInfoThreadName, logging, hasLogged, toWrite, framesToWrite, content,
                     loggingNow, running, wpc, buffer, compressed, file>>
      /\ pc[t] = "claim" /\ pc' = [pc EXCEPT ![t] = "fill"]
      /\ frames' = [frames EXCEPT ![t] = @ + 1] /\ frames[t] < MaxFrames
      /\ b \in Buffers /\ b # Nobody /\ content[b] = Clear
  BY <1>1 DEF Claim, Goto, flagVars, writerVars, ThreadsSound, FramesHeld, TypeOK
<1>3. TypeOK'
  <2>1. pc' \in [Threads -> Locations] /\ mine' \in [Threads -> Buffers \cup {Nobody}]
    BY <1>1, <1>2 DEF TypeOK, Locations
  <2>2. frames' \in [Threads -> 0..MaxFrames]
    BY <1>2 DEF TypeOK
  <2>3. logging' \in BOOLEAN /\ hasLogged' \in BOOLEAN /\ running' \in BOOLEAN
    BY <1>2, Zenon DEF TypeOK
  <2> QED
    BY <1>1, <1>2, <2>1, <2>2, <2>3 DEF TypeOK, Locations
<1>4. OneOwner'
  <2>1. Waiting' = Waiting /\ mine' \in [Threads -> Buffers \cup {Nobody}]
    BY <1>1, <1>2 DEF Waiting, TypeOK
  <2>2. mine'[t] = b /\ \A u \in Threads : u # t => mine'[u] = mine[u]
    BY <1>1 DEF TypeOK
  <2>3. \A u, v \in Threads : u # v /\ mine'[u] # Nobody => mine'[u] # mine'[v]
    BY <1>1, <2>2 DEF OneOwner
  <2>4. \A u \in Threads : mine'[u] \notin available' \cup Waiting'
    BY <1>1, <2>1, <2>2 DEF OneOwner
  <2>5. \A c \in Buffers : c \in available' \cup Waiting' \/ \E u \in Threads : mine'[u] = c
    <3> SUFFICES ASSUME NEW c \in Buffers, c \notin available', c \notin Waiting'
                 PROVE  \E u \in Threads : mine'[u] = c
      OBVIOUS
    <3>1. CASE c = b
      BY <3>1, <2>2
    <3>2. CASE c # b
      <4>1. PICK u \in Threads : mine[u] = c
        BY <3>2, <1>1, <2>1 DEF OneOwner
      <4>2. mine[t] = Nobody
        BY <1>2 DEF ThreadsSound
      <4> QED
        BY <4>1, <4>2, <2>2, LoggerAssumption
    <3> QED
      BY <3>1, <3>2
  <2> QED
    BY <1>1, <1>2, <2>1, <2>3, <2>4, <2>5 DEF OneOwner
<1>5. FramesHeld' /\ FrontIsThere'
  BY <1>1, <1>2 DEF FramesHeld, FrontIsThere
<1>6. ThreadsSound'
  BY <1>1, <1>2 DEF ThreadsSound, TypeOK
<1>7. PostsCounted'
  <2>1. Posting' = Posting
    BY <1>2 DEF Posting, TypeOK
  <2> QED
    BY <1>2, <2>1 DEF PostsCounted
<1>8. FramesInOrder'
  <2>1. \A u \in Threads : /\ frames[u] <= frames'[u]
                           /\ pc'[u] \in {"fill", "push"} =>
                                pc[u] \in {"fill", "push"} \/ frames[u] < frames'[u]
    BY <1>2 DEF TypeOK
  <2> QED
    BY <1>2, <1>3, <2>1, OrderStays
<1> QED
  BY <1>3, <1>4, <1>5, <1>6, <1>7, <1>8

\* The thread fills its buffer, which nobody else uses.
LEMMA FillStep == ASSUME IInv, NEW t \in Threads, Fill(t) PROVE IInv'
<1> USE DEF IInv
<1>1. /\ UNCHANGED <<gameInfoThreadName, logging, hasLogged, available, toWrite, framesToWrite,
                     mine, frames, loggingNow, running, wpc, buffer, compressed, file>>
      /\ pc[t] = "fill" /\ pc' = [pc EXCEPT ![t] = "push"]
      /\ mine[t] \in Buffers /\ content[mine[t]] = Clear /\ frames[t] \in 1..MaxFrames
      /\ content' = [content EXCEPT ![mine[t]] = @ \o <<t, frames[t]>>]
  BY DEF Fill, Goto, flagVars, writerVars, ThreadsSound, TypeOK
<1>2. /\ content' = [content EXCEPT ![mine[t]] = <<t, frames[t]>>]
      /\ <<t, frames[t]>> \in Frame /\ <<t, frames[t]>> # Clear
  BY <1>1, FilledContent
<1>3. TypeOK'
  <2>1. pc' \in [Threads -> Locations]
    BY <1>1 DEF TypeOK, Locations
  <2>3. content' \in [Buffers -> Frame \cup {Clear}]
    BY <1>2, Zenon DEF TypeOK
  <2>2. logging' \in BOOLEAN /\ hasLogged' \in BOOLEAN /\ running' \in BOOLEAN
    BY <1>1, Zenon DEF TypeOK
  <2> QED
    BY <1>1, <2>1, <2>2, <2>3 DEF TypeOK, Locations
<1>4. OneOwner'
  BY <1>1 DEF OneOwner, Waiting
<1>5. \A b \in available : content'[b] = content[b]
  BY <1>1, <1>2 DEF OneOwner, TypeOK
<1>6. \A i \in DOMAIN toWrite : content'[toWrite[i]] = content[toWrite[i]]
  BY <1>1, <1>2, FramesTyped DEF OneOwner, Waiting, TypeOK
<1>7. \A u \in Threads :
        u # t /\ pc[u] \in {"fill", "push"} => content'[mine[u]] = content[mine[u]]
  BY <1>1, <1>2 DEF OneOwner, ThreadsSound, TypeOK
<1>8. FramesHeld' /\ FrontIsThere'
  <2>1. UNCHANGED <<available, toWrite, running, wpc, buffer, compressed>>
    BY <1>1
  <2>2. FramesHeld'
    BY <2>1, <1>5, <1>6 DEF FramesHeld
  <2> QED
    BY <2>1, <2>2 DEF FrontIsThere
<1>9. ThreadsSound'
  <2>1. content'[mine[t]] = <<t, frames[t]>>
    BY <1>1, <1>2 DEF TypeOK
  <2>2. pc'[t] = "push" /\ \A u \in Threads : u # t => pc'[u] = pc[u]
    BY <1>1 DEF TypeOK
  <2>3. UNCHANGED <<frames, mine>>
    BY <1>1
  <2> HIDE <1>1, <1>2
  <2> SUFFICES ASSUME NEW u \in Threads
               PROVE  /\ pc'[u] \in {"decide", "name"} => u \in GameInfoThreads
                      /\ pc'[u] = "claim" => frames[u] < MaxFrames
                      /\ mine[u] # Nobody <=> pc'[u] \in {"fill", "push"}
                      /\ pc'[u] = "fill" => content'[mine[u]] = Clear /\ frames[u] > 0
                      /\ pc'[u] = "push" => content'[mine[u]] = <<u, frames[u]>>
    BY <2>3 DEF ThreadsSound
  <2>4. CASE u = t
    BY <2>4, <2>1, <2>2, <1>1 DEF ThreadsSound
  <2>5. CASE u # t
    BY <2>5, <2>2, <1>7 DEF ThreadsSound
  <2> QED
    BY <2>4, <2>5
<1>10. PostsCounted'
  <2>1. Posting' = Posting
    BY <1>1 DEF Posting, TypeOK
  <2> QED
    BY <1>1, <2>1 DEF PostsCounted
<1>11. FramesInOrder'
  <2>1. \A u \in Threads : /\ frames[u] <= frames'[u]
                           /\ pc'[u] \in {"fill", "push"} => pc[u] \in {"fill", "push"}
    BY <1>1 DEF TypeOK
  <2> QED
    BY <1>1, <1>3, <1>6, <2>1, OrderStays
<1> QED
  BY <1>3, <1>4, <1>8, <1>9, <1>10, <1>11

\* The thread hands its buffer over: no frame in the queue, in the file or on the way
\* to it is later.
LEMMA PushStep == ASSUME IInv, NEW t \in Threads, Push(t) PROVE IInv'
<1> USE DEF IInv
<1> DEFINE b == mine[t]
           n == Len(toWrite)
<1>1. /\ UNCHANGED <<gameInfoThreadName, logging, hasLogged, available, framesToWrite, content,
                     frames, loggingNow, running, wpc, buffer, compressed, file>>
      /\ pc[t] = "push" /\ pc' = [pc EXCEPT ![t] = "post"]
      /\ b \in Buffers /\ content[b] = <<t, frames[t]>>
      /\ toWrite' = Append(toWrite, b) /\ mine' = [mine EXCEPT ![t] = Nobody]
      /\ b \notin available /\ b \notin Waiting
  BY DEF Push, Goto, flagVars, writerVars, ThreadsSound, TypeOK, OneOwner
<1>2. /\ content[b] \in Frame /\ content[b] # Clear
      /\ content[b][1] = t /\ content[b][2] = frames[t] /\ frames[t] \in 1..MaxFrames
  <2>1. content[b] \in Frame \cup {Clear} /\ <<t, frames[t]>> # Clear
    BY <1>1 DEF TypeOK, Clear
  <2>2. content[b] \in Frame
    BY <1>1, <2>1
  <2> QED
    BY <1>1, <2>1, <2>2, FrameParts
<1>3. /\ toWrite' \in Seq(Buffers) /\ n \in Nat /\ Len(toWrite') = n + 1
      /\ DOMAIN toWrite = 1..n /\ DOMAIN toWrite' = 1..(n + 1)
      /\ toWrite'[n + 1] = b /\ \A i \in 1..n : toWrite'[i] = toWrite[i]
  BY <1>1, AppendProperties, LenProperties DEF TypeOK
<1> HIDE DEF b, n
<1>4. TypeOK'
  <2>1. pc' \in [Threads -> Locations] /\ mine' \in [Threads -> Buffers \cup {Nobody}]
    BY <1>1 DEF TypeOK, Locations
  <2>2. logging' \in BOOLEAN /\ hasLogged' \in BOOLEAN /\ running' \in BOOLEAN
    BY <1>1, Zenon DEF TypeOK
  <2> QED
    BY <1>1, <1>3, <2>1, <2>2 DEF TypeOK, Locations
<1>5. Waiting' = Waiting \cup {b}
  BY <1>3 DEF Waiting
<1>6. OneOwner'
  <2>1. \A u, v \in Threads : u # v /\ mine'[u] # Nobody => mine'[u] # mine'[v]
    BY <1>1 DEF OneOwner, TypeOK
  <2>2. \A u \in Threads : mine'[u] \notin available' \cup Waiting'
    BY <1>1, <1>5 DEF OneOwner, TypeOK, b, Waiting
  <2>3. available' \cap Waiting' = {}
    BY <1>1, <1>5 DEF OneOwner
  <2>4. \A i, j \in DOMAIN toWrite' : i # j => toWrite'[i] # toWrite'[j]
    BY <1>1, <1>3 DEF OneOwner, Waiting
  <2>5. \A c \in Buffers : c \in available' \cup Waiting' \/ \E u \in Threads : mine'[u] = c
    BY <1>1, <1>5 DEF OneOwner, TypeOK, b
  <2> QED
    BY <2>1, <2>2, <2>3, <2>4, <2>5 DEF OneOwner
<1>7. FrontIsThere'
  BY <1>1, <1>3 DEF FrontIsThere
<1>8. FramesHeld'
  <2>1. wpc = "return" => n > 0
    BY <1>3 DEF FrontIsThere, n
  <2>2. \A i \in 1..(n + 1) : content[toWrite'[i]] = Clear <=> wpc = "return" /\ i = 1
    BY <1>2, <1>3, <2>1 DEF FramesHeld
  <2> QED
    BY <1>1, <1>3, <2>2 DEF FramesHeld
<1>9. ThreadsSound'
  BY <1>1 DEF ThreadsSound, TypeOK
<1>10. PostsCounted'
  <2>1. Posting' = Posting \cup {t}
    BY <1>1 DEF Posting, TypeOK
  <2>2. Cardinality(Posting') = Cardinality(Posting) + 1 /\ Cardinality(Posting) \in Nat
    BY <1>1, <2>1, PostingCounted
  <2>3. framesToWrite \in Nat
    BY DEF TypeOK
  <2> QED
    BY <1>1, <1>3, <2>2, <2>3 DEF PostsCounted, n
<1>11. FramesInOrder'
  <2>1. \A f \in Frame \cup {Clear} : Logged(f) => Precedes(f, content[b])
    BY <1>1, <1>2 DEF Logged, Precedes
  <2>2. \A u \in Threads : /\ frames[u] <= frames'[u]
                           /\ pc'[u] \in {"fill", "push"} => pc[u] \in {"fill", "push"}
    BY <1>1 DEF TypeOK
  <2>3. Logged(compressed)' /\ \A i \in DOMAIN file : Logged(file[i])'
    BY <1>1, <1>4, <2>2, FramesTyped, LoggedStays DEF FramesInOrder, Logged, StillLogged
  <2>4. \A j \in 1..n : StillLogged(content'[toWrite'[j]])
    BY <1>1, <1>3, <1>4, <2>2, FramesTyped, LoggedStays DEF FramesInOrder
  <2>7. content'[toWrite'[n + 1]] = content[b]
    BY <1>1, <1>3
  <2>5. StillLogged(content'[toWrite'[n + 1]])
    <3>1. pc'[t] = "post" /\ frames' = frames
      BY <1>1 DEF TypeOK
    <3>2. frames[t] <= frames[t]
      BY <1>2
    <3>3. content'[toWrite'[n + 1]][1] = t /\ content'[toWrite'[n + 1]][2] = frames[t]
      BY <2>7, <1>2
    <3> QED
      BY <3>1, <3>2, <3>3 DEF StillLogged
  <2>6. \A j \in 1..n :
          /\ content'[toWrite'[j]] = content[toWrite[j]]
          /\ Precedes(content[toWrite[j]], content[b])
    BY <1>1, <1>3, <2>1, FramesTyped DEF FramesInOrder
  <2>8. \A j \in 1..(n + 1) :
          /\ StillLogged(content'[toWrite'[j]]) /\ Precedes(compressed, content'[toWrite'[j]])
          /\ \A i \in DOMAIN file : Precedes(file[i], content'[toWrite'[j]])
    <3> TAKE j \in 1..(n + 1)
    <3>1. CASE j = n + 1
      <4>1. Precedes(compressed, content[b])
        BY <2>1, FramesTyped DEF FramesInOrder
      <4>2. \A i \in DOMAIN file : Precedes(file[i], content[b])
        BY <2>1, FramesTyped DEF FramesInOrder
      <4> QED
        BY <3>1, <4>1, <4>2, <2>5, <2>7
    <3>2. CASE j \in 1..n
      BY <3>2, <2>4, <2>6, <1>3 DEF FramesInOrder
    <3> QED
      BY <3>1, <3>2, <1>3
  <2>9. \A i, j \in 1..(n + 1) :
          i < j => Precedes(content'[toWrite'[i]], content'[toWrite'[j]])
    <3> TAKE i, j \in 1..(n + 1)
    <3>1. CASE j = n + 1 /\ i \in 1..n
      BY <3>1, <2>6, <2>7
    <3>2. CASE j \in 1..n /\ i \in 1..n
      BY <3>2, <2>6, <1>3 DEF FramesInOrder
    <3> QED
      BY <3>1, <3>2, <1>3
  <2> QED
    BY <1>1, <1>3, <2>3, <2>8, <2>9 DEF FramesInOrder, Precedes, Logged, StillLogged
<1> QED
  BY <1>4, <1>6, <1>7, <1>8, <1>9, <1>10, <1>11

\* The post follows the push.
LEMMA PostStep == ASSUME IInv, NEW t \in Threads, Post(t) PROVE IInv'
<1> USE DEF IInv
<1>1. /\ UNCHANGED <<gameInfoThreadName, logging, hasLogged, available, toWrite, content, mine,
                     frames, loggingNow, running, wpc, buffer, compressed, file>>
      /\ pc[t] = "post" /\ pc' = [pc EXCEPT ![t] = "logged"]
      /\ framesToWrite' = framesToWrite + 1 /\ framesToWrite \in Nat
  BY DEF Post, Goto, flagVars, writerVars, TypeOK
<1>2. TypeOK'
  <2>1. pc' \in [Threads -> Locations]
    BY <1>1 DEF TypeOK, Locations
  <2>2. logging' \in BOOLEAN /\ hasLogged' \in BOOLEAN /\ running' \in BOOLEAN
    BY <1>1, Zenon DEF TypeOK
  <2> QED
    BY <1>1, <2>1, <2>2 DEF TypeOK, Locations
<1>3. OneOwner' /\ FramesHeld' /\ FrontIsThere'
  BY <1>1 DEF OneOwner, Waiting, FramesHeld, FrontIsThere
<1>4. ThreadsSound'
  BY <1>1 DEF ThreadsSound, TypeOK
<1>5. PostsCounted'
  <2>1. Posting' = Posting \ {t}
    BY <1>1 DEF Posting, TypeOK
  <2>2. Cardinality(Posting') = Cardinality(Posting) - 1 /\ Cardinality(Posting) \in Nat
    BY <1>1, <2>1, PostingCounted
  <2>3. Len(toWrite) \in Nat
    BY FramesTyped
  <2> QED
    BY <1>1, <2>2, <2>3 DEF PostsCounted
<1>6. FramesInOrder'
  <2>1. \A u \in Threads : /\ frames[u] <= frames'[u]
                           /\ pc'[u] \in {"fill", "push"} => pc[u] \in {"fill", "push"}
    BY <1>1 DEF TypeOK
  <2> QED
    BY <1>1, <1>2, <2>1, OrderStays
<1> QED
  BY <1>2, <1>3, <1>4, <1>5, <1>6

-----------------------------------------------------------------------------
(* The writer. *)

\* A step that moves no thread keeps what the threads have got.
LEMMA ThreadsStay ==
  ASSUME TypeOK, OneOwner, ThreadsSound, UNCHANGED <<pc, mine, frames>>,
         \A b \in Buffers : content'[b] = content[b] \/ b \in Waiting
  PROVE  ThreadsSound'
<1> SUFFICES ASSUME NEW t \in Threads, mine[t] # Nobody
             PROVE  content'[mine[t]] = content[mine[t]]
  BY DEF ThreadsSound
<1> QED
  BY DEF OneOwner, TypeOK

\* The types and the owners of the buffers do not change with the writer's location.
LEMMA WriterMoves ==
  ASSUME TypeOK, OneOwner,
         UNCHANGED <<flagVars, available, toWrite, threadVars, content, compressed, file>>,
         framesToWrite' \in Nat, running' \in BOOLEAN,
         wpc' \in {"wait", "check", "compress", "return", "write", "ended"},
         buffer' \in Buffers \cup {Nobody}
  PROVE  TypeOK' /\ OneOwner' /\ Posting' = Posting
<1>1. logging' \in BOOLEAN /\ hasLogged' \in BOOLEAN
  BY Zenon DEF TypeOK, flagVars
<1>2. TypeOK'
  BY <1>1 DEF TypeOK, flagVars, threadVars
<1> QED
  BY <1>2 DEF OneOwner, Waiting, Posting, threadVars

\* Waiting, giving up, and looking at the front.
LEMMA WriterWaitStep == ASSUME IInv, WriterWait PROVE IInv'
<1> USE DEF IInv
<1>1. /\ UNCHANGED <<flagVars, available, toWrite, content, threadVars, running, buffer,
                     compressed, file>>
      /\ UNCHANGED <<pc, mine, frames>>
      /\ framesToWrite \in Nat /\ framesToWrite > 0 /\ framesToWrite' = framesToWrite - 1
      /\ wpc = "wait" /\ wpc' = "check"
  BY DEF WriterWait, threadVars, TypeOK
<1>2. running' \in BOOLEAN /\ buffer' \in Buffers \cup {Nobody} /\ framesToWrite' \in Nat
  BY <1>1 DEF TypeOK
<1>3. TypeOK' /\ OneOwner' /\ Posting' = Posting
  BY <1>1, <1>2, WriterMoves
<1>4. FramesHeld' /\ ThreadsSound' /\ FramesInOrder'
  BY <1>1 DEF FramesHeld, ThreadsSound, FramesInOrder, Logged, Precedes
<1>5. PostsCounted'
  <2>1. Cardinality(Posting) \in Nat
    BY FS_Subset, FS_CardinalityType DEF Posting
  <2>2. Len(toWrite) \in Nat
    BY FramesTyped
  <2>3. running => Len(toWrite) >= framesToWrite + Cardinality(Posting)
    BY <1>1, <2>1, <2>2 DEF PostsCounted
  <2> QED
    BY <1>1, <1>3, <2>1, <2>2, <2>3 DEF PostsCounted
<1>6. FrontIsThere'
  <2>1. Cardinality(Posting) \in Nat
    BY FS_Subset, FS_CardinalityType DEF Posting
  <2>2. running => Len(toWrite) > 0
    BY <1>1, <2>1, FramesTyped DEF PostsCounted
  <2> QED
    BY <1>1, <2>2 DEF FrontIsThere
<1> QED
  BY <1>3, <1>4, <1>5, <1>6

\* The writer ends.
LEMMA WriterBreakStep == ASSUME IInv, WriterBreak PROVE IInv'
<1> USE DEF IInv
<1>1. /\ UNCHANGED <<flagVars, available, toWrite, framesToWrite, content, threadVars, running,
                     buffer, compressed, file>>
      /\ UNCHANGED <<pc, mine, frames>>
      /\ wpc = "check" /\ wpc' = "ended"
  BY DEF WriterBreak, threadVars, poolVars
<1>2. running' \in BOOLEAN /\ buffer' \in Buffers \cup {Nobody} /\ framesToWrite' \in Nat
  BY <1>1 DEF TypeOK
<1>3. TypeOK' /\ OneOwner' /\ Posting' = Posting
  BY <1>1, <1>2, WriterMoves
<1>4. FramesHeld' /\ ThreadsSound' /\ FramesInOrder' /\ FrontIsThere'
  BY <1>1 DEF FramesHeld, ThreadsSound, FramesInOrder, Logged, Precedes, FrontIsThere
<1>5. PostsCounted'
  <2>1. Cardinality(Posting) \in Nat /\ Len(toWrite) \in Nat /\ framesToWrite \in Nat
    BY FramesTyped, FS_Subset, FS_CardinalityType DEF Posting, TypeOK
  <2> QED
    BY <1>1, <1>3, <2>1 DEF PostsCounted
<1> QED
  BY <1>3, <1>4, <1>5

\* It takes the front of the queue.
LEMMA TakeFrontStep == ASSUME IInv, TakeFront PROVE IInv'
<1> USE DEF IInv
<1>1. /\ UNCHANGED <<flagVars, available, toWrite, framesToWrite, content, threadVars, running,
                     compressed, file>>
      /\ UNCHANGED <<pc, mine, frames>>
      /\ wpc = "check" /\ wpc' = "compress" /\ running
      /\ buffer' = Head(toWrite)
  BY DEF TakeFront, threadVars, poolVars
<1>2. toWrite # <<>>
  BY <1>1 DEF FrontIsThere
<1>3. running' \in BOOLEAN /\ buffer' \in Buffers \cup {Nobody} /\ framesToWrite' \in Nat
  <2>1. Head(toWrite) \in Buffers
    BY <1>2, HeadTailProperties DEF TypeOK
  <2> QED
    BY <1>1, <2>1 DEF TypeOK
<1>4. TypeOK' /\ OneOwner' /\ Posting' = Posting
  BY <1>1, <1>3, WriterMoves
<1>5. FramesHeld' /\ ThreadsSound' /\ FramesInOrder' /\ FrontIsThere' /\ PostsCounted'
  <2>1. FramesHeld' /\ ThreadsSound' /\ FramesInOrder'
    BY <1>1 DEF FramesHeld, ThreadsSound, FramesInOrder, Logged, Precedes
  <2>2. FrontIsThere' /\ PostsCounted'
    BY <1>1, <1>2, <1>4 DEF FrontIsThere, PostsCounted
  <2> QED
    BY <2>1, <2>2
<1> QED
  BY <1>4, <1>5

\* The destructor runs when no thread logs any more.
LEMMA DestroyStep == ASSUME IInv, Destroy PROVE IInv'
<1> USE DEF IInv
<1>1. /\ UNCHANGED <<flagVars, available, toWrite, content, threadVars, wpc, buffer, compressed,
                     file>>
      /\ UNCHANGED <<pc, mine, frames>>
      /\ running' = FALSE /\ framesToWrite' = framesToWrite + 1
  BY DEF Destroy, threadVars, writerVars
<1>2. /\ running' \in BOOLEAN /\ buffer' \in Buffers \cup {Nobody} /\ framesToWrite' \in Nat
      /\ wpc' \in {"wait", "check", "compress", "return", "write", "ended"}
  <2>1. running' \in BOOLEAN
    BY <1>1, Zenon
  <2> QED
    BY <1>1, <2>1 DEF TypeOK
<1>3. TypeOK' /\ OneOwner' /\ Posting' = Posting
  BY <1>1, <1>2, WriterMoves
<1>4. FramesHeld' /\ ThreadsSound' /\ FramesInOrder' /\ FrontIsThere' /\ PostsCounted'
  BY <1>1 DEF FramesHeld, ThreadsSound, FramesInOrder, Logged, Precedes, FrontIsThere,
     PostsCounted
<1> QED
  BY <1>3, <1>4

\* The frame of the first buffer gets into the compressed one.
LEMMA CompressStep == ASSUME IInv, Compress PROVE IInv'
<1> USE DEF IInv
<1> DEFINE n == Len(toWrite)
<1>1. /\ UNCHANGED <<gameInfoThreadName, logging, hasLogged, available, toWrite, framesToWrite,
                     pc, mine, frames, loggingNow, running, buffer, file>>
      /\ wpc = "compress" /\ wpc' = "return" /\ toWrite # <<>> /\ buffer = Head(toWrite)
      /\ compressed' = content[buffer] /\ content' = [content EXCEPT ![buffer] = Clear]
      /\ compressed = Clear
  BY DEF Compress, flagVars, threadVars, FrontIsThere, FramesHeld
<1>2. /\ n \in Nat /\ n > 0 /\ DOMAIN toWrite = 1..n /\ buffer = toWrite[1]
      /\ buffer \in Buffers /\ content[buffer] \in Frame /\ content[buffer] # Clear
  <2>1. n \in Nat /\ n > 0 /\ DOMAIN toWrite = 1..n /\ buffer = toWrite[1]
    BY <1>1, FramesTyped, HeadTailProperties DEF TypeOK
  <2>2. buffer \in Buffers /\ content[buffer] \in Frame \cup {Clear}
    BY <2>1, FramesTyped
  <2>3. content[buffer] # Clear
    BY <1>1, <2>1 DEF FramesHeld
  <2> QED
    BY <2>1, <2>2, <2>3
<1>3. /\ content'[toWrite[1]] = Clear
      /\ \A i \in 2..n : content'[toWrite[i]] = content[toWrite[i]]
      /\ \A b \in Buffers : b # buffer => content'[b] = content[b]
  <2>1. content \in [Buffers -> Frame \cup {Clear}]
    BY DEF TypeOK
  <2>2. \A i \in 2..n : toWrite[i] \in Buffers /\ toWrite[i] # buffer
    BY <1>2, FramesTyped DEF OneOwner
  <2> QED
    BY <1>1, <1>2, <2>1, <2>2
<1> HIDE DEF n
<1>4. TypeOK'
  <2>1. content' \in [Buffers -> Frame \cup {Clear}] /\ compressed' \in Frame \cup {Clear}
    BY <1>1, <1>2, Zenon DEF TypeOK
  <2>2. logging' \in BOOLEAN /\ hasLogged' \in BOOLEAN /\ running' \in BOOLEAN
    BY <1>1, Zenon DEF TypeOK
  <2> QED
    BY <1>1, <2>1, <2>2 DEF TypeOK
<1>5. OneOwner'
  BY <1>1 DEF OneOwner, Waiting
<1>6. buffer \in Waiting
  BY <1>2 DEF Waiting
<1>7. FramesHeld'
  <2>1. \A b \in available : content'[b] = Clear
    BY <1>3, <1>6 DEF FramesHeld, OneOwner, TypeOK
  <2>2. \A i \in 1..n : content'[toWrite[i]] = Clear <=> i = 1
    BY <1>1, <1>2, <1>3 DEF FramesHeld
  <2> QED
    BY <1>1, <1>2, <2>1, <2>2 DEF FramesHeld
<1>8. ThreadsSound'
  BY <1>1, <1>3, <1>6, ThreadsStay
<1>9. FrontIsThere' /\ PostsCounted'
  <2>1. Posting' = Posting
    BY <1>1 DEF Posting
  <2> QED
    BY <1>1, <2>1 DEF FrontIsThere, PostsCounted
<1>10. FramesInOrder'
  <2>1. compressed' = content[toWrite[1]] /\ 1 \in 1..n
    BY <1>1, <1>2
  <2>2. \A f : Precedes(f, Clear) /\ Precedes(Clear, f) /\ Logged(Clear)
    BY DEF Precedes, Logged
  <2>3. \A j \in 1..n :
          /\ Logged(content'[toWrite[j]]) /\ Precedes(compressed', content'[toWrite[j]])
          /\ \A i \in DOMAIN file : Precedes(file[i], content'[toWrite[j]])
    <3> TAKE j \in 1..n
    <3>1. CASE j = 1
      BY <3>1, <1>3, <2>2
    <3>2. CASE j \in 2..n
      BY <3>2, <1>2, <1>3, <2>1 DEF FramesInOrder
    <3> QED
      BY <3>1, <3>2, <1>2
  <2>4. \A i, j \in 1..n : i < j => Precedes(content'[toWrite[i]], content'[toWrite[j]])
    <3> TAKE i, j \in 1..n
    <3>1. CASE i = 1
      BY <3>1, <1>3, <2>2
    <3>2. CASE i \in 2..n /\ j \in 2..n
      BY <3>2, <1>2, <1>3 DEF FramesInOrder
    <3> QED
      BY <3>1, <3>2, <1>2
  <2>5. Logged(compressed') /\ \A i \in DOMAIN file : Precedes(file[i], compressed')
    BY <2>1, <1>2 DEF FramesInOrder
  <2>6. \A i \in DOMAIN file : Logged(file[i])
    BY DEF FramesInOrder
  <2>7. \A i, j \in DOMAIN file : i < j => Precedes(file[i], file[j])
    BY DEF FramesInOrder
  <2>8. UNCHANGED <<toWrite, file, pc, frames>>
    BY <1>1
  <2> HIDE <1>1
  <2> QED
    BY <1>2, <2>3, <2>4, <2>5, <2>6, <2>7, <2>8 DEF FramesInOrder, Logged, Precedes
<1> QED
  BY <1>4, <1>5, <1>7, <1>8, <1>9, <1>10

\* The first buffer goes back to the pool.
LEMMA ReturnStep == ASSUME IInv, ReturnBuffer PROVE IInv'
<1> USE DEF IInv
<1> DEFINE n == Len(toWrite)
<1>1. /\ UNCHANGED <<gameInfoThreadName, logging, hasLogged, framesToWrite, content,
                     pc, mine, frames, loggingNow, running, compressed, file>>
      /\ wpc = "return" /\ wpc' = "write" /\ toWrite # <<>> /\ buffer = Head(toWrite)
      /\ toWrite' = Tail(toWrite) /\ available' = available \cup {buffer} /\ buffer' = Nobody
      /\ compressed # Clear
  BY DEF ReturnBuffer, flagVars, threadVars, FrontIsThere, FramesHeld
<1>2. /\ n \in Nat /\ n > 0 /\ DOMAIN toWrite = 1..n /\ buffer = toWrite[1]
      /\ toWrite' \in Seq(Buffers) /\ Len(toWrite') = n - 1 /\ DOMAIN toWrite' = 1..(n - 1)
      /\ \A i \in 1..(n - 1) : toWrite'[i] = toWrite[i + 1]
  BY <1>1, FramesTyped, HeadTailProperties, LenProperties DEF TypeOK
<1>3. buffer \in Buffers /\ content[buffer] = Clear
  BY <1>1, <1>2, FramesTyped DEF FramesHeld
<1> HIDE DEF n
<1>4. TypeOK'
  <2>1. logging' \in BOOLEAN /\ hasLogged' \in BOOLEAN /\ running' \in BOOLEAN
    BY <1>1, Zenon DEF TypeOK
  <2> QED
    BY <1>1, <1>2, <1>3, <2>1 DEF TypeOK
<1>5. /\ Waiting = Waiting' \cup {buffer} /\ buffer \notin Waiting'
  <2>1. \A i \in 1..(n - 1) : i + 1 \in 1..n /\ i + 1 # 1
    BY <1>2
  <2>2. \A i \in 1..n : i = 1 \/ (i - 1 \in 1..(n - 1) /\ toWrite'[i - 1] = toWrite[i])
    BY <1>2
  <2>3. buffer \notin Waiting'
    BY <1>2, <2>1 DEF Waiting, OneOwner
  <2>4. \A b \in Waiting' : b \in Waiting
    BY <1>2, <2>1 DEF Waiting
  <2>5. \A b \in Waiting : b = buffer \/ b \in Waiting'
    <3> TAKE b \in Waiting
    <3>1. PICK i \in 1..n : b = toWrite[i]
      BY <1>2 DEF Waiting
    <3>2. CASE i = 1
      BY <3>1, <3>2, <1>2
    <3>3. CASE i - 1 \in DOMAIN toWrite' /\ toWrite'[i - 1] = toWrite[i]
      BY <3>1, <3>3 DEF Waiting
    <3> QED
      BY <3>2, <3>3, <2>2, <1>2
  <2>6. buffer \in Waiting
    BY <1>2 DEF Waiting
  <2> QED
    BY <2>3, <2>4, <2>5, <2>6
<1>6. OneOwner'
  <2>1. \A i, j \in 1..(n - 1) : i # j => toWrite'[i] # toWrite'[j]
    <3> TAKE i, j \in 1..(n - 1)
    <3>1. i + 1 \in DOMAIN toWrite /\ j + 1 \in DOMAIN toWrite /\ (i # j => i + 1 # j + 1)
      BY <1>2
    <3>2. toWrite'[i] = toWrite[i + 1] /\ toWrite'[j] = toWrite[j + 1]
      BY <1>2
    <3>3. \A k, l \in DOMAIN toWrite : k # l => toWrite[k] # toWrite[l]
      BY DEF OneOwner
    <3> HIDE <1>2 DEF IInv
    <3> QED
      BY <3>1, <3>2, <3>3
  <2> QED
    BY <1>1, <1>2, <1>5, <2>1 DEF OneOwner
<1>7. FramesHeld'
  <2>1. \A i \in 1..(n - 1) : content[toWrite'[i]] # Clear
    <3> TAKE i \in 1..(n - 1)
    <3>1. i + 1 \in 1..n /\ i + 1 # 1
      BY <1>2
    <3> QED
      BY <3>1, <1>2 DEF FramesHeld
  <2> QED
    BY <1>1, <1>2, <1>3, <2>1 DEF FramesHeld
<1>8. ThreadsSound'
  BY <1>1 DEF ThreadsSound
<1>9. FrontIsThere' /\ PostsCounted'
  <2>1. Posting' = Posting
    BY <1>1 DEF Posting
  <2>2. Cardinality(Posting) \in Nat /\ framesToWrite \in Nat
    BY FS_Subset, FS_CardinalityType DEF Posting, TypeOK
  <2>3. running => n >= framesToWrite + Cardinality(Posting) + 1
    BY <1>1 DEF PostsCounted, n
  <2> QED
    BY <1>1, <1>2, <2>1, <2>2, <2>3 DEF FrontIsThere, PostsCounted
<1>10. FramesInOrder'
  <2>1. \A i \in 1..(n - 1) : i + 1 \in 1..n /\ toWrite'[i] = toWrite[i + 1]
    BY <1>2
  <2>2. \A i, j \in 1..(n - 1) : i < j => i + 1 < j + 1
    BY <1>2
  <2>3. \A j \in 1..(n - 1) :
          /\ Logged(content[toWrite'[j]]) /\ Precedes(compressed, content[toWrite'[j]])
          /\ \A i \in DOMAIN file : Precedes(file[i], content[toWrite'[j]])
    BY <1>2, <2>1 DEF FramesInOrder
  <2>4. \A i, j \in 1..(n - 1) : i < j => Precedes(content[toWrite'[i]], content[toWrite'[j]])
    <3> TAKE i, j \in 1..(n - 1)
    <3>1. \A k, l \in DOMAIN toWrite :
            k < l => Precedes(content[toWrite[k]], content[toWrite[l]])
      BY DEF FramesInOrder
    <3>2. i + 1 \in DOMAIN toWrite /\ j + 1 \in DOMAIN toWrite
      BY <1>2, <2>1
    <3> HIDE DEF IInv
    <3> QED
      BY <3>1, <3>2, <2>1, <2>2
  <2> QED
    BY <1>1, <1>2, <2>3, <2>4 DEF FramesInOrder, Logged, Precedes
<1> QED
  BY <1>4, <1>6, <1>7, <1>8, <1>9, <1>10

\* The compressed frame gets into the file.
LEMMA WriteFileStep == ASSUME IInv, WriteFile PROVE IInv'
<1> USE DEF IInv
<1> DEFINE n == Len(file)
<1>1. /\ UNCHANGED <<gameInfoThreadName, logging, hasLogged, available, toWrite, framesToWrite,
                     content, pc, mine, frames, loggingNow, running, buffer>>
      /\ wpc = "write" /\ wpc' = "wait"
      /\ file' = Append(file, compressed) /\ compressed' = Clear
      /\ compressed \in Frame
  BY DEF WriteFile, flagVars, threadVars, poolVars, FramesHeld, TypeOK
<1>2. /\ file' \in Seq(Frame) /\ n \in Nat
      /\ DOMAIN file = 1..n /\ DOMAIN file' = 1..(n + 1)
      /\ file'[n + 1] = compressed /\ \A i \in 1..n : file'[i] = file[i]
  BY <1>1, AppendProperties, LenProperties DEF TypeOK
<1> HIDE DEF n
<1>3. TypeOK'
  <2>1. logging' \in BOOLEAN /\ hasLogged' \in BOOLEAN /\ running' \in BOOLEAN
    BY <1>1, Zenon DEF TypeOK
  <2> QED
    BY <1>1, <1>2, <2>1 DEF TypeOK
<1>4. OneOwner' /\ FramesHeld' /\ ThreadsSound'
  <2>1. OneOwner'
    BY <1>1 DEF OneOwner, Waiting
  <2>2. FramesHeld'
    BY <1>1 DEF FramesHeld
  <2>3. ThreadsSound'
    BY <1>1 DEF ThreadsSound
  <2> QED
    BY <2>1, <2>2, <2>3
<1>5. FrontIsThere' /\ PostsCounted'
  <2>1. Posting' = Posting
    BY <1>1 DEF Posting
  <2> QED
    BY <1>1, <2>1 DEF FrontIsThere, PostsCounted
<1>6. FramesInOrder'
  <2>1. \A f : Precedes(f, Clear) /\ Precedes(Clear, f) /\ Logged(Clear)
    BY DEF Precedes, Logged
  <2>2. \A i \in 1..(n + 1) :
          /\ Logged(file'[i])
          /\ \A j \in DOMAIN toWrite : Precedes(file'[i], content[toWrite[j]])
    <3> TAKE i \in 1..(n + 1)
    <3>1. CASE i = n + 1
      BY <3>1, <1>2 DEF FramesInOrder
    <3>2. CASE i \in 1..n
      BY <3>2, <1>2 DEF FramesInOrder
    <3> QED
      BY <3>1, <3>2, <1>2
  <2>3. \A i, j \in 1..(n + 1) : i < j => Precedes(file'[i], file'[j])
    <3> TAKE i, j \in 1..(n + 1)
    <3>1. CASE j = n + 1 /\ i \in 1..n
      BY <3>1, <1>2 DEF FramesInOrder
    <3>2. CASE j \in 1..n /\ i \in 1..n
      BY <3>2, <1>2 DEF FramesInOrder
    <3> QED
      BY <3>1, <3>2, <1>2
  <2>4. \A j \in DOMAIN toWrite : Logged(content[toWrite[j]])
    BY DEF FramesInOrder
  <2>5. \A i, j \in DOMAIN toWrite :
          i < j => Precedes(content[toWrite[i]], content[toWrite[j]])
    BY DEF FramesInOrder
  <2>6. UNCHANGED <<toWrite, content, pc, frames>> /\ compressed' = Clear
    BY <1>1
  <2> HIDE <1>1
  <2> QED
    BY <1>2, <2>1, <2>2, <2>3, <2>4, <2>5, <2>6 DEF FramesInOrder, Logged, Precedes
<1> QED
  BY <1>3, <1>4, <1>5, <1>6

-----------------------------------------------------------------------------
(* All together. *)

\* Steps that change nothing.
LEMMA StutterStep == ASSUME IInv, UNCHANGED vars PROVE IInv'
<1> USE DEF vars, flagVars, poolVars, threadVars, writerVars, IInv
<1>1. logging' \in BOOLEAN /\ hasLogged' \in BOOLEAN /\ running' \in BOOLEAN
  BY Zenon DEF TypeOK
<1>2. TypeOK' /\ OneOwner' /\ FramesHeld'
  BY <1>1 DEF TypeOK, OneOwner, Waiting, FramesHeld
<1>3. ThreadsSound' /\ FrontIsThere' /\ PostsCounted'
  BY DEF ThreadsSound, FrontIsThere, PostsCounted, Posting
<1>4. FramesInOrder'
  BY DEF FramesInOrder, Logged, Precedes
<1> QED
  BY <1>2, <1>3, <1>4

\* Buffers, queue, semaphore and file belong together in every state, whatever threads
\* and writer do in between (Logger::execute, Logger::writer).
THEOREM Invariance == Spec => []IInv
<1>1. IInv /\ [Next]_vars => IInv'
  <2> SUFFICES ASSUME IInv, [Next]_vars PROVE IInv'
    OBVIOUS
  <2>1. ASSUME NEW t \in Threads, Enter(t) \/ Proceed(t) PROVE IInv'
    BY <2>1, QuietSteps, ClaimStep, FillStep, PushStep, PostStep DEF Proceed
  <2>2. CASE writer
    BY <2>2, WriterWaitStep, WriterBreakStep, TakeFrontStep, CompressStep, ReturnStep,
       WriteFileStep DEF writer
  <2>3. CASE Destroy
    BY <2>3, DestroyStep
  <2>4. CASE UNCHANGED vars
    BY <2>4, StutterStep
  <2> QED
    BY <2>1, <2>2, <2>3, <2>4 DEF Next
<1> QED
  BY <1>1, InitIInv, PTL DEF Spec

\* The front that the writer reads without the lock is there and stays
\* (Logger.cpp:227).
THEOREM FrontReady == Spec => []FrontIsThere
<1>1. IInv => FrontIsThere
  BY DEF IInv
<1> QED
  BY <1>1, Invariance, PTL

\* The elements of two sequences of known lengths.
LEMMA ConcatAt ==
  ASSUME NEW S, NEW s \in Seq(S), NEW t \in Seq(S), NEW m \in Nat, NEW n \in Nat,
         Len(s) = m, Len(t) = n
  PROVE  /\ s \o t \in Seq(S) /\ Len(s \o t) = m + n
         /\ \A i \in 1..(m + n) : (s \o t)[i] = IF i <= m THEN s[i] ELSE t[i - m]
BY ConcatProperties

\* File, compressed frame and queue in one sequence.
LEMMA OrderOfAll == ASSUME IInv PROVE InOrder
<1> USE DEF IInv
<1> DEFINE held == IF compressed = Clear THEN <<>> ELSE <<compressed>>
           queue == [i \in 1..Len(toWrite) |-> content[toWrite[i]]]
           any == Frame \cup {Clear}
           nf == Len(file)
           nh == Len(held)
           nq == Len(toWrite)
           order == file \o held \o queue
<1>1. /\ file \in Seq(any) /\ held \in Seq(any) /\ queue \in Seq(any)
      /\ nf \in Nat /\ nq \in Nat /\ nh \in {0, 1} /\ Len(queue) = nq
  <2>1. file \in Seq(any) /\ nf \in Nat
    BY SeqMonotonic, LenProperties DEF TypeOK
  <2>2. nq \in Nat /\ \A i \in 1..nq : content[toWrite[i]] \in any
    BY FramesTyped
  <2>3. queue \in Seq(any) /\ Len(queue) = nq
    BY <2>2
  <2>4. held \in Seq(any) /\ nh \in {0, 1}
    <3>1. CASE compressed = Clear
      <4>1. held = <<>>
        BY <3>1
      <4> QED
        BY <4>1, EmptySeq
    <3>2. CASE compressed # Clear
      <4>1. held = <<compressed>> /\ compressed \in any
        BY <3>2, FramesTyped
      <4> HIDE DEF held, any
      <4> QED
        BY <4>1
    <3> QED
      BY <3>1, <3>2
  <2> QED
    BY <2>1, <2>2, <2>3, <2>4
<1>2. \A i \in 1..nh : held[i] = compressed
  OBVIOUS
<1>3. \A i \in 1..nq : queue[i] = content[toWrite[i]]
  OBVIOUS
<1> HIDE DEF held, queue
<1>4. /\ DOMAIN order = 1..(nf + nh + nq)
      /\ \A i \in 1..(nf + nh + nq) :
           order[i] = IF i <= nf THEN file[i]
                      ELSE IF i <= nf + nh THEN compressed
                      ELSE content[toWrite[i - (nf + nh)]]
  <2> DEFINE front == file \o held
  <2>1. /\ front \in Seq(any) /\ Len(front) = nf + nh
        /\ \A i \in 1..(nf + nh) :
             front[i] = IF i <= nf THEN file[i] ELSE held[i - nf]
    BY <1>1, ConcatAt
  <2> HIDE DEF front
  <2>2. /\ front \o queue \in Seq(any) /\ Len(front \o queue) = nf + nh + nq
        /\ \A i \in 1..(nf + nh + nq) :
             (front \o queue)[i] = IF i <= nf + nh THEN front[i] ELSE queue[i - (nf + nh)]
    <3>1. front \in Seq(any) /\ queue \in Seq(any)
      BY <1>1, <2>1
    <3>2. Len(front) = nf + nh /\ Len(queue) = nq
      BY <1>1, <2>1
    <3> HIDE DEF nf, nh, nq, any, IInv
    <3>3. /\ front \o queue \in Seq(any) /\ Len(front \o queue) = Len(front) + Len(queue)
          /\ \A i \in 1..(Len(front) + Len(queue)) :
               (front \o queue)[i] =
                 IF i <= Len(front) THEN front[i] ELSE queue[i - Len(front)]
      BY ONLY <3>1, ConcatProperties
    <3> QED
      BY <3>2, <3>3
  <2>3. DOMAIN (front \o queue) = 1..(nf + nh + nq)
    BY <2>2, LenProperties
  <2>4. \A i \in 1..(nf + nh + nq) :
          /\ i <= nf => (front \o queue)[i] = file[i]
          /\ i > nf /\ i <= nf + nh => (front \o queue)[i] = compressed
          /\ i > nf + nh => (front \o queue)[i] = content[toWrite[i - (nf + nh)]]
    <3> TAKE i \in 1..(nf + nh + nq)
    <3>1. CASE i <= nf
      BY <3>1, <1>1, <2>1, <2>2
    <3>2. CASE i > nf /\ i <= nf + nh
      <4>1. i \in 1..(nf + nh) /\ i - nf \in 1..nh
        BY <3>2, <1>1
      <4>2. (front \o queue)[i] = front[i]
        BY <3>2, <2>2
      <4>3. front[i] = held[i - nf]
        BY <4>1, <3>2, <1>1, <2>1
      <4> QED
        BY <3>2, <4>1, <4>2, <4>3, <1>1, <1>2
    <3>3. CASE i > nf + nh
      <4>1. i - (nf + nh) \in 1..nq /\ ~(i <= nf + nh) /\ ~(i <= nf)
        BY <3>3, <1>1
      <4>2. (front \o queue)[i] = queue[i - (nf + nh)]
        BY <4>1, <2>2
      <4> QED
        BY <4>1, <4>2, <1>3
    <3> QED
      BY <3>1, <3>2, <3>3, <1>1
  <2>5. order = front \o queue
    BY DEF front
  <2> HIDE DEF order, nf, nh, nq
  <2>6. \A i \in 1..(nf + nh + nq) :
          order[i] = IF i <= nf THEN file[i]
                     ELSE IF i <= nf + nh THEN compressed
                     ELSE content[toWrite[i - (nf + nh)]]
    <3> TAKE i \in 1..(nf + nh + nq)
    <3>1. i \in Int /\ nf \in Int /\ nf + nh \in Int /\ nf <= nf + nh
      BY <1>1
    <3>2. /\ i <= nf => order[i] = file[i]
          /\ i > nf /\ i <= nf + nh => order[i] = compressed
          /\ i > nf + nh => order[i] = content[toWrite[i - (nf + nh)]]
      BY <2>4, <2>5, Zenon
    <3>3. CASE i <= nf
      BY <3>2, <3>3
    <3>4. CASE i > nf /\ i <= nf + nh
      BY <3>1, <3>2, <3>4
    <3>5. CASE i > nf + nh
      BY <3>1, <3>2, <3>5
    <3> QED
      BY <3>1, <3>3, <3>4, <3>5
  <2> QED
    BY <2>3, <2>5, <2>6
<1>5. /\ DOMAIN file = 1..nf /\ DOMAIN toWrite = 1..nq
  BY FramesTyped, LenProperties DEF TypeOK
<1> HIDE DEF order, nf, nh, nq
<1>6. ASSUME NEW i \in DOMAIN order, NEW j \in DOMAIN order, i < j
      PROVE  Precedes(order[i], order[j])
  <2>1. i \in 1..(nf + nh + nq) /\ j \in 1..(nf + nh + nq)
    BY <1>4
  <2>2. CASE j <= nf
    <3>1. i \in DOMAIN file /\ j \in DOMAIN file /\ order[i] = file[i] /\ order[j] = file[j]
      BY <2>1, <2>2, <1>1, <1>4, <1>5, <1>6
    <3> QED
      BY <3>1, <1>6 DEF FramesInOrder
  <2>3. CASE j > nf /\ j <= nf + nh
    <3>1. i \in DOMAIN file /\ order[i] = file[i] /\ order[j] = compressed
      BY <2>1, <2>3, <1>1, <1>4, <1>5, <1>6
    <3> QED
      BY <3>1 DEF FramesInOrder
  <2>4. CASE j > nf + nh
    <3> DEFINE l == j - (nf + nh)
    <3>1. l \in DOMAIN toWrite /\ order[j] = content[toWrite[l]]
      BY <2>1, <2>4, <1>1, <1>4, <1>5
    <3>2. CASE i <= nf
      <4>1. i \in DOMAIN file /\ order[i] = file[i]
        BY <2>1, <3>2, <1>1, <1>4, <1>5
      <4> QED
        BY <3>1, <4>1 DEF FramesInOrder
    <3>3. CASE i > nf /\ i <= nf + nh
      <4>1. order[i] = compressed
        BY <2>1, <3>3, <1>1, <1>4
      <4> QED
        BY <3>1, <4>1 DEF FramesInOrder
    <3>4. CASE i > nf + nh
      <4> DEFINE k == i - (nf + nh)
      <4>1. k \in DOMAIN toWrite /\ order[i] = content[toWrite[k]] /\ k < l
        BY <2>1, <3>4, <1>1, <1>4, <1>5, <1>6
      <4> QED
        BY <3>1, <4>1 DEF FramesInOrder
    <3> QED
      BY <3>2, <3>3, <3>4, <2>1, <1>1
  <2> QED
    BY <2>2, <2>3, <2>4, <2>1, <1>1
<1> QED
  BY <1>6 DEF InOrder, order, held, queue

\* The frames of each thread follow each other in the file, none is written twice
\* (Logger.cpp:192, 266).
THEOREM Ordered == Spec => []InOrder
  BY Invariance, OrderOfAll, PTL
=============================================================================
