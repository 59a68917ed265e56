------------------------------- MODULE Logger -------------------------------
(***************************************************************************)
(* The logger (Tools/Logging/Logger.cpp): all threads call execute() at    *)
(* the end of their frames; each fills a buffer from a common pool and     *)
(* hands it to the writer thread, which appends it to the log file and     *)
(* returns the buffer.  A lock (SYNC) protects the pool and the queue most *)
(* of the time; gameInfoThreadName, logging and hasLogged are shared       *)
(* without one, and some looks at the queue are not locked either.         *)
(*                                                                         *)
(* A frame is named by the thread that logged it and its number there.     *)
(***************************************************************************)
EXTENDS Integers, Sequences, FiniteSets

CONSTANTS
  Threads,          \* the threads with representations to log
  GameInfoThreads,  \* those that have GameInfo and OpponentTeamInfo
  Buffers,          \* numOfBuffers buffers
  MaxFrames,        \* bound: frames a thread logs (or drops)
  Nobody            \* the empty gameInfoThreadName, no buffer

ASSUME LoggerAssumption ==
  /\ GameInfoThreads \subseteq Threads
  /\ IsFiniteSet(Threads) /\ MaxFrames \in Nat
  /\ Nobody \notin Threads \cup Buffers

VARIABLES
  gameInfoThreadName, logging, hasLogged,
  available,        \* buffersAvailable; which one is on top does not matter
  toWrite,          \* buffersToWrite
  framesToWrite,    \* the semaphore
  content,          \* the frame in each buffer, <<>> if it is clear
  pc, mine, frames, \* per thread: location in execute(), buffer, frames so far
  loggingNow,       \* per thread: the local variable
  running,          \* writerThread.isRunning()
  wpc, buffer,      \* the writer's location and buffer
  compressed,       \* the frame in the writer's compressed buffer
  file              \* the frames in the log file

poolVars == <<available, toWrite, framesToWrite, content>>
flagVars == <<gameInfoThreadName, logging, hasLogged>>
threadVars == <<pc, mine, frames, loggingNow>>
writerVars == <<wpc, buffer, compressed, file>>
vars == <<flagVars, poolVars, threadVars, running, writerVars>>

Clear == <<>>
Goto(t, location) == pc' = [pc EXCEPT ![t] = location]

Init ==
  /\ gameInfoThreadName = Nobody /\ logging = FALSE /\ hasLogged = FALSE
  /\ available = Buffers /\ toWrite = <<>> /\ framesToWrite = 0
  /\ content = [b \in Buffers |-> Clear]
  /\ pc = [t \in Threads |-> "idle"]
  /\ mine = [t \in Threads |-> Nobody]
  /\ frames = [t \in Threads |-> 0]
  /\ loggingNow = [t \in Threads |-> FALSE]
  /\ running = TRUE
  /\ wpc = "wait" /\ buffer = Nobody /\ compressed = Clear /\ file = <<>>

-----------------------------------------------------------------------------
(* execute() *)

\* Only the thread that found the game running first, or any before, decides.
Enter(t) ==
  /\ pc[t] = "idle" /\ running
  /\ Goto(t, IF t \in GameInfoThreads /\ gameInfoThreadName \in {Nobody, t}
               THEN "decide" ELSE "log?")
  /\ UNCHANGED <<flagVars, poolVars, mine, frames, loggingNow, running, writerVars>>

\* It looks at the game state. If the game is running and the name is still empty, it
\* goes on to name the log file.
Decide(t) ==
  /\ pc[t] = "decide"
  /\ \E now \in BOOLEAN :
       /\ loggingNow' = [loggingNow EXCEPT ![t] = now]
       /\ Goto(t, IF now /\ gameInfoThreadName = Nobody THEN "name" ELSE "switch")
  /\ UNCHANGED <<flagVars, poolVars, mine, frames, running, writerVars>>

\* Under the lock; the test for the empty name was not.
NameFile(t) ==
  /\ pc[t] = "name"
  /\ gameInfoThreadName' = t
  /\ Goto(t, "switch")
  /\ UNCHANGED <<logging, hasLogged, poolVars, mine, frames, loggingNow, running,
                 writerVars>>

Switch(t) ==
  /\ pc[t] = "switch"
  /\ logging' = loggingNow[t]
  /\ Goto(t, "finished?")
  /\ UNCHANGED <<gameInfoThreadName, hasLogged, poolVars, mine, frames, loggingNow,
                 running, writerVars>>

\* if(!logging && hasLogged && buffersToWrite.empty()): three looks without a lock.
CheckFinished(t) ==
  /\ \/ pc[t] = "finished?" /\ Goto(t, IF logging THEN "log?" ELSE "logged?")
     \/ pc[t] = "logged?" /\ Goto(t, IF hasLogged THEN "empty?" ELSE "log?")
     \/ pc[t] = "empty?" /\ Goto(t, IF toWrite = <<>> THEN "say" ELSE "log?")
  /\ UNCHANGED <<flagVars, poolVars, mine, frames, loggingNow, running, writerVars>>

\* SystemCall::say("Log file written"); hasLogged = false;
Say(t) ==
  /\ pc[t] = "say"
  /\ hasLogged' = FALSE
  /\ Goto(t, "log?")
  /\ UNCHANGED <<gameInfoThreadName, logging, poolVars, mine, frames, loggingNow,
                 running, writerVars>>

\* if(logging). At the bound the thread has nothing to log any more.
StartFrame(t) ==
  /\ pc[t] = "log?"
  /\ Goto(t, IF logging /\ frames[t] < MaxFrames THEN "claim" ELSE "idle")
  /\ UNCHANGED <<flagVars, poolVars, mine, frames, loggingNow, running, writerVars>>

\* Mutant: top() without pop().
ClaimWithoutPop(t) ==
  /\ pc[t] = "claim"
  /\ \E b \in available : mine' = [mine EXCEPT ![t] = b]
  /\ frames' = [frames EXCEPT ![t] = @ + 1]
  /\ Goto(t, "fill")
  /\ UNCHANGED <<flagVars, poolVars, loggingNow, running, writerVars>>

\* Under the lock: buffersAvailable.top() and pop().
Claim(t) ==
  /\ pc[t] = "claim"
  /\ \E b \in available :
       /\ available' = available \ {b}
       /\ mine' = [mine EXCEPT ![t] = b]
  /\ frames' = [frames EXCEPT ![t] = @ + 1]
  /\ Goto(t, "fill")
  /\ UNCHANGED <<flagVars, toWrite, framesToWrite, content, loggingNow, running,
                 writerVars>>

\* Mutants: without a buffer the thread waits for one; it posts nevertheless.
DropNever(t) == FALSE /\ UNCHANGED vars
DropAndPost(t) ==
  /\ pc[t] = "claim" /\ available = {}
  /\ frames' = [frames EXCEPT ![t] = @ + 1]
  /\ Goto(t, "post")
  /\ UNCHANGED <<flagVars, poolVars, mine, loggingNow, running, writerVars>>

\* "Logger: No buffer available!"
Drop(t) ==
  /\ pc[t] = "claim" /\ available = {}
  /\ frames' = [frames EXCEPT ![t] = @ + 1]
  /\ Goto(t, "idle")
  /\ UNCHANGED <<flagVars, poolVars, mine, loggingNow, running, writerVars>>

Fill(t) ==
  /\ pc[t] = "fill"
  /\ content' = [content EXCEPT ![mine[t]] = @ \o <<t, frames[t]>>]
  /\ Goto(t, "push")
  /\ UNCHANGED <<flagVars, available, toWrite, framesToWrite, mine, frames,
                 loggingNow, running, writerVars>>

\* Mutant: the queue is used as a stack.
PushFront(t) ==
  /\ pc[t] = "push"
  /\ toWrite' = <<mine[t]>> \o toWrite
  /\ mine' = [mine EXCEPT ![t] = Nobody]
  /\ Goto(t, "post")
  /\ UNCHANGED <<flagVars, available, framesToWrite, content, frames, loggingNow,
                 running, writerVars>>

\* Under the lock.
Push(t) ==
  /\ pc[t] = "push"
  /\ toWrite' = Append(toWrite, mine[t])
  /\ mine' = [mine EXCEPT ![t] = Nobody]
  /\ Goto(t, "post")
  /\ UNCHANGED <<flagVars, available, framesToWrite, content, frames, loggingNow,
                 running, writerVars>>

\* Mutant: the semaphore is a flag.
PostFlag(t) ==
  /\ pc[t] = "post"
  /\ framesToWrite' = 1
  /\ Goto(t, "logged")
  /\ UNCHANGED <<flagVars, available, toWrite, content, mine, frames, loggingNow,
                 running, writerVars>>

Post(t) ==
  /\ pc[t] = "post"
  /\ framesToWrite' = framesToWrite + 1
  /\ Goto(t, "logged")
  /\ UNCHANGED <<flagVars, available, toWrite, content, mine, frames, loggingNow,
                 running, writerVars>>

SetHasLogged(t) ==
  /\ pc[t] = "logged"
  /\ hasLogged' = TRUE
  /\ Goto(t, "idle")
  /\ UNCHANGED <<gameInfoThreadName, logging, poolVars, mine, frames, loggingNow,
                 running, writerVars>>

\* Everything execute() does once it was called.
Proceed(t) ==
  \/ Decide(t) \/ NameFile(t) \/ Switch(t) \/ CheckFinished(t) \/ Say(t)
  \/ StartFrame(t) \/ Claim(t) \/ Drop(t)
  \/ Fill(t) \/ Push(t) \/ Post(t) \/ SetHasLogged(t)

-----------------------------------------------------------------------------
(* writer() *)

WriterWait ==
  /\ wpc = "wait" /\ framesToWrite > 0
  /\ framesToWrite' = framesToWrite - 1
  /\ wpc' = "check"
  /\ UNCHANGED <<flagVars, available, toWrite, content, threadVars, running, buffer,
                 compressed, file>>

\* Stopped, the disk almost full, or the file cannot be created: break.
WriterBreak ==
  /\ wpc = "check"
  /\ wpc' = "ended"
  /\ UNCHANGED <<flagVars, poolVars, threadVars, running, buffer, compressed, file>>

\* buffersToWrite.front() without the lock, then the file is opened if needed.
TakeFront ==
  /\ wpc = "check" /\ running
  /\ buffer' = Head(toWrite)
  /\ wpc' = "compress"
  /\ UNCHANGED <<flagVars, poolVars, threadVars, running, compressed, file>>

Compress ==
  /\ wpc = "compress"
  /\ compressed' = content[buffer]
  /\ content' = [content EXCEPT ![buffer] = Clear]
  /\ wpc' = "return"
  /\ UNCHANGED <<flagVars, available, toWrite, framesToWrite, threadVars, running,
                 buffer, file>>

\* Under the lock: pop_front() and push(buffer).
ReturnBuffer ==
  /\ wpc = "return"
  /\ toWrite' = Tail(toWrite)
  /\ available' = available \cup {buffer}
  /\ buffer' = Nobody
  /\ wpc' = "write"
  /\ UNCHANGED <<flagVars, framesToWrite, content, threadVars, running, compressed,
                 file>>

WriteFile ==
  /\ wpc = "write"
  /\ file' = Append(file, compressed)
  /\ compressed' = Clear
  /\ wpc' = "wait"
  /\ UNCHANGED <<flagVars, poolVars, threadVars, running, buffer>>

\* Mutant: the writer is not woken up for its end.
DestroySilently ==
  /\ running /\ \A t \in Threads : pc[t] = "idle"
  /\ running' = FALSE
  /\ UNCHANGED <<flagVars, poolVars, threadVars, writerVars>>

\* The destructor: announceStop(), post() and the wait for the writer's end.
\* All threads that could call execute() have been stopped before.
Destroy ==
  /\ running /\ \A t \in Threads : pc[t] = "idle"
  /\ running' = FALSE
  /\ framesToWrite' = framesToWrite + 1
  /\ UNCHANGED <<flagVars, available, toWrite, content, threadVars, writerVars>>

writer == WriterWait \/ WriterBreak \/ TakeFront \/ Compress \/ ReturnBuffer \/ WriteFile
Next ==
  \/ \E t \in Threads : Enter(t) \/ Proceed(t)
  \/ writer \/ Destroy

Spec == Init /\ [][Next]_vars

\* A call of execute() proceeds and the writer is scheduled. When the game state
\* changes, when frames are logged and when the disk is full is left open.
FairThreads == \A t \in Threads : WF_vars(Proceed(t))
FairSpec == Spec /\ FairThreads /\ WF_vars(writer)

-----------------------------------------------------------------------------
Frame == Threads \X (1..MaxFrames)
Waiting == {toWrite[i] : i \in DOMAIN toWrite}

TypeOK ==
  /\ gameInfoThreadName \in GameInfoThreads \cup {Nobody}
  /\ logging \in BOOLEAN /\ hasLogged \in BOOLEAN
  /\ available \subseteq Buffers /\ toWrite \in Seq(Buffers)
  /\ framesToWrite \in Nat
  /\ content \in [Buffers -> Frame \cup {Clear}]
  /\ pc \in [Threads -> {"idle", "decide", "name", "switch", "finished?", "logged?",
                         "empty?", "say", "log?", "claim", "fill", "push", "post", "logged"}]
  /\ mine \in [Threads -> Buffers \cup {Nobody}]
  /\ frames \in [Threads -> 0..MaxFrames]
  /\ loggingNow \in [Threads -> BOOLEAN]
  /\ running \in BOOLEAN
  /\ wpc \in {"wait", "check", "compress", "return", "write", "ended"}
  /\ buffer \in Buffers \cup {Nobody}
  /\ compressed \in Frame \cup {Clear}
  /\ file \in Seq(Frame)

\* A buffer is in the pool, with one thread or in the queue once: no two threads
\* fill the same one, and none that the writer still reads is handed out.
OneOwner ==
  /\ \A t, u \in Threads : t # u /\ mine[t] # Nobody => mine[t] # mine[u]
  /\ \A t \in Threads : mine[t] \notin available \cup Waiting
  /\ available \cap Waiting = {}
  /\ \A i, j \in DOMAIN toWrite : i # j => toWrite[i] # toWrite[j]
  /\ \A b \in Buffers : \/ b \in available \cup Waiting
                        \/ \E t \in Threads : mine[t] = b

\* Where the frames are: the buffers of the pool are clear, those of the queue are not,
\* unless the writer has taken the frame out of the first one.
FramesHeld ==
  /\ \A b \in available : content[b] = Clear
  /\ \A i \in DOMAIN toWrite : content[toWrite[i]] = Clear <=> wpc = "return" /\ i = 1
  /\ compressed = Clear <=> wpc \notin {"return", "write"}

\* What a thread has got so far in execute().
ThreadsSound ==
  \A t \in Threads :
    /\ pc[t] \in {"decide", "name"} => t \in GameInfoThreads
    /\ pc[t] = "claim" => frames[t] < MaxFrames
    /\ mine[t] # Nobody <=> pc[t] \in {"fill", "push"}
    /\ pc[t] = "fill" => content[mine[t]] = Clear /\ frames[t] > 0
    /\ pc[t] = "push" => content[mine[t]] = <<t, frames[t]>>

\* "This assumes that reading the front is threadsafe" - and that there is a
\* front: whenever the writer passed the semaphore the queue is not empty, and
\* what it pops is the buffer it compressed.
FrontIsThere ==
  /\ wpc = "check" /\ running => toWrite # <<>>
  /\ wpc \in {"compress", "return"} => toWrite # <<>> /\ buffer = Head(toWrite)

Posting == {t \in Threads : pc[t] = "post"}

\* Until the destructor posts, each post stands for a frame in the queue.
PostsCounted ==
  running => Len(toWrite) >= framesToWrite + Cardinality(Posting)
                               + IF wpc \in {"check", "compress", "return"} THEN 1 ELSE 0

\* If both frames are of the same thread, f was logged before g.
Precedes(f, g) == f # Clear /\ g # Clear /\ f[1] = g[1] => f[2] < g[2]

\* Frame f was logged before the one its thread is filling a buffer with.
Logged(f) ==
  f # Clear => /\ f[2] <= frames[f[1]]
               /\ pc[f[1]] \in {"fill", "push"} => f[2] < frames[f[1]]

\* All frames in the file, in the writer's hands and in the queue follow each other.
FramesInOrder ==
  /\ Logged(compressed)
  /\ \A i \in DOMAIN file : Logged(file[i]) /\ Precedes(file[i], compressed)
  /\ \A i, j \in DOMAIN file : i < j => Precedes(file[i], file[j])
  /\ \A j \in DOMAIN toWrite :
       /\ Logged(content[toWrite[j]]) /\ Precedes(compressed, content[toWrite[j]])
       /\ \A i \in DOMAIN file : Precedes(file[i], content[toWrite[j]])
  /\ \A i, j \in DOMAIN toWrite : i < j => Precedes(content[toWrite[i]], content[toWrite[j]])

\* Pool, queue, threads and writer share the buffers without losing or doubling one, and
\* the semaphore agrees with the queue.
IInv ==
  /\ TypeOK /\ OneOwner /\ FramesHeld /\ ThreadsSound
  /\ FrontIsThere /\ PostsCounted /\ FramesInOrder

\* The frames of each thread are in the file in the order they were logged and
\* at most once; those waiting come later.
InOrder ==
  LET order == file \o (IF compressed = Clear THEN <<>> ELSE <<compressed>>)
                    \o [i \in 1..Len(toWrite) |-> content[toWrite[i]]]
  IN  \A i, j \in DOMAIN order : i < j => Precedes(order[i], order[j])

\* No thread waits for the writer: whether buffers are left, the disk is full or
\* the writer has ended, execute() returns.
ExecuteReturns == \A t \in Threads : pc[t] # "idle" ~> pc[t] = "idle"

\* Every frame handed to the writer gets into the file, unless the program ends or
\* the disk is full before: no post is lost and none comes too early.
FramesAreWritten ==
  \A f \in Frame : (\E b \in Waiting : content[b] = f)
                     ~> ((\E i \in DOMAIN file : file[i] = f) \/ wpc = "ended")

\* The destructor's wait for the writer ends.
WriterEnds == ~running ~> wpc = "ended"

\* What the robot says is so: when "Log file written" is said, the frames that
\* were logged are in the file.
SaidWhenWritten ==
  [][\A t \in Threads : pc[t] = "say" /\ Say(t)
       => toWrite = <<>> /\ compressed = Clear /\ \A u \in Threads : mine[u] = Nobody]_vars
=============================================================================
