# Formal models of the B-Human framework

This directory holds TLA+ models of the concurrent core of the B-Human code
release: how the threads of one robot exchange data, how debug messages are collected,
travel between the threads and the simulator's console and are thinned out there, how
frames are logged, how Cognition picks the images it processes and receives team
messages, how all threads change to another configuration of modules while they keep
exchanging data, and how the robots of a team estimate each other's clocks over a
network that loses, repeats and reorders messages. TLC checks the models on small
instances; TLAPS proves the most important invariants for every value of the
constants. All paths are relative to the repository; `Src/...` lies in `src/Src`.

## 1. Inventory

| Component | Source | State | Operations | Interaction | What is hard |
|---|---|---|---|---|---|
| Packet exchange | `Src/Tools/Framework/Communication.{h,cpp}` | three packet pointers, `reading`, `actual` | `Sender::send`, `DebugSender::send`, `setPacket`, `checkForPacket` | shared memory between two threads, no lock; semaphore of the receiver | every interleaving of loads and stores |
| Thread frame | `ThreadFrame.{h,cpp}`, `Platform/*/Thread*` | semaphore, running flag, debug queues | `threadMain`, `trigger`, `wait`, `announceStop`, `stop` | called by senders of packets, by `Robot` | lost wake-ups, shutdown |
| Module container | `ModuleContainer.cpp`, `FrameExecutionUnit.cpp` | receivers, senders, numberOfMessages | `main`, `handleMessage`, `terminate` | packets to other containers, debug queue to Debug | a frame that does not happen |
| Debug thread | `Src/Threads/Debug.cpp` | one sender and receiver per container and one for the console | `init`, `main`, `handleMessage` | star of channels | blocking sends in both directions |
| Console (simulator) | `Controller/LocalRobot.cpp`, `RobotConsole.cpp` | two semaphores, debug queue, a lock | `main`, `update`, commands | simulator's main thread and the console's thread | blocking under a lock |
| Module graph | `Tools/Module/ModuleGraph*.cpp` | configuration, timestamps, execution lists | `update`, `execute`, packet streaming | configuration travels as a debug message | threads with different configurations |
| Message queue | `Tools/MessageQueue/*` | byte buffer, used size, reserve | `finishMessage`, `removeLastMessage`, `copyAllMessages`, `removeRepetitions` | filled by a thread, sent to Debug, merged there, reduced again and again | full queues, refused messages, frames without an end |
| Logger | `Tools/Logging/Logger.{h,cpp}` | pool of buffers, queue, semaphore, flags | `execute`, `writer`, destructor | all threads and the writer thread | flags read without the lock |
| Cognition | `Src/Threads/Cognition.{h,cpp}` | times and flags of two cameras | `beforeFrame`, `afterFrame` | packets of two camera threads | orders of arrival |
| Team messages | `SPLMessageHandler`, `SPLStandardMessageBuffer.h` | ring buffer | `receive`, `setForward`, `takeBack` | read in every frame of Cognition, handled in executed ones | full ring, packets with a wrong size |
| Time synchronisation | `BNTP`, `TeamMessageHandler` | requests to answer, measurements, best offset | `operator<<`, `operator>>`, `update` | UDP between the robots | loss, repetition, reordering, restarts, unsigned times |
| Game data provider | `Modules/Communication/GameDataProvider` | game control data, button times | `update`, `handleButtons` | GameController packets, chest button | event sequences |
| Camera provider | `Modules/Infrastructure/CameraProvider` | camera, image thread, reset flags | `update`, `takeImages` | own thread, other camera | resets that need both cameras |
| Everything else | perception, modelling, motion, behaviour, simulator views, libraries | - | - | - | numerical or user interface |

What makes each component correct:

* Packet exchange: no packet is freed twice, leaked or used after it was freed; a
  receiver never goes back to an older packet; the last packet is always seen; a
  debug channel loses, duplicates and reorders nothing it accepted.
* Thread frames, Debug, console: nobody waits for somebody who waits for him, no
  thread sleeps over a packet, the simulator's `update` returns, everything ends.
* Logger: every buffer has one owner, frames are complete, in order and written;
  no thread is held up; what the robot announces is true.
* Cognition: images are used in order, once, and none is forgotten.
* Module graph: threads only read packets of the configuration they execute, and
  eventually all execute the same.
* Message queue: what is sent consists of complete frames also when the queue is full;
  Debug's queue is what it says and keeps the latest messages of each thread.
* Ring buffer: it holds the newest messages since the last were handled, in order.
* Time synchronisation: the estimate is as good as the round trip, whatever the network
  does; the newest request is answered.

## 2. Plan

1. *(done)* Packet exchange, bottom up: `TripleBuffer` (steps), `LatestValue` and
   `DebugChannel` (the two senders), `MessageChannel` (what a debug channel
   promises), with proofs.
2. *(done)* `DebugExchange`, which composes such channels to the star of threads;
   proof that there is no circular wait.
3. *(done)* `Logger` and `Cognition`, with proofs.
4. *(done)* Module graph: `ModuleGraphCreator`, `ModuleGraph` and `ProviderSort`, with
   proofs.
5. *(done)* `MessageQueue`, and on it `FrameQueue` (the threads) and `DebugQueue` (Debug's
   queue and `removeRepetitions`), with proofs; the ring buffer
   `SPLStandardMessageBuffer` as a part of Cognition's frame, with proofs.
6. *(done)* `TimeSync` (lost, delayed, repeated and reordered messages, restarts,
   unsigned times), with proofs.
7. *(done)* Proofs that no thread sleeps over a packet (`DebugExchange`) and that the
   packets of a debug channel are freed once and not used afterwards.
8. *(done)* Proofs of the memory safety of `LatestValue` under its pacing assumption, of
   `StaleOnlyIfOff`, and that `sortProviders` decides what the module graph assumes.
9. *(done)* Proof that reducing Debug's queue again and again is reducing it once
   (`LatestOfAllArrived`).
10. *(open)* Module graph: aliases, and the configuration as a message through
    `DebugExchange`.

`DebugQueue` composes `FrameQueue` and `MessageQueue`, `Cognition` uses
`SPLStandardMessageBuffer`, `ModuleGraph` uses `ModuleGraphCreator`, and the channels of
`DebugExchange` are those of `MessageChannel`, which `DebugChannel` implements.
`CameraProvider`, the game data provider and the cancellation of threads are not part of
the plan any more; section 7 says why.

Recursion in modules with theorems is written as recursive functions.

## 3. Modules

### TripleBuffer, LatestValue, DebugChannel, MessageChannel

`TripleBuffer` has the steps of `ReceiverBase::setPacket` and
`Receiver::checkForPacket`. Each action makes at most one access to a variable the
other thread writes; `reading = actual` is two (`LoadActual`, `StoreReading`), and
the pointer is loaded again where the code loads it again. `heap` maps live
pointers to what was streamed into them, so that a dangling or leaked pointer
shows. `spc` and `rpc` are the control locations. Trigger and wait are those of
`ThreadFrame`; `WakeOtherwise` is the time limit of the wait on the robot and the
trigger of another sender, and is never assumed to happen.

`LatestValue` adds the plain `Sender`, used for module packets: `SendValue` at the end
of a frame, whether or not the last packet was taken; `ReceiveValue` keeps the number of
the frame that was read. `DebugChannel` adds the
`DebugSender`: the queue that collects messages (`Write`), the question whether the
last packet was taken, the blocking variant (`Spin`, `GiveUp`), the queue that is
cleared after its packet is visible (`TriggerAndClear`), and the shutdown.

`MessageChannel` is the abstract specification: one queue, one packet under way.
`DebugChannel` implements it with the mapping `Carried`: a packet is under way from
`Publish`, when `actual` moves to it, until it was deserialised, and the sender's
queue counts as empty from `Publish` on.

### DebugExchange

Debug in the middle, the containers `1..N`, the console `0`, and the simulator's
main thread. The channels are those of `MessageChannel`; since only blocking and
waking matter, a queue or channel is reduced to whether it holds something. A frame
is cut where a thread looks at or changes a channel: the look at the own receivers
(`DebugTop`, `DebugCheck`, `ContainerFrame`, `ConsoleTop`), the wait for `update()`
(`ConsoleMain`), each send, the wait. Each thread has its own `running` flag. At shutdown
the simulator's main thread sets `terminating` (`Stop`), then clears the flag of one thread
after another and wakes it in a step of its own (`AnnounceStop`, in the order of the
`ThreadList`: Debug, console, containers); the others go on, with a thread that has ended
as well as with one that has not been told yet. A blocked sender is one in location `send`
none of whose actions is enabled; the spin loop itself has no state. What a frame
outputs is left open. `Update`, `Command`, `Stop` and `EndThreads` are the
simulator's. While the console's thread is in `send` it holds the console's lock,
which is the guard of `Command`.

### Logger

All threads that call `execute()`, and the writer. Actions end where the lock is
taken or released and between accesses to the variables that are shared without
it (`gameInfoThreadName`, `logging`, `hasLogged`, the unlocked looks at the
queue): the name is read once in `Enter` and again in `Decide`, and the three looks of
`Logger.cpp:142` are three steps of `CheckFinished`. A frame is a pair of its thread and its number. The pool is a set: which of
several clear buffers is on top of the stack makes no difference.

### Cognition

`beforeFrame()` and `afterFrame()` with the two cameras as values instead of the
duplicated code for upper and lower. `Accept` and `Pass` are the two branches of
`beforeFrame()`; `NewNow` is what the two flags become at its beginning. In a log replay
`Deliver` may bring any other time than the last. `unused` is a history variable: the
cameras of which frames have found another image (`Changed`) since one was used. `PairIsUsed`
compares it with what Cognition does, without a word about the flags: it never contains
both cameras in a log replay.

### ModuleGraphCreator, ModuleGraph, ProviderSort

`ModuleGraphCreator` has no state: it says of a configuration what
`ModuleGraphCreator::update` computes, whether it is accepted, what the threads send
to each other and which blackboard entries are to be reset. A configuration is a
function from the representations of a thread to modules, so the error that a
representation is provided twice in a thread is left out, and so are aliases. `Requires`
are the `REQUIRES` only: the `USES` of a module are not in its module info (`Module.h:499`),
so `ModuleGraphCreator` neither demands them nor sorts by them nor has them sent.

`ModuleGraph` lets the Debug thread accept or reject requested configurations
(`handleRequest`) and each thread adopt its request when it handles its messages
(`update`) and execute frames (`main`). A frame takes the packets of the threads it
receives from, runs the modules, and sends packets. A request that does not fit into
the queue of a thread in `Full` may be lost for it. A timestamp is the number of the
request; the console makes them distinct (`RobotConsole.cpp:3160`). Of the blackboard
the model keeps which entries exist, from what the constructed modules require, use
(`Uses`) and have provided (the entry of a provided representation is allocated when it is
first provided), and whose functions an entry holds. `issued` and `off` (what was switched
off since the thread last provided it) are history variables.

`ProviderSort` is the loop of `sortProviders` with its iterator over the list that is
reordered on the way. `ModuleGraphCreator` uses only what it computes (`Sortable`),
which is the last part of `Correct` of `ProviderSort`.

### MessageQueue, FrameQueue, DebugQueue

`MessageQueue` is a queue as a record: its messages, the bytes used, their number.
`finishMessage` refuses a message that does not fit, or that only fits into the bytes
reserved for infrastructure without belonging to it. The fourth field, `overdrawn`, is a
history variable: something other than a bracket has used the reserve. `reserve` is always
asked: all callers of `finishMessage` in the repository write something first (a copy calls
`write` even for no bytes), so the unsigned difference of `MessageQueueBase.cpp:185`, which
would wrap for a header alone behind a full queue, does not.

`FrameQueue` is what `ModuleContainer` does with its queue: `idFrameBegin` before a
frame, the messages of the modules (`Write`), the timing and the annotations
(`CopyAtOnce` if all fit in, else `CopyStepByStep` and `copyMessage`), then `EndFrame`,
which closes the bracket or takes the open one back, sends the queue if Debug took the
last packet, and opens the next bracket. `DebugQueue` is Debug's `main`:
`MoveMessages` gathers the packets, `RemoveAndSend` removes repetitions and offers the
queue to the console, which may not accept it, so that the rest is reduced again later.
`removeRepetitions` has the two passes of the code: counting per thread and
type, in an `unsigned short` (`CounterSize`), then scanning with the position of the last
`idFrameBegin` to go back to. The first pass only adds up, so `Count` says what it computes
without a loop: how many messages of the type follow whose `Sender`, the thread of the last
`idFrameBegin`, is the thread. The size of a queue (`Bytes`), copying a queue into another
(`Received`) and the scan (`Scanned`) are recursive functions, so that they can be reasoned
about by induction; `ScanStart`, `Scan` and `Copied` say what one message does.

`Latest` is the reference: without counters and positions it says of each message by
itself whether a later one replaces it (`Kept`) and of each bracket whether there is
anything in it (`Stays`), and picks the messages that stay. Three history variables
connect the queue with it: `arrived`, all messages the queue accepted since the console
last took it, `reduced`, and `lossless`, that since then no queue refused anything and no
counter could wrap.

### SPLStandardMessageBuffer

The ring buffer as a value, with `setForward`, `removeFront`, `takeBack`. Each executed
or skipped frame of `Cognition` reads what has arrived (`receive`): a slot is reserved,
then the packet is read into it, then the slot is given back if there was none or its size
was wrong. Messages are handled only if the frame is executed; what decides about that
(module configuration, log provider) is left open (`handled`). A robot whose log is
replayed has no team mates.

### TimeSync

Each robot sends (`Send`), receives (`Receive`), and may be restarted (`Restart`), which
resets its clock, so that old messages carry times from its future. `net` is the set of
all messages sent; it only grows and a robot may receive any of them at any time and
again: this is loss, delay, repetition and reordering in one. Clocks tick together, from
different values. `Offset` and `RoundTrip` convert between `int` and `unsigned` where the
code does (width `2 * HalfWidth`); `ReceiptSent` is the age of a request, cut to the 12
bits a message has for it. `life` and the lives in messages and measurements are
history: the code cannot see restarts.

### Mutants

Operators introduced by a comment "Mutant" are wrong variants of the definition that
follows them: a dropped reset, a swapped order, a forgotten trigger. Each property
is violated when the corresponding variant takes the place of the definition.

## 4. Runs

| Run | Configuration | Shows |
|---|---|---|
| `latest_value` | 5 packets | the inductive invariant, which includes memory safety and no leak (`BufferSound`), no step back, the last packet arrives - under `Pacing` |
| `reserved_slot_race` | 5 packets, no `Pacing` | *violated*: the slot reserved for reading is overwritten |
| `debug_channel` | 5 messages, queue of 2 | the inductive invariant, the same safety (`HeapSound`) without any assumption, the refinement of `MessageChannel`, every accepted message arrives, a blocked sender returns at shutdown |
| `debug_exchange` | 1 container, log replay | the inductive invariant, no mutual blocking, no missed packet, `update()` returns, blocked sends end, shutdown completes although the threads are told one after another |
| `logger` | 2 threads, 2 buffers, 2 frames each | the inductive invariant (owners of the buffers, semaphore and queue), the unlocked `front()`, order, `execute()` and the destructor return, frames handed over are written |
| `log_file_written` | as `logger`, both threads decide | *violated*: "Log file written" is said too early |
| `cognition` | times 1..4, log replay or not, ring of 3, bursts of 2, up to 4 messages | never back, no image twice, no image forgotten, after a rewind an image is used as soon as both cameras have delivered another one (`PairIsUsed`); the ring holds the newest messages (`KeepsNewest`) |
| `module_graph` | 2 threads, 4 modules, 8 configurations, 3 requests | the inductive invariant, packets and lists agree, entries exist, functions of deleted modules only in entries that were switched off, all threads reach the last configuration |
| `module_graph_rejected` | 3 configurations, 3 requests | *violated*: functions of a deleted module remain after a rejected request |
| `provider_sort` | 3 providers, 1 external representation, all requirements | the order is right, there is none if it is refused, the answer is the one the module graph assumes, the loop ends |
| `message_queue` | 2 threads, queues of 7 with a reserve of 4, 3 + 1 frames | the inductive invariant, packets consist of complete frames, `removeRepetitions` may rely on what it asserts, reducing again and again is reducing once |
| `time_sync` | 2 robots, clocks 2..5, 3 messages, 1 restart each | times of requests and replies are in the past, the estimate is wrong by at most half the round trip, an older request never replaces a newer one |

Bounds. Five packets go more than once round the three slots with the receiver
stopped at any point; a queue of two makes both the refused message and the packet
with several messages happen. One container suffices for blocking, because all
channels end in Debug; with it the console is the second peer, and the two loops
of Debug's sends meet (the proof covers any number). The semaphores' counts
saturate at `SignalBound`; a higher count only makes a thread run a frame without
packets, which a container may do anyway. Two threads and two buffers let a thread
find the pool empty, full or overtaken; two frames per thread let it reuse a
buffer. In `module_graph` the configurations exchange the provider of a
representation, stop sending one, drop one to its default, move modules to the other
thread, run everything in one thread, switch off a representation another module goes on
using, let modules use what is computed later or not at all, and contain an error; with three requests a thread can be two configurations
behind while packets of both are on their way. The motion thread may miss requests. `StaleOnlyIfOff` exempts it,
as a thread that misses a request misses the entries to reset as well. Three
providers can form every kind of cycle and need up to two rounds of moves. Four time
values allow any order of two images of the cameras relative to one already seen. A ring
of 3 overflows with four messages that arrive in bursts of 2, with packets of a wrong size
between them.

In `message_queue` a queue of 7 with a reserve of 4 refuses texts, infrastructure messages
and direct copies, and lets the step-by-step copy happen; the brackets of the second
thread are larger and need the whole reserve. One thread has three frames (one that
is sent, one that stays, one that is empty), the other one. At most `MaxOutputs` = 2
messages per frame and one answer of Debug itself. Debug's queue has 16 bytes, which can be
too few for what arrives. `TextLimit` is 1 instead of 20. `CounterSize` is that of the code,
65536: `LatestOfAllArrived` is about queues with fewer messages than that. `idRobotPose` stands for all
types of messages that are also logged; it is treated like the timing and is in no
thread's `outputs`. In `time_sync` three messages are a request, its answer and one more
that overtakes or repeats; with a buffer of 2 measurements are dropped; `MaxReplyAge` = 1
is exceeded if the answer comes late. The robots run the same program and are symmetric.
`2 * MaxTime < HalfWidth` says that no robot runs for three days (28 bits of
milliseconds), which the message format relies on.

Deadlock is not checked where all messages, packets or frames of the bound may have
been used up or no image needs to come; it is in `debug_exchange`, in which only the completed shutdown stops.

Fairness. Weak fairness of each thread's own steps: the operating system schedules
every thread. Never assumed: that a user types, that the simulator stops, that a
frame outputs something, that a timed wait ends early, that images arrive, that the
disk stays free. In `DebugExchange` fairness of `Update` is the simulator calling
`update()` in its loop; of `EndThreads`, `RoboCupCtrl::stop` going on. In
`ModuleGraph` each thread goes on handling its messages and executing frames, but
`beforeFrame` never has to return true: only the change itself forces a frame.

Timing. `LatestValue` is correct only under `Pacing`: from the end of one
`setPacket` to the slot choice of the next passes more time than between the load
and the store of `reading = actual`, i.e. a sender's frame is longer than two
adjacent instructions of the receiver. The code relies on it silently; the
violation run shows what happens when the receiver is preempted just there. `Pacing` is a
restriction of the steps (`PacedNext`), not of the states, and it is the only hypothesis
of the theorems about `PacedSpec`.

## 5. Disagreements between code and comments

* `reserved_slot_race`: `ASSERT(writing != reading)` (`Communication.cpp:24`) and
  "Index of packet reserved for reading" (`Communication.h:42`) do not hold in all
  interleavings.
* `module_graph_rejected`: a request replaces `ModuleGraphCreator::config` before it is
  examined (`ModuleGraphCreator.cpp:291`). After a rejected one, the entries to reset are
  determined against a configuration that no thread runs, and an entry keeps the
  functions of a deleted module. `ModuleGraphRunner.cpp:64-65` says that they are reset
  "to prevent function pointers from becoming invalid". The same happens in a thread a
  provider is moved away from, if a module that reads the entry stays
  (`ModuleGraphCreator.cpp:360` looks the provider up in all threads), in a thread
  that missed a request, and for what is switched off (first item below).
* `log_file_written`: `Logger.cpp:142-146` announces the end of the log file when
  the queue is empty, while a frame may still be in the hands of a thread or of the
  writer; `Logger.h:55` describes the flag as reset only when all is written.

These are seen in the models, but are no runs of their own:

* `ModuleGraphRunner.cpp:64` says that all entries are reset that are provided "by a
  different module or no module anymore". An entry that no module provides any more is only
  reset if it gets its default (`ModuleGraphCreator.cpp:366-372`). If the representation is
  switched off while a module that only `USES` it goes on running, which `calcShared`
  accepts (`Module.h:499`), that module's entry keeps the functions of the deleted
  provider. The configurations of `module_graph` do this (from `Wide` to `Off`): with
  `NoStaleFunctions` as the invariant in `ModuleGraph.cfg` TLC finds it violated after six
  steps. What `module_graph` checks is therefore `StaleOnlyIfOff`, which
  says that such entries are the only stale ones.
* `removeRepetitions` keeps up to 21 texts of each thread; `MessageQueueBase.cpp:264` says
  "accept up to 20 times, thread id is not important". (The count is decremented before it
  is compared, and the counts are per thread.)
* The direct copy of a queue does not respect the reserve, while by `MessageQueue.h:55`
  "non-infrastructure messages will be rejected if less than this number of bytes is free"; so frames of the threads can lose their brackets when timing or annotations
  fill the queue. `CompleteFrames` holds as long as the queue is not `overdrawn`.
* After a restart of a team mate an answer to its previous life yields a round trip that
  does not measure anything and may even be negative, although `BNTP.h:71` calls it the
  time the messages "have been in the WLAN". Being the shortest, it determines the offset
  until it drops out of the buffer. `EstimateAccurate` therefore asks that no measurement
  in the buffer is from before a restart.
* An age of a request of more than 12 bits is cut. This only makes the way seem longer, so
  the estimate stays within its bound.

## 6. Proofs

`CommunicationProofs` - `IInv` of `DebugChannel` is inductive. It is needed because none of the
properties is: that the slot chosen is not reserved follows from *only the slot
"actual" is filled* and *the receiver can be elsewhere only while that slot is
filled*; since a packet is sent only into an empty slot "actual", the receiver's
stale index is harmless. From `IInv` follow type correctness, `SlotNotReserved`,
`MemorySafe` and `NoLeak`, and that each step is a step of `MessageChannel` or
leaves it unchanged (`Implementation`). `HeapSound` (used only while allocated, freed
once, never leaked) is the conjunction of the two about memory (`HeapIsSound`). In the
abstract channel the stream from the receiver back to the sender's queue is ascending
(`ChannelOrdered`): a write appends a larger number; a transmission or delivery moves
messages along the stream without changing it. `Ordered` carries this over to the
three slots. Assumed is only `DebugChannelAssumption`: the number of
messages is natural, the capacity positive.

The second part is about the plain `Sender` (`PacedSpec`), for any number of packets. It
replaces packets that were not taken, so the argument above is not available: here it is
`Pacing` that keeps the sender out of the slot the receiver has decided for
(`SlotsDisjoint`). `PacketsHeld` says at each pair of control locations which pointers are
alive: those of all slots, except that the slot the receiver has freed and not yet
cleared, and the slot the sender has freed and not yet overwritten, dangle; and the packet
that is streamed is in no slot. `BufferSound` follows (`PacedMemory`).
`NewestInActual` and `ReceiverAhead` say that only the last published packet can be in
slot "actual" and that what the receiver has decided for is newer than what it got: so
`NeverOlder`, an action property (`AlwaysNewer`).

`DebugExchangeProofs` - for any number of containers. `NoMutualBlocking` alone is
not inductive; `OneEndEmpty` is: while Debug and a peer both are between their look
at the channel and their send, at most one packet is pending between them. `NoMissedPacket`
(`NothingMissed`) needs `PacketsSignalled`: a packet that came after a thread looked at
the channel left a signal that was not consumed since. Both hold also while some threads
have been told to stop, or have ended, and others have not.

`LoggerProofs` - for finitely many threads, any buffers and any number of frames each.
What is promised depends on each other: that the front is there (`FrontReady`) on the
count of posts, the order of the frames (`Ordered`) on the owners of the buffers.
`IInv` has five parts for this: `OneOwner`; `FramesHeld` and `ThreadsSound`, what a buffer
contains while it is in the pool, in the queue, with a thread or with the writer;
`PostsCounted`, that until the destructor posts, the queue holds a frame for each post,
for each thread about to post and for the one the writer works at; and `FramesInOrder`,
`InOrder` stated for each pair of places (file, compressed frame, queue) together with
`Logged`, that none of them is younger than what its thread fills a buffer with. After the
destructor's post nothing is counted any more: the writer then looks at
`running` first.

`CognitionProofs` - for any times. `TimesInOrder` relates the flags to the times;
with `LeftoverIsNext` it makes `NeverBack` and `NoImageTwice` hold in each step.
In a log replay `AllNewInReplay` takes its place, the other images since the last use all count
as new, and implies `PairIsUsed` (`PairUsed`).
`KeepsNewest` is proved for any size of the ring and any bursts. What a burst does is a
recursive function of its packets (`Buffers`). The library's induction theorems cannot be
used here (they take an operator as a parameter), but induction is also a statement about
a set: a set of numbers that contains 0 and the successor of each member contains all of
them. `AllNumbers` proves this from the well-foundedness of `<`, and the set is that of the
lengths after which the claim holds. The claim for one packet (`ReadMessage`,
`ReadNothing`) is the arithmetic of the ring: the slot behind the newest message is
reserved, which drops the oldest one when all others are taken, and a packet without
content gives it back. `BurstRead` counts the packets with content.

`ModuleGraphProofs` - for any number of threads, modules and requests, and whichever
requests are lost. `LayoutsAgree` compares lists that two threads made at different
times; the invariant says what connects them: a timestamp stands for one
configuration wherever it appears, in a request, in a runner or in a packet
(`RequestsNumbered`, `RunnersNumbered`, `PacketsNumbered`), and while a runner's
timestamp is valid, its lists and modules are those of that configuration
(`RunnersConsistent`). As received and sent are the same set of a configuration, equal
timestamps mean equal layouts. `EntriesExist` needs that an accepted configuration has
a constructed module for each end of an exchange. Assumed: `ModulesAssumption` and
`ModuleGraphAssumption`, i.e. well-formed configurations of which the first is
accepted.

`NothingStale` has a hypothesis besides: `ResetsSuffice => (Spec => []StaleOnlyIfOff)`.
Both its hypothesis and the exception in its conclusion are there because the code does not
keep the promise of `NoStaleFunctions` for all configurations (section 5).
`ResetsSuffice` speaks of configurations only, not of states: if the provider of an entry
leaves a thread, the entry is in the list of entries to reset, also when that list was made
by comparison with a rejected request, or it is switched off, or no module that stays in this
thread reads or provides it. Entries that were switched off and not provided since
are the exception (`off`); a later request does not list them either, as nobody provided them
before.
`ResetsAssumption` in `MCModuleGraph` lets TLC evaluate it: it is true of the eight
configurations of the run `module_graph`, though one of them is rejected, and false of the
three of `module_graph_rejected`. The invariant follows a list on its way: each request
waiting for a thread lists what the change *from the configuration the thread will then
run* needs (`ResetsListed`, where `Before` is the request queued before, or what
it runs), the modules a thread has constructed are those its configuration requires
(`ModulesRequired`), and only entries with a provider hold functions, those of
this provider, or were switched off (`FunctionsProvided`). Threads in `Full`, which miss requests, are exempt as
in the property.

`ProviderSortProofs` - for any number of providers. `PrefixSorted` says that what the
iterator has passed is in order, `SuffixBlocked` that the last entries of the list were
found to miss a requirement since the last success. When no moves are left, the suffix
is all that remains, and these providers wait for each other: so `Correct`. Its last part,
that the answer is `Sortable`, connects the two models: `calcShared` has rejected
configurations with a requirement nobody provides (`Available`), and of a consistent list
the first provider of any set waits for no other one of the set.

`DebugQueueProofs` - for any sizes of queues, reserve, brackets and messages and any
number of threads. A bracket is never refused because the reserve holds two of them
(`ReserveAssumption`, which threads.cfg satisfies by far): `BracketOpen` says that the
current frame's `idFrameBegin` stands where `numberOfMessages` points and that the reserve
is left behind it, or two brackets more than the reserve if the frame is empty, since the
end of the last frame and the begin of this one may have been taken from it. From it
follow the alternation of the brackets in the queue, that `removeLastMessage` takes back
exactly the open bracket, and `CompleteFrames`. These are the first part of the invariant
(`FramesInOrder`). The composition with Debug implements the
threads' specification (`DebugIsFrameQueue`): Debug only takes packets, so what is
proved of the threads holds in `Spec`.

`AssertionHolds` is about Debug's queue: that its number of messages and of bytes is right
whatever is removed from it, that it never exceeds its size, and that the assertion of
`removeRepetitions` is true, i.e. that an `idFrameFinished` always follows an
`idFrameBegin` of the same thread although packets of several threads are mixed and any
message may be refused. This does not follow from `FramesInOrder`, as a reserve used by
others voids it. What remains true even then is `OwnMessages`: a thread's queue is never
empty between frames and begins with an `idFrameBegin` of its own, and all its brackets
have the same size. So a packet that is moved into Debug's queue first brings its
`idFrameBegin`; if this is refused for lack of room, each later `idFrameFinished`
of the packet, which is as large, is refused as well, and what is accepted in between is no
bracket (`DebugFinish`, `CopiedLemma`). `removeRepetitions` keeps this property (`Matched`)
because it takes back only an `idFrameBegin` behind which nothing was kept:
`ScanOK` relates the state of the scan to the messages seen so far - how many were kept
and deleted, how many bytes they have, who sent the last one, and whether the bracket to go
back to is the last message kept (`ScanStep`, `RepetitionsLemma`). The counters do not
occur in the argument: which repetitions are dropped does not matter for it. All inductions
are over recursive functions, by the set of numbers as in `CognitionProofs`.

`NothingLost` proves `LatestOfAllArrived`, for any number of threads, any text limit and
counters of any width. What is reduced once more together with what arrived later is
`Latest(Latest(a) \o b)`, and it has to be `Latest(a \o b)` (`LatestJoin`), although the first
reduction removed messages that the second one would have counted. The reason is `Enough`:
a selection of messages leaves the decisions about them as they were (`LatestOfEnough`)
if it holds all that stay, the `idFrameBegin` each of them is behind, and, for what is only
kept for the latest frame, all ends of frames of the same thread that follow. What stays in
`a` is such a selection of `a \o b` if all of `b` is added (`EnoughJoin`): a message that is
replaced within `a` still is in `a \o b`, and a bracket that is empty in `a` is not needed. This
is false if a message for the latest frame is in a frame without an end, as its
own end would be missing from the count until it arrives; `FramesEnd` excludes this, and
holds because packets consist of complete frames (`CompleteEnds`). The other half is that
the second pass computes `Latest` (`RepetitionsLatest`). `ScanLatest` relates its state to
the messages seen so far: the counters are how many messages of each type and thread are
left (`CountLemma`, `CountsStep`); what is kept is what stays, an `idFrameBegin` if
something has been kept since or if it is the last one so far (`KeptUpto`); and the bracket to go
back to is that one as long as nothing has been kept behind it (`NothingSince`). Here the
counters matter, and a counter that wraps would break it: hence the condition on
`CounterSize`. The invariant is `SameLatest`: what `Latest` makes of the queue is what it
makes of all that arrived. It also holds between reductions, with `debug:keepAllMessages`,
and from it follows `LatestOfAllArrived` after each one.

`TimeSyncProofs` - for any number of robots and any bounds, however messages are
treated. A request was received after it was sent, an answer was sent after that, and a
message of the current life was sent in the past; so with the true difference of
the clocks, both flights took at least no time, and half of their difference is
at most half of their sum (`MeasurementsAccurate`). The conversions through `unsigned` give
the true values as all times are less than half the width. `BestIsShortest` connects the
measurements with the estimate. `LivesArePast` keeps what a restarted robot receives of
its former life apart. `NewestRequest` is an action property, from the guard of the request and
its removal.

Only model-checked: everything about liveness, as leads-to under fairness is out of the
prover's reach. Each safety invariant the passing runs check is stated by a theorem.

## 7. Not modelled

* Numerical code (perception, self-localisation, motion), behaviour options, user
  interface, vendored libraries, scripts and configuration files. They are most of the
  repository and have no states that could be enumerated or promises to compare
  them with.
* `CameraProvider`: both threads call the camera driver, whose answers decide about every
  branch; the driver and the hardware it resets are outside of the repository.
* The game data provider: a sequential decision table over button times and packets. Its
  states are given by the rules of the game; the code promises nothing about them.
* Thread life cycle: frames and their orderly end are part of `DebugExchange`. What remains
  is the cancellation of a thread that did not end within 10 s, after which the state
  of the program is undefined.
* Message queue: the index over the messages of a log, reading the messages, and which of
  several messages are dropped when a team message gets too long.
* Time synchronisation: the list of team mates, mixed teams,
  and the age of the image a team message is about; the time of the frame is the time of
  the message.
* Log player: sequential replay of files; its flow control is part of `DebugExchange`.

Memory is sequentially consistent in the models: the compilers and processors the code is
built for do not reorder volatile accesses of the kind it uses (x86); the code
itself uses `volatile`, not atomics. The routing of single messages
(`Debug::handleMessage`) is reduced to "the messages go to any set of threads".
On the robot, Debug hands its queue to `DebugHandler`, which talks to the console over TCP;
in the simulator it sends blocking (`send(true)`), which is what `DebugExchange` has.
`DebugChannel` covers both kinds of calls, the TCP side is open. A thread that throws or
crashes ends the whole program and leaves nothing to recover; a restart of the program is
modelled in `TimeSync`, the only place where something outlives it.
