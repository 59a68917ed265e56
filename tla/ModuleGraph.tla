----------------------------- MODULE ModuleGraph -----------------------------
(***************************************************************************)
(* Switching the module configuration of all threads while they exchange   *)
(* data.  The Debug thread computes the execution values of a requested    *)
(* configuration and queues them for every thread together with the        *)
(* request's timestamp; each thread adopts them when it gets round to it.  *)
(* Meanwhile packets of the old and the new configuration are under way,   *)
(* whose content only the timestamp tells apart.                           *)
(***************************************************************************)
EXTENDS ModuleGraphCreator, Sequences

CONSTANTS
  Uses,             \* Uses[m]: the USES of module m
  Configurations,   \* the configurations that may be requested
  Initial,          \* the configuration in threads.cfg
  MaxRequests,      \* bound: the number of requests, the initial one included
  Full              \* the threads whose debug queue may be full

ASSUME ModuleGraphAssumption ==
  /\ Uses \in [Module -> SUBSET Representation]
  /\ \A c \in Configurations : IsConfiguration(c)
  /\ Initial \in Configurations /\ Accepted(Initial)
  /\ MaxRequests \in Nat \ {0}
  /\ Full \subseteq Thread

VARIABLES
  config,           \* ModuleGraphCreator::config, the last one requested
  issued,           \* the requests made, by timestamp (history)
  requests,         \* requests[t]: the idModuleRequests on their way to thread t
  running,          \* running[t]: the configuration last given to update()
  timestamp,        \* timestamp[t]: ModuleGraphRunner::timestamp
  nextTimestamp,    \* nextTimestamp[t]: ModuleGraphRunner::nextTimestamp
  streamed,         \* streamed[t]: the configuration toSend and toReceive are from
  instances,        \* instances[t]: the modules of thread t that are constructed, each
                    \* paired with every representation it has provided so far
  functions,        \* functions[t][r]: whose functions blackboard entry r holds
  packet,           \* packet[s][t]: the packet from s that t did not take yet
  off               \* off[t]: what was switched off since t last provided it (history)

creatorVars == <<config, issued>>
runnerVars == <<running, timestamp, nextTimestamp, streamed, instances, functions>>
vars == <<creatorVars, requests, runnerVars, packet, off>>

NoPacket == [timestamp |-> 0, content |-> {}]

Request(k, prev, c) ==
  [timestamp |-> k, config |-> c, reset |-> representationsToReset(prev, c)]

\* The constructors, and Debug::init: threads.cfg is the first request.  Its
\* timestamp 0xffffffff is the 1 here; only whether timestamps are equal matters.
Init ==
  /\ config = Initial
  /\ issued = <<Initial>>
  /\ requests = [t \in Thread |-> <<Request(1, NoConfiguration, Initial)>>]
  /\ running = [t \in Thread |-> NoConfiguration]
  /\ timestamp = [t \in Thread |-> 0]
  /\ nextTimestamp = [t \in Thread |-> 0]
  /\ streamed = [t \in Thread |-> NoConfiguration]
  /\ instances = [t \in Thread |-> {}]
  /\ functions = [t \in Thread |-> [r \in Representation |-> {}]]
  /\ packet = [s \in Thread |-> [t \in Thread |-> NoPacket]]
  /\ off = [t \in Thread |-> {}]

-----------------------------------------------------------------------------
\* Each thread that can take it gets the execution values and the timestamp k.  A
\* message that does not fit into the queue is lost.
Distribute(c, k) ==
  /\ Len(issued) < MaxRequests
  /\ issued' = Append(issued, c)
  /\ config' = c
  /\ \E lost \in SUBSET Full :
       requests' = [t \in Thread |->
                      IF Accepted(c) /\ t \notin lost
                        THEN Append(requests[t], Request(k, config, c))
                        ELSE requests[t]]
  /\ UNCHANGED <<runnerVars, packet, off>>

\* Mutant: the configuration gets the timestamp of the last one.
RequestOldTimestamp(c) == Distribute(c, Len(issued))

\* Debug::handleMessage, idModuleRequest.  The creator's configuration is replaced
\* before it is examined.
handleRequest(c) == Distribute(c, Len(issued) + 1)

Constructed(modules) == {p[1] : p \in modules}

\* What module m looks up in the blackboard.
Reads(m) == Requires[m] \union Uses[m]

\* A blackboard entry exists as long as a module that reads it or that has
\* provided it.
Exists(r, modules) == \E p \in modules : r \in Reads(p[1]) \union {p[2]}

\* Thread t changes to the configuration of its next request: entries are reset,
\* then the modules that are not required any more deleted, and with the last
\* module that uses it an entry.
Adopt(t, reset, stamp) ==
  LET request == Head(requests[t])
      kept    == {p \in instances[t] : p[1] \in Required(request.config, t)}
  IN  /\ requests[t] # <<>>
      /\ requests' = [requests EXCEPT ![t] = Tail(@)]
      /\ running' = [running EXCEPT ![t] = request.config]
      /\ functions' = [functions EXCEPT ![t] =
                         [r \in Representation |->
                            IF r \in reset \/ ~Exists(r, kept) THEN {}
                                                               ELSE functions[t][r]]]
      /\ instances' = [instances EXCEPT ![t] = kept]
      /\ nextTimestamp' = [nextTimestamp EXCEPT ![t] = request.timestamp]
      /\ timestamp' = [timestamp EXCEPT ![t] = stamp]
      /\ off' = [off EXCEPT ![t] =
                   (@ \union {r \in Representation : SwitchedOff(request.config, r)})
                     \ Provided(request.config, t)]
      /\ UNCHANGED <<creatorVars, streamed, packet>>

\* Mutant: the runner's timestamp stays valid although its modules changed.
UpdateKeepsTimestamp(t) == Adopt(t, Head(requests[t]).reset, timestamp[t])

\* Mutant: no entries are reset.
UpdateWithoutReset(t) == Adopt(t, {}, 0)

\* ModuleContainer::handleMessage, idModuleRequest: ModuleGraphRunner::update.
update(t) == Adopt(t, Head(requests[t]).reset, 0)

\* toSend[s] and toReceive[s] of thread t.
toSend(c, t, s) == Received(c, s, t)
toReceive(c, t, s) == Received(c, t, s)

receiverEmpty(t, s) == toReceive(streamed[t], t, s) = {}
hasChanged(t) == timestamp[t] = 0
isValid(t) == nextTimestamp[t] # 0

\* receiver.checkForPacket() for every receiver: afterwards the packet is gone,
\* no matter whether readPacket streamed or skipped it.
AllTaken(t) ==
  [s \in Thread |-> [packet[s] EXCEPT ![t] =
     IF receiverEmpty(t, s) THEN packet[s][t] ELSE NoPacket]]

\* ModuleGraphRunner::execute: the modules are constructed when they run first.
\* Then, after a change, the entries to stream are looked up.
execute(t) ==
  /\ timestamp' = [timestamp EXCEPT ![t] = IF hasChanged(t) THEN nextTimestamp[t] ELSE @]
  /\ streamed' = [streamed EXCEPT ![t] = IF hasChanged(t) THEN running[t] ELSE @]
  /\ instances' = [instances EXCEPT ![t] = @ \union Providers(running[t], t)]
  /\ functions' = [functions EXCEPT ![t] =
                     [r \in Representation |->
                        IF r \in Provided(running[t], t)
                          THEN {running[t].providers[t][r]} ELSE functions[t][r]]]

\* A frame in which the modules ran ends with a packet to every thread that wants
\* one (sender.send(), writePacket); it replaces one that was not taken.
Sent(t) ==
  [AllTaken(t) EXCEPT ![t] =
     [s \in Thread |->
        IF toSend(streamed'[t], t, s) = {} THEN packet[t][s]
        ELSE [timestamp |-> timestamp'[t], content |-> toSend(streamed'[t], t, s)]]]

MainIf(t, executes) ==
  /\ IF executes
       THEN execute(t) /\ packet' = Sent(t)
       ELSE packet' = AllTaken(t) /\ UNCHANGED <<timestamp, streamed, instances, functions>>
  /\ UNCHANGED <<creatorVars, requests, running, nextTimestamp, off>>

\* Mutant: a frame needs beforeFrame() even if the configuration changed.
MainIfReady(t, ready) == MainIf(t, ready /\ isValid(t))

\* ModuleContainer::main; "ready" is what the execution unit's beforeFrame returns.
main(t, ready) == MainIf(t, (ready \/ hasChanged(t)) /\ isValid(t))

Frame(t) == \E ready \in BOOLEAN : main(t, ready)

Next ==
  \/ \E c \in Configurations : handleRequest(c)
  \/ \E t \in Thread : update(t) \/ Frame(t)

Spec == Init /\ [][Next]_vars

\* Each thread keeps running: it handles its messages and executes frames.
FairSpec == Spec /\ \A t \in Thread : WF_vars(update(t)) /\ WF_vars(Frame(t))

-----------------------------------------------------------------------------
TypeOK ==
  /\ issued \in Seq(Configurations) /\ issued # <<>>
  /\ config \in Configurations
  /\ requests \in [Thread -> Seq([timestamp : 1..Len(issued), config : Configurations,
                                 reset : SUBSET Representation])]
  /\ timestamp \in [Thread -> 0..Len(issued)]
  /\ nextTimestamp \in [Thread -> 0..Len(issued)]
  /\ running \in [Thread -> Configurations \union {NoConfiguration}]
  /\ streamed \in [Thread -> Configurations \union {NoConfiguration}]
  /\ instances \in [Thread -> SUBSET (Module \X Representation)]
  /\ functions \in [Thread -> [Representation -> SUBSET Module]]
  /\ packet \in [Thread -> [Thread -> [timestamp : 0..Len(issued),
                                       content : SUBSET Representation]]]
  /\ off \in [Thread -> SUBSET Representation]

\* t streams the packet from s into its representations (readPacket's test).
Readable(s, t) ==
  ~receiverEmpty(t, s) /\ packet[s][t] # NoPacket /\ packet[s][t].timestamp = timestamp[t]

\* A packet is streamed only into exactly the representations that were streamed
\* into it, although both sides choose them on their own at different times.
LayoutsAgree ==
  \A s, t \in Thread :
    Readable(s, t) => packet[s][t].content = toReceive(streamed[t], t, s)

\* The entries a thread streams from and to were not freed since it looked up
\* their addresses: not after modules were deleted either.
EntriesExist ==
  \A s, t \in Thread :
    /\ timestamp[t] # 0 => \A r \in toSend(streamed[t], t, s) : Exists(r, instances[t])
    /\ Readable(s, t) => \A r \in toReceive(streamed[t], t, s) : Exists(r, instances[t])

\* "Reset all blackboard entries that are now provided by a different module or no
\* module anymore. Note: Needed to prevent function pointers from becoming invalid"
\* (ModuleGraphRunner::update): no module that runs reads a representation whose
\* functions belong to a module that was deleted.  A thread that missed a request
\* also missed the entries to reset.
Stale(t) ==
  {r \in Representation :
     /\ \E m \in Required(running[t], t) : r \in Reads(m)
     /\ ~(functions[t][r] \subseteq Constructed(instances[t]))}

NoStaleFunctions == \A t \in Thread \ Full : timestamp[t] # 0 => Stale(t) = {}

\* What the code keeps of that promise: it does not reset what is provided by "no module
\* anymore", unless it gets its default.  A module that only USES such a representation
\* goes on running and keeps the functions of the deleted provider, until its thread
\* provides the representation again.  Apart from these nothing is stale.
StaleOnlyIfOff == \A t \in Thread \ Full : timestamp[t] # 0 => Stale(t) \subseteq off[t]

\* Why the layouts agree: a timestamp stands for one configuration wherever it
\* appears, in a request, in a runner or in a packet; while a runner's timestamp is
\* valid, its lists and its modules are those of its configuration.
RequestsNumbered ==
  \A t \in Thread : \A i \in DOMAIN requests[t] :
    LET request == requests[t][i]
    IN  request.config = issued[request.timestamp] /\ Accepted(request.config)

RunnersNumbered ==
  \A t \in Thread :
    IF nextTimestamp[t] = 0
      THEN running[t] = NoConfiguration /\ timestamp[t] = 0
      ELSE running[t] = issued[nextTimestamp[t]] /\ Accepted(running[t])

RunnersConsistent ==
  \A t \in Thread : timestamp[t] # 0 =>
    /\ timestamp[t] = nextTimestamp[t] /\ streamed[t] = running[t]
    /\ Providers(running[t], t) \subseteq instances[t]

PacketsNumbered ==
  \A s, t \in Thread : packet[s][t] # NoPacket =>
    /\ packet[s][t].timestamp \in DOMAIN issued
    /\ packet[s][t].content = Received(issued[packet[s][t].timestamp], t, s)

Numbered ==
  TypeOK /\ RequestsNumbered /\ RunnersNumbered /\ RunnersConsistent /\ PacketsNumbered

Rejected == {c \in Configurations : ~Accepted(c)}

\* What StaleOnlyIfOff takes of the configurations, because one list
\* of entries to reset serves all threads and is made by comparison with the last
\* request, even a rejected one: if the provider of an entry leaves a thread, the entry
\* is listed, or it is switched off, or it vanishes because no module that stays there
\* reads or provides it.
ResetsSuffice ==
  \A c, d \in Configurations \ Rejected : \A e \in {c} \union Rejected :
    \A t \in Thread : \A r \in Provided(c, t) \ Provided(d, t) :
      \/ r \in representationsToReset(e, d)
      \/ SwitchedOff(d, r)
      \/ \A m \in Required(c, t) \intersect Required(d, t) :
           r \notin Reads(m) \union Provides[m]

\* The configuration t changes from when it adopts its i-th request.
Before(t, i) == IF i = 1 THEN running[t] ELSE requests[t][i - 1].config

\* Why no functions are stale: what a thread is told to reset stems from a comparison
\* with the configuration it changes from, or with a rejected one.
ResetsListed ==
  \A t \in Thread \ Full :
    /\ config \in {Before(t, Len(requests[t]) + 1)} \union Rejected
    /\ \A i \in DOMAIN requests[t] : \E e \in {Before(t, i)} \union Rejected :
         requests[t][i].reset = representationsToReset(e, requests[t][i].config)

\* Only required modules live, and after a frame each provided entry holds the
\* functions of its provider.
ModulesRequired ==
  \A t \in Thread :
    /\ \A p \in instances[t] : p[1] \in Required(running[t], t) /\ p[2] \in Provides[p[1]]
    /\ timestamp[t] # 0 => \A r \in Provided(running[t], t) :
         functions[t][r] = {running[t].providers[t][r]}

\* No other entry holds functions, except for what was switched off.
FunctionsProvided ==
  \A t \in Thread \ Full : \A r \in Representation :
    functions[t][r] # {} => r \in Provided(running[t], t) \union off[t]

IInv ==
  Numbered /\ ResetsListed /\ ModulesRequired /\ (ResetsSuffice => FunctionsProvided)

\* Every request that can be fulfilled is fulfilled by all threads, or a later one
\* is, even by a thread whose frames wait for data of another one.
EverybodySwitches ==
  \A t \in Thread \ Full : \A k \in 1..MaxRequests :
    (k \in DOMAIN issued /\ Accepted(issued[k])) ~> timestamp[t] >= k
=============================================================================
