-------------------------- MODULE ModuleGraphProofs --------------------------
(***************************************************************************)
(* For any number of threads and requests: threads that exchange a packet  *)
(* agree on what is in it, and stream only from and to blackboard entries  *)
(* that exist.                                                             *)
(***************************************************************************)
EXTENDS ModuleGraph, TLAPS

\* What a configuration mentions exists.
LEMMA ConfigurationTypes ==
  ASSUME NEW c \in Configurations, NEW t \in Thread
  PROVE  /\ Provided(c, t) \subseteq Representation
         /\ Providers(c, t) \subseteq Module \X Representation
         /\ \A r \in Provided(c, t) : c.providers[t][r] \in Module
<1>1. IsConfiguration(c)
  BY ModuleGraphAssumption
<1>2. /\ DOMAIN c.providers[t] \subseteq Representation
      /\ c.providers[t] \in [DOMAIN c.providers[t] -> Module]
  BY <1>1 DEF IsConfiguration
<1>3. QED
  BY <1>2 DEF Provided, Providers

\* What threads receive are representations.
LEMMA ReceivedTypes ==
  ASSUME NEW c \in Configurations, NEW s \in Thread, NEW t \in Thread
  PROVE  Received(c, s, t) \subseteq Representation
<1>1. Provided(c, t) \subseteq Representation
  BY ConfigurationTypes
<1>2. QED
  BY <1>1 DEF Received

\* representationsToReset lists representations.
LEMMA ResetTypes == \A prev, c : representationsToReset(prev, c) \subseteq Representation
  BY DEF representationsToReset

\* In an accepted configuration, what is exchanged has an entry in both threads.
LEMMA ExchangedIsMentioned ==
  ASSUME NEW c, calcShared(c), NEW s \in Thread, NEW t \in Thread,
         NEW r \in Received(c, t, s)
  PROVE  Exists(r, Providers(c, t)) /\ Exists(r, Providers(c, s))
<1>1. r \in Missing(c, t) /\ r \in Provided(c, s)
  BY DEF Received
<1>2. PICK q \in Provided(c, t) : r \in Requires[c.providers[t][q]]
  BY <1>1 DEF Missing, Required
<1>3. <<c.providers[t][q], q>> \in Providers(c, t)
  BY DEF Providers
<1>4. <<c.providers[s][r], r>> \in Providers(c, s)
  BY <1>1 DEF Providers
<1>5. QED
  BY <1>2, <1>3, <1>4 DEF Exists, Reads

-----------------------------------------------------------------------------
\* The initial request has number 1 everywhere; no runner has adopted it yet.
LEMMA InitNumbered == Init => Numbered
<1> SUFFICES ASSUME Init PROVE Numbered
  OBVIOUS
<1>1. issued = <<Initial>> /\ Initial \in Configurations /\ Len(issued) = 1
      /\ issued[1] = Initial /\ Accepted(Initial)
  BY ModuleGraphAssumption DEF Init
<1>2. \A t \in Thread : requests[t] = <<Request(1, NoConfiguration, Initial)>>
  BY DEF Init
<1>3. TypeOK
  <2>1. Request(1, NoConfiguration, Initial)
          \in [timestamp : 1..Len(issued), config : Configurations, reset : SUBSET Representation]
    BY <1>1, ResetTypes DEF Request
  <2>2. requests \in [Thread -> Seq([timestamp : 1..Len(issued), config : Configurations,
                                     reset : SUBSET Representation])]
    BY <2>1 DEF Init
  <2>3. issued \in Seq(Configurations) /\ issued # <<>>
    BY <1>1
  <2>4. packet \in [Thread -> [Thread -> [timestamp : 0..Len(issued),
                                          content : SUBSET Representation]]]
    BY <1>1 DEF Init, NoPacket
  <2>5. QED
    BY <1>1, <2>2, <2>3, <2>4 DEF Init, TypeOK
<1>4. RequestsNumbered
  BY <1>1, <1>2 DEF RequestsNumbered, Request
<1>5. RunnersNumbered /\ RunnersConsistent /\ PacketsNumbered
  BY DEF Init, RunnersNumbered, RunnersConsistent, PacketsNumbered
<1>6. QED
  BY <1>3, <1>4, <1>5 DEF Numbered

\* A new request gets a new number, and the numbers given keep their meaning.
LEMMA RequestStep ==
  ASSUME Numbered, NEW c \in Configurations, handleRequest(c)
  PROVE  Numbered'
<1> DEFINE n == Len(issued)
           Requests(k) == [timestamp : 1..k, config : Configurations,
                           reset : SUBSET Representation]
           new == Request(n + 1, config, c)
<1>a. PICK lost \in SUBSET Full :
        requests' = [t \in Thread |->
                       IF Accepted(c) /\ t \notin lost THEN Append(requests[t], new)
                                                       ELSE requests[t]]
  BY DEF handleRequest, Distribute
<1>b. /\ issued' = Append(issued, c) /\ config' = c
      /\ UNCHANGED <<running, timestamp, nextTimestamp, streamed, instances, functions,
                     packet, off>>
  BY DEF handleRequest, Distribute, runnerVars
<1>c. TypeOK /\ RequestsNumbered /\ RunnersNumbered /\ RunnersConsistent /\ PacketsNumbered
  BY DEF Numbered
<1>1. /\ n \in Nat /\ issued' \in Seq(Configurations) /\ issued' # <<>>
      /\ Len(issued') = n + 1 /\ issued'[n + 1] = c
      /\ \A k \in 1..n : issued'[k] = issued[k]
  <2>1. issued \in Seq(Configurations)
    BY <1>c DEF TypeOK
  <2>2. n \in Nat /\ issued' \in Seq(Configurations) /\ Len(issued') = n + 1
    BY <1>b, <2>1
  <2>3. issued'[n + 1] = c /\ \A k \in 1..n : issued'[k] = issued[k]
    BY <1>b, <2>1
  <2>4. issued' # <<>>
    BY <2>2
  <2>5. QED
    BY <2>2, <2>3, <2>4
<1>2. \A t \in Thread : requests[t] \in Seq(Requests(n))
  BY <1>c DEF TypeOK
<1>3. new \in Requests(n + 1) /\ new.timestamp = n + 1 /\ new.config = c
  BY <1>1, ResetTypes DEF Request
<1>4. /\ requests' = [t \in Thread |-> requests'[t]]
      /\ \A t \in Thread :
           \/ requests'[t] = requests[t]
           \/ Accepted(c) /\ requests'[t] = Append(requests[t], new)
  <2> HIDE DEF new
  <2>1. QED
    BY <1>a
<1>5. \A t \in Thread : requests[t] \in Seq(Requests(n + 1))
  <2>1. Requests(n) \subseteq Requests(n + 1)
    BY <1>1
  <2> HIDE DEF Requests
  <2>2. QED
    BY <1>2, <2>1
<1> HIDE DEF new
<1>6. \A t \in Thread : requests'[t] \in Seq(Requests(n + 1))
  <2> SUFFICES ASSUME NEW t \in Thread PROVE requests'[t] \in Seq(Requests(n + 1))
    OBVIOUS
  <2> HIDE DEF Requests
  <2>1. CASE requests'[t] = requests[t]
    BY <1>5, <2>1
  <2>2. CASE requests'[t] = Append(requests[t], new)
    BY <1>3, <1>5, <2>2
  <2>3. QED
    BY <1>4, <2>1, <2>2
<1>7. TypeOK'
  <2>1. requests' \in [Thread -> Seq(Requests(Len(issued')))]
    <3> HIDE DEF Requests
    <3>1. QED
      BY <1>1, <1>4, <1>6
  <2>2. /\ timestamp' \in [Thread -> 0..Len(issued')]
        /\ nextTimestamp' \in [Thread -> 0..Len(issued')]
    BY <1>1, <1>b, <1>c DEF TypeOK
  <2>3. packet' \in [Thread -> [Thread -> [timestamp : 0..Len(issued'),
                                           content : SUBSET Representation]]]
    <3>1. [timestamp : 0..n, content : SUBSET Representation]
            \subseteq [timestamp : 0..Len(issued'), content : SUBSET Representation]
      BY <1>1
    <3>2. packet \in [Thread -> [Thread -> [timestamp : 0..n,
                                            content : SUBSET Representation]]]
      BY <1>c DEF TypeOK
    <3>3. packet' = packet
      BY <1>b
    <3>4. QED
      BY <3>1, <3>2, <3>3
  <2>4. QED
    BY <1>1, <1>b, <1>c, <2>1, <2>2, <2>3 DEF TypeOK
<1>8. RequestsNumbered'
  <2> SUFFICES ASSUME NEW t \in Thread, NEW k \in DOMAIN requests'[t]
               PROVE  /\ requests'[t][k].config = issued'[requests'[t][k].timestamp]
                      /\ Accepted(requests'[t][k].config)
    BY DEF RequestsNumbered
  <2>1. /\ DOMAIN requests[t] = 1..Len(requests[t]) /\ Len(requests[t]) \in Nat
        /\ requests[t] \in Seq(Requests(n))
    <3> HIDE DEF Requests
    <3>1. QED
      BY <1>2
  <2>2. \/ k \in DOMAIN requests[t] /\ requests'[t][k] = requests[t][k]
        \/ requests'[t][k] = new /\ Accepted(c)
    <3>1. CASE requests'[t] = requests[t]
      BY <3>1
    <3>2. CASE Accepted(c) /\ requests'[t] = Append(requests[t], new)
      <4>1. /\ DOMAIN requests'[t] = 1..(Len(requests[t]) + 1)
            /\ requests'[t][Len(requests[t]) + 1] = new
            /\ \A j \in 1..Len(requests[t]) : requests'[t][j] = requests[t][j]
        BY <2>1, <3>2
      <4>2. k = Len(requests[t]) + 1 \/ k \in 1..Len(requests[t])
        BY <2>1, <4>1
      <4>3. QED
        BY <2>1, <3>2, <4>1, <4>2
    <3>3. QED
      BY <1>4, <3>1, <3>2
  <2>3. CASE k \in DOMAIN requests[t] /\ requests'[t][k] = requests[t][k]
    <3>1. requests[t][k] \in Requests(n)
      <4> HIDE DEF Requests
      <4>1. QED
        BY <2>1, <2>3
    <3>2. requests[t][k].timestamp \in 1..n
      BY <3>1
    <3>3. QED
      BY <1>1, <1>c, <2>3, <3>2 DEF RequestsNumbered
  <2>4. CASE requests'[t][k] = new /\ Accepted(c)
    BY <1>1, <1>3, <2>4
  <2>5. QED
    BY <2>2, <2>3, <2>4
<1>9. RunnersNumbered'
  <2> SUFFICES ASSUME NEW t \in Thread
               PROVE  IF nextTimestamp[t] = 0
                        THEN running[t] = NoConfiguration /\ timestamp[t] = 0
                        ELSE running[t] = issued'[nextTimestamp[t]] /\ Accepted(running[t])
    BY <1>b DEF RunnersNumbered
  <2>1. nextTimestamp[t] \in 0..n
    BY <1>c DEF TypeOK
  <2>2. CASE nextTimestamp[t] = 0
    BY <1>c, <2>2 DEF RunnersNumbered
  <2>3. CASE nextTimestamp[t] # 0
    <3>1. nextTimestamp[t] \in 1..n
      BY <1>1, <2>1, <2>3
    <3>2. QED
      BY <1>1, <1>c, <2>3, <3>1 DEF RunnersNumbered
  <2>4. QED
    BY <2>2, <2>3
<1>10. RunnersConsistent'
  BY <1>b, <1>c DEF RunnersConsistent
<1>11. PacketsNumbered'
  <2> SUFFICES ASSUME NEW s \in Thread, NEW t \in Thread, packet[s][t] # NoPacket
               PROVE  /\ packet[s][t].timestamp \in DOMAIN issued'
                      /\ packet[s][t].content = Received(issued'[packet[s][t].timestamp], t, s)
    BY <1>b DEF PacketsNumbered
  <2>1. /\ packet[s][t].timestamp \in DOMAIN issued
        /\ packet[s][t].content = Received(issued[packet[s][t].timestamp], t, s)
    BY <1>c DEF PacketsNumbered
  <2>2. DOMAIN issued = 1..n /\ DOMAIN issued' = 1..(n + 1)
    BY <1>1, <1>c DEF TypeOK
  <2>3. QED
    BY <1>1, <2>1, <2>2
<1>12. QED
  BY <1>7, <1>8, <1>9, <1>10, <1>11 DEF Numbered

\* A thread that adopts a request has no valid timestamp until its modules ran.
LEMMA UpdateStep ==
  ASSUME Numbered, NEW t \in Thread, update(t)
  PROVE  Numbered'
<1> DEFINE n == Len(issued)
           Requests == [timestamp : 1..n, config : Configurations,
                        reset : SUBSET Representation]
           request == Head(requests[t])
           kept == {p \in instances[t] : p[1] \in Required(request.config, t)}
<1>1. TypeOK /\ RequestsNumbered /\ RunnersNumbered /\ RunnersConsistent /\ PacketsNumbered
  BY DEF Numbered
<1>2. /\ requests[t] # <<>>
      /\ requests' = [requests EXCEPT ![t] = Tail(@)]
      /\ running' = [running EXCEPT ![t] = request.config]
      /\ instances' = [instances EXCEPT ![t] = kept]
      /\ nextTimestamp' = [nextTimestamp EXCEPT ![t] = request.timestamp]
      /\ timestamp' = [timestamp EXCEPT ![t] = 0]
      /\ UNCHANGED <<config, issued, streamed, packet>>
      /\ off' = [off EXCEPT ![t] =
                   (@ \union {r \in Representation : SwitchedOff(request.config, r)})
                     \ Provided(request.config, t)]
  BY DEF update, Adopt, creatorVars
<1>3. functions' = [functions EXCEPT ![t] =
                      [r \in Representation |->
                         IF r \in request.reset \/ ~Exists(r, kept) THEN {}
                                                            ELSE functions[t][r]]]
  BY DEF update, Adopt
<1>4. requests \in [Thread -> Seq(Requests)]
  BY <1>1 DEF TypeOK
<1>5. /\ request \in Requests /\ request = requests[t][1] /\ 1 \in DOMAIN requests[t]
      /\ Tail(requests[t]) \in Seq(Requests)
      /\ \A k \in DOMAIN Tail(requests[t]) :
           k + 1 \in DOMAIN requests[t] /\ Tail(requests[t])[k] = requests[t][k + 1]
  <2> HIDE DEF Requests
  <2>1. requests[t] \in Seq(Requests) /\ requests[t] # <<>>
    BY <1>2, <1>4
  <2>2. QED
    BY <2>1
<1>6. /\ request.timestamp \in 1..n /\ request.config \in Configurations
      /\ request.config = issued[request.timestamp] /\ Accepted(request.config)
  BY <1>1, <1>5 DEF RequestsNumbered
<1> HIDE DEF request
<1>7. n \in Nat
  BY <1>1 DEF TypeOK
<1>8. TypeOK'
  <2>1. requests' \in [Thread -> Seq(Requests)]
    <3> HIDE DEF Requests
    <3>1. QED
      BY <1>2, <1>4, <1>5
  <2>2. functions' \in [Thread -> [Representation -> SUBSET Module]]
    BY <1>1, <1>3 DEF TypeOK
  <2>3. instances' \in [Thread -> SUBSET (Module \X Representation)]
    BY <1>1, <1>2 DEF TypeOK
  <2>4. /\ timestamp' \in [Thread -> 0..n] /\ nextTimestamp' \in [Thread -> 0..n]
        /\ running' \in [Thread -> Configurations \union {NoConfiguration}]
    BY <1>1, <1>2, <1>6, <1>7 DEF TypeOK
  <2>5. off' \in [Thread -> SUBSET Representation]
    BY <1>1, <1>2 DEF TypeOK
  <2>6. QED
    BY <1>1, <1>2, <2>1, <2>2, <2>3, <2>4, <2>5 DEF TypeOK
<1>9. RequestsNumbered'
  <2> SUFFICES ASSUME NEW u \in Thread, NEW k \in DOMAIN requests'[u]
               PROVE  /\ requests'[u][k].config = issued[requests'[u][k].timestamp]
                      /\ Accepted(requests'[u][k].config)
    BY <1>2 DEF RequestsNumbered
  <2>1. CASE u = t
    <3>1. requests'[t] = Tail(requests[t])
      BY <1>2, <1>4
    <3>2. k + 1 \in DOMAIN requests[t] /\ requests'[u][k] = requests[t][k + 1]
      BY <1>5, <2>1, <3>1
    <3>3. QED
      BY <1>1, <3>2 DEF RequestsNumbered
  <2>2. CASE u # t
    BY <1>1, <1>2, <1>4, <2>2 DEF RequestsNumbered
  <2>3. QED
    BY <2>1, <2>2
<1>10. RunnersNumbered'
  <2> SUFFICES ASSUME NEW u \in Thread
               PROVE  IF nextTimestamp'[u] = 0
                        THEN running'[u] = NoConfiguration /\ timestamp'[u] = 0
                        ELSE running'[u] = issued[nextTimestamp'[u]] /\ Accepted(running'[u])
    BY <1>2 DEF RunnersNumbered
  <2>1. CASE u = t
    <3>1. nextTimestamp'[u] = request.timestamp /\ running'[u] = request.config
      BY <1>1, <1>2, <2>1 DEF TypeOK
    <3>2. QED
      BY <1>6, <1>7, <3>1
  <2>2. CASE u # t
    <3>1. /\ nextTimestamp'[u] = nextTimestamp[u] /\ running'[u] = running[u]
          /\ timestamp'[u] = timestamp[u]
      BY <1>1, <1>2, <2>2 DEF TypeOK
    <3>2. QED
      BY <1>1, <3>1 DEF RunnersNumbered
  <2>3. QED
    BY <2>1, <2>2
<1>11. RunnersConsistent'
  <2> SUFFICES ASSUME NEW u \in Thread, timestamp'[u] # 0
               PROVE  /\ timestamp'[u] = nextTimestamp'[u] /\ streamed'[u] = running'[u]
                      /\ Providers(running'[u], u) \subseteq instances'[u]
    BY DEF RunnersConsistent
  <2>1. u # t
    BY <1>1, <1>2 DEF TypeOK
  <2>2. /\ nextTimestamp'[u] = nextTimestamp[u] /\ running'[u] = running[u]
        /\ timestamp'[u] = timestamp[u] /\ instances'[u] = instances[u]
        /\ streamed' = streamed
    BY <1>1, <1>2, <2>1 DEF TypeOK
  <2>3. QED
    BY <1>1, <2>2 DEF RunnersConsistent
<1>12. PacketsNumbered'
  BY <1>1, <1>2 DEF PacketsNumbered
<1>13. QED
  BY <1>8, <1>9, <1>10, <1>11, <1>12 DEF Numbered

\* What a frame takes away is gone, everything else is as it was.
LEMMA TakenPackets ==
  ASSUME TypeOK, NEW t \in Thread
  PROVE  /\ AllTaken(t) \in [Thread -> [Thread -> [timestamp : 0..Len(issued),
                                                   content : SUBSET Representation]]]
         /\ \A s, u \in Thread : AllTaken(t)[s][u] \in {packet[s][u], NoPacket}
<1>1. packet \in [Thread -> [Thread -> [timestamp : 0..Len(issued),
                                        content : SUBSET Representation]]]
  BY DEF TypeOK
<1>2. NoPacket \in [timestamp : 0..Len(issued), content : SUBSET Representation]
  BY DEF NoPacket, TypeOK
<1>3. QED
  BY <1>1, <1>2 DEF AllTaken

\* A frame stamps its packets with the number its lists belong to.
LEMMA FrameStep ==
  ASSUME Numbered, NEW t \in Thread, Frame(t)
  PROVE  Numbered'
<1> DEFINE n == Len(issued)
           Packets == [timestamp : 0..n, content : SUBSET Representation]
<1>1. TypeOK /\ RequestsNumbered /\ RunnersNumbered /\ RunnersConsistent /\ PacketsNumbered
  BY DEF Numbered
<1>2. UNCHANGED <<config, issued, requests, running, nextTimestamp, off>>
  BY DEF Frame, main, MainIf, creatorVars
<1>3. n \in Nat
  BY <1>1 DEF TypeOK
<1>4. RequestsNumbered'
  BY <1>1, <1>2 DEF RequestsNumbered
<1>5. CASE UNCHANGED <<timestamp, streamed, instances, functions>> /\ packet' = AllTaken(t)
  <2>1. packet' \in [Thread -> [Thread -> Packets]]
    BY <1>1, <1>5, TakenPackets
  <2>2. TypeOK'
    BY <1>1, <1>2, <1>5, <2>1 DEF TypeOK
  <2>3. PacketsNumbered'
    BY <1>1, <1>2, <1>5, TakenPackets DEF PacketsNumbered
  <2>4. QED
    BY <1>1, <1>2, <1>4, <1>5, <2>2, <2>3
       DEF Numbered, RunnersNumbered, RunnersConsistent
<1>6. CASE isValid(t) /\ execute(t) /\ packet' = Sent(t)
  <2> DEFINE k == timestamp'[t]
             c == running[t]
  <2>1. /\ nextTimestamp[t] \in 1..n /\ c = issued[nextTimestamp[t]] /\ Accepted(c)
        /\ c \in Configurations
    <3>1. nextTimestamp[t] \in 1..n
      BY <1>1, <1>3, <1>6 DEF isValid, TypeOK
    <3>2. c = issued[nextTimestamp[t]] /\ Accepted(c)
      BY <1>1, <1>6 DEF isValid, RunnersNumbered
    <3>3. issued[nextTimestamp[t]] \in Configurations
      BY <1>1, <3>1 DEF TypeOK
    <3>4. QED
      BY <3>1, <3>2, <3>3
  <2>2. timestamp' = [timestamp EXCEPT ![t] = nextTimestamp[t]]
    BY <1>1, <1>6 DEF execute, hasChanged, RunnersConsistent, TypeOK
  <2>3. streamed' = [streamed EXCEPT ![t] = c]
    BY <1>1, <1>6 DEF execute, hasChanged, RunnersConsistent, TypeOK
  <2>4. instances' = [instances EXCEPT ![t] = instances[t] \union Providers(c, t)]
    BY <1>1, <1>6 DEF execute, TypeOK
  <2>5. functions' \in [Thread -> [Representation -> SUBSET Module]]
    <3>1. functions' = [functions EXCEPT ![t] =
                          [r \in Representation |->
                             IF r \in Provided(c, t) THEN {c.providers[t][r]}
                                                     ELSE functions[t][r]]]
      BY <1>6 DEF execute
    <3>2. \A r \in Provided(c, t) : c.providers[t][r] \in Module
      BY <2>1, ConfigurationTypes
    <3>3. QED
      BY <1>1, <3>1, <3>2 DEF TypeOK
  <2>6. /\ timestamp'[t] = nextTimestamp[t] /\ streamed'[t] = c
        /\ instances'[t] = instances[t] \union Providers(c, t)
        /\ \A u \in Thread : u # t => /\ timestamp'[u] = timestamp[u]
                                      /\ streamed'[u] = streamed[u]
                                      /\ instances'[u] = instances[u]
    BY <1>1, <2>2, <2>3, <2>4 DEF TypeOK
  <2>7. /\ \A s \in Thread :
             \/ packet'[t][s] = packet[t][s]
             \/ packet'[t][s] = [timestamp |-> nextTimestamp[t], content |-> Received(c, s, t)]
        /\ \A s \in Thread : s # t => packet'[s] = AllTaken(t)[s]
        /\ packet' = [s \in Thread |-> packet'[s]]
        /\ packet'[t] = [s \in Thread |-> packet'[t][s]]
    <3>1. AllTaken(t) = [s \in Thread |-> AllTaken(t)[s]]
      BY DEF AllTaken
    <3>2. packet' = [AllTaken(t) EXCEPT ![t] =
                       [s \in Thread |->
                          IF Received(c, s, t) = {} THEN packet[t][s]
                          ELSE [timestamp |-> nextTimestamp[t], content |-> Received(c, s, t)]]]
      BY <1>6, <2>6 DEF Sent, toSend
    <3>3. QED
      BY <3>1, <3>2
  <2>8. packet' \in [Thread -> [Thread -> Packets]]
    <3>1. packet \in [Thread -> [Thread -> Packets]]
      BY <1>1 DEF TypeOK
    <3>2. \A s \in Thread :
            [timestamp |-> nextTimestamp[t], content |-> Received(c, s, t)] \in Packets
      BY <1>3, <2>1, ReceivedTypes
    <3>3. packet'[t] \in [Thread -> Packets]
      <4> HIDE DEF Packets
      <4>1. QED
        BY <2>7, <3>1, <3>2
    <3>4. \A s \in Thread : s # t => packet'[s] \in [Thread -> Packets]
      BY <1>1, <2>7, TakenPackets
    <3>5. QED
      BY <2>7, <3>3, <3>4
  <2>9. TypeOK'
    <3>1. /\ timestamp' \in [Thread -> 0..n]
          /\ streamed' \in [Thread -> Configurations \union {NoConfiguration}]
      BY <1>1, <1>3, <2>1, <2>2, <2>3 DEF TypeOK
    <3>2. instances' \in [Thread -> SUBSET (Module \X Representation)]
      <4>1. Providers(c, t) \subseteq Module \X Representation
        BY <2>1, ConfigurationTypes
      <4>2. QED
        BY <1>1, <2>4, <4>1 DEF TypeOK
    <3>3. QED
      BY <1>1, <1>2, <2>5, <2>8, <3>1, <3>2 DEF TypeOK
  <2>10. RunnersNumbered'
    <3>1. \A u \in Thread : nextTimestamp[u] = 0 => timestamp'[u] = 0
      BY <1>1, <2>1, <2>6 DEF RunnersNumbered
    <3>2. QED
      BY <1>1, <1>2, <3>1 DEF RunnersNumbered
  <2>11. RunnersConsistent'
    BY <1>1, <1>2, <2>6 DEF RunnersConsistent
  <2>12. PacketsNumbered'
    <3> SUFFICES ASSUME NEW s \in Thread, NEW u \in Thread, packet'[s][u] # NoPacket
                 PROVE  /\ packet'[s][u].timestamp \in DOMAIN issued
                        /\ packet'[s][u].content
                             = Received(issued[packet'[s][u].timestamp], u, s)
      BY <1>2 DEF PacketsNumbered
    <3>1. CASE packet'[s][u] = packet[s][u]
      BY <1>1, <3>1 DEF PacketsNumbered
    <3>2. CASE s = t /\ packet'[s][u] = [timestamp |-> nextTimestamp[t],
                                         content |-> Received(c, u, t)]
      <4>1. nextTimestamp[t] \in DOMAIN issued
        BY <1>1, <2>1 DEF TypeOK
      <4>2. QED
        BY <2>1, <3>2, <4>1
    <3>3. CASE s # t
      <4>1. packet'[s][u] \in {packet[s][u], NoPacket}
        BY <1>1, <2>7, <3>3, TakenPackets
      <4>2. QED
        BY <3>1, <4>1
    <3>4. QED
      BY <2>7, <3>1, <3>2, <3>3
  <2>13. QED
    BY <1>4, <2>9, <2>10, <2>11, <2>12 DEF Numbered
<1>7. QED
  BY <1>5, <1>6 DEF Frame, main, MainIf

-----------------------------------------------------------------------------
(* Which functions the entries hold: what Numbered says is taken for granted here. *)

\* A running configuration is one that was accepted, or none.
LEMMA RunningTypes ==
  ASSUME Numbered, NEW t \in Thread
  PROVE  /\ running[t] # NoConfiguration => running[t] \in Configurations \ Rejected
         /\ Provided(NoConfiguration, t) = {}
         /\ nextTimestamp[t] # 0 => running[t] \in Configurations /\ Accepted(running[t])
<1>1. /\ running[t] \in Configurations \union {NoConfiguration}
      /\ nextTimestamp[t] \in 0..Len(issued) /\ issued \in Seq(Configurations)
  BY DEF Numbered, TypeOK
<1>2. Provided(NoConfiguration, t) = {}
  BY DEF Provided, NoConfiguration
<1>3. nextTimestamp[t] # 0 => running[t] \in Configurations /\ Accepted(running[t])
  <2> SUFFICES ASSUME nextTimestamp[t] # 0
               PROVE  running[t] \in Configurations /\ Accepted(running[t])
    OBVIOUS
  <2>1. running[t] = issued[nextTimestamp[t]] /\ Accepted(running[t])
    BY DEF Numbered, RunnersNumbered
  <2>2. QED
    BY <1>1, <2>1
<1>4. nextTimestamp[t] = 0 => running[t] = NoConfiguration
  BY DEF Numbered, RunnersNumbered
<1>5. QED
  BY <1>1, <1>2, <1>3, <1>4 DEF Rejected

\* Before the first configuration there is nothing to be stale.
LEMMA InitFunctions ==
  ASSUME Init
  PROVE  ResetsListed /\ ModulesRequired /\ FunctionsProvided
<1>1. ResetsListed
  <2> SUFFICES ASSUME NEW t \in Thread
               PROVE  /\ config \in {Before(t, Len(requests[t]) + 1)} \union Rejected
                      /\ \A i \in DOMAIN requests[t] : \E e \in {Before(t, i)} \union Rejected :
                           requests[t][i].reset = representationsToReset(e, requests[t][i].config)
    BY DEF ResetsListed
  <2> DEFINE new == Request(1, NoConfiguration, Initial)
  <2>1. /\ config = Initial /\ requests[t] = <<new>> /\ running[t] = NoConfiguration
        /\ new.config = Initial /\ new.reset = representationsToReset(NoConfiguration, Initial)
    BY DEF Init, Request
  <2> HIDE DEF new
  <2>2. /\ Len(requests[t]) = 1 /\ DOMAIN requests[t] = {1} /\ requests[t][1] = new
    BY <2>1
  <2>3. Before(t, 1) = NoConfiguration /\ Before(t, 2) = Initial
    BY <2>1, <2>2 DEF Before
  <2>4. QED
    BY <2>1, <2>2, <2>3
<1>2. QED
  BY <1>1 DEF Init, ModulesRequired, FunctionsProvided

\* A request is compared with the last one, which is the one before it in the queue of
\* each thread whose queue takes all, unless that one was rejected.
LEMMA RequestFunctions ==
  ASSUME IInv, NEW c \in Configurations, handleRequest(c)
  PROVE  ResetsListed' /\ ModulesRequired' /\ (ResetsSuffice => FunctionsProvided')
<1> DEFINE new == Request(Len(issued) + 1, config, c)
<1>1. /\ config' = c
      /\ UNCHANGED <<running, timestamp, instances, functions, off>>
  BY DEF handleRequest, Distribute, runnerVars
<1>2. \A t \in Thread \ Full :
        requests'[t] = IF Accepted(c) THEN Append(requests[t], new) ELSE requests[t]
  BY DEF handleRequest, Distribute
<1>3. new.config = c /\ new.reset = representationsToReset(config, c)
  BY DEF Request
<1> HIDE DEF new
<1>4. ResetsListed'
  <2> SUFFICES ASSUME NEW t \in Thread \ Full
               PROVE  /\ config' \in {Before(t, Len(requests[t]) + 1)'} \union Rejected
                      /\ \A i \in DOMAIN requests'[t] :
                           \E e \in {Before(t, i)'} \union Rejected :
                             requests'[t][i].reset
                               = representationsToReset(e, requests'[t][i].config)
    BY DEF ResetsListed
  <2> DEFINE n == Len(requests[t])
  <2>1. requests[t] = [i \in 1..n |-> requests[t][i]] /\ n \in Nat
        /\ \E S : requests[t] \in Seq(S)
    <3>1. requests \in [Thread -> Seq([timestamp : 1..Len(issued), config : Configurations,
                                       reset : SUBSET Representation])]
      BY DEF IInv, Numbered, TypeOK
    <3> DEFINE S == [timestamp : 1..Len(issued), config : Configurations,
                     reset : SUBSET Representation]
    <3>2. requests[t] \in Seq(S)
      BY <3>1
    <3> HIDE DEF S
    <3>3. QED
      BY <3>2
  <2>2. /\ config \in {Before(t, n + 1)} \union Rejected
        /\ \A i \in 1..n : \E e \in {Before(t, i)} \union Rejected :
             requests[t][i].reset = representationsToReset(e, requests[t][i].config)
    BY <2>1 DEF IInv, ResetsListed
  <2>3. CASE ~Accepted(c)
    <3>1. requests'[t] = requests[t] /\ c \in Rejected
      BY <1>2, <2>3 DEF Rejected
    <3>2. \A i : Before(t, i)' = Before(t, i)
      BY <1>1, <3>1 DEF Before
    <3>3. QED
      BY <1>1, <2>1, <2>2, <3>1, <3>2
  <2>4. CASE Accepted(c)
    <3>1. PICK S : requests[t] \in Seq(S)
      BY <2>1
    <3>2. /\ Len(requests'[t]) = n + 1 /\ DOMAIN requests'[t] = 1..(n + 1)
          /\ requests'[t][n + 1] = new
          /\ \A i \in 1..n : requests'[t][i] = requests[t][i]
      <4>1. requests'[t] = Append(requests[t], new) /\ Append(requests[t], new) \in Seq(S \union {new})
        <5>1. requests[t] \in Seq(S \union {new})
          BY <3>1
        <5>2. QED
          BY <1>2, <2>4, <5>1
      <4>2. QED
        BY <3>1, <4>1
    <3>3. \A i \in 1..(n + 1) : Before(t, i)' = Before(t, i)
      BY <1>1, <2>1, <3>2 DEF Before
    <3>4. Before(t, Len(requests[t]) + 1)' = c
      BY <1>3, <2>1, <3>2 DEF Before
    <3>5. \A i \in 1..(n + 1) : i \in 1..n \/ i = n + 1
      BY <2>1
    <3>6. QED
      <4>1. ASSUME NEW i \in DOMAIN requests'[t]
            PROVE  \E e \in {Before(t, i)'} \union Rejected :
                     requests'[t][i].reset
                       = representationsToReset(e, requests'[t][i].config)
        <5>1. CASE i = n + 1
          BY <1>3, <2>1, <2>2, <3>2, <3>3, <5>1
        <5>2. CASE i \in 1..n
          BY <2>2, <3>2, <3>3, <3>5, <5>2
        <5>3. QED
          BY <3>2, <3>5, <5>1, <5>2
      <4>2. QED
        BY <1>1, <3>4, <4>1
  <2>5. QED
    BY <2>3, <2>4
<1>5. QED
  BY <1>1, <1>4 DEF IInv, ModulesRequired, FunctionsProvided

\* A thread that adopts a request loses the functions of the modules that leave it, as
\* far as the list of entries to reset, or the end of an entry's use, takes care of it.
LEMMA UpdateFunctions ==
  ASSUME IInv, NEW t \in Thread, update(t)
  PROVE  ResetsListed' /\ ModulesRequired' /\ (ResetsSuffice => FunctionsProvided')
<1> DEFINE request == Head(requests[t])
           kept == {p \in instances[t] : p[1] \in Required(request.config, t)}
           n == Len(requests[t])
           Requests == [timestamp : 1..Len(issued), config : Configurations,
                        reset : SUBSET Representation]
<1>1. /\ requests[t] # <<>>
      /\ requests' = [requests EXCEPT ![t] = Tail(@)]
      /\ running' = [running EXCEPT ![t] = request.config]
      /\ instances' = [instances EXCEPT ![t] = kept]
      /\ timestamp' = [timestamp EXCEPT ![t] = 0]
      /\ config' = config
      /\ off' = [off EXCEPT ![t] =
                   (@ \union {r \in Representation : SwitchedOff(request.config, r)})
                     \ Provided(request.config, t)]
  BY DEF update, Adopt, creatorVars
<1>2. functions' = [functions EXCEPT ![t] =
                      [r \in Representation |->
                         IF r \in request.reset \/ ~Exists(r, kept) THEN {}
                                                            ELSE functions[t][r]]]
  BY DEF update, Adopt
<1>3. /\ requests \in [Thread -> Seq(Requests)]
      /\ running \in [Thread -> Configurations \union {NoConfiguration}]
      /\ instances \in [Thread -> SUBSET (Module \X Representation)]
      /\ timestamp \in [Thread -> 0..Len(issued)]
      /\ functions \in [Thread -> [Representation -> SUBSET Module]]
      /\ off \in [Thread -> SUBSET Representation]
  BY DEF IInv, Numbered, TypeOK
<1>4. /\ \A u \in Thread : u # t => /\ requests'[u] = requests[u] /\ running'[u] = running[u]
                                    /\ instances'[u] = instances[u]
                                    /\ timestamp'[u] = timestamp[u]
                                    /\ functions'[u] = functions[u]
                                    /\ off'[u] = off[u]
      /\ off'[t] = (off[t] \union {r \in Representation : SwitchedOff(request.config, r)})
                     \ Provided(request.config, t)
      /\ requests'[t] = Tail(requests[t]) /\ running'[t] = request.config
      /\ instances'[t] = kept /\ timestamp'[t] = 0
      /\ \A r \in Representation :
           functions'[t][r] = IF r \in request.reset \/ ~Exists(r, kept) THEN {}
                                                                 ELSE functions[t][r]
  <2> HIDE DEF Requests
  <2>1. QED
    BY <1>1, <1>2, <1>3
<1>5. /\ n \in Nat \ {0} /\ DOMAIN requests[t] = 1..n /\ request = requests[t][1]
      /\ request \in Requests
      /\ Len(Tail(requests[t])) = n - 1 /\ DOMAIN Tail(requests[t]) = 1..(n - 1)
      /\ \A i \in 1..(n - 1) : Tail(requests[t])[i] = requests[t][i + 1]
  <2> HIDE DEF Requests
  <2>1. requests[t] \in Seq(Requests) /\ requests[t] # <<>>
    BY <1>1, <1>3
  <2>2. QED
    BY <2>1
<1>6. request.config \in Configurations /\ Accepted(request.config)
  BY <1>5 DEF IInv, Numbered, RequestsNumbered
<1> HIDE DEF request, Requests
<1>7. ResetsListed'
  <2> SUFFICES ASSUME NEW u \in Thread \ Full
               PROVE  /\ config' \in {Before(u, Len(requests[u]) + 1)'} \union Rejected
                      /\ \A i \in DOMAIN requests'[u] :
                           \E e \in {Before(u, i)'} \union Rejected :
                             requests'[u][i].reset
                               = representationsToReset(e, requests'[u][i].config)
    BY DEF ResetsListed
  <2>1. /\ config \in {Before(u, Len(requests[u]) + 1)} \union Rejected
        /\ \A i \in DOMAIN requests[u] : \E e \in {Before(u, i)} \union Rejected :
             requests[u][i].reset = representationsToReset(e, requests[u][i].config)
    BY DEF IInv, ResetsListed
  <2>2. CASE u # t
    <3>1. \A i : Before(u, i)' = Before(u, i)
      BY <1>4, <2>2 DEF Before
    <3>2. QED
      BY <1>1, <1>4, <2>1, <2>2, <3>1
  <2>3. CASE u = t
    <3>1. \A i \in 1..n : Before(t, i)' = Before(t, i + 1)
      <4> SUFFICES ASSUME NEW i \in 1..n PROVE Before(t, i)' = Before(t, i + 1)
        OBVIOUS
      <4>1. CASE i = 1
        BY <1>4, <1>5, <4>1 DEF Before
      <4>2. CASE i # 1
        <5>1. i - 1 \in 1..(n - 1) /\ (i - 1) + 1 = i /\ i + 1 # 1 /\ (i + 1) - 1 = i
          BY <1>5, <4>2
        <5>2. QED
          BY <1>4, <1>5, <4>2, <5>1 DEF Before
      <4>3. QED
        BY <4>1, <4>2
    <3>2. Len(requests'[t]) = n - 1 /\ (n - 1) + 1 = n /\ n \in 1..n
      BY <1>4, <1>5
    <3>3. config' \in {Before(t, Len(requests[t]) + 1)'} \union Rejected
      BY <1>1, <2>1, <2>3, <3>1, <3>2
    <3>4. ASSUME NEW i \in DOMAIN requests'[t]
          PROVE  \E e \in {Before(t, i)'} \union Rejected :
                   requests'[t][i].reset = representationsToReset(e, requests'[t][i].config)
      <4>1. i \in 1..n /\ i + 1 \in DOMAIN requests[t] /\ requests'[t][i] = requests[t][i + 1]
        BY <1>4, <1>5
      <4>2. QED
        BY <2>1, <2>3, <3>1, <4>1
    <3>5. QED
      BY <2>3, <3>3, <3>4
  <2>4. QED
    BY <2>2, <2>3
<1>8. ModulesRequired'
  <2> SUFFICES ASSUME NEW u \in Thread
               PROVE  /\ \A p \in instances'[u] : /\ p[1] \in Required(running'[u], u)
                                                  /\ p[2] \in Provides[p[1]]
                      /\ timestamp'[u] # 0 => \A r \in Provided(running'[u], u) :
                           functions'[u][r] = {running'[u].providers[u][r]}
    BY DEF ModulesRequired
  <2>1. QED
    BY <1>4 DEF IInv, ModulesRequired
<1>9. ASSUME ResetsSuffice PROVE FunctionsProvided'
  <2> SUFFICES ASSUME NEW u \in Thread \ Full, NEW r \in Representation, functions'[u][r] # {}
               PROVE  r \in Provided(running'[u], u) \union off'[u]
    BY DEF FunctionsProvided
  <2>1. functions[u][r] # {} => r \in Provided(running[u], u) \union off[u]
    BY <1>9 DEF IInv, FunctionsProvided
  <2>2. CASE u # t
    BY <1>4, <2>1, <2>2
  <2>3. CASE u = t /\ r \in off[t]
    BY <1>4, <2>3
  <2>4. CASE u = t /\ r \notin off[t]
    <3> DEFINE c == running[t]
               d == request.config
    <3>1. r \notin request.reset /\ Exists(r, kept) /\ r \in Provided(c, t)
      BY <1>4, <2>1, <2>4
    <3>2. c \in Configurations \ Rejected
      BY <3>1, RunningTypes DEF IInv
    <3>3. d \in Configurations \ Rejected
      BY <1>6 DEF Rejected
    <3>4. PICK e \in {c} \union Rejected : request.reset = representationsToReset(e, d)
      <4>1. 1 \in DOMAIN requests[t] /\ Before(t, 1) = c
        BY <1>5 DEF Before
      <4>2. QED
        BY <1>5, <2>4, <4>1 DEF IInv, ResetsListed
    <3>5. PICK p \in kept : r \in Reads(p[1]) \union {p[2]}
      BY <3>1 DEF Exists
    <3>6. /\ p[1] \in Required(c, t) \intersect Required(d, t)
          /\ r \in Reads(p[1]) \union Provides[p[1]]
      BY <3>5 DEF IInv, ModulesRequired
    <3> HIDE DEF c, d, kept
    <3>7. r \in Provided(d, t) \/ SwitchedOff(d, r)
      BY <1>9, <3>1, <3>2, <3>3, <3>4, <3>6 DEF ResetsSuffice
    <3>8. QED
      BY <1>4, <2>4, <3>7 DEF d
  <2>5. QED
    BY <2>2, <2>3, <2>4
<1>10. QED
  BY <1>7, <1>8, <1>9

\* In a frame each provider is constructed and its functions are entered.
LEMMA FrameFunctions ==
  ASSUME IInv, NEW t \in Thread, Frame(t)
  PROVE  ResetsListed' /\ ModulesRequired' /\ (ResetsSuffice => FunctionsProvided')
<1>1. UNCHANGED <<config, requests, running, nextTimestamp, off>>
  BY DEF Frame, main, MainIf, creatorVars
<1>2. ResetsListed'
  BY <1>1 DEF IInv, ResetsListed, Before
<1>3. CASE UNCHANGED <<timestamp, instances, functions>>
  BY <1>1, <1>2, <1>3 DEF IInv, ModulesRequired, FunctionsProvided
<1>4. CASE isValid(t) /\ execute(t)
  <2> DEFINE c == running[t]
  <2>1. c \in Configurations /\ Accepted(c)
    BY <1>4, RunningTypes DEF IInv, isValid
  <2>2. /\ instances \in [Thread -> SUBSET (Module \X Representation)]
        /\ functions \in [Thread -> [Representation -> SUBSET Module]]
        /\ timestamp \in [Thread -> 0..Len(issued)]
    BY DEF IInv, Numbered, TypeOK
  <2>3. /\ instances'[t] = instances[t] \union Providers(c, t)
        /\ \A r \in Representation :
             functions'[t][r] = IF r \in Provided(c, t) THEN {c.providers[t][r]}
                                                        ELSE functions[t][r]
        /\ \A u \in Thread : u # t => /\ timestamp'[u] = timestamp[u]
                                      /\ instances'[u] = instances[u]
                                      /\ functions'[u] = functions[u]
    BY <1>4, <2>2 DEF execute
  <2>4. Provided(c, t) \subseteq Representation
    BY <2>1, ConfigurationTypes
  <2>5. ModulesRequired'
    <3> SUFFICES ASSUME NEW u \in Thread
                 PROVE  /\ \A p \in instances'[u] : /\ p[1] \in Required(running[u], u)
                                                    /\ p[2] \in Provides[p[1]]
                        /\ timestamp'[u] # 0 => \A r \in Provided(running[u], u) :
                             functions'[u][r] = {running[u].providers[u][r]}
      BY <1>1 DEF ModulesRequired
    <3>1. CASE u # t
      BY <2>3, <3>1 DEF IInv, ModulesRequired
    <3>2. CASE u = t
      <4>1. ASSUME NEW p \in Providers(c, t)
            PROVE  p[1] \in Required(c, t) /\ p[2] \in Provides[p[1]]
        <5>1. PICK r \in Provided(c, t) : p = <<c.providers[t][r], r>>
          BY DEF Providers
        <5>2. r \in Provides[c.providers[t][r]]
          BY <2>1 DEF Accepted, calcShared
        <5>3. QED
          BY <5>1, <5>2 DEF Required
      <4>2. QED
        BY <2>3, <2>4, <3>2, <4>1 DEF IInv, ModulesRequired
    <3>3. QED
      BY <3>1, <3>2
  <2>6. FunctionsProvided => FunctionsProvided'
    BY <1>1, <2>3 DEF FunctionsProvided
  <2>7. QED
    BY <1>2, <2>5, <2>6 DEF IInv
<1>5. QED
  BY <1>3, <1>4 DEF Frame, main, MainIf

-----------------------------------------------------------------------------
\* The inductive invariant holds in every reachable state: a timestamp stands for
\* one configuration, in requests, runners and packets, and what an update resets
\* stems from a comparison with the configuration the thread changes from.
THEOREM Invariance == Spec => []IInv
<1>1. Init => IInv
  BY InitNumbered, InitFunctions DEF IInv
<1>2. ASSUME IInv, [Next]_vars PROVE IInv'
  <2>1. CASE \E c \in Configurations : handleRequest(c)
    BY <1>2, <2>1, RequestStep, RequestFunctions DEF IInv
  <2>2. CASE \E t \in Thread : update(t)
    BY <1>2, <2>2, UpdateStep, UpdateFunctions DEF IInv
  <2>3. CASE \E t \in Thread : Frame(t)
    BY <1>2, <2>3, FrameStep, FrameFunctions DEF IInv
  <2>4. CASE UNCHANGED vars
    <3>1. Numbered'
      BY <1>2, <2>4 DEF vars, creatorVars, runnerVars, IInv, Numbered, TypeOK,
         RequestsNumbered, RunnersNumbered, RunnersConsistent, PacketsNumbered
    <3>2. ResetsListed' /\ ModulesRequired' /\ (ResetsSuffice => FunctionsProvided')
      BY <1>2, <2>4 DEF vars, creatorVars, runnerVars, IInv, ResetsListed, Before,
         ModulesRequired, FunctionsProvided
    <3>3. QED
      BY <3>1, <3>2 DEF IInv
  <2>5. QED
    BY <1>2, <2>1, <2>2, <2>3, <2>4 DEF Next
<1>3. QED
  BY <1>1, <1>2, PTL DEF Spec

\* Every variable keeps to its type.
THEOREM TypeCorrect == Spec => []TypeOK
<1>1. IInv => TypeOK
  BY DEF IInv, Numbered
<1>2. QED
  BY <1>1, Invariance, PTL

\* A packet that passes readPacket's test has the layout the receiver reads it with.
THEOREM Agreement == Spec => []LayoutsAgree
<1>1. IInv => LayoutsAgree
  <2> SUFFICES ASSUME IInv, NEW s \in Thread, NEW t \in Thread, Readable(s, t)
               PROVE  packet[s][t].content = toReceive(streamed[t], t, s)
    BY DEF LayoutsAgree
  <2>1. /\ packet[s][t].timestamp = timestamp[t] /\ timestamp[t] \in DOMAIN issued
        /\ packet[s][t].content = Received(issued[timestamp[t]], t, s)
    BY DEF IInv, Numbered, Readable, PacketsNumbered
  <2>2. timestamp[t] # 0
    BY <2>1 DEF IInv, Numbered, TypeOK
  <2>3. streamed[t] = issued[timestamp[t]]
    BY <2>2 DEF IInv, Numbered, RunnersConsistent, RunnersNumbered
  <2>4. QED
    BY <2>1, <2>3 DEF toReceive
<1>2. QED
  BY <1>1, Invariance, PTL

\* No thread streams from or to a blackboard entry that was freed.
THEOREM EntriesSafe == Spec => []EntriesExist
<1>1. IInv => EntriesExist
  <2> SUFFICES ASSUME IInv, NEW s \in Thread, NEW t \in Thread
               PROVE  /\ timestamp[t] # 0 =>
                           \A r \in toSend(streamed[t], t, s) : Exists(r, instances[t])
                      /\ Readable(s, t) =>
                           \A r \in toReceive(streamed[t], t, s) : Exists(r, instances[t])
    BY DEF EntriesExist
  <2>1. Readable(s, t) => timestamp[t] # 0
    BY DEF IInv, Numbered, TypeOK, Readable, PacketsNumbered
  <2>2. ASSUME timestamp[t] # 0
        PROVE  /\ calcShared(streamed[t])
               /\ Providers(streamed[t], t) \subseteq instances[t]
    BY <2>2 DEF IInv, Numbered, RunnersConsistent, RunnersNumbered, Accepted
  <2>3. ASSUME timestamp[t] # 0, NEW r, Exists(r, Providers(streamed[t], t))
        PROVE  Exists(r, instances[t])
    BY <2>2, <2>3 DEF Exists
  <2>4. QED
    BY <2>1, <2>2, <2>3, ExchangedIsMentioned DEF toSend, toReceive
<1>2. QED
  BY <1>1, Invariance, PTL

\* For all configurations of which ResetsSuffice is true, rejected ones among them: in
\* each thread that gets every request, a module that runs finds in what it requires or
\* uses only functions of modules that exist, or the representation was switched off and
\* its entry not reset (ModuleGraphCreator.cpp:366).
THEOREM NothingStale == ResetsSuffice => (Spec => []StaleOnlyIfOff)
<1> SUFFICES ASSUME ResetsSuffice PROVE Spec => []StaleOnlyIfOff
  OBVIOUS
<1>1. IInv => StaleOnlyIfOff
  <2> SUFFICES ASSUME IInv, NEW t \in Thread \ Full, timestamp[t] # 0,
                      NEW r \in Representation, functions[t][r] # {}, r \notin off[t]
               PROVE  functions[t][r] \subseteq Constructed(instances[t])
    BY DEF StaleOnlyIfOff, Stale
  <2>1. running[t] \in Configurations /\ Providers(running[t], t) \subseteq instances[t]
    <3>1. nextTimestamp[t] # 0 /\ Providers(running[t], t) \subseteq instances[t]
      BY DEF IInv, Numbered, RunnersConsistent
    <3>2. QED
      BY <3>1, RunningTypes DEF IInv
  <2>2. r \in Provided(running[t], t)
    BY DEF IInv, FunctionsProvided
  <2>3. functions[t][r] = {running[t].providers[t][r]}
    BY <2>2 DEF IInv, ModulesRequired
  <2>4. <<running[t].providers[t][r], r>> \in instances[t]
    BY <2>1, <2>2 DEF Providers
  <2>5. QED
    BY <2>3, <2>4 DEF Constructed
<1>2. QED
  BY <1>1, Invariance, PTL
=============================================================================
