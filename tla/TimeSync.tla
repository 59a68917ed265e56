------------------------------- MODULE TimeSync -------------------------------
(***************************************************************************)
(* How the robots of a team estimate the clocks of each other              *)
(* (Tools/Communication/BNTP.{h,cpp}, used by TeamMessageHandler).  Team    *)
(* messages carry a timestamp, may request time measurements from all team *)
(* mates, and answer the requests received before.  The team's messages    *)
(* are UDP packets: a set that only grows, from which each robot receives  *)
(* what it likes, as often and in which order it likes.  A robot may be    *)
(* restarted, which resets its clock as well.                              *)
(***************************************************************************)
EXTENDS Integers, Sequences, FiniteSets

CONSTANTS
  Robots,             \* the players of the team
  StartClock,         \* Time::getCurrentSystemTime() when the program starts
  SendInterval,       \* TeamMessageHandler's parameter sendInterval
  RequestInterval,    \* NTP_REQUEST_INTERVAL
  BufferSize,         \* MAX_NUMBER_OF_MEASUREMENTS
  MaxReplyAge,        \* the longest time between receipt and reply a message can express
  HalfWidth,          \* half the number of values of an unsigned int
  MaxLead,            \* bound: how much earlier a robot may have been started
  MaxTime,            \* bound: the highest time of a clock
  MaxMessages,        \* bound: the number of team messages
  MaxRestarts         \* bound: the number of restarts of a robot

ASSUME TimeSyncAssumption ==
  /\ StartClock \in Nat /\ SendInterval \in Nat /\ RequestInterval \in Nat
  /\ BufferSize \in Nat \ {0} /\ MaxReplyAge \in Nat /\ HalfWidth \in Nat \ {0}
  /\ MaxLead \in Nat /\ MaxTime \in Nat /\ StartClock + MaxLead <= MaxTime
  /\ MaxMessages \in Nat /\ MaxRestarts \in Nat
  \* No robot runs for three days: times fit into the 28 bits they have in a reply, and
  \* sums and differences of them into an int.
  /\ 2 * MaxTime < HalfWidth

VARIABLES
  clock,                \* the time of each robot
  life,                 \* how often it was restarted (history)
  net,                  \* all messages ever sent
  timeLastSent,         \* of TeamMessageHandler
  lastNTPRequestSent,
  receivedNTPRequests,  \* the requests to be answered by the next message
  buffer,               \* timeSyncBuffers: the last measurements of each team mate
  bestOffset

vars == <<clock, life, net, timeLastSent, lastNTPRequestSent, receivedNTPRequests, buffer,
          bestOffset>>
program == <<timeLastSent, lastNTPRequestSent, receivedNTPRequests, buffer, bestOffset>>

Time == 0..MaxTime
Life == 0..MaxRestarts

\* The "life" of the robot that sent the message or request is history.
Request == [sender : Robots, origination : Time, receipt : Time, life : Life]
Reply == [receiver : Robots, requestOrigination : Time, requestReceipt : Time, life : Life]
Message == [sender : Robots, timestamp : Time, requestsNTPMessage : BOOLEAN,
            ntpMessages : SUBSET Reply, life : Life]
Measurement == [offset : Int, roundTrip : Int, ownLife : Life, otherLife : Life]

Init ==
  /\ clock \in [Robots -> StartClock..(StartClock + MaxLead)]
  /\ life = [r \in Robots |-> 0]
  /\ net = {}
  /\ timeLastSent = [r \in Robots |-> 0]
  /\ lastNTPRequestSent = [r \in Robots |-> 0]
  /\ receivedNTPRequests = [r \in Robots |-> {}]
  /\ buffer = [r \in Robots |-> [s \in Robots |-> <<>>]]
  /\ bestOffset = [r \in Robots |-> [s \in Robots |-> 0]]

\* All clocks run at the same speed.
Tick ==
  /\ \A r \in Robots : clock[r] < MaxTime
  /\ clock' = [r \in Robots |-> clock[r] + 1]
  /\ UNCHANGED <<life, net, program>>

-----------------------------------------------------------------------------
(* Sending. *)

\* TeamMessageHandler::update: sendThisFrame
SendThisFrame(r) ==
  \/ clock[r] - timeLastSent[r] >= SendInterval
  \/ clock[r] < timeLastSent[r]

TimeOfSending(r) ==
  IF clock[r] - timeLastSent[r] >= 2 * SendInterval
  THEN clock[r] ELSE timeLastSent[r] + SendInterval

RequestIsDue(r) == clock[r] - lastNTPRequestSent[r] >= RequestInterval

\* What arrives of the time of receipt: BHumanStandardMessage::write sends its age, cut
\* to 12 bits, and read() subtracts that from the timestamp.
ReceiptSent(r, q) ==
  IF clock[r] - q.receipt > MaxReplyAge THEN clock[r] - MaxReplyAge ELSE q.receipt

Replies(r) ==
  {[receiver |-> q.sender, requestOrigination |-> q.origination,
    requestReceipt |-> ReceiptSent(r, q), life |-> q.life] : q \in receivedNTPRequests[r]}

\* Cognition::afterModules, generateMessage, BNTP::operator>>, writeMessage. The age
\* of the image a frame is about is left out: the time of the frame is that of
\* the message. A robot that plays dead sends nothing.
Send(r) ==
  /\ SendThisFrame(r)
  /\ Cardinality(net) < MaxMessages
  /\ net' = net \cup {[sender |-> r, timestamp |-> clock[r],
                       requestsNTPMessage |-> RequestIsDue(r),
                       ntpMessages |-> Replies(r), life |-> life[r]]}
  /\ receivedNTPRequests' = [receivedNTPRequests EXCEPT ![r] = {}]
  /\ lastNTPRequestSent' = [lastNTPRequestSent EXCEPT ![r] =
                              IF RequestIsDue(r) THEN clock[r] ELSE @]
  /\ timeLastSent' = [timeLastSent EXCEPT ![r] = TimeOfSending(r)]
  /\ UNCHANGED <<clock, life, buffer, bestOffset>>

-----------------------------------------------------------------------------
(* Receiving. *)

\* Conversions between int and unsigned.
Unsigned(x) == x % (2 * HalfWidth)
ToInt(x) == IF Unsigned(x) < HalfWidth THEN Unsigned(x) ELSE Unsigned(x) - 2 * HalfWidth

\* Division by 2 of an int.
Half(x) == IF x >= 0 THEN x \div 2 ELSE -((-x) \div 2)

\* Mutant: the difference is still unsigned when it is halved.
OffsetUnsigned(a, m, receive) ==
  ToInt(Unsigned(a.requestReceipt - a.requestOrigination + m.timestamp - receive) \div 2)

Offset(a, m, receive) ==
  Half(ToInt(a.requestReceipt - a.requestOrigination + m.timestamp - receive))

RoundTrip(a, m, receive) ==
  ToInt(receive - a.requestOrigination) - ToInt(m.timestamp - a.requestReceipt)

\* RingBuffer::push_front
push_front(b, t) ==
  [i \in 1..(IF Len(b) < BufferSize THEN Len(b) + 1 ELSE BufferSize) |->
     IF i = 1 THEN t ELSE b[i - 1]]

\* Mutant: the latest measurement always counts.
IsLatest(b, i) == i = 1

\* The latest of the measurements with the shortest round trip.
IsBest(b, i) ==
  \A j \in DOMAIN b : /\ b[i].roundTrip <= b[j].roundTrip
                      /\ j < i => b[i].roundTrip < b[j].roundTrip

\* SynchronizationMeasurementsBuffer::add
add(r, s, t) ==
  /\ buffer' = [buffer EXCEPT ![r][s] = push_front(@, t)]
  /\ \E i \in DOMAIN buffer'[r][s] :
       /\ IsBest(buffer'[r][s], i)
       /\ bestOffset' = [bestOffset EXCEPT ![r][s] = buffer'[r][s][i].offset]

RequestsOf(r, s) == {q \in receivedNTPRequests[r] : q.sender = s}

\* Mutant: the request that arrives last counts.
LatestArrived(r, m) == m.requestsNTPMessage

\* A request is noted unless there is one of that robot which was sent later.
IsNewer(r, m) ==
  m.requestsNTPMessage /\ \A q \in RequestsOf(r, m.sender) : q.origination < m.timestamp

RequestsWith(r, m) ==
  IF IsNewer(r, m)
  THEN (receivedNTPRequests[r] \ RequestsOf(r, m.sender))
         \cup {[sender |-> m.sender, origination |-> m.timestamp, receipt |-> clock[r],
                life |-> m.life]}
  ELSE receivedNTPRequests[r]

\* Cognition::beforeModules, readSPLStandardMessage (own messages are ignored),
\* parseMessageIntoBMate, BNTP::operator<<.
Receive(r, m) ==
  /\ m.sender # r
  /\ receivedNTPRequests' = [receivedNTPRequests EXCEPT ![r] = RequestsWith(r, m)]
  /\ \/ /\ \A a \in m.ntpMessages : a.receiver # r
        /\ UNCHANGED <<buffer, bestOffset>>
     \/ \E a \in m.ntpMessages :
          /\ a.receiver = r
          /\ add(r, m.sender, [offset |-> Offset(a, m, clock[r]),
                               roundTrip |-> RoundTrip(a, m, clock[r]),
                               ownLife |-> a.life, otherLife |-> m.life])
  /\ UNCHANGED <<clock, life, net, timeLastSent, lastNTPRequestSent>>

\* SynchronizationMeasurementsBuffer::getRemoteTimeInLocalTime
getRemoteTimeInLocalTime(r, s, t) ==
  IF t - bestOffset[r][s] < 0 THEN 0 ELSE t - bestOffset[r][s]

\* The program of a robot ends and is started again: TeamMessageHandler is
\* constructed anew, and Time::base is determined anew.
Restart(r) ==
  /\ life[r] < MaxRestarts
  /\ life' = [life EXCEPT ![r] = @ + 1]
  /\ clock' = [clock EXCEPT ![r] = StartClock]
  /\ timeLastSent' = [timeLastSent EXCEPT ![r] = 0]
  /\ lastNTPRequestSent' = [lastNTPRequestSent EXCEPT ![r] = 0]
  /\ receivedNTPRequests' = [receivedNTPRequests EXCEPT ![r] = {}]
  /\ buffer' = [buffer EXCEPT ![r] = [s \in Robots |-> <<>>]]
  /\ bestOffset' = [bestOffset EXCEPT ![r] = [s \in Robots |-> 0]]
  /\ UNCHANGED net

Next ==
  \/ Tick
  \/ \E r \in Robots : Send(r) \/ Restart(r) \/ \E m \in net : Receive(r, m)

Spec == Init /\ [][Next]_vars

-----------------------------------------------------------------------------
TypeOK ==
  /\ clock \in [Robots -> Time] /\ life \in [Robots -> Life]
  /\ net \subseteq Message
  /\ timeLastSent \in [Robots -> Nat] /\ lastNTPRequestSent \in [Robots -> Time]
  /\ receivedNTPRequests \in [Robots -> SUBSET Request]
  /\ buffer \in [Robots -> [Robots -> Seq(Measurement)]]
  /\ bestOffset \in [Robots -> [Robots -> Int]]

\* The time of s relative to the time of r.
TrueOffset(r, s) == clock[s] - clock[r]

\* A message of the sender's current life was sent in the past.
MessagesArePast ==
  \A m \in net : m.life = life[m.sender] => m.timestamp <= clock[m.sender]

\* There is one request per team mate, so the ring buffer does not overflow and a
\* message has at most one reply for a robot.
OneRequestEach ==
  \A r \in Robots : \A p, q \in receivedNTPRequests[r] : p.sender = q.sender => p = q

\* A request to r was received after it was sent.
RequestsArePast ==
  \A r \in Robots : \A q \in receivedNTPRequests[r] :
    q.life = life[q.sender] =>
      /\ q.receipt <= clock[r]
      /\ q.receipt - q.origination >= TrueOffset(q.sender, r)

\* So it was when it is answered, after it was received.
RepliesArePast ==
  \A m \in net : \A a \in m.ntpMessages :
    m.life = life[m.sender] /\ a.life = life[a.receiver] =>
      /\ a.requestReceipt <= m.timestamp
      /\ a.requestReceipt - a.requestOrigination >= TrueOffset(a.receiver, m.sender)

\* Neither of the two robots was restarted since the request was sent.
Current(r, s, t) == t.ownLife = life[r] /\ t.otherLife = life[s]

Within(x, bound) == -bound <= x /\ x <= bound

\* A measurement is wrong by at most half the round trip (and rounding).
MeasurementsAccurate ==
  \A r, s \in Robots : \A i \in DOMAIN buffer[r][s] :
    LET t == buffer[r][s][i]
    IN  Current(r, s, t) =>
          t.roundTrip >= 0 /\ Within(2 * t.offset - 2 * TrueOffset(r, s), t.roundTrip + 1)

BestIsShortest ==
  \A r, s \in Robots :
    buffer[r][s] # <<>> =>
      \E i \in DOMAIN buffer[r][s] :
        /\ bestOffset[r][s] = buffer[r][s][i].offset
        /\ \A j \in DOMAIN buffer[r][s] :
             buffer[r][s][i].roundTrip <= buffer[r][s][j].roundTrip

\* Nothing stems from a life still to come.
LivesArePast ==
  /\ \A m \in net : /\ m.life <= life[m.sender]
                    /\ \A a \in m.ntpMessages : a.life <= life[a.receiver]
  /\ \A r \in Robots : \A q \in receivedNTPRequests[r] : q.life <= life[q.sender]
  /\ \A r, s \in Robots : \A i \in DOMAIN buffer[r][s] :
       buffer[r][s][i].ownLife <= life[r] /\ buffer[r][s][i].otherLife <= life[s]

\* What has to hold of the times in messages, requests and replies for the estimate
\* to be accurate, and of the estimate compared with the measurements.
IInv ==
  /\ TypeOK
  /\ OneRequestEach /\ MessagesArePast /\ RequestsArePast /\ RepliesArePast /\ LivesArePast
  /\ MeasurementsAccurate /\ BestIsShortest

\* However the messages are delayed, lost, repeated and reordered, the time of a
\* team mate is converted to the own time with an error of at most half the
\* shortest round trip in the buffer (plus rounding), once both robots were not
\* restarted since the measurements in the buffer.
EstimateAccurate ==
  \A r, s \in Robots :
    buffer[r][s] # <<>> /\ (\A i \in DOMAIN buffer[r][s] : Current(r, s, buffer[r][s][i]))
      => \A i \in DOMAIN buffer[r][s] :
           Within(2 * getRemoteTimeInLocalTime(r, s, clock[s]) - 2 * clock[r],
                  buffer[r][s][i].roundTrip + 1)

\* Requests may overtake each other: an older one of the same life does not
\* replace a newer one that still has to be answered.
NewestRequestAnswered ==
  [][\A r \in Robots : \A q \in receivedNTPRequests[r] : \A p \in receivedNTPRequests'[r] :
       p.sender = q.sender /\ p.life = q.life => p.origination >= q.origination]_vars
=============================================================================
