--------------------------- MODULE TimeSyncProofs ----------------------------
(***************************************************************************)
(* For any number of robots, clocks, delays, losses, repetitions and       *)
(* restarts: the estimate of a team mate's clock is wrong by at most half  *)
(* the shortest round trip, as long as neither of the two robots was       *)
(* restarted since the measurements in the buffer.                         *)
(***************************************************************************)
EXTENDS TimeSync, TLAPS

USE TimeSyncAssumption DEF TimeSyncAssumption, Time, Life

-----------------------------------------------------------------------------
(* Arithmetic. *)

\* The conversion to int undoes the one to unsigned for all values of an int.
LEMMA ToIntOfInt ==
  ASSUME NEW x \in Int, -HalfWidth <= x, x < HalfWidth
  PROVE  ToInt(x) = x
<1> DEFINE w == 2 * HalfWidth
<1>1. CASE x >= 0
  <2>1. x % w = x
    BY <1>1
  <2> QED
    BY <1>1, <2>1 DEF ToInt, Unsigned
<1>2. CASE x < 0
  <2>1. x % w = x + w
    BY <1>2
  <2> QED
    BY <1>2, <2>1 DEF ToInt, Unsigned
<1> QED
  BY <1>1, <1>2

\* Halving an int rounds by at most one half.
LEMMA HalfRounds ==
  ASSUME NEW x \in Int
  PROVE  Half(x) \in Int /\ Within(2 * Half(x) - x, 1)
BY DEF Half, Within

\* The measurement: with the true offset d, a request that took t2 - t1 - d >= 0 and
\* a reply that took t4 - t3 + d >= 0, the round trip is the time both were under
\* way, and the offset is wrong by at most half of it (BNTP.cpp:67-68).
LEMMA MeasurementError ==
  ASSUME NEW a \in Reply, NEW m \in Message, NEW t \in Time, NEW d \in Int,
         a.requestReceipt - a.requestOrigination >= d,
         a.requestReceipt <= m.timestamp,
         t - m.timestamp + d >= 0
  PROVE  /\ Offset(a, m, t) \in Int /\ RoundTrip(a, m, t) \in Int
         /\ RoundTrip(a, m, t) >= 0
         /\ Within(2 * Offset(a, m, t) - 2 * d, RoundTrip(a, m, t) + 1)
<1> DEFINE t1 == a.requestOrigination  t2 == a.requestReceipt  t3 == m.timestamp
           x == t2 - t1 + t3 - t
<1>0. t1 \in Time /\ t2 \in Time /\ t3 \in Time
  BY DEF Reply, Message
<1> HIDE DEF t1, t2, t3
<1>1. x \in Int /\ ToInt(x) = x
  BY <1>0, ToIntOfInt
<1>2. ToInt(t - t1) = t - t1 /\ ToInt(t3 - t2) = t3 - t2
  BY <1>0, ToIntOfInt
<1>3. Offset(a, m, t) = Half(x)
  BY <1>1 DEF Offset, t1, t2, t3
<1>4. RoundTrip(a, m, t) = (t - t1) - (t3 - t2)
  BY <1>2 DEF RoundTrip, t1, t2, t3
<1>5. Half(x) \in Int /\ -1 <= 2 * Half(x) - x /\ 2 * Half(x) - x <= 1
  BY <1>1, HalfRounds DEF Within
<1>6. t2 - t1 >= d /\ t2 <= t3 /\ t - t3 + d >= 0
  BY DEF t1, t2, t3
<1> HIDE DEF x
<1>7. x = t2 - t1 + t3 - t
  BY DEF x
<1> QED
  BY <1>0, <1>3, <1>4, <1>5, <1>6, <1>7 DEF Within

\* Whatever the times are, a measurement consists of two ints.
LEMMA MeasurementType ==
  ASSUME NEW a \in Reply, NEW m \in Message, NEW t \in Time
  PROVE  Offset(a, m, t) \in Int /\ RoundTrip(a, m, t) \in Int
<1>0. /\ a.requestOrigination \in Int /\ a.requestReceipt \in Int
      /\ m.timestamp \in Int /\ t \in Int
  BY DEF Reply, Message
<1>1. ASSUME NEW x \in Int PROVE ToInt(x) \in Int
  BY <1>1 DEF ToInt, Unsigned
<1> QED
  BY <1>0, <1>1, HalfRounds DEF Offset, RoundTrip

\* A measurement is added at the front, the others stay in the buffer or drop out.
LEMMA PushFront ==
  ASSUME NEW b \in Seq(Measurement), NEW t \in Measurement
  PROVE  /\ push_front(b, t) \in Seq(Measurement)
         /\ push_front(b, t) # <<>>
         /\ \A i \in DOMAIN push_front(b, t) :
              push_front(b, t)[i] = t \/ \E j \in DOMAIN b : push_front(b, t)[i] = b[j]
<1> DEFINE n == IF Len(b) < BufferSize THEN Len(b) + 1 ELSE BufferSize
           c == [i \in 1..n |-> IF i = 1 THEN t ELSE b[i - 1]]
<1>0. n \in Nat \ {0} /\ n <= Len(b) + 1 /\ Len(b) \in Nat /\ DOMAIN b = 1..Len(b)
  OBVIOUS
<1>1. \A i \in 1..n : i # 1 => i - 1 \in DOMAIN b
  BY <1>0
<1> HIDE DEF n
<1>2. c \in [1..n -> Measurement]
  BY <1>0, <1>1
<1>3. c \in Seq(Measurement) /\ DOMAIN c = 1..n /\ Len(c) = n
  BY <1>0, <1>2
<1>4. \A i \in 1..n : c[i] = t \/ \E j \in DOMAIN b : c[i] = b[j]
  BY <1>1
<1>5. c # <<>>
  BY <1>0, <1>3
<1>6. push_front(b, t) = c
  BY DEF push_front, n
<1> QED
  BY <1>3, <1>4, <1>5, <1>6

-----------------------------------------------------------------------------
(* The inductive invariant. *)

\* What the types say of the contents of messages, replies and requests.
LEMMA Contents ==
  ASSUME TypeOK
  PROVE  /\ \A m \in net :
              /\ m \in Message /\ m.sender \in Robots /\ m.timestamp \in Time /\ m.life \in Life
              /\ \A a \in m.ntpMessages :
                   /\ a \in Reply /\ a.receiver \in Robots /\ a.life \in Life
                   /\ a.requestOrigination \in Time /\ a.requestReceipt \in Time
         /\ \A r \in Robots : \A q \in receivedNTPRequests[r] :
              /\ q \in Request /\ q.sender \in Robots /\ q.life \in Life
              /\ q.origination \in Time /\ q.receipt \in Time
<1>1. ASSUME NEW m \in net
      PROVE  /\ m \in Message /\ m.sender \in Robots /\ m.timestamp \in Time /\ m.life \in Life
             /\ \A a \in m.ntpMessages : a \in Reply
  BY <1>1 DEF TypeOK, Message
<1>2. \A a \in Reply : /\ a.receiver \in Robots /\ a.life \in Life
                       /\ a.requestOrigination \in Time /\ a.requestReceipt \in Time
  BY DEF Reply
<1>3. \A r \in Robots : \A q \in receivedNTPRequests[r] :
              /\ q \in Request /\ q.sender \in Robots /\ q.life \in Life
              /\ q.origination \in Time /\ q.receipt \in Time
  <2>1. \A q \in Request : /\ q.sender \in Robots /\ q.life \in Life
                           /\ q.origination \in Time /\ q.receipt \in Time
    BY DEF Request
  <2>2. \A r \in Robots : receivedNTPRequests[r] \subseteq Request
    BY DEF TypeOK
  <2> QED
    BY <2>1, <2>2, Zenon
<1>4. \A m \in net : \A a \in m.ntpMessages :
        /\ a \in Reply /\ a.receiver \in Robots /\ a.life \in Life
        /\ a.requestOrigination \in Time /\ a.requestReceipt \in Time
  BY <1>1, <1>2, Zenon
<1> QED
  BY <1>1, <1>3, <1>4, Zenon

\* ... and of the measurements.
LEMMA Measured ==
  ASSUME TypeOK, NEW r \in Robots, NEW s \in Robots, NEW i \in DOMAIN buffer[r][s]
  PROVE  /\ buffer[r][s][i].offset \in Int /\ buffer[r][s][i].roundTrip \in Int
         /\ buffer[r][s][i].ownLife \in Nat /\ buffer[r][s][i].otherLife \in Nat
<1>1. buffer[r][s] \in Seq(Measurement)
  BY DEF TypeOK
<1> HIDE DEF Measurement
<1>2. buffer[r][s][i] \in Measurement
  BY <1>1
<1> QED
  BY <1>2 DEF Measurement

\* The initial values of BNTP and TeamMessageHandler.
LEMMA InitIInv == Init => IInv
<1> SUFFICES ASSUME Init PROVE IInv
  OBVIOUS
<1>1. TypeOK
  <2>1. clock \in [Robots -> Time]
    BY DEF Init
  <2>2. buffer \in [Robots -> [Robots -> Seq(Measurement)]]
    <3>1. <<>> \in Seq(Measurement)
      OBVIOUS
    <3> QED
      BY <3>1 DEF Init
  <2> QED
    BY <2>1, <2>2 DEF Init, TypeOK
<1>2. \A r, s \in Robots : buffer[r][s] = <<>>
  BY DEF Init
<1>3. OneRequestEach /\ MessagesArePast /\ RequestsArePast /\ RepliesArePast /\ LivesArePast
  BY <1>2 DEF Init, OneRequestEach, MessagesArePast, RequestsArePast, RepliesArePast, LivesArePast
<1>4. MeasurementsAccurate /\ BestIsShortest
  BY <1>2 DEF MeasurementsAccurate, BestIsShortest
<1> QED
  BY <1>1, <1>3, <1>4 DEF IInv

\* Time passes: offsets stay, the past stays the past.
LEMMA TickStep == IInv /\ Tick => IInv'
<1> SUFFICES ASSUME IInv, Tick PROVE IInv'
  OBVIOUS
<1> USE DEF IInv
<1>0. /\ UNCHANGED <<life, net, timeLastSent, lastNTPRequestSent, receivedNTPRequests,
                     buffer, bestOffset>>
      /\ \A r \in Robots : clock[r] \in Int /\ clock'[r] = clock[r] + 1
  BY DEF Tick, program, TypeOK
<1>1. \A r, s \in Robots : TrueOffset(r, s)' = TrueOffset(r, s)
  BY <1>0 DEF TrueOffset
<1>2. TypeOK'
  BY <1>0 DEF TypeOK, Tick
<1>3. MessagesArePast'
  BY <1>0 DEF MessagesArePast, TypeOK, Message
<1>4. RequestsArePast'
  BY <1>0, <1>1 DEF RequestsArePast, TypeOK, Request
<1>5. RepliesArePast'
  BY <1>0, <1>1, Contents DEF RepliesArePast
<1>6. OneRequestEach' /\ LivesArePast' /\ BestIsShortest'
  BY <1>0 DEF OneRequestEach, LivesArePast, BestIsShortest
<1>7. MeasurementsAccurate'
  BY <1>0, <1>1 DEF MeasurementsAccurate, Current
<1> QED
  BY <1>2, <1>3, <1>4, <1>5, <1>6, <1>7

\* The time of receipt is not cut to an earlier time, nor to one still to come.
LEMMA ReceiptLater ==
  ASSUME TypeOK, NEW r \in Robots, NEW q \in receivedNTPRequests[r]
  PROVE  /\ ReceiptSent(r, q) \in Time
         /\ q.receipt <= ReceiptSent(r, q)
         /\ q.receipt <= clock[r] => ReceiptSent(r, q) <= clock[r]
<1>1. clock[r] \in Time /\ q.receipt \in Time
  BY Contents DEF TypeOK
<1> QED
  BY <1>1 DEF ReceiptSent

\* A message is sent: it carries the requests received as replies.
LEMMA SendStep == IInv /\ (\E r \in Robots : Send(r)) => IInv'
<1> SUFFICES ASSUME IInv, NEW r \in Robots, Send(r) PROVE IInv'
  OBVIOUS
<1> USE DEF IInv
<1> DEFINE m0 == [sender |-> r, timestamp |-> clock[r], requestsNTPMessage |-> RequestIsDue(r),
                  ntpMessages |-> Replies(r), life |-> life[r]]
<1>0. UNCHANGED <<clock, life, buffer, bestOffset>>
  BY DEF Send
<1>1. net' = net \cup {m0}
  BY DEF Send
<1>2. \A q \in Robots : receivedNTPRequests'[q] = IF q = r THEN {} ELSE receivedNTPRequests[q]
  BY DEF Send, TypeOK
<1>3. \A a \in Replies(r) : \E q \in receivedNTPRequests[r] :
        a.receiver = q.sender /\ a.requestOrigination = q.origination
        /\ a.requestReceipt = ReceiptSent(r, q) /\ a.life = q.life
  BY DEF Replies
<1>4. m0 \in Message
  <2>1. Replies(r) \subseteq Reply
    BY Contents, ReceiptLater DEF Replies, Reply
  <2>2. clock[r] \in Time /\ life[r] \in Life /\ lastNTPRequestSent[r] \in Time
    BY DEF TypeOK
  <2>3. RequestIsDue(r) \in BOOLEAN
    BY DEF RequestIsDue
  <2> QED
    BY <2>1, <2>2, <2>3, Zenon DEF Message
<1>5. TypeOK'
  <2>1. clock' \in [Robots -> Time] /\ life' \in [Robots -> Life] /\ net' \subseteq Message
    BY <1>0, <1>1, <1>4 DEF TypeOK
  <2>2. timeLastSent' \in [Robots -> Nat] /\ lastNTPRequestSent' \in [Robots -> Time]
    BY DEF TypeOK, Send, TimeOfSending
  <2>3. receivedNTPRequests' \in [Robots -> SUBSET Request]
    BY DEF TypeOK, Send
  <2>4. /\ buffer' \in [Robots -> [Robots -> Seq(Measurement)]]
        /\ bestOffset' \in [Robots -> [Robots -> Int]]
    BY <1>0 DEF TypeOK
  <2> QED
    BY <2>1, <2>2, <2>3, <2>4 DEF TypeOK
<1> HIDE DEF m0
<1>6. m0.sender = r /\ m0.timestamp = clock[r] /\ m0.ntpMessages = Replies(r) /\ m0.life = life[r]
  BY DEF m0
<1>7. MessagesArePast'
  <2>1. clock[r] \in Int
    BY DEF TypeOK
  <2> QED
    BY <2>1, <1>0, <1>1, <1>6 DEF MessagesArePast
<1>8. OneRequestEach' /\ RequestsArePast'
  BY <1>0, <1>2 DEF OneRequestEach, RequestsArePast, TrueOffset
<1>9. RepliesArePast'
  <2>1. ASSUME NEW a \in Replies(r), a.life = life[a.receiver]
        PROVE  /\ a.requestReceipt <= clock[r]
               /\ a.requestReceipt - a.requestOrigination >= TrueOffset(a.receiver, r)
    <3>1. PICK q \in receivedNTPRequests[r] :
            /\ a.receiver = q.sender /\ a.requestOrigination = q.origination
            /\ a.requestReceipt = ReceiptSent(r, q) /\ a.life = q.life
      BY <1>3
    <3>2. /\ q.receipt <= clock[r]
          /\ q.receipt - q.origination >= TrueOffset(q.sender, r)
      BY <2>1, <3>1 DEF RequestsArePast
    <3>3. /\ q.receipt <= ReceiptSent(r, q) /\ ReceiptSent(r, q) <= clock[r]
          /\ q.receipt \in Int /\ q.origination \in Int /\ ReceiptSent(r, q) \in Int
          /\ q.sender \in Robots
      BY <3>2, Contents, ReceiptLater
    <3>4. TrueOffset(q.sender, r) \in Int
      BY <3>3 DEF TrueOffset, TypeOK
    <3> QED
      BY <3>1, <3>2, <3>3, <3>4
  <2> QED
    BY <2>1, <1>0, <1>1, <1>6 DEF RepliesArePast, TrueOffset
<1>10. LivesArePast'
  <2>1. \A a \in Replies(r) : a.life <= life[a.receiver]
    BY <1>3 DEF LivesArePast
  <2>2. life[r] <= life[r]
    BY DEF TypeOK
  <2> QED
    BY <2>1, <2>2, <1>0, <1>1, <1>2, <1>6 DEF LivesArePast
<1>11. MeasurementsAccurate' /\ BestIsShortest'
  BY <1>0 DEF MeasurementsAccurate, BestIsShortest, Current, TrueOffset
<1> QED
  BY <1>5, <1>7, <1>8, <1>9, <1>10, <1>11

\* A restart: everything that stems from the former life stops to count.
LEMMA RestartStep == IInv /\ (\E r \in Robots : Restart(r)) => IInv'
<1> SUFFICES ASSUME IInv, NEW r \in Robots, Restart(r) PROVE IInv'
  OBVIOUS
<1> USE DEF IInv
<1>0. /\ net' = net
      /\ \A s \in Robots :
           /\ s # r => /\ clock'[s] = clock[s] /\ life'[s] = life[s]
                       /\ receivedNTPRequests'[s] = receivedNTPRequests[s]
                       /\ buffer'[s] = buffer[s] /\ bestOffset'[s] = bestOffset[s]
           /\ s = r => /\ life'[s] = life[s] + 1 /\ receivedNTPRequests'[s] = {}
                       /\ \A q \in Robots : buffer'[s][q] = <<>>
  BY DEF Restart, TypeOK
<1>1. \A s \in Robots : life[s] \in Nat /\ life'[s] \in Nat /\ life[s] <= life'[s]
  <2>1. \A s \in Robots : life[s] \in Nat
    BY DEF TypeOK
  <2> QED
    BY <1>0, <2>1
<1>2. TypeOK'
  <2>1. /\ clock' \in [Robots -> Time] /\ life' \in [Robots -> Life] /\ net' \subseteq Message
        /\ timeLastSent' \in [Robots -> Nat] /\ lastNTPRequestSent' \in [Robots -> Time]
        /\ receivedNTPRequests' \in [Robots -> SUBSET Request]
        /\ bestOffset' \in [Robots -> [Robots -> Int]]
    BY DEF TypeOK, Restart
  <2>2. buffer' \in [Robots -> [Robots -> Seq(Measurement)]]
    <3>1. [s \in Robots |-> <<>>] \in [Robots -> Seq(Measurement)]
      OBVIOUS
    <3> QED
      BY <3>1 DEF TypeOK, Restart
  <2> QED
    BY <2>1, <2>2 DEF TypeOK
\* What counts after the restart does not involve the robot, and counted before.
<1>3. ASSUME NEW s \in Robots, NEW l \in Nat, l <= life[s], l = life'[s]
      PROVE  s # r /\ l = life[s] /\ clock'[s] = clock[s]
  BY <1>0, <1>1, <1>3
<1>4. MessagesArePast'
  <2> SUFFICES ASSUME NEW m \in net, m.life = life'[m.sender]
               PROVE  m.timestamp <= clock'[m.sender]
    BY <1>0 DEF MessagesArePast
  <2>1. m.sender \in Robots /\ m.life \in Nat /\ m.life <= life[m.sender]
    BY Contents DEF LivesArePast
  <2> QED
    BY <2>1, <1>3 DEF MessagesArePast
<1>5. RequestsArePast'
  <2> SUFFICES ASSUME NEW s \in Robots, NEW q \in receivedNTPRequests'[s], q.life = life'[q.sender]
               PROVE  /\ q.receipt <= clock'[s]
                      /\ q.receipt - q.origination >= TrueOffset(q.sender, s)'
    BY DEF RequestsArePast
  <2>1. s # r /\ q \in receivedNTPRequests[s] /\ clock'[s] = clock[s]
    BY <1>0
  <2>2. q.sender \in Robots /\ q.life \in Nat /\ q.life <= life[q.sender]
    BY <2>1, Contents DEF LivesArePast
  <2>3. q.life = life[q.sender] /\ clock'[q.sender] = clock[q.sender]
    BY <2>2, <1>3
  <2> QED
    BY <2>1, <2>3 DEF RequestsArePast, TrueOffset
<1>6. RepliesArePast'
  <2> SUFFICES ASSUME NEW m \in net, NEW a \in m.ntpMessages,
                      m.life = life'[m.sender], a.life = life'[a.receiver]
               PROVE  /\ a.requestReceipt <= m.timestamp
                      /\ a.requestReceipt - a.requestOrigination
                           >= TrueOffset(a.receiver, m.sender)'
    BY <1>0 DEF RepliesArePast
  <2>1. /\ m.sender \in Robots /\ m.life \in Nat /\ m.life <= life[m.sender]
        /\ a.receiver \in Robots /\ a.life \in Nat /\ a.life <= life[a.receiver]
    BY Contents DEF LivesArePast
  <2>2. /\ m.life = life[m.sender] /\ clock'[m.sender] = clock[m.sender]
        /\ a.life = life[a.receiver] /\ clock'[a.receiver] = clock[a.receiver]
    BY <2>1, <1>3
  <2> QED
    BY <2>2 DEF RepliesArePast, TrueOffset
<1>7. LivesArePast'
  <2>1. \A m \in net : /\ m.life <= life'[m.sender]
                       /\ \A a \in m.ntpMessages : a.life <= life'[a.receiver]
    BY <1>1, Contents DEF LivesArePast
  <2>2. \A s \in Robots : \A q \in receivedNTPRequests'[s] : q.life <= life'[q.sender]
    BY <1>0, <1>1, Contents DEF LivesArePast
  <2>3. ASSUME NEW s \in Robots, NEW q \in Robots, NEW i \in DOMAIN buffer'[s][q]
        PROVE  buffer'[s][q][i].ownLife <= life'[s] /\ buffer'[s][q][i].otherLife <= life'[q]
    <3>1. s # r /\ i \in DOMAIN buffer[s][q] /\ buffer'[s][q][i] = buffer[s][q][i]
      BY <1>0
    <3>2. buffer[s][q][i].ownLife \in Nat /\ buffer[s][q][i].otherLife \in Nat
      BY <3>1, Measured
    <3> QED
      BY <3>1, <3>2, <1>1 DEF LivesArePast
  <2> QED
    BY <2>1, <2>2, <2>3, <1>0 DEF LivesArePast
<1>8. MeasurementsAccurate'
  <2> SUFFICES ASSUME NEW s \in Robots, NEW q \in Robots, NEW i \in DOMAIN buffer'[s][q],
                      buffer'[s][q][i].ownLife = life'[s], buffer'[s][q][i].otherLife = life'[q]
               PROVE  /\ buffer'[s][q][i].roundTrip >= 0
                      /\ Within(2 * buffer'[s][q][i].offset - 2 * TrueOffset(s, q)',
                                buffer'[s][q][i].roundTrip + 1)
    BY DEF MeasurementsAccurate, Current
  <2>1. s # r /\ i \in DOMAIN buffer[s][q] /\ buffer'[s][q][i] = buffer[s][q][i]
    BY <1>0
  <2>3. buffer[s][q][i].ownLife \in Nat /\ buffer[s][q][i].otherLife \in Nat
    BY <2>1, Measured
  <2>4. buffer[s][q][i].ownLife <= life[s] /\ buffer[s][q][i].otherLife <= life[q]
    BY <2>1 DEF LivesArePast
  <2>5. /\ buffer[s][q][i].ownLife = life[s] /\ clock'[s] = clock[s]
        /\ buffer[s][q][i].otherLife = life[q] /\ clock'[q] = clock[q]
    BY <2>1, <2>3, <2>4, <1>3
  <2> QED
    BY <2>1, <2>5 DEF MeasurementsAccurate, Current, TrueOffset
<1>9. BestIsShortest'
  <2> SUFFICES ASSUME NEW s \in Robots, NEW q \in Robots, buffer'[s][q] # <<>>
               PROVE  /\ buffer'[s][q] = buffer[s][q] /\ bestOffset'[s][q] = bestOffset[s][q]
    BY DEF BestIsShortest
  <2> QED
    BY <1>0
<1>10. OneRequestEach'
  BY <1>0 DEF OneRequestEach
<1> QED
  BY <1>2, <1>4, <1>5, <1>6, <1>7, <1>8, <1>9, <1>10

-----------------------------------------------------------------------------
(* Receiving a message. *)

\* The request in a message (BNTP.cpp:43-61).
LEMMA RequestsStep ==
  ASSUME IInv, NEW r \in Robots, NEW m \in net, Receive(r, m)
  PROVE  /\ receivedNTPRequests' \in [Robots -> SUBSET Request]
         /\ OneRequestEach' /\ RequestsArePast'
         /\ \A s \in Robots : \A q \in receivedNTPRequests'[s] : q.life <= life[q.sender]
<1> USE DEF IInv
<1> DEFINE q0 == [sender |-> m.sender, origination |-> m.timestamp, receipt |-> clock[r],
                  life |-> m.life]
<1>0. UNCHANGED <<clock, life>>
  BY DEF Receive
<1>1. q0 \in Request /\ clock[r] \in Time
  BY Contents DEF TypeOK, Request
<1>2. \A s \in Robots : \A q \in receivedNTPRequests'[s] :
        q \in receivedNTPRequests[s] \/ (s = r /\ q = q0)
  BY DEF Receive, RequestsWith, TypeOK
<1>3. receivedNTPRequests' \in [Robots -> SUBSET Request]
  <2>1. RequestsWith(r, m) \in SUBSET Request
    BY <1>1 DEF RequestsWith, TypeOK
  <2> QED
    BY <2>1 DEF Receive, TypeOK
<1> HIDE DEF q0
<1>4. /\ q0.sender = m.sender /\ q0.origination = m.timestamp /\ q0.receipt = clock[r]
      /\ q0.life = m.life
  BY DEF q0
<1>5. /\ clock[r] <= clock[r]
      /\ m.life = life[m.sender] => clock[r] - m.timestamp >= TrueOffset(m.sender, r)
  <2>0. m.sender \in Robots /\ m.timestamp \in Time
    BY Contents
  <2>1. clock[r] \in Int /\ clock[m.sender] \in Int /\ m.timestamp \in Int
    <3>1. clock \in [Robots -> Time]
      BY DEF TypeOK
    <3> HIDE DEF IInv
    <3> QED
      BY <2>0, <3>1
  <2>2. m.life = life[m.sender] => m.timestamp <= clock[m.sender]
    BY DEF MessagesArePast
  <2>3. TrueOffset(m.sender, r) = clock[r] - clock[m.sender]
    BY DEF TrueOffset
  <2> QED
    BY <2>1, <2>2, <2>3
<1>6. RequestsArePast'
  BY <1>0, <1>2, <1>4, <1>5 DEF RequestsArePast, TrueOffset
<1>7. \A s \in Robots : \A q \in receivedNTPRequests'[s] : q.life <= life[q.sender]
  BY <1>2, <1>4 DEF LivesArePast
<1>8. OneRequestEach'
  <2>1. /\ receivedNTPRequests'[r] = RequestsWith(r, m)
        /\ \A s \in Robots : s # r => receivedNTPRequests'[s] = receivedNTPRequests[s]
    BY DEF Receive, TypeOK
  <2>2. \A p, q \in RequestsWith(r, m) : p.sender = q.sender => p = q
    BY DEF RequestsWith, RequestsOf, OneRequestEach
  <2> QED
    BY <2>1, <2>2 DEF OneRequestEach
<1> QED
  BY <1>3, <1>6, <1>7, <1>8

\* The reply in a message (BNTP.cpp:63-71, add): the new measurement is accurate, and
\* the best one is one of the shortest.
LEMMA MeasurementStep ==
  ASSUME IInv, NEW r \in Robots, NEW m \in net, Receive(r, m),
         NEW a \in m.ntpMessages, a.receiver = r,
         add(r, m.sender, [offset |-> Offset(a, m, clock[r]),
                           roundTrip |-> RoundTrip(a, m, clock[r]),
                           ownLife |-> a.life, otherLife |-> m.life])
  PROVE  /\ buffer' \in [Robots -> [Robots -> Seq(Measurement)]]
         /\ bestOffset' \in [Robots -> [Robots -> Int]]
         /\ MeasurementsAccurate' /\ BestIsShortest'
         /\ \A p, s \in Robots : \A i \in DOMAIN buffer'[p][s] :
              buffer'[p][s][i].ownLife <= life[p] /\ buffer'[p][s][i].otherLife <= life[s]
<1> USE DEF IInv
<1> DEFINE t0 == [offset |-> Offset(a, m, clock[r]), roundTrip |-> RoundTrip(a, m, clock[r]),
                  ownLife |-> a.life, otherLife |-> m.life]
           s0 == m.sender
           b0 == push_front(buffer[r][s0], t0)
<1>0. UNCHANGED <<clock, life>>
  BY DEF Receive
<1>1. /\ s0 \in Robots /\ a \in Reply /\ m \in Message /\ clock[r] \in Time
      /\ a.life \in Life /\ m.life \in Life /\ a.requestOrigination \in Time
      /\ clock[s0] \in Time /\ m.timestamp \in Time
  BY Contents DEF TypeOK
<1>2. t0 \in Measurement
  BY <1>1, MeasurementType DEF Measurement
<1>3. ASSUME a.life = life[r], m.life = life[s0]
      PROVE  /\ RoundTrip(a, m, clock[r]) >= 0
             /\ Within(2 * Offset(a, m, clock[r]) - 2 * TrueOffset(r, s0),
                       RoundTrip(a, m, clock[r]) + 1)
  <2>1. TrueOffset(r, s0) \in Int
    BY <1>1 DEF TrueOffset
  <2>2. /\ a.requestReceipt - a.requestOrigination >= TrueOffset(r, s0)
        /\ a.requestReceipt <= m.timestamp
    BY <1>3 DEF RepliesArePast
  <2>3. clock[r] - m.timestamp + TrueOffset(r, s0) >= 0
    BY <1>1, <1>3 DEF MessagesArePast, TrueOffset
  <2> QED
    BY <2>1, <2>2, <2>3, <1>1, MeasurementError
<1>4. /\ t0.offset = Offset(a, m, clock[r]) /\ t0.roundTrip = RoundTrip(a, m, clock[r])
      /\ t0.ownLife = a.life /\ t0.otherLife = m.life
  OBVIOUS
<1> HIDE DEF t0
<1>5. /\ buffer' = [buffer EXCEPT ![r][s0] = b0]
      /\ \E i \in DOMAIN buffer'[r][s0] :
           /\ IsBest(buffer'[r][s0], i)
           /\ bestOffset' = [bestOffset EXCEPT ![r][s0] = buffer'[r][s0][i].offset]
  BY DEF add, t0
<1> HIDE DEF s0
<1>6. buffer[r][s0] \in Seq(Measurement) /\ buffer \in [Robots -> [Robots -> Seq(Measurement)]]
  BY <1>1 DEF TypeOK
<1>7. /\ b0 \in Seq(Measurement) /\ b0 # <<>>
      /\ \A i \in DOMAIN b0 : b0[i] = t0 \/ \E j \in DOMAIN buffer[r][s0] : b0[i] = buffer[r][s0][j]
  <2> HIDE DEF IInv
  <2>1. buffer[r][s0] \in Seq(Measurement) /\ t0 \in Measurement
    BY <1>2, <1>6
  <2> HIDE DEF b0
  <2>2. b0 = push_front(buffer[r][s0], t0)
    BY DEF b0
  <2>3. /\ push_front(buffer[r][s0], t0) \in Seq(Measurement)
        /\ push_front(buffer[r][s0], t0) # <<>>
        /\ \A i \in DOMAIN push_front(buffer[r][s0], t0) :
             \/ push_front(buffer[r][s0], t0)[i] = t0
             \/ \E j \in DOMAIN buffer[r][s0] :
                  push_front(buffer[r][s0], t0)[i] = buffer[r][s0][j]
    BY <2>1, PushFront
  <2> QED
    BY <2>2, <2>3
<1> HIDE DEF b0, IInv
<1>8. /\ buffer' \in [Robots -> [Robots -> Seq(Measurement)]]
      /\ \A p, s \in Robots :
           buffer'[p][s] = IF p = r /\ s = s0 THEN b0 ELSE buffer[p][s]
  <2> HIDE DEF Measurement
  <2> QED
    BY <1>1, <1>5, <1>6, <1>7
<1>9. PICK k \in DOMAIN b0 :
        /\ IsBest(b0, k)
        /\ bestOffset' = [bestOffset EXCEPT ![r][s0] = b0[k].offset]
  BY <1>1, <1>5, <1>8
<1>10. b0[k].offset \in Int
  <2>1. b0[k] \in Measurement
    BY <1>7
  <2> QED
    BY <2>1 DEF Measurement
<1>11. /\ bestOffset' \in [Robots -> [Robots -> Int]]
       /\ \A p, s \in Robots :
            bestOffset'[p][s] = IF p = r /\ s = s0 THEN b0[k].offset ELSE bestOffset[p][s]
  BY <1>1, <1>9, <1>10 DEF IInv, TypeOK
<1>12. BestIsShortest'
  <2> SUFFICES ASSUME NEW p \in Robots, NEW s \in Robots, buffer'[p][s] # <<>>
               PROVE  \E i \in DOMAIN buffer'[p][s] :
                        /\ bestOffset'[p][s] = buffer'[p][s][i].offset
                        /\ \A j \in DOMAIN buffer'[p][s] :
                             buffer'[p][s][i].roundTrip <= buffer'[p][s][j].roundTrip
    BY DEF BestIsShortest
  <2>1. CASE p = r /\ s = s0
    <3>1. buffer'[p][s] = b0 /\ bestOffset'[p][s] = b0[k].offset
      BY <2>1, <1>8, <1>11
    <3>2. \A j \in DOMAIN b0 : b0[k].roundTrip <= b0[j].roundTrip
      BY <1>9 DEF IsBest
    <3> QED
      BY <3>1, <3>2
  <2>2. CASE ~(p = r /\ s = s0)
    <3>1. buffer'[p][s] = buffer[p][s] /\ bestOffset'[p][s] = bestOffset[p][s]
      BY <2>2, <1>8, <1>11
    <3> QED
      BY <3>1 DEF IInv, BestIsShortest
  <2> QED
    BY <2>1, <2>2
<1>13. \A i \in DOMAIN b0 :
         /\ b0[i].ownLife <= life[r] /\ b0[i].otherLife <= life[s0]
         /\ Current(r, s0, b0[i]) =>
              /\ b0[i].roundTrip >= 0
              /\ Within(2 * b0[i].offset - 2 * TrueOffset(r, s0), b0[i].roundTrip + 1)
  <2>1. t0.ownLife <= life[r] /\ t0.otherLife <= life[s0]
    BY <1>4 DEF IInv, LivesArePast, s0
  <2>2. Current(r, s0, t0) => /\ t0.roundTrip >= 0
                              /\ Within(2 * t0.offset - 2 * TrueOffset(r, s0), t0.roundTrip + 1)
    BY <1>3, <1>4 DEF Current
  <2> QED
    BY <1>1, <1>7, <2>1, <2>2 DEF IInv, MeasurementsAccurate, LivesArePast
\* The same holds of all other buffers, which did not change.
<1>14. ASSUME NEW p \in Robots, NEW s \in Robots, NEW i \in DOMAIN buffer'[p][s]
       PROVE  /\ buffer'[p][s][i].ownLife <= life[p] /\ buffer'[p][s][i].otherLife <= life[s]
              /\ Current(p, s, buffer'[p][s][i]) =>
                   /\ buffer'[p][s][i].roundTrip >= 0
                   /\ Within(2 * buffer'[p][s][i].offset - 2 * TrueOffset(p, s),
                             buffer'[p][s][i].roundTrip + 1)
  <2>1. CASE p = r /\ s = s0
    BY <2>1, <1>8, <1>13
  <2>2. CASE ~(p = r /\ s = s0)
    <3>1. buffer'[p][s] = buffer[p][s]
      BY <2>2, <1>8
    <3> QED
      BY <3>1 DEF IInv, LivesArePast, MeasurementsAccurate
  <2> QED
    BY <2>1, <2>2
<1>16. MeasurementsAccurate'
  BY <1>0, <1>14 DEF MeasurementsAccurate, Current, TrueOffset
<1>15. \A p, s \in Robots : \A i \in DOMAIN buffer'[p][s] :
         buffer'[p][s][i].ownLife <= life[p] /\ buffer'[p][s][i].otherLife <= life[s]
  BY <1>14
<1> QED
  BY <1>8, <1>11, <1>12, <1>15, <1>16

\* A message is received (parseMessageIntoBMate).
LEMMA ReceiveStep ==
  IInv /\ (\E r \in Robots : \E m \in net : Receive(r, m)) => IInv'
<1> SUFFICES ASSUME IInv, NEW r \in Robots, NEW m \in net, Receive(r, m) PROVE IInv'
  OBVIOUS
<1>0. UNCHANGED <<clock, life, net, timeLastSent, lastNTPRequestSent>>
  BY DEF Receive
<1>1. /\ buffer' \in [Robots -> [Robots -> Seq(Measurement)]]
      /\ bestOffset' \in [Robots -> [Robots -> Int]]
      /\ MeasurementsAccurate' /\ BestIsShortest'
      /\ \A p, s \in Robots : \A i \in DOMAIN buffer'[p][s] :
           buffer'[p][s][i].ownLife <= life[p] /\ buffer'[p][s][i].otherLife <= life[s]
  <2>1. CASE UNCHANGED <<buffer, bestOffset>>
    BY <2>1, <1>0 DEF IInv, TypeOK, MeasurementsAccurate, BestIsShortest, LivesArePast,
                      Current, TrueOffset
  <2>2. ASSUME NEW a \in m.ntpMessages, a.receiver = r,
               add(r, m.sender, [offset |-> Offset(a, m, clock[r]),
                                 roundTrip |-> RoundTrip(a, m, clock[r]),
                                 ownLife |-> a.life, otherLife |-> m.life])
        PROVE  /\ buffer' \in [Robots -> [Robots -> Seq(Measurement)]]
               /\ bestOffset' \in [Robots -> [Robots -> Int]]
               /\ MeasurementsAccurate' /\ BestIsShortest'
               /\ \A p, s \in Robots : \A i \in DOMAIN buffer'[p][s] :
                    buffer'[p][s][i].ownLife <= life[p] /\ buffer'[p][s][i].otherLife <= life[s]
    BY <2>2, MeasurementStep
  <2> QED
    BY <2>1, <2>2 DEF Receive
<1>2. TypeOK'
  BY <1>0, <1>1, RequestsStep DEF IInv, TypeOK
<1>3. MessagesArePast' /\ RepliesArePast'
  BY <1>0 DEF IInv, MessagesArePast, RepliesArePast, TrueOffset
<1>4. LivesArePast'
  BY <1>0, <1>1, RequestsStep DEF IInv, LivesArePast
<1> QED
  BY <1>1, <1>2, <1>3, <1>4, RequestsStep DEF IInv

-----------------------------------------------------------------------------

\* The times in messages, requests and replies and the measurements made of them.
THEOREM Invariance == Spec => []IInv
<1>1. IInv /\ [Next]_vars => IInv'
  <2>1. IInv /\ UNCHANGED vars => IInv'
    BY DEF vars, program, IInv, TypeOK, OneRequestEach, MessagesArePast, RequestsArePast, RepliesArePast, LivesArePast,
           MeasurementsAccurate, BestIsShortest, Current, TrueOffset
  <2> QED
    BY <2>1, TickStep, SendStep, RestartStep, ReceiveStep DEF Next
<1> QED
  BY <1>1, InitIInv, PTL DEF Spec

\* The conversion of a team mate's time is wrong by at most half the shortest round
\* trip of the measurements in the buffer.
THEOREM Accuracy == Spec => []EstimateAccurate
<1>1. IInv => EstimateAccurate
  <2> SUFFICES ASSUME IInv, NEW r \in Robots, NEW s \in Robots, buffer[r][s] # <<>>,
                      \A i \in DOMAIN buffer[r][s] : Current(r, s, buffer[r][s][i]),
                      NEW j \in DOMAIN buffer[r][s]
               PROVE  Within(2 * getRemoteTimeInLocalTime(r, s, clock[s]) - 2 * clock[r],
                             buffer[r][s][j].roundTrip + 1)
    BY DEF EstimateAccurate
  <2> DEFINE b == buffer[r][s]
  <2>1. PICK k \in DOMAIN b : /\ bestOffset[r][s] = b[k].offset
                              /\ \A i \in DOMAIN b : b[k].roundTrip <= b[i].roundTrip
    BY DEF IInv, BestIsShortest
  <2>2. Within(2 * b[k].offset - 2 * TrueOffset(r, s), b[k].roundTrip + 1)
    BY DEF IInv, MeasurementsAccurate
  <2>3. b[k].offset \in Int /\ b[k].roundTrip \in Int /\ b[j].roundTrip \in Int
    BY Measured DEF IInv
  <2>4. clock[r] \in Nat /\ clock[s] \in Nat
    BY DEF IInv, TypeOK
  <2>5. b[k].roundTrip <= b[j].roundTrip
    BY <2>1
  <2> HIDE DEF b
  <2> DEFINE o == b[k].offset  n == b[k].roundTrip  l == b[j].roundTrip
             x == getRemoteTimeInLocalTime(r, s, clock[s])
             c == clock[r]  e == clock[s]
  <2>6. /\ o \in Int /\ n \in Int /\ l \in Int /\ c \in Nat /\ e \in Nat /\ n <= l
        /\ -(n + 1) <= 2 * o - 2 * (e - c) /\ 2 * o - 2 * (e - c) <= n + 1
        /\ x = IF e - o < 0 THEN 0 ELSE e - o
    BY <2>1, <2>2, <2>3, <2>4, <2>5 DEF Within, TrueOffset, getRemoteTimeInLocalTime
  <2> HIDE DEF o, n, l, x, c, e
  <2>7. -(l + 1) <= 2 * x - 2 * c /\ 2 * x - 2 * c <= l + 1
    <3>1. CASE e - o < 0
      BY <2>6, <3>1
    <3>2. CASE ~(e - o < 0)
      BY <2>6, <3>2
    <3> QED
      BY <3>1, <3>2
  <2>8. Within(2 * x - 2 * c, l + 1)
    BY <2>7 DEF Within
  <2> QED
    BY <2>8 DEF b, x, c, l
<1> QED
  BY <1>1, Invariance, PTL

\* A request that waits for its answer only gives way to a newer one.
THEOREM NewestRequest == Spec => NewestRequestAnswered
<1> DEFINE Newest ==
      \A r \in Robots : \A q \in receivedNTPRequests[r] : \A p \in receivedNTPRequests'[r] :
        p.sender = q.sender /\ p.life = q.life => p.origination >= q.origination
<1>1. IInv /\ [Next]_vars => [Newest]_vars
  <2> SUFFICES ASSUME IInv, Next, NEW r \in Robots, NEW q \in receivedNTPRequests[r],
                      NEW p \in receivedNTPRequests'[r], p.sender = q.sender
               PROVE  p.origination >= q.origination
    OBVIOUS
  <2>1. TypeOK
    BY DEF IInv
  <2>2. q.origination \in Time
    BY <2>1, Contents
  <2>3. CASE p \in receivedNTPRequests[r]
    BY <2>2, <2>3 DEF IInv, OneRequestEach
  <2>4. CASE p \notin receivedNTPRequests[r]
    <3>1. \E m \in net : Receive(r, m)
      <4>1. receivedNTPRequests \in [Robots -> SUBSET Request]
        BY <2>1 DEF TypeOK
      <4>2. CASE Tick
        BY <4>2, <2>4 DEF Tick, program
      <4>3. CASE \E s \in Robots : Send(s) \/ Restart(s)
        BY <4>1, <4>3, <2>4 DEF Send, Restart
      <4>4. ASSUME NEW s \in Robots, NEW m \in net, Receive(s, m) PROVE s = r
        BY <4>1, <4>4, <2>4 DEF Receive
      <4> QED
        BY <4>2, <4>3, <4>4 DEF Next
    <3> PICK m \in net : Receive(r, m)
      BY <3>1
    <3>2. receivedNTPRequests'[r] = RequestsWith(r, m)
      BY <2>1 DEF Receive, TypeOK
    <3>3. IsNewer(r, m) /\ p.sender = m.sender /\ p.origination = m.timestamp
      BY <2>4, <3>2 DEF RequestsWith
    <3>4. m.timestamp \in Time
      BY <2>1, Contents
    <3>5. q \in RequestsOf(r, m.sender)
      BY <3>3 DEF RequestsOf
    <3>6. q.origination < m.timestamp
      BY <3>3, <3>5 DEF IsNewer
    <3> QED
      BY <2>2, <3>3, <3>4, <3>6
  <2> QED
    BY <2>3, <2>4
<1> QED
  BY <1>1, Invariance, PTL DEF Spec, NewestRequestAnswered
=============================================================================
