-------------------------- MODULE DebugQueueProofs --------------------------
(***************************************************************************)
(* For any threads, sizes of queues and messages: no thread's queue uses   *)
(* more bytes than it has, and as long as the reserve was left to the      *)
(* brackets, whatever a thread sends consists of complete frames.  This    *)
(* also holds together with Debug, whose steps are steps of FrameQueue.    *)
(* Debug's own queue holds what it says, also after removing repetitions,  *)
(* and no end of a frame follows the begin of another thread's frame.      *)
(* However often repetitions are removed from what the console left over,  *)
(* as long as nothing is refused the queue says as much as all that        *)
(* arrived: Latest keeps positions that are enough to decide what is kept, *)
(* also of what arrives later (LatestJoin), and the second pass of         *)
(* removeRepetitions computes it (RepetitionsLatest).                      *)
(***************************************************************************)
EXTENDS DebugQueue, SequenceTheorems, FiniteSetTheorems, NaturalsInduction, WellFoundedInduction,
        TLAPS

-----------------------------------------------------------------------------
\* Induction: a set of numbers that contains 0 and with each number the next one contains
\* all numbers.
LEMMA AllNumbers ==
  ASSUME NEW T \in SUBSET Nat, 0 \in T, \A n \in T : n + 1 \in T
  PROVE  T = Nat
<1> SUFFICES ASSUME Nat \ T /= {} PROVE FALSE
  OBVIOUS
<1>1. PICK n \in Nat \ T : \A k \in Nat \ T : ~(<<k, n>> \in OpToRel(<, Nat))
  BY WFMin, NatLessThanWellFounded
<1>2. n /= 0 /\ n - 1 \in Nat
  OBVIOUS
<1>3. <<n - 1, n>> \in OpToRel(<, Nat)
  BY <1>2 DEF OpToRel
<1>4. n - 1 \in T
  BY <1>1, <1>2, <1>3
<1> QED
  BY <1>2, <1>4

\* The recursive functions of the model are defined for every sequence: the bytes of
\* messages;
LEMMA BytesRecursion ==
  ASSUME NEW ms, Len(ms) \in Nat
  PROVE  /\ BytesTo(ms)[0] = 0
         /\ \A i \in 1 .. Len(ms) :
              BytesTo(ms)[i] =
                BytesTo(ms)[i - 1] + ms[i].size
<1> DEFINE step(v, i) == v + ms[i].size
           After(n, f) == f = [i \in 0 .. n |-> IF i = 0 THEN 0 ELSE step(f[i - 1], i)]
           T == {n \in Nat : \E f : After(n, f)}
<1>1. BytesTo(ms) = CHOOSE f : After(Len(ms), f)
  BY DEF BytesTo
<1> HIDE DEF step
<1>2. 0 \in T
  <2>1. After(0, [i \in 0 .. 0 |-> 0])
    OBVIOUS
  <2> QED
    BY <2>1
<1>3. ASSUME NEW n \in T PROVE n + 1 \in T
  <2>1. PICK f : After(n, f)
    OBVIOUS
  <2> DEFINE g == [i \in 0 .. n + 1 |-> IF i = n + 1 THEN step(f[n], n + 1) ELSE f[i]]
  <2>2. /\ n \in Nat
        /\ (\A i \in 0 .. n : g[i] = f[i]) /\ g[n + 1] = step(f[n], n + 1)
        /\ \A i \in 0 .. n : f[i] = IF i = 0 THEN 0 ELSE step(f[i - 1], i)
    BY <2>1
  <2>3. ASSUME NEW i \in 0 .. n + 1
        PROVE  g[i] = IF i = 0 THEN 0 ELSE step(g[i - 1], i)
    <3> HIDE DEF g
    <3>1. CASE i = n + 1
      BY <2>2, <3>1
    <3>2. CASE i \in 1 .. n
      <4>1. i - 1 \in 0 .. n /\ i \in 0 .. n /\ i /= 0
        BY <2>2, <3>2
      <4> QED
        BY <2>2, <4>1
    <3>3. CASE i = 0
      BY <2>2, <3>3
    <3> QED
      BY <2>2, <3>1, <3>2, <3>3
  <2>4. After(n + 1, g)
    BY <2>3
  <2> HIDE DEF After, g
  <2> QED
    BY <2>2, <2>4
<1>4. T = Nat
  <2> HIDE DEF T
  <2>1. T \in SUBSET Nat
    BY DEF T
  <2> QED
    BY <1>2, <1>3, <2>1, AllNumbers
<1>5. After(Len(ms), BytesTo(ms))
  <2>1. \E f : After(Len(ms), f)
    BY <1>4
  <2> HIDE DEF After
  <2> QED
    BY <1>1, <2>1
<1> QED
  BY <1>5 DEF step

\* what is copied one by one;
LEMMA CopiedRecursion ==
  ASSUME NEW q, NEW other, Len(q.messages) \in Nat
  PROVE  /\ Copied(q, other)[0] = other
         /\ \A i \in 1 .. Len(q.messages) :
              Copied(q, other)[i] =
                finishMessage(Copied(q, other)[i - 1], q.messages[i], debugSize, 0)
<1> DEFINE step(v, i) == finishMessage(v, q.messages[i], debugSize, 0)
           After(n, f) == f = [i \in 0 .. n |-> IF i = 0 THEN other ELSE step(f[i - 1], i)]
           T == {n \in Nat : \E f : After(n, f)}
<1>1. Copied(q, other) = CHOOSE f : After(Len(q.messages), f)
  BY DEF Copied
<1> HIDE DEF step
<1>2. 0 \in T
  <2>1. After(0, [i \in 0 .. 0 |-> other])
    OBVIOUS
  <2> QED
    BY <2>1
<1>3. ASSUME NEW n \in T PROVE n + 1 \in T
  <2>1. PICK f : After(n, f)
    OBVIOUS
  <2> DEFINE g == [i \in 0 .. n + 1 |-> IF i = n + 1 THEN step(f[n], n + 1) ELSE f[i]]
  <2>2. /\ n \in Nat
        /\ (\A i \in 0 .. n : g[i] = f[i]) /\ g[n + 1] = step(f[n], n + 1)
        /\ \A i \in 0 .. n : f[i] = IF i = 0 THEN other ELSE step(f[i - 1], i)
    BY <2>1
  <2>3. ASSUME NEW i \in 0 .. n + 1
        PROVE  g[i] = IF i = 0 THEN other ELSE step(g[i - 1], i)
    <3> HIDE DEF g
    <3>1. CASE i = n + 1
      BY <2>2, <3>1
    <3>2. CASE i \in 1 .. n
      <4>1. i - 1 \in 0 .. n /\ i \in 0 .. n /\ i /= 0
        BY <2>2, <3>2
      <4> QED
        BY <2>2, <4>1
    <3>3. CASE i = 0
      BY <2>2, <3>3
    <3> QED
      BY <2>2, <3>1, <3>2, <3>3
  <2>4. After(n + 1, g)
    BY <2>3
  <2> HIDE DEF After, g
  <2> QED
    BY <2>2, <2>4
<1>4. T = Nat
  <2> HIDE DEF T
  <2>1. T \in SUBSET Nat
    BY DEF T
  <2> QED
    BY <1>2, <1>3, <2>1, AllNumbers
<1>5. After(Len(q.messages), Copied(q, other))
  <2>1. \E f : After(Len(q.messages), f)
    BY <1>4
  <2> HIDE DEF After
  <2> QED
    BY <1>1, <2>1
<1> QED
  BY <1>5 DEF step

\* the packets that Debug receives;
LEMMA ReceivedRecursion ==
  ASSUME NEW start, Len(receivers) \in Nat
  PROVE  /\ Received(start)[0] = start
         /\ \A i \in 1 .. Len(receivers) :
              Received(start)[i] =
                copyAllMessages(packet[receivers[i]], Received(start)[i - 1])
<1> DEFINE step(v, i) == copyAllMessages(packet[receivers[i]], v)
           After(n, f) == f = [i \in 0 .. n |-> IF i = 0 THEN start ELSE step(f[i - 1], i)]
           T == {n \in Nat : \E f : After(n, f)}
<1>1. Received(start) = CHOOSE f : After(Len(receivers), f)
  BY DEF Received
<1> HIDE DEF step
<1>2. 0 \in T
  <2>1. After(0, [i \in 0 .. 0 |-> start])
    OBVIOUS
  <2> QED
    BY <2>1
<1>3. ASSUME NEW n \in T PROVE n + 1 \in T
  <2>1. PICK f : After(n, f)
    OBVIOUS
  <2> DEFINE g == [i \in 0 .. n + 1 |-> IF i = n + 1 THEN step(f[n], n + 1) ELSE f[i]]
  <2>2. /\ n \in Nat
        /\ (\A i \in 0 .. n : g[i] = f[i]) /\ g[n + 1] = step(f[n], n + 1)
        /\ \A i \in 0 .. n : f[i] = IF i = 0 THEN start ELSE step(f[i - 1], i)
    BY <2>1
  <2>3. ASSUME NEW i \in 0 .. n + 1
        PROVE  g[i] = IF i = 0 THEN start ELSE step(g[i - 1], i)
    <3> HIDE DEF g
    <3>1. CASE i = n + 1
      BY <2>2, <3>1
    <3>2. CASE i \in 1 .. n
      <4>1. i - 1 \in 0 .. n /\ i \in 0 .. n /\ i /= 0
        BY <2>2, <3>2
      <4> QED
        BY <2>2, <4>1
    <3>3. CASE i = 0
      BY <2>2, <3>3
    <3> QED
      BY <2>2, <3>1, <3>2, <3>3
  <2>4. After(n + 1, g)
    BY <2>3
  <2> HIDE DEF After, g
  <2> QED
    BY <2>2, <2>4
<1>4. T = Nat
  <2> HIDE DEF T
  <2>1. T \in SUBSET Nat
    BY DEF T
  <2> QED
    BY <1>2, <1>3, <2>1, AllNumbers
<1>5. After(Len(receivers), Received(start))
  <2>1. \E f : After(Len(receivers), f)
    BY <1>4
  <2> HIDE DEF After
  <2> QED
    BY <1>1, <2>1
<1> QED
  BY <1>5 DEF step

\* the second pass of removeRepetitions.
LEMMA ScannedRecursion ==
  ASSUME NEW ms, Len(ms) \in Nat
  PROVE  /\ Scanned(ms)[0] = ScanStart(ms)
         /\ \A i \in 1 .. Len(ms) :
              Scanned(ms)[i] =
                Scan(Scanned(ms)[i - 1], ms[i])
<1> DEFINE step(v, i) == Scan(v, ms[i])
           After(n, f) == f = [i \in 0 .. n |-> IF i = 0 THEN ScanStart(ms) ELSE step(f[i - 1], i)]
           T == {n \in Nat : \E f : After(n, f)}
<1>1. Scanned(ms) = CHOOSE f : After(Len(ms), f)
  BY DEF Scanned
<1> HIDE DEF step
<1>2. 0 \in T
  <2>1. After(0, [i \in 0 .. 0 |-> ScanStart(ms)])
    OBVIOUS
  <2> QED
    BY <2>1
<1>3. ASSUME NEW n \in T PROVE n + 1 \in T
  <2>1. PICK f : After(n, f)
    OBVIOUS
  <2> DEFINE g == [i \in 0 .. n + 1 |-> IF i = n + 1 THEN step(f[n], n + 1) ELSE f[i]]
  <2>2. /\ n \in Nat
        /\ (\A i \in 0 .. n : g[i] = f[i]) /\ g[n + 1] = step(f[n], n + 1)
        /\ \A i \in 0 .. n : f[i] = IF i = 0 THEN ScanStart(ms) ELSE step(f[i - 1], i)
    BY <2>1
  <2>3. ASSUME NEW i \in 0 .. n + 1
        PROVE  g[i] = IF i = 0 THEN ScanStart(ms) ELSE step(g[i - 1], i)
    <3> HIDE DEF g
    <3>1. CASE i = n + 1
      BY <2>2, <3>1
    <3>2. CASE i \in 1 .. n
      <4>1. i - 1 \in 0 .. n /\ i \in 0 .. n /\ i /= 0
        BY <2>2, <3>2
      <4> QED
        BY <2>2, <4>1
    <3>3. CASE i = 0
      BY <2>2, <3>3
    <3> QED
      BY <2>2, <3>1, <3>2, <3>3
  <2>4. After(n + 1, g)
    BY <2>3
  <2> HIDE DEF After, g
  <2> QED
    BY <2>2, <2>4
<1>4. T = Nat
  <2> HIDE DEF T
  <2>1. T \in SUBSET Nat
    BY DEF T
  <2> QED
    BY <1>2, <1>3, <2>1, AllNumbers
<1>5. After(Len(ms), Scanned(ms))
  <2>1. \E f : After(Len(ms), f)
    BY <1>4
  <2> HIDE DEF After
  <2> QED
    BY <1>1, <2>1
<1> QED
  BY <1>5 DEF step

-----------------------------------------------------------------------------
\* The bytes of messages depend on nothing but these messages.
LEMMA BytesAgree ==
  ASSUME NEW ms, NEW ns, Len(ms) \in Nat, Len(ns) \in Nat,
         NEW k \in Nat, k <= Len(ms), k <= Len(ns), \A i \in 1 .. k : ms[i] = ns[i]
  PROVE  BytesTo(ms)[k] = BytesTo(ns)[k]
<1> DEFINE T == {n \in Nat : n <= k => BytesTo(ms)[n] = BytesTo(ns)[n]}
<1>1. 0 \in T
  BY BytesRecursion
<1>2. ASSUME NEW n \in T PROVE n + 1 \in T
  <2> SUFFICES ASSUME n + 1 <= k PROVE BytesTo(ms)[n + 1] = BytesTo(ns)[n + 1]
    OBVIOUS
  <2>1. /\ n + 1 \in 1 .. k /\ n + 1 \in 1 .. Len(ms) /\ n + 1 \in 1 .. Len(ns)
        /\ (n + 1) - 1 = n
    OBVIOUS
  <2>2. BytesTo(ms)[n] = BytesTo(ns)[n]
    BY <2>1
  <2>3. /\ BytesTo(ms)[n + 1] = BytesTo(ms)[n] + ms[n + 1].size
        /\ BytesTo(ns)[n + 1] = BytesTo(ns)[n] + ns[n + 1].size
    BY <2>1, BytesRecursion
  <2> QED
    BY <2>1, <2>2, <2>3
<1>3. T = Nat
  <2> HIDE DEF T
  <2>1. T \in SUBSET Nat
    BY DEF T
  <2> QED
    BY <1>1, <1>2, <2>1, AllNumbers
<1> QED
  BY <1>3

\* They are a natural number.
LEMMA BytesTyped ==
  ASSUME NEW S, \A m \in S : m.size \in Nat, NEW ms \in Seq(S)
  PROVE  \A n \in 0 .. Len(ms) : BytesTo(ms)[n] \in Nat
<1> DEFINE T == {n \in Nat : n <= Len(ms) => BytesTo(ms)[n] \in Nat}
<1>0. Len(ms) \in Nat
  OBVIOUS
<1>1. 0 \in T
  BY <1>0, BytesRecursion
<1>2. ASSUME NEW n \in T PROVE n + 1 \in T
  <2> SUFFICES ASSUME n + 1 <= Len(ms) PROVE BytesTo(ms)[n + 1] \in Nat
    OBVIOUS
  <2>1. n + 1 \in 1 .. Len(ms) /\ (n + 1) - 1 = n
    BY <1>0
  <2>2. ms[n + 1].size \in Nat
    BY <2>1
  <2>3. BytesTo(ms)[n + 1] = BytesTo(ms)[n] + ms[n + 1].size
    BY <1>0, <2>1, BytesRecursion
  <2> QED
    BY <1>0, <2>1, <2>2, <2>3
<1>3. T = Nat
  <2> HIDE DEF T
  <2>1. T \in SUBSET Nat
    BY DEF T
  <2> QED
    BY <1>1, <1>2, <2>1, AllNumbers
<1> QED
  BY <1>0, <1>3

\* The bytes of the first messages,
LEMMA BytesFirst ==
  ASSUME NEW S, NEW ms \in Seq(S), NEW k \in 0 .. Len(ms)
  PROVE  /\ SubSeq(ms, 1, k) \in Seq(S) /\ Len(SubSeq(ms, 1, k)) = k
         /\ \A i \in 1 .. k : SubSeq(ms, 1, k)[i] = ms[i]
         /\ Bytes(SubSeq(ms, 1, k)) = BytesTo(ms)[k]
<1> DEFINE ns == SubSeq(ms, 1, k)
<1>1. Len(ms) \in Nat /\ k \in Nat /\ k <= Len(ms) /\ \A i \in 1 .. k : ms[i] \in S
  OBVIOUS
<1>2. ns \in Seq(S) /\ Len(ns) = k /\ \A i \in 1 .. k : ns[i] = ms[i]
  BY <1>1, SubSeqProperties
<1> HIDE DEF ns
<1>3. Bytes(ns) = BytesTo(ms)[k]
  BY <1>1, <1>2, BytesAgree DEF Bytes
<1> QED
  BY <1>2, <1>3 DEF ns

\* with one more message,
LEMMA BytesAppend ==
  ASSUME NEW S, NEW ms \in Seq(S), NEW m \in S
  PROVE  Bytes(Append(ms, m)) = Bytes(ms) + m.size
<1> DEFINE ns == Append(ms, m)
           k == Len(ms)
<1>1. /\ k \in Nat /\ Len(ns) = k + 1 /\ ns[k + 1] = m
      /\ \A i \in 1 .. k : ns[i] = ms[i]
  OBVIOUS
<1> HIDE DEF ns
<1>2. BytesTo(ns)[k] = BytesTo(ms)[k]
  BY <1>1, BytesAgree
<1>3. BytesTo(ns)[k + 1] = BytesTo(ns)[k] + m.size
  <2>1. k + 1 \in 1 .. Len(ns) /\ (k + 1) - 1 = k
    BY <1>1
  <2> QED
    BY <1>1, <2>1, BytesRecursion
<1> QED
  BY <1>1, <1>2, <1>3 DEF Bytes, ns

\* and of the messages of two queues.
LEMMA BytesJoin ==
  ASSUME NEW S, \A m \in S : m.size \in Nat, NEW a \in Seq(S), NEW b \in Seq(S)
  PROVE  Bytes(a \o b) = Bytes(a) + Bytes(b)
<1> DEFINE ms == a \o b
           k == Len(a)
           T == {n \in Nat : n <= Len(b) => BytesTo(ms)[k + n] = BytesTo(a)[k] + BytesTo(b)[n]}
<1>1. /\ k \in Nat /\ Len(b) \in Nat /\ Len(ms) = k + Len(b) /\ Len(ms) \in Nat
      /\ \A i \in 1 .. k + Len(b) : ms[i] = IF i <= k THEN a[i] ELSE b[i - k]
  BY ConcatProperties
<1> HIDE DEF ms, k
<1>2. 0 \in T
  <2>1. BytesTo(ms)[k] = BytesTo(a)[k]
    <3>1. \A i \in 1 .. k : ms[i] = a[i]
      BY <1>1
    <3> QED
      BY <1>1, <3>1, BytesAgree DEF k
  <2>2. BytesTo(a)[k] \in Nat
    BY <1>1, BytesTyped DEF k
  <2>3. BytesTo(b)[0] = 0
    BY <1>1, BytesRecursion
  <2> QED
    BY <1>1, <2>1, <2>2, <2>3
<1>3. ASSUME NEW n \in T PROVE n + 1 \in T
  <2> SUFFICES ASSUME n + 1 <= Len(b)
               PROVE  BytesTo(ms)[k + (n + 1)] = BytesTo(a)[k] + BytesTo(b)[n + 1]
    OBVIOUS
  <2>1. /\ n \in Nat /\ n + 1 \in 1 .. Len(b) /\ (n + 1) - 1 = n /\ n \in 0 .. Len(b)
        /\ k + (n + 1) \in 1 .. Len(ms) /\ (k + (n + 1)) - 1 = k + n
        /\ (k + (n + 1)) - k = n + 1 /\ ~(k + (n + 1) <= k)
    BY <1>1
  <2>2. BytesTo(ms)[k + n] = BytesTo(a)[k] + BytesTo(b)[n]
    BY <1>1, <2>1
  <2>3. ms[k + (n + 1)] = b[n + 1]
    BY <1>1, <2>1
  <2>4. BytesTo(ms)[k + (n + 1)] = BytesTo(ms)[k + n] + b[n + 1].size
    <3> DEFINE j == k + (n + 1)
    <3>1. j \in 1 .. Len(ms) /\ j - 1 = k + n /\ ms[j] = b[n + 1]
      BY <2>1, <2>3
    <3> HIDE DEF j, T
    <3>2. BytesTo(ms)[j] = BytesTo(ms)[j - 1] + ms[j].size
      BY <1>1, <3>1, BytesRecursion
    <3> QED
      BY <3>1, <3>2 DEF j
  <2>5. BytesTo(b)[n + 1] = BytesTo(b)[n] + b[n + 1].size
    BY <1>1, <2>1, BytesRecursion
  <2>6. BytesTo(a)[k] \in Nat /\ BytesTo(b)[n] \in Nat /\ b[n + 1].size \in Nat
    BY <1>1, <2>1, BytesTyped DEF k
  <2> QED
    BY <2>2, <2>4, <2>5, <2>6
<1>4. T = Nat
  <2> HIDE DEF T
  <2>1. T \in SUBSET Nat
    BY DEF T
  <2> QED
    BY <1>2, <1>3, <2>1, AllNumbers
<1>5. BytesTo(ms)[k + Len(b)] = BytesTo(a)[k] + BytesTo(b)[Len(b)]
  <2>1. Len(b) \in T
    <3> HIDE DEF T
    <3> QED
      BY <1>1, <1>4
  <2> QED
    BY <1>1, <2>1
<1>6. Bytes(ms) = Bytes(a) + Bytes(b)
  BY <1>1, <1>5 DEF Bytes, k
<1> QED
  BY <1>6 DEF ms

-----------------------------------------------------------------------------
\* The sender of a message is the thread of the last idFrameBegin.
LEMMA SenderStep ==
  ASSUME NEW ms, Len(ms) \in Nat
  PROVE  /\ Sender(ms, 0) = Unknown
         /\ \A i \in 1 .. Len(ms) :
              Sender(ms, i) = IF ms[i].id = "idFrameBegin" THEN ms[i].from
                                                           ELSE Sender(ms, i - 1)
<1> DEFINE begins(i) == {j \in 1 .. i : ms[j].id = "idFrameBegin"}
<1>1. Sender(ms, 0) = Unknown
  <2>1. begins(0) = {}
    OBVIOUS
  <2> QED
    BY <2>1 DEF Sender
<1>2. ASSUME NEW i \in 1 .. Len(ms)
      PROVE  Sender(ms, i) = IF ms[i].id = "idFrameBegin" THEN ms[i].from
                                                          ELSE Sender(ms, i - 1)
  <2>1. CASE ms[i].id = "idFrameBegin"
    <3>1. i \in begins(i) /\ \A j \in begins(i) : i >= j
      BY <2>1
    <3>2. ASSUME NEW x \in begins(i), \A j \in begins(i) : x >= j PROVE x = i
      BY <3>1, <3>2
    <3>3. Max(begins(i)) = i
      <4> HIDE DEF begins
      <4> QED
        BY <3>1, <3>2 DEF Max
    <3>4. Sender(ms, i) = ms[i].from
      BY <3>1, <3>3 DEF Sender
    <3> QED
      BY <2>1, <3>4
  <2>2. CASE ms[i].id /= "idFrameBegin"
    <3>1. begins(i) = begins(i - 1)
      <4>1. \A j \in 1 .. i : j = i \/ j \in 1 .. i - 1
        OBVIOUS
      <4>2. \A j \in 1 .. i - 1 : j \in 1 .. i
        OBVIOUS
      <4> QED
        BY <2>2, <4>1, <4>2
    <3>2. Sender(ms, i) = Sender(ms, i - 1)
      BY <3>1 DEF Sender
    <3> QED
      BY <2>2, <3>2
  <2> QED
    BY <2>1, <2>2
<1> QED
  BY <1>1, <1>2

\* It depends on nothing but the messages up to there.
LEMMA SenderAgree ==
  ASSUME NEW ms, NEW ns, Len(ms) \in Nat, Len(ns) \in Nat,
         NEW k \in Nat, k <= Len(ms), k <= Len(ns), \A i \in 1 .. k : ms[i] = ns[i]
  PROVE  \A i \in 0 .. k : Sender(ms, i) = Sender(ns, i)
<1> DEFINE T == {n \in Nat : n <= k => Sender(ms, n) = Sender(ns, n)}
<1>1. 0 \in T
  BY SenderStep
<1>2. ASSUME NEW n \in T PROVE n + 1 \in T
  <2> SUFFICES ASSUME n + 1 <= k PROVE Sender(ms, n + 1) = Sender(ns, n + 1)
    OBVIOUS
  <2>1. /\ n + 1 \in 1 .. k /\ n + 1 \in 1 .. Len(ms) /\ n + 1 \in 1 .. Len(ns)
        /\ (n + 1) - 1 = n
    OBVIOUS
  <2>2. Sender(ms, n) = Sender(ns, n) /\ ms[n + 1] = ns[n + 1]
    BY <2>1
  <2>3. Sender(ms, n + 1) = IF ms[n + 1].id = "idFrameBegin" THEN ms[n + 1].from
                                                             ELSE Sender(ms, n)
    BY <2>1, SenderStep
  <2>4. Sender(ns, n + 1) = IF ns[n + 1].id = "idFrameBegin" THEN ns[n + 1].from
                                                             ELSE Sender(ns, n)
    BY <2>1, SenderStep
  <2> QED
    BY <2>2, <2>3, <2>4
<1>3. T = Nat
  <2> HIDE DEF T
  <2>1. T \in SUBSET Nat
    BY DEF T
  <2> QED
    BY <1>1, <1>2, <2>1, AllNumbers
<1> QED
  BY <1>3

\* The sender of all that follows.
LastSender(ms) == Sender(ms, Len(ms))

\* FinishedMatches is kept by the first messages
LEMMA MatchedFirst ==
  ASSUME NEW S, NEW ms \in Seq(S), NEW k \in 0 .. Len(ms), Matched(ms)
  PROVE  Matched(SubSeq(ms, 1, k)) /\ LastSender(SubSeq(ms, 1, k)) = Sender(ms, k)
<1> DEFINE ns == SubSeq(ms, 1, k)
<1>1. /\ Len(ms) \in Nat /\ k \in Nat /\ k <= Len(ms)
      /\ Len(ns) = k /\ \A i \in 1 .. k : ns[i] = ms[i]
  BY BytesFirst
<1> HIDE DEF ns
<1>2. \A i \in 0 .. k : Sender(ns, i) = Sender(ms, i)
  BY <1>1, SenderAgree
<1>3. ASSUME NEW i \in 1 .. Len(ns), ns[i].id = "idFrameFinished"
      PROVE  Sender(ns, i) = ns[i].from
  <2>1. i \in 0 .. k /\ i \in 1 .. Len(ms) /\ ns[i] = ms[i]
    BY <1>1
  <2> QED
    BY <1>2, <1>3, <2>1 DEF Matched
<1>4. LastSender(ns) = Sender(ms, k)
  BY <1>1, <1>2 DEF LastSender
<1> QED
  BY <1>3, <1>4 DEF Matched, ns

\* and by a message that is no idFrameFinished of another thread.
LEMMA MatchedAppend ==
  ASSUME NEW S, NEW ms \in Seq(S), NEW m \in S, Matched(ms),
         m.id = "idFrameFinished" => LastSender(ms) = m.from
  PROVE  /\ Matched(Append(ms, m))
         /\ LastSender(Append(ms, m)) = IF m.id = "idFrameBegin" THEN m.from ELSE LastSender(ms)
<1> DEFINE ns == Append(ms, m)
           k == Len(ms)
<1>1. /\ k \in Nat /\ Len(ns) = k + 1 /\ ns[k + 1] = m
      /\ \A i \in 1 .. k : ns[i] = ms[i]
  OBVIOUS
<1> HIDE DEF ns
<1>2. \A i \in 0 .. k : Sender(ns, i) = Sender(ms, i)
  BY <1>1, SenderAgree
<1>3. Sender(ns, k + 1) = IF m.id = "idFrameBegin" THEN m.from ELSE Sender(ms, k)
  <2>1. k + 1 \in 1 .. Len(ns) /\ (k + 1) - 1 = k /\ k \in 0 .. k
    BY <1>1
  <2> QED
    BY <1>1, <1>2, <2>1, SenderStep
<1>4. ASSUME NEW i \in 1 .. Len(ns), ns[i].id = "idFrameFinished"
      PROVE  Sender(ns, i) = ns[i].from
  <2>1. CASE i = k + 1
    BY <1>1, <1>3, <1>4, <2>1 DEF LastSender
  <2>2. CASE i \in 1 .. k
    <3>1. i \in 0 .. k /\ ns[i] = ms[i]
      BY <1>1, <2>2
    <3> QED
      BY <1>2, <1>4, <2>2, <3>1 DEF Matched
  <2> QED
    BY <1>1, <2>1, <2>2
<1>5. LastSender(ns) = IF m.id = "idFrameBegin" THEN m.from ELSE LastSender(ms)
  BY <1>1, <1>3 DEF LastSender
<1> QED
  BY <1>4, <1>5 DEF Matched, ns

\* Messages of thread t that begin with idFrameBegin may follow whatever was sent.
LEMMA MatchedJoin ==
  ASSUME NEW S, NEW a \in Seq(S), NEW b \in Seq(S), Matched(a), NEW t, Own(b, t)
  PROVE  Matched(a \o b)
<1> DEFINE ms == a \o b
           k == Len(a)
           T == {n \in Nat : n < Len(b) => Sender(ms, k + (n + 1)) = t}
<1>1. /\ k \in Nat /\ Len(b) \in Nat /\ Len(ms) = k + Len(b) /\ Len(ms) \in Nat
      /\ \A i \in 1 .. k + Len(b) : ms[i] = IF i <= k THEN a[i] ELSE b[i - k]
  BY ConcatProperties
<1> HIDE DEF ms
<1>2. \A i \in 1 .. k : ms[i] = a[i]
  BY <1>1
<1>3. \A i \in 1 .. Len(b) : ms[k + i] = b[i] /\ b[i].from = t
  <2> TAKE i \in 1 .. Len(b)
  <2>1. k + i \in 1 .. k + Len(b) /\ ~(k + i <= k) /\ (k + i) - k = i
    BY <1>1
  <2>2. ms[k + i] = b[i]
    BY <1>1, <2>1
  <2> QED
    BY <2>2 DEF Own
<1>4. Len(a) = k
  OBVIOUS
<1> HIDE DEF k
<1>5. \A i \in 0 .. k : Sender(ms, i) = Sender(a, i)
  <2>1. k <= Len(ms) /\ k <= Len(a) /\ Len(a) \in Nat
    BY <1>1, <1>4
  <2> QED
    BY <1>1, <1>2, <2>1, SenderAgree
<1>6. \A i \in 1 .. Len(b) :
        Sender(ms, k + i) = IF b[i].id = "idFrameBegin" THEN t ELSE Sender(ms, (k + i) - 1)
  <2> TAKE i \in 1 .. Len(b)
  <2> DEFINE j == k + i
  <2>1. j \in 1 .. Len(ms) /\ ms[j] = b[i] /\ ms[j].from = t
    BY <1>1, <1>3
  <2> HIDE DEF j
  <2>2. Sender(ms, j) = IF b[i].id = "idFrameBegin" THEN t ELSE Sender(ms, j - 1)
    BY <1>1, <2>1, SenderStep
  <2> QED
    BY <2>2 DEF j
<1>7. 0 \in T
  <2> SUFFICES ASSUME 0 < Len(b) PROVE Sender(ms, k + 1) = t
    BY <1>1
  <2>1. b[1].id = "idFrameBegin" /\ 1 \in 1 .. Len(b)
    BY <1>1 DEF Own
  <2> QED
    BY <1>6, <2>1
<1>8. ASSUME NEW n \in T PROVE n + 1 \in T
  <2> SUFFICES ASSUME n + 1 < Len(b) PROVE Sender(ms, k + ((n + 1) + 1)) = t
    OBVIOUS
  <2>1. /\ (n + 1) + 1 \in 1 .. Len(b) /\ (k + ((n + 1) + 1)) - 1 = k + (n + 1)
        /\ n < Len(b)
    BY <1>1
  <2>2. Sender(ms, k + (n + 1)) = t
    BY <2>1
  <2> QED
    BY <1>6, <2>1, <2>2
<1>9. T = Nat
  <2> HIDE DEF T
  <2>1. T \in SUBSET Nat
    BY DEF T
  <2> QED
    BY <1>7, <1>8, <2>1, AllNumbers
<1>10. ASSUME NEW i \in 1 .. Len(ms), ms[i].id = "idFrameFinished"
      PROVE  Sender(ms, i) = ms[i].from
  <2>1. CASE i <= k
    <3>1. i \in 0 .. k /\ i \in 1 .. Len(a) /\ ms[i] = a[i]
      BY <1>1, <1>2, <2>1 DEF k
    <3> QED
      BY <1>5, <1>10, <3>1 DEF Matched
  <2>2. CASE i > k
    <3>1. /\ i - k \in 1 .. Len(b) /\ k + (i - k) = i
          /\ i - k - 1 \in Nat /\ i - k - 1 < Len(b) /\ k + ((i - k - 1) + 1) = i
      BY <1>1, <2>2
    <3>2. ms[i].from = t
      BY <1>3, <3>1
    <3>3. Sender(ms, k + ((i - k - 1) + 1)) = t
      BY <1>9, <3>1
    <3> QED
      BY <3>1, <3>2, <3>3
  <2> QED
    BY <1>1, <2>1, <2>2
<1> QED
  BY <1>10 DEF Matched, ms

-----------------------------------------------------------------------------
\* Each message has a size.
LEMMA MessagesSized == \A m \in Message : m.size \in Nat
BY DEF Message

\* What finishing a message does, if it is accepted and if it is not.
LEMMA FinishLemma ==
  ASSUME NEW q, MessageQueueOK(q), NEW m \in Message
  PROVE  LET r == Finish(q, m)
             accepts == Accepts(q, m, maximumSize, reserveForInfrastructure)
         IN  /\ MessageQueueOK(r)
             /\ accepts =>
                  /\ r.messages = Append(q.messages, m)
                  /\ r.usedSize = q.usedSize + m.size
                  /\ r.overdrawn = \/ q.overdrawn
                                   \/ /\ m.id \in Infrastructure \ Brackets
                                      /\ maximumSize - q.usedSize - m.size
                                           < reserveForInfrastructure
             /\ ~accepts => r = q
<1> DEFINE overdraws == /\ m.id \in Infrastructure \ Brackets
                        /\ maximumSize - q.usedSize - m.size < reserveForInfrastructure
           a == AppendMessage(q, m, overdraws)
<1>1. CASE Accepts(q, m, maximumSize, reserveForInfrastructure)
  <2>1. Finish(q, m) = a
    BY <1>1 DEF Finish, finishMessage
  <2>2. /\ a.messages = Append(q.messages, m)
        /\ a.usedSize = q.usedSize + m.size
        /\ a.numberOfMessages = q.numberOfMessages + 1
        /\ a.overdrawn = (q.overdrawn \/ overdraws)
    BY DEF AppendMessage
  <2>3. a \in [messages : Seq(Message), usedSize : Int, numberOfMessages : Nat,
               overdrawn : BOOLEAN]
    BY DEF AppendMessage, MessageQueueOK, Message
  <2>4. Len(Append(q.messages, m)) = Len(q.messages) + 1
    BY DEF MessageQueueOK
  <2> HIDE DEF a
  <2>5. a.usedSize <= maximumSize
    BY <1>1, <2>2 DEF Accepts, reserve
  <2>6. a.numberOfMessages = Len(a.messages)
    BY <2>2, <2>4 DEF MessageQueueOK
  <2>7. a.usedSize = Bytes(a.messages)
    BY <2>2, MessagesSized, BytesAppend DEF MessageQueueOK
  <2>8. MessageQueueOK(a)
    BY <2>3, <2>5, <2>6, <2>7 DEF MessageQueueOK
  <2> QED
    BY <1>1, <2>1, <2>2, <2>8
<1>2. CASE ~Accepts(q, m, maximumSize, reserveForInfrastructure)
  BY <1>2 DEF Finish, finishMessage
<1> QED
  BY <1>1, <1>2

\* A cleared queue.
LEMMA EmptyLemma == MessageQueueOK(Empty)
<1>1. Bytes(<<>>) = 0
  BY BytesRecursion DEF Bytes
<1> QED
  BY <1>1, FrameQueueAssumption DEF MessageQueueOK, Empty

\* The messages a thread writes.
LEMMA MessageLemma ==
  ASSUME NEW t \in Thread, NEW n \in Nat
  PROVE  /\ \A id \in Brackets : Bracket(id, t, n) \in Message
         /\ \A id \in Ordinary : frames[t] \in Nat => Output(id, t) \in Message
BY FrameQueueAssumption DEF Bracket, Output, Message, Brackets, Ordinary

\* Without their last message, messages have its bytes less.
LEMMA BytesShorter ==
  ASSUME NEW ms \in Seq(Message), Len(ms) > 0
  PROVE  Bytes(SubSeq(ms, 1, Len(ms) - 1)) = Bytes(ms) - ms[Len(ms)].size
<1> DEFINE k == Len(ms) - 1
<1>1. k \in 0 .. Len(ms) /\ k + 1 = Len(ms) /\ Len(ms) \in 1 .. Len(ms)
  OBVIOUS
<1>2. ms[Len(ms)].size \in Nat
  BY <1>1, MessagesSized
<1>3. BytesTo(ms)[k] \in Nat
  BY <1>1, MessagesSized, BytesTyped
<1>4. BytesTo(ms)[Len(ms)] = BytesTo(ms)[Len(ms) - 1] + ms[Len(ms)].size
  BY <1>1, BytesRecursion
<1>5. Bytes(SubSeq(ms, 1, k)) = BytesTo(ms)[k]
  BY <1>1, BytesFirst
<1> QED
  BY <1>2, <1>3, <1>4, <1>5 DEF Bytes

\* Taking back the last message.
LEMMA RemoveLemma ==
  ASSUME NEW q, MessageQueueOK(q)
  PROVE  LET r == removeLastMessage(q)
         IN  /\ MessageQueueOK(r)
             /\ r.overdrawn = q.overdrawn
             /\ Len(q.messages) > 0 =>
                  /\ r.messages = SubSeq(q.messages, 1, Len(q.messages) - 1)
                  /\ r.usedSize = q.usedSize - q.messages[Len(q.messages)].size
<1>1. CASE q.numberOfMessages = 0
  <2>1. removeLastMessage(q) = q
    BY <1>1 DEF removeLastMessage
  <2>2. ~(Len(q.messages) > 0)
    BY <1>1 DEF MessageQueueOK
  <2> QED
    BY <2>1, <2>2
<1>2. CASE q.numberOfMessages /= 0
  <2> DEFINE r == removeLastMessage(q)
             short == SubSeq(q.messages, 1, Len(q.messages) - 1)
             last == q.messages[Len(q.messages)]
  <2>1. Len(q.messages) \in Nat /\ Len(q.messages) > 0 /\ last \in Message
    BY <1>2 DEF MessageQueueOK
  <2>2. last.size \in Nat \ {0}
    BY <2>1 DEF Message
  <2>3. \A i \in 1 .. Len(q.messages) - 1 : q.messages[i] \in Message
    BY DEF MessageQueueOK
  <2>4. short \in Seq(Message) /\ Len(short) = Len(q.messages) - 1
    BY <2>1, <2>3, SubSeqProperties
  <2>5. r = [q EXCEPT !.messages = short, !.usedSize = @ - last.size,
                      !.numberOfMessages = @ - 1]
    BY <1>2 DEF removeLastMessage
  <2> HIDE DEF r, short, last
  <2>6. /\ r.messages = short
        /\ r.usedSize = q.usedSize - last.size
        /\ r.numberOfMessages = q.numberOfMessages - 1
        /\ r.overdrawn = q.overdrawn
    BY <2>5 DEF MessageQueueOK
  <2>7. q.usedSize - last.size \in Int /\ q.usedSize - last.size <= maximumSize
    BY <2>2, FrameQueueAssumption DEF MessageQueueOK
  <2>8. q.numberOfMessages - 1 \in Nat /\ q.numberOfMessages - 1 = Len(short)
    BY <1>2, <2>4 DEF MessageQueueOK
  <2>9. r \in [messages : Seq(Message), usedSize : Int, numberOfMessages : Nat,
               overdrawn : BOOLEAN]
    BY <2>4, <2>5, <2>7, <2>8 DEF MessageQueueOK
  <2>10. r.usedSize = Bytes(r.messages)
    BY <2>1, <2>6, BytesShorter DEF MessageQueueOK, short, last
  <2> QED
    BY <2>1, <2>6, <2>7, <2>8, <2>9, <2>10 DEF MessageQueueOK, r, short, last
<1> QED
  BY <1>1, <1>2

-----------------------------------------------------------------------------
\* Further messages behind an open bracket, if the reserve remains.
LEMMA ExtendLemma ==
  ASSUME NEW q, MessageQueueOK(q), NEW k \in Nat, NEW t \in Thread, BracketOpen(q, k, t),
         NEW r, MessageQueueOK(r), Len(r.messages) > Len(q.messages),
         \A i \in 1 .. Len(q.messages) : r.messages[i] = q.messages[i],
         \A i \in Len(q.messages) + 1 .. Len(r.messages) : r.messages[i].id \notin Brackets,
         r.usedSize + reserveForInfrastructure <= maximumSize
  PROVE  BracketOpen(r, k, t)
<1> DEFINE n == Len(q.messages)
<1>1. n \in Nat /\ k < n /\ Len(r.messages) \in Nat /\ Len(r.messages) > n
  BY DEF MessageQueueOK, BracketOpen
<1>2. q.messages[n].id /= "idFrameFinished"
  BY <1>1 DEF BracketOpen, Brackets
<1>3. /\ r.messages[1].id = "idFrameBegin"
      /\ r.messages[k + 1].id = "idFrameBegin" /\ r.messages[k + 1].size = bracketSize[t]
  <2>1. q.messages /= <<>>
    BY <1>1
  <2>2. 1 \in 1 .. n /\ k + 1 \in 1 .. n
    BY <1>1
  <2> QED
    BY <2>1, <2>2 DEF BracketOpen, Alternating
<1>4. ASSUME NEW i \in k + 2 .. Len(r.messages) PROVE r.messages[i].id \notin Brackets
  <2>1. CASE i > n
    BY <1>1, <2>1
  <2>2. CASE i <= n
    <3>1. i \in k + 2 .. n /\ i \in 1 .. n
      BY <1>1, <2>2
    <3> QED
      BY <3>1 DEF BracketOpen
  <2> QED
    BY <1>1, <2>1, <2>2
<1>5. ASSUME NEW i \in 1 .. Len(r.messages) - 1
      PROVE  /\ r.messages[i].id = "idFrameBegin" => r.messages[i + 1].id \notin Brackets
             /\ r.messages[i].id = "idFrameFinished" <=> r.messages[i + 1].id = "idFrameBegin"
  <2>1. CASE i < n
    <3>1. i \in 1 .. n - 1 /\ i \in 1 .. n /\ i + 1 \in 1 .. n
      BY <1>1, <2>1
    <3> QED
      BY <3>1 DEF BracketOpen, Alternating
  <2>2. CASE i >= n
    <3>1. i + 1 \in n + 1 .. Len(r.messages) /\ i + 1 \in k + 2 .. Len(r.messages)
      BY <1>1, <2>2
    <3>2. r.messages[i + 1].id \notin Brackets
      BY <3>1
    <3>3. r.messages[i].id /= "idFrameFinished"
      <4>1. CASE i = n
        BY <4>1, <1>1, <1>2
      <4>2. CASE i > n
        BY <4>2, <1>1 DEF Brackets
      <4> QED
        BY <4>1, <4>2, <2>2, <1>1
    <3> QED
      BY <3>2, <3>3 DEF Brackets
  <2> QED
    BY <1>1, <2>1, <2>2
<1>6. Alternating(r.messages)
  BY <1>3, <1>5 DEF Alternating
<1>7. Len(r.messages) /= k + 1 /\ k < Len(r.messages)
  BY <1>1
<1> QED
  BY <1>3, <1>4, <1>6, <1>7, FrameQueueAssumption DEF BracketOpen, MessageQueueOK

\* A message of the current frame keeps its bracket open.
LEMMA WriteLemma ==
  ASSUME NEW q, MessageQueueOK(q), NEW k \in Nat, NEW t \in Thread,
         NEW m \in Message, m.id \notin Brackets,
         ~q.overdrawn => BracketOpen(q, k, t)
  PROVE  ~Finish(q, m).overdrawn => BracketOpen(Finish(q, m), k, t)
<1> DEFINE r == Finish(q, m)
<1> SUFFICES ASSUME ~r.overdrawn PROVE BracketOpen(r, k, t)
  OBVIOUS
<1>1. CASE ~Accepts(q, m, maximumSize, reserveForInfrastructure)
  BY <1>1, FinishLemma
<1>2. CASE Accepts(q, m, maximumSize, reserveForInfrastructure)
  <2>1. /\ MessageQueueOK(r)
        /\ r.messages = Append(q.messages, m)
        /\ r.usedSize = q.usedSize + m.size
        /\ ~q.overdrawn
        /\ ~(/\ m.id \in Infrastructure \ Brackets
             /\ maximumSize - q.usedSize - m.size < reserveForInfrastructure)
    BY <1>2, FinishLemma
  <2>2. q.messages \in Seq(Message) /\ q.usedSize \in Int /\ m.size \in Nat
    BY DEF MessageQueueOK, Message
  <2>3. r.usedSize + reserveForInfrastructure <= maximumSize
    <3>1. m.id \in Infrastructure \/ reserveForInfrastructure <= maximumSize - q.usedSize - m.size
      BY <1>2 DEF Accepts
    <3>2. ~(maximumSize - q.usedSize - m.size < reserveForInfrastructure)
      <4>1. CASE m.id \in Infrastructure
        <5>1. m.id \in Infrastructure \ Brackets
          BY <4>1
        <5> QED
          BY <2>1, <5>1, Zenon
      <4>2. CASE reserveForInfrastructure <= maximumSize - q.usedSize - m.size
        BY <2>2, <4>2, FrameQueueAssumption
      <4> QED
        BY <3>1, <4>1, <4>2
    <3> QED
      BY <2>1, <2>2, <3>2, FrameQueueAssumption
  <2> HIDE DEF r
  <2>4. /\ Len(r.messages) = Len(q.messages) + 1
        /\ \A i \in 1 .. Len(q.messages) : r.messages[i] = q.messages[i]
        /\ r.messages[Len(q.messages) + 1] = m
    BY <2>1, <2>2
  <2>5. /\ Len(r.messages) > Len(q.messages)
        /\ \A i \in Len(q.messages) + 1 .. Len(r.messages) : r.messages[i].id \notin Brackets
    BY <2>2, <2>4
  <2> QED
    BY <2>1, <2>3, <2>4, <2>5, ExtendLemma
<1> QED
  BY <1>1, <1>2

\* The messages of two queues.
LEMMA JoinLemma ==
  ASSUME NEW s \in Seq(Message), NEW o \in Seq(Message), o /= <<>>,
         \A i \in 1 .. Len(o) : o[i].id \notin Brackets
  PROVE  LET j == s \o o
         IN  /\ j \in Seq(Message)
             /\ Len(j) = Len(s) + Len(o) /\ Len(j) > Len(s)
             /\ \A i \in 1 .. Len(s) : j[i] = s[i]
             /\ \A i \in Len(s) + 1 .. Len(j) : j[i].id \notin Brackets
<1> DEFINE j == s \o o
<1>1. Len(s) \in Nat /\ Len(o) \in Nat /\ Len(o) > 0
  OBVIOUS
<1>2. /\ j \in Seq(Message)
      /\ Len(j) = Len(s) + Len(o)
      /\ \A i \in 1 .. Len(s) + Len(o) : j[i] = IF i <= Len(s) THEN s[i] ELSE o[i - Len(s)]
  BY ConcatProperties
<1> HIDE DEF j
<1>3. \A i \in 1 .. Len(s) : j[i] = s[i]
  BY <1>1, <1>2
<1>4. ASSUME NEW i \in Len(s) + 1 .. Len(j) PROVE j[i].id \notin Brackets
  <2>1. i - Len(s) \in 1 .. Len(o) /\ j[i] = o[i - Len(s)]
    BY <1>1, <1>2
  <2> QED
    BY <2>1
<1>5. Len(j) > Len(s)
  BY <1>1, <1>2
<1> QED
  BY <1>2, <1>3, <1>4, <1>5 DEF j

\* So does a direct copy.
LEMMA CopyLemma ==
  ASSUME NEW q, MessageQueueOK(q), NEW k \in Nat, NEW t \in Thread,
         NEW other, other.messages \in Seq(Message), other.messages /= <<>>,
         other.usedSize \in Int, other.usedSize = Bytes(other.messages),
         other.numberOfMessages = Len(other.messages),
         \A i \in 1 .. Len(other.messages) : other.messages[i].id \notin Brackets,
         reserve(q, other.usedSize, maximumSize),
         ~q.overdrawn => BracketOpen(q, k, t)
  PROVE  LET r == copyAtOnce(other, q, maximumSize, reserveForInfrastructure)
         IN  /\ MessageQueueOK(r)
             /\ ~r.overdrawn => BracketOpen(r, k, t)
<1> DEFINE r == copyAtOnce(other, q, maximumSize, reserveForInfrastructure)
<1> DEFINE tight == maximumSize - q.usedSize - other.usedSize < reserveForInfrastructure
<1>2. /\ q.messages \in Seq(Message) /\ other.messages \in Seq(Message)
      /\ q.messages \o other.messages \in Seq(Message)
      /\ q.usedSize \in Int /\ other.usedSize \in Int
      /\ q.numberOfMessages \in Nat /\ other.numberOfMessages \in Nat
  BY DEF MessageQueueOK
<1>7. (q.overdrawn \/ tight) \in BOOLEAN
  OBVIOUS
<1>0. r = [messages |-> q.messages \o other.messages,
           usedSize |-> q.usedSize + other.usedSize,
           numberOfMessages |-> q.numberOfMessages + other.numberOfMessages,
           overdrawn |-> q.overdrawn \/ tight]
  BY DEF copyAtOnce
<1> HIDE DEF r, tight
<1>1. /\ r.messages = q.messages \o other.messages
      /\ r.usedSize = q.usedSize + other.usedSize
      /\ r.numberOfMessages = q.numberOfMessages + other.numberOfMessages
  BY <1>0
<1>8. r.overdrawn = (q.overdrawn \/ tight)
  BY <1>0
<1>6. r \in [messages : Seq(Message), usedSize : Int, numberOfMessages : Nat,
            overdrawn : BOOLEAN]
  BY <1>0, <1>2, <1>7
<1>3. /\ Len(r.messages) = Len(q.messages) + Len(other.messages)
      /\ Len(r.messages) > Len(q.messages)
      /\ \A i \in 1 .. Len(q.messages) : r.messages[i] = q.messages[i]
      /\ \A i \in Len(q.messages) + 1 .. Len(r.messages) : r.messages[i].id \notin Brackets
  <2> DEFINE s == q.messages
             o == other.messages
  <2>1. /\ s \in Seq(Message) /\ o \in Seq(Message) /\ o /= <<>>
        /\ \A i \in 1 .. Len(o) : o[i].id \notin Brackets
    BY <1>2
  <2> HIDE DEF s, o
  <2>2. LET j == s \o o
        IN  /\ Len(j) = Len(s) + Len(o) /\ Len(j) > Len(s)
            /\ \A i \in 1 .. Len(s) : j[i] = s[i]
            /\ \A i \in Len(s) + 1 .. Len(j) : j[i].id \notin Brackets
    BY <2>1, JoinLemma
  <2>3. r.messages = s \o o
    BY <1>1 DEF s, o
  <2> QED
    BY <2>2, <2>3 DEF s, o
<1>4. MessageQueueOK(r)
  <2>1. r.usedSize <= maximumSize
    BY <1>1 DEF reserve
  <2>2. r.numberOfMessages = Len(r.messages)
    BY <1>1, <1>3 DEF MessageQueueOK
  <2>3. r.usedSize = Bytes(r.messages)
    BY <1>1, <1>2, MessagesSized, BytesJoin DEF MessageQueueOK
  <2> QED
    BY <1>6, <2>1, <2>2, <2>3 DEF MessageQueueOK
<1>5. ASSUME ~r.overdrawn PROVE BracketOpen(r, k, t)
  <2>0. ~tight /\ ~q.overdrawn
    BY <1>8, <1>5
  <2>1. BracketOpen(q, k, t)
    BY <2>0
  <2>2. r.usedSize + reserveForInfrastructure <= maximumSize
    BY <1>1, <1>2, <2>0, FrameQueueAssumption DEF tight
  <2> QED
    BY <1>3, <1>4, <2>1, <2>2, ExtendLemma
<1> QED
  BY <1>4, <1>5 DEF r

-----------------------------------------------------------------------------
\* Nothing but complete frames, and room for the next bracket.
Closed(q, t) ==
  /\ Complete(q.messages)
  /\ q.usedSize + reserveForInfrastructure <= maximumSize + bracketSize[t]

\* What brackets are.
LEMMA BracketLemma ==
  ASSUME NEW t \in Thread, NEW n \in Nat, NEW id \in Brackets
  PROVE  /\ Bracket(id, t, n) \in Message
         /\ Bracket(id, t, n).id = id
         /\ Bracket(id, t, n).size = bracketSize[t]
         /\ id \in Infrastructure
         /\ bracketSize[t] \in Nat \ {0}
         /\ 2 * bracketSize[t] <= reserveForInfrastructure
BY FrameQueueAssumption, ReserveAssumption
   DEF Bracket, Message, Brackets, Infrastructure

\* A bracket that fits in is accepted and does not overdraw the queue.
LEMMA BracketAccepted ==
  ASSUME NEW q, MessageQueueOK(q), NEW t \in Thread, NEW n \in Nat, NEW id \in Brackets
  PROVE  LET m == Bracket(id, t, n)
             r == Finish(q, m)
         IN  /\ MessageQueueOK(r)
             /\ ~r.overdrawn => ~q.overdrawn
             /\ q.usedSize + bracketSize[t] <= maximumSize =>
                  /\ r.messages = Append(q.messages, m)
                  /\ r.usedSize = q.usedSize + bracketSize[t]
<1> DEFINE m == Bracket(id, t, n)
           r == Finish(q, m)
<1>1. m \in Message /\ m.id = id /\ m.size = bracketSize[t] /\ id \in Infrastructure
  BY BracketLemma
<1> HIDE DEF m
<1>2. MessageQueueOK(r)
  BY <1>1, FinishLemma
<1>3. ~r.overdrawn => ~q.overdrawn
  <2>1. CASE Accepts(q, m, maximumSize, reserveForInfrastructure)
    BY <1>1, <2>1, FinishLemma
  <2>2. CASE ~Accepts(q, m, maximumSize, reserveForInfrastructure)
    BY <1>1, <2>2, FinishLemma
  <2> QED
    BY <2>1, <2>2
<1>4. q.usedSize + bracketSize[t] <= maximumSize =>
        Accepts(q, m, maximumSize, reserveForInfrastructure)
  BY <1>1 DEF Accepts, reserve
<1>5. q.usedSize + bracketSize[t] <= maximumSize =>
        r.messages = Append(q.messages, m) /\ r.usedSize = q.usedSize + bracketSize[t]
  BY <1>1, <1>4, FinishLemma
<1> QED
  BY <1>2, <1>3, <1>5 DEF m

\* An idFrameBegin behind complete frames opens the next bracket.
LEMMA BeginLemma ==
  ASSUME NEW q, MessageQueueOK(q), NEW t \in Thread, NEW n \in Nat,
         ~q.overdrawn => Closed(q, t)
  PROVE  LET r == Finish(q, Bracket("idFrameBegin", t, n))
         IN  /\ MessageQueueOK(r)
             /\ ~r.overdrawn => BracketOpen(r, q.numberOfMessages, t)
<1> DEFINE m == Bracket("idFrameBegin", t, n)
           r == Finish(q, m)
           k == Len(q.messages)
<1>1. /\ m \in Message /\ m.id = "idFrameBegin" /\ m.size = bracketSize[t]
      /\ bracketSize[t] \in Nat /\ 2 * bracketSize[t] <= reserveForInfrastructure
  BY BracketLemma DEF Brackets
<1>2. MessageQueueOK(r)
  BY BracketAccepted DEF Brackets
<1>3. ASSUME ~r.overdrawn PROVE BracketOpen(r, k, t)
  <2>1. ~q.overdrawn /\ Closed(q, t)
    BY <1>3, BracketAccepted DEF Brackets
  <2>2. q.messages \in Seq(Message) /\ q.usedSize \in Int /\ k \in Nat
    BY DEF MessageQueueOK
  <2>3. /\ q.usedSize + bracketSize[t] <= maximumSize
        /\ q.usedSize + bracketSize[t] + reserveForInfrastructure
             <= maximumSize + 2 * bracketSize[t]
    BY <1>1, <2>1, <2>2, FrameQueueAssumption DEF Closed
  <2>4. r.messages = Append(q.messages, m) /\ r.usedSize = q.usedSize + bracketSize[t]
    BY <2>3, BracketAccepted DEF Brackets
  <2> HIDE DEF r, m
  <2>5. /\ Len(r.messages) = k + 1 /\ r.messages[k + 1] = m
        /\ \A i \in 1 .. k : r.messages[i] = q.messages[i]
    BY <2>2, <2>4
  <2>6. r.messages[1].id = "idFrameBegin"
    <3>1. CASE k = 0
      BY <3>1, <1>1, <2>5
    <3>2. CASE k > 0
      BY <3>2, <2>1, <2>2, <2>5 DEF Closed, Complete, Alternating
    <3> QED
      BY <3>1, <3>2, <2>2
  <2>7. ASSUME NEW i \in 1 .. k
        PROVE  /\ r.messages[i].id = "idFrameBegin" => r.messages[i + 1].id \notin Brackets
               /\ r.messages[i].id = "idFrameFinished"
                    <=> r.messages[i + 1].id = "idFrameBegin"
    <3>1. CASE i = k
      <4>1. q.messages[k].id = "idFrameFinished"
        BY <3>1, <2>1, <2>2 DEF Closed, Complete
      <4> QED
        BY <3>1, <4>1, <1>1, <2>5
    <3>2. CASE i < k
      <4>1. i \in 1 .. k - 1 /\ i + 1 \in 1 .. k
        BY <3>2, <2>2
      <4> QED
        BY <4>1, <2>1, <2>5 DEF Closed, Complete, Alternating
    <3> QED
      BY <3>1, <3>2, <2>2
  <2>8. Alternating(r.messages)
    <3>1. Len(r.messages) - 1 = k
      BY <2>2, <2>5
    <3> QED
      BY <3>1, <2>6, <2>7 DEF Alternating
  <2>9. k < Len(r.messages) /\ k + 2 .. Len(r.messages) = {}
    BY <2>2, <2>5
  <2>10. r.usedSize + reserveForInfrastructure <= maximumSize + 2 * bracketSize[t]
    BY <2>3, <2>4
  <2> QED
    BY <1>1, <2>5, <2>8, <2>9, <2>10 DEF BracketOpen
<1>4. q.numberOfMessages = k
  BY DEF MessageQueueOK
<1> QED
  BY <1>2, <1>3, <1>4

\* The end of a frame leaves complete frames.
LEMMA CloseLemma ==
  ASSUME TypeOK, NEW t \in Thread,
         ~queue[t].overdrawn => BracketOpen(queue[t], numberOfMessages[t], t)
  PROVE  /\ MessageQueueOK(Close(t))
         /\ ~Close(t).overdrawn => Closed(Close(t), t)
<1> DEFINE q == queue[t]
           ms == q.messages
           k == numberOfMessages[t]
           n == Len(ms)
           b == bracketSize[t]
<1>1. /\ MessageQueueOK(q) /\ ms \in Seq(Message) /\ q.usedSize \in Int
      /\ q.numberOfMessages = n /\ n \in Nat /\ k \in Nat /\ frames[t] \in Nat
      /\ b \in Nat \ {0} /\ 2 * b <= reserveForInfrastructure
  BY FrameQueueAssumption, ReserveAssumption DEF TypeOK, MessageQueueOK
<1>2. CASE n > k + 1
  <2> DEFINE m == Bracket("idFrameFinished", t, frames[t])
             r == Finish(q, m)
  <2>1. Close(t) = r
    BY <1>1, <1>2 DEF Close
  <2>2. m.id = "idFrameFinished"
    BY <1>1, BracketLemma DEF Brackets
  <2>3. MessageQueueOK(r)
    BY <1>1, BracketAccepted DEF Brackets
  <2>4. ASSUME ~r.overdrawn PROVE Closed(r, t)
    <3>1. BracketOpen(q, k, t)
      <4>1. "idFrameFinished" \in Brackets
        BY DEF Brackets
      <4>2. ~q.overdrawn
        BY <1>1, <2>4, <4>1, BracketAccepted
      <4> QED
        BY <4>2
    <3>2. q.usedSize + reserveForInfrastructure <= maximumSize
      BY <1>1, <1>2, <3>1, FrameQueueAssumption DEF BracketOpen
    <3>3. q.usedSize + b <= maximumSize
      BY <1>1, <3>2, FrameQueueAssumption
    <3>4. r.messages = Append(ms, m) /\ r.usedSize = q.usedSize + b
      BY <1>1, <3>3, BracketAccepted DEF Brackets
    <3>5. Alternating(ms) /\ ms[n].id \notin Brackets
      <4>1. n \in k + 2 .. n
        BY <1>1, <1>2
      <4> QED
        BY <4>1, <3>1 DEF BracketOpen
    <3> HIDE DEF r, m
    <3>6. /\ Len(r.messages) = n + 1 /\ r.messages[n + 1] = m
          /\ \A i \in 1 .. n : r.messages[i] = ms[i]
      BY <1>1, <3>4
    <3>7. ASSUME NEW i \in 1 .. n
          PROVE  /\ r.messages[i].id = "idFrameBegin" => r.messages[i + 1].id \notin Brackets
                 /\ r.messages[i].id = "idFrameFinished"
                      <=> r.messages[i + 1].id = "idFrameBegin"
      <4>1. CASE i = n
        BY <4>1, <2>2, <3>5, <3>6 DEF Brackets
      <4>2. CASE i < n
        <5>1. i \in 1 .. n - 1 /\ i + 1 \in 1 .. n
          BY <4>2, <1>1
        <5> QED
          BY <5>1, <3>5, <3>6 DEF Alternating
      <4> QED
        BY <4>1, <4>2, <1>1
    <3>8. r.messages[1].id = "idFrameBegin"
      <4>1. ms /= <<>> /\ 1 \in 1 .. n
        BY <1>1, <1>2
      <4> QED
        BY <4>1, <3>5, <3>6 DEF Alternating
    <3>9. Complete(r.messages)
      <4>1. Len(r.messages) - 1 = n
        BY <1>1, <3>6
      <4>2. Alternating(r.messages)
        BY <4>1, <3>7, <3>8 DEF Alternating
      <4>3. r.messages[Len(r.messages)].id = "idFrameFinished"
        BY <2>2, <3>6
      <4> QED
        BY <4>2, <4>3 DEF Complete
    <3>10. r.usedSize + reserveForInfrastructure <= maximumSize + b
      BY <1>1, <3>2, <3>4, FrameQueueAssumption
    <3> QED
      BY <3>9, <3>10 DEF Closed
  <2> QED
    BY <2>1, <2>3, <2>4
<1>3. CASE ~(n > k + 1)
  <2> DEFINE r == removeLastMessage(q)
  <2>1. Close(t) = r
    BY <1>1, <1>3 DEF Close
  <2>2. MessageQueueOK(r) /\ r.overdrawn = q.overdrawn
    BY <1>1, RemoveLemma
  <2>3. ASSUME ~r.overdrawn PROVE Closed(r, t)
    <3>1. BracketOpen(q, k, t)
      BY <2>2, <2>3
    <3>2. n = k + 1 /\ ms[n].size = b /\ ms[n].id = "idFrameBegin" /\ Alternating(ms)
      BY <1>1, <1>3, <3>1 DEF BracketOpen
    <3>3. r.messages = SubSeq(ms, 1, k) /\ r.usedSize = q.usedSize - b
      <4>1. Len(q.messages) > 0 /\ Len(q.messages) - 1 = k
        BY <1>1, <3>2
      <4>2. /\ r.messages = SubSeq(q.messages, 1, Len(q.messages) - 1)
            /\ r.usedSize = q.usedSize - q.messages[Len(q.messages)].size
        BY <1>1, <4>1, RemoveLemma
      <4> QED
        BY <3>2, <4>1, <4>2
    <3>4. \A i \in 1 .. k : ms[i] \in Message
      BY <1>1, <3>2
    <3>5. /\ Len(SubSeq(ms, 1, k)) = k
          /\ \A i \in 1 .. k : SubSeq(ms, 1, k)[i] = ms[i]
      BY <1>1, <3>4, SubSeqProperties
    <3> HIDE DEF r
    <3>6. Len(r.messages) = k /\ \A i \in 1 .. k : r.messages[i] = ms[i]
      BY <3>3, <3>5
    <3>7. r.messages /= <<>> => k > 0
      BY <1>1, <2>2, <3>6 DEF MessageQueueOK
    <3>8. k > 0 => r.messages[1].id = "idFrameBegin" /\ r.messages[k].id = "idFrameFinished"
      <4> SUFFICES ASSUME k > 0
                   PROVE  /\ r.messages[1].id = "idFrameBegin"
                          /\ r.messages[k].id = "idFrameFinished"
        OBVIOUS
      <4>1. ms /= <<>> /\ 1 \in 1 .. k /\ k \in 1 .. k /\ k \in 1 .. n - 1 /\ n = k + 1
        BY <1>1, <3>2
      <4>2. ms[1].id = "idFrameBegin" /\ ms[k].id = "idFrameFinished"
        BY <4>1, <3>2 DEF Alternating
      <4> QED
        BY <4>1, <4>2, <3>6
    <3>9. ASSUME NEW i \in 1 .. k - 1
          PROVE  /\ r.messages[i].id = "idFrameBegin" => r.messages[i + 1].id \notin Brackets
                 /\ r.messages[i].id = "idFrameFinished"
                      <=> r.messages[i + 1].id = "idFrameBegin"
      <4>1. i \in 1 .. k /\ i + 1 \in 1 .. k /\ i \in 1 .. n - 1
        BY <1>1, <3>2
      <4> QED
        BY <4>1, <3>2, <3>6 DEF Alternating
    <3>10. Complete(r.messages)
      BY <3>6, <3>7, <3>8, <3>9 DEF Complete, Alternating
    <3>11. q.usedSize + reserveForInfrastructure <= maximumSize + 2 * b
      BY <1>1, <3>1, <3>2 DEF BracketOpen
    <3>12. r.usedSize + reserveForInfrastructure <= maximumSize + b
      BY <1>1, <3>3, <3>11, FrameQueueAssumption
    <3> QED
      BY <3>10, <3>12 DEF Closed
  <2> QED
    BY <2>1, <2>2, <2>3
<1> QED
  BY <1>1, <1>2, <1>3

-----------------------------------------------------------------------------
\* A step of thread t: what has to hold for its queue and packet afterwards.
ThreadOK(q, k, p, t) ==
  /\ MessageQueueOK(q) /\ MessageQueueOK(p) /\ k \in Nat
  /\ ~q.overdrawn => BracketOpen(q, k, t)
  /\ ~p.overdrawn => Complete(p.messages)

\* The invariant, thread by thread.
LEMMA FramesByThread ==
  FramesInOrder <=> /\ queue = [t \in Thread |-> queue[t]] /\ packet = [t \in Thread |-> packet[t]]
           /\ numberOfMessages \in [Thread -> Nat]
           /\ copying \in [Thread -> Seq(Content)]
           /\ frames \in [Thread -> Nat]
           /\ \A t \in Thread : ThreadOK(queue[t], numberOfMessages[t], packet[t], t)
BY DEF FramesInOrder, TypeOK, ThreadOK

\* An empty packet.
LEMMA EmptyPacket == MessageQueueOK(Empty) /\ Complete(Empty.messages)
<1>1. Empty.messages = <<>>
  BY DEF Empty
<1> QED
  BY <1>1, EmptyLemma DEF Complete, Alternating

\* An empty queue has room for the next bracket.
LEMMA EmptyClosed == ASSUME NEW t \in Thread PROVE Closed(Empty, t)
<1>1. Empty.usedSize = 0
  BY DEF Empty
<1>2. bracketSize[t] \in Nat
  BY FrameQueueAssumption
<1> QED
  BY <1>1, <1>2, EmptyPacket, FrameQueueAssumption, ReserveAssumption DEF Closed

\* The first frame is prepared.
LEMMA InitLemma == Init => FramesInOrder
<1> SUFFICES ASSUME Init PROVE FramesInOrder
  OBVIOUS
<1>1. ASSUME NEW t \in Thread
      PROVE  ThreadOK(queue[t], numberOfMessages[t], packet[t], t)
  <2>1. /\ queue[t] = Finish(Empty, Bracket("idFrameBegin", t, 1))
        /\ numberOfMessages[t] = 0 /\ packet[t] = Empty /\ Empty.numberOfMessages = 0
    BY DEF Init, Empty
  <2> QED
    BY <2>1, EmptyPacket, EmptyClosed, BeginLemma DEF ThreadOK
<1>2. /\ queue = [t \in Thread |-> queue[t]] /\ packet = [t \in Thread |-> packet[t]]
      /\ numberOfMessages \in [Thread -> Nat]
      /\ copying \in [Thread -> Seq(Content)]
      /\ frames \in [Thread -> Nat]
  BY DEF Init
<1> QED
  BY <1>1, <1>2, FramesByThread

\* A step that changes only the queue of thread t.
LEMMA QueueStep ==
  ASSUME FramesInOrder, NEW t \in Thread, NEW q,
         queue' = [queue EXCEPT ![t] = q], ThreadOK(q, numberOfMessages[t], packet[t], t),
         copying' \in [Thread -> Seq(Content)],
         UNCHANGED <<numberOfMessages, packet, frames>>
  PROVE  FramesInOrder'
<1>1. /\ queue' = [v \in Thread |-> queue'[v]] /\ packet' = [v \in Thread |-> packet'[v]]
      /\ numberOfMessages' \in [Thread -> Nat]
      /\ frames' \in [Thread -> Nat]
  BY FramesByThread
<1>2. ASSUME NEW u \in Thread
      PROVE  ThreadOK(queue'[u], numberOfMessages'[u], packet'[u], u)
  <2>1. queue'[u] = IF u = t THEN q ELSE queue[u]
    BY DEF FramesInOrder, TypeOK
  <2> QED
    BY <2>1, FramesByThread
<1> QED
  BY <1>1, <1>2 DEF FramesInOrder, TypeOK, ThreadOK

\* Each step of a thread preserves the invariant: a message is written;
LEMMA WriteStep ==
  ASSUME FramesInOrder, NEW t \in Thread, NEW id \in outputs[t], Write(t, id) PROVE FramesInOrder'
<1> DEFINE q == Finish(queue[t], Output(id, t))
<1>1. /\ ThreadOK(queue[t], numberOfMessages[t], packet[t], t)
      /\ frames[t] \in Nat /\ copying \in [Thread -> Seq(Content)]
  BY FramesByThread
<1>2. id \in Ordinary /\ Output(id, t) \in Message /\ Output(id, t).id \notin Brackets
  BY <1>1, MessageLemma, FrameQueueAssumption DEF Output
<1>3. ThreadOK(q, numberOfMessages[t], packet[t], t)
  BY <1>1, <1>2, FinishLemma, WriteLemma DEF ThreadOK
<1>4. queue' = [queue EXCEPT ![t] = q]
  BY DEF Write
<1> QED
  BY <1>1, <1>3, <1>4, QueueStep DEF Write

\* (what is collected contains no brackets)
LEMMA CollectedLemma ==
  ASSUME FramesInOrder, NEW t \in Thread, NEW ids \in Collections(t)
  PROVE  LET other == Collected(t, ids)
         IN  /\ other.messages \in Seq(Message) /\ other.messages /= <<>>
             /\ other.usedSize \in Int /\ other.usedSize = Bytes(other.messages)
             /\ other.numberOfMessages = Len(other.messages)
             /\ \A i \in 1 .. Len(other.messages) : other.messages[i].id \notin Brackets
<1> DEFINE other == Collected(t, ids)
<1>1. /\ Len(ids) \in {1, 2} /\ DOMAIN ids = 1 .. Len(ids)
      /\ \A i \in 1 .. Len(ids) : ids[i] \in {"idStopwatch", "idAnnotation"}
  BY DEF Collections
<1>2. \A i \in 1 .. Len(ids) : ids[i] \in Ordinary
  BY <1>1, FrameQueueAssumption
<1>3. \A i \in 1 .. Len(ids) :
        Output(ids[i], t) \in Message /\ Output(ids[i], t).id \notin Brackets
  <2>1. frames[t] \in Nat
    BY FramesByThread
  <2> QED
    BY <1>2, <2>1, MessageLemma, FrameQueueAssumption DEF Output
<1>4. /\ other.messages = [i \in 1 .. Len(ids) |-> Output(ids[i], t)]
      /\ other.usedSize = Len(ids) * size[ids[1]]
      /\ other.numberOfMessages = Len(ids)
  BY <1>1 DEF Collected
<1>5. other.messages \in Seq(Message) /\ Len(other.messages) = Len(ids)
  BY <1>1, <1>3, <1>4
<1>6. other.usedSize \in Int
  <2>1. size[ids[1]] \in Int
    BY <1>1, <1>2, FrameQueueAssumption
  <2> QED
    BY <1>1, <1>4, <2>1
<1>9. other.usedSize = Bytes(other.messages)
  <2> DEFINE ms == other.messages
             s == size[ids[1]]
  <2>1. s \in Nat /\ \A i \in 1 .. Len(ids) : ids[i] = ids[1] /\ ms[i].size = s
    <3>1. \A i \in 1 .. Len(ids) : ids[i] = ids[1]
      BY DEF Collections
    <3>3. s \in Nat
      BY <1>1, <1>2, FrameQueueAssumption
    <3>2. \A i \in 1 .. Len(ids) : ms[i].size = size[ids[i]]
      BY <1>4 DEF Output
    <3> QED
      BY <3>1, <3>2, <3>3
  <2>2. Len(ms) = Len(ids) /\ Len(ms) \in Nat
    BY <1>1, <1>5
  <2> HIDE DEF ms, s, other
  <2>3. BytesTo(ms)[0] = 0 /\ BytesTo(ms)[1] = s
    <3>1. 1 \in 1 .. Len(ms) /\ 1 - 1 = 0
      BY <1>1, <2>2
    <3> QED
      BY <1>1, <2>1, <2>2, <3>1, BytesRecursion
  <2>4. Len(ids) = 2 => BytesTo(ms)[2] = 2 * s
    <3> SUFFICES ASSUME Len(ids) = 2 PROVE BytesTo(ms)[2] = 2 * s
      OBVIOUS
    <3>1. 2 \in 1 .. Len(ms) /\ 2 - 1 = 1
      BY <2>2
    <3>2. BytesTo(ms)[2] = BytesTo(ms)[1] + ms[2].size
      BY <2>2, <3>1, BytesRecursion
    <3> QED
      BY <2>1, <2>2, <2>3, <3>1, <3>2
  <2>5. Bytes(ms) = Len(ids) * s
    BY <1>1, <2>1, <2>2, <2>3, <2>4 DEF Bytes
  <2> QED
    BY <1>4, <2>5 DEF ms, s
<1> HIDE DEF other
<1>7. \A i \in 1 .. Len(other.messages) : other.messages[i].id \notin Brackets
  BY <1>3, <1>4, <1>5
<1>8. other.messages /= <<>>
  BY <1>1, <1>5
<1> QED
  BY <1>4, <1>5, <1>6, <1>7, <1>8, <1>9 DEF other

\* messages are copied all at once;
LEMMA CopyAtOnceStep ==
  ASSUME FramesInOrder, NEW t \in Thread, NEW ids \in Collections(t), CopyAtOnce(t, ids)
  PROVE  FramesInOrder'
<1> DEFINE other == Collected(t, ids)
           q == copyAtOnce(other, queue[t], maximumSize, reserveForInfrastructure)
<1>1. /\ ThreadOK(queue[t], numberOfMessages[t], packet[t], t)
      /\ copying \in [Thread -> Seq(Content)]
  BY FramesByThread
<1>2. reserve(queue[t], other.usedSize, maximumSize)
  BY DEF CopyAtOnce
<1>3. queue' = [queue EXCEPT ![t] = q]
  BY DEF CopyAtOnce
<1>4. UNCHANGED <<numberOfMessages, copying, packet, frames>>
  BY DEF CopyAtOnce
<1>5. /\ other.messages \in Seq(Message) /\ other.messages /= <<>>
      /\ other.usedSize \in Int /\ other.usedSize = Bytes(other.messages)
      /\ other.numberOfMessages = Len(other.messages)
      /\ \A i \in 1 .. Len(other.messages) : other.messages[i].id \notin Brackets
  BY CollectedLemma
<1> HIDE DEF other
<1>6. ThreadOK(q, numberOfMessages[t], packet[t], t)
  BY <1>1, <1>2, <1>5, CopyLemma DEF ThreadOK
<1> HIDE DEF q
<1> QED
  BY <1>1, <1>3, <1>4, <1>6, QueueStep

\* messages are going to be copied one by one;
LEMMA CopyStepByStepStep ==
  ASSUME FramesInOrder, NEW t \in Thread, NEW ids \in Collections(t), CopyStepByStep(t, ids)
  PROVE  FramesInOrder'
<1>1. copying' = [copying EXCEPT ![t] = Collected(t, ids).messages]
  BY DEF CopyStepByStep
<1>2. Collected(t, ids).messages \in Seq(Content)
  <2> DEFINE ms == Collected(t, ids).messages
  <2>1. ms \in Seq(Message) /\ \A i \in 1 .. Len(ms) : ms[i].id \notin Brackets
    BY CollectedLemma
  <2> HIDE DEF ms
  <2>2. ms \in Seq(Content)
    BY <2>1 DEF Content
  <2> QED
    BY <2>2 DEF ms
<1>3. copying' \in [Thread -> Seq(Content)]
  BY <1>1, <1>2, FramesByThread
<1> QED
  BY <1>3 DEF CopyStepByStep, FramesInOrder, TypeOK

\* one of them is copied;
LEMMA CopyMessageStep ==
  ASSUME FramesInOrder, NEW t \in Thread, copyMessage(t) PROVE FramesInOrder'
<1> DEFINE m == Head(copying[t])
           q == Finish(queue[t], m)
<1>1. /\ ThreadOK(queue[t], numberOfMessages[t], packet[t], t)
      /\ copying[t] \in Seq(Content) /\ copying \in [Thread -> Seq(Content)]
  BY FramesByThread
<1>2. copying[t] /= <<>>
  BY DEF copyMessage
<1>3. m \in Content /\ Tail(copying[t]) \in Seq(Content)
  BY <1>1, <1>2
<1>4. m \in Message /\ m.id \notin Brackets
  BY <1>3 DEF Content
<1>5. queue' = [queue EXCEPT ![t] = q] /\ copying' = [copying EXCEPT ![t] = Tail(@)]
  BY DEF copyMessage
<1>6. UNCHANGED <<numberOfMessages, packet, frames>>
  BY DEF copyMessage
<1>7. copying' \in [Thread -> Seq(Content)]
  BY <1>1, <1>3, <1>5
<1> HIDE DEF m
<1>8. ThreadOK(q, numberOfMessages[t], packet[t], t)
  BY <1>1, <1>4, FinishLemma, WriteLemma DEF ThreadOK
<1> HIDE DEF q
<1> QED
  BY <1>5, <1>6, <1>7, <1>8, QueueStep

\* the end of a frame: close, send, open.
LEMMA EndFrameStep ==
  ASSUME FramesInOrder, NEW t \in Thread, EndFrame(t) PROVE FramesInOrder'
<1> DEFINE closed == Close(t)
           rest == IF Sends(t) THEN Empty ELSE closed
           q == Finish(rest, Bracket("idFrameBegin", t, frames[t] + 1))
           p == IF Sends(t) THEN closed ELSE packet[t]
           k == rest.numberOfMessages
<1>1. /\ ThreadOK(queue[t], numberOfMessages[t], packet[t], t)
      /\ frames[t] \in Nat /\ TypeOK
  BY FramesByThread DEF FramesInOrder
<1>2. MessageQueueOK(closed) /\ (~closed.overdrawn => Closed(closed, t))
  BY <1>1, CloseLemma DEF ThreadOK
<1>3. MessageQueueOK(rest) /\ (~rest.overdrawn => Closed(rest, t))
  BY <1>2, EmptyPacket, EmptyClosed
<1>4. Rest(t).queue = rest /\ Rest(t).number = k
  BY DEF Rest
<1>5. /\ queue' = [queue EXCEPT ![t] = q]
      /\ numberOfMessages' = [numberOfMessages EXCEPT ![t] = k]
      /\ packet' = [packet EXCEPT ![t] = p]
  <2>1. packet = [packet EXCEPT ![t] = packet[t]]
    BY <1>1 DEF TypeOK
  <2> QED
    BY <1>4, <2>1 DEF EndFrame
<1>6. frames' = [frames EXCEPT ![t] = @ + 1] /\ copying' = copying
  BY DEF EndFrame
<1>7. MessageQueueOK(p) /\ (~p.overdrawn => Complete(p.messages))
  BY <1>1, <1>2 DEF ThreadOK, Closed
<1>8. k \in Nat
  BY <1>3 DEF MessageQueueOK
<1> HIDE DEF closed, rest, p
<1>9. MessageQueueOK(q) /\ (~q.overdrawn => BracketOpen(q, k, t))
  BY <1>1, <1>3, BeginLemma
<1>10. ThreadOK(q, k, p, t)
  BY <1>7, <1>8, <1>9 DEF ThreadOK
<1> HIDE DEF q, k
<1>11. /\ queue' = [u \in Thread |-> queue'[u]] /\ packet' = [u \in Thread |-> packet'[u]]
       /\ numberOfMessages' \in [Thread -> Nat]
       /\ copying' \in [Thread -> Seq(Content)]
       /\ frames' \in [Thread -> Nat]
  <2>1. DOMAIN queue = Thread /\ DOMAIN packet = Thread
    BY <1>1 DEF TypeOK
  <2>2. queue' = [u \in Thread |-> queue'[u]]
    BY <1>5, <2>1
  <2>3. packet' = [u \in Thread |-> packet'[u]]
    BY <1>5, <2>1
  <2>4. /\ numberOfMessages' \in [Thread -> Nat]
        /\ copying' \in [Thread -> Seq(Content)]
        /\ frames' \in [Thread -> Nat]
    BY <1>1, <1>5, <1>6, <1>8 DEF TypeOK
  <2> QED
    BY <2>2, <2>3, <2>4
<1>12. ASSUME NEW u \in Thread
       PROVE  ThreadOK(queue'[u], numberOfMessages'[u], packet'[u], u)
  <2>1. CASE u = t
    <3>1. queue'[t] = q /\ numberOfMessages'[t] = k /\ packet'[t] = p
      BY <1>1, <1>5 DEF TypeOK
    <3> QED
      BY <2>1, <3>1, <1>10
  <2>2. CASE u /= t
    <3>1. /\ queue'[u] = queue[u] /\ numberOfMessages'[u] = numberOfMessages[u]
          /\ packet'[u] = packet[u]
      BY <2>2, <1>1, <1>5 DEF TypeOK
    <3> QED
      BY <3>1, FramesByThread
  <2> QED
    BY <2>1, <2>2
<1> QED
  BY <1>11, <1>12 DEF FramesInOrder, TypeOK, ThreadOK

\* Debug takes packets.
LEMMA TakeStep == ASSUME FramesInOrder, NEW T \in SUBSET Thread, Take(T) PROVE FramesInOrder'
<1>1. ASSUME NEW u \in Thread
      PROVE  ThreadOK(queue'[u], numberOfMessages'[u], packet'[u], u)
  <2>1. /\ queue'[u] = queue[u] /\ numberOfMessages'[u] = numberOfMessages[u]
        /\ packet'[u] = Empty \/ packet'[u] = packet[u]
    BY DEF Take
  <2> QED
    BY <2>1, FramesByThread, EmptyPacket DEF ThreadOK
<1>2. /\ queue' = [t \in Thread |-> queue'[t]] /\ packet' = [t \in Thread |-> packet'[t]]
      /\ numberOfMessages' \in [Thread -> Nat]
      /\ copying' \in [Thread -> Seq(Content)]
      /\ frames' \in [Thread -> Nat]
  BY FramesByThread DEF Take
<1> QED
  BY <1>1, <1>2 DEF FramesInOrder, TypeOK, ThreadOK

\* So the invariant is inductive.
LEMMA StepLemma == FramesInOrder /\ [FrameNext]_frameVars => FramesInOrder'
<1> SUFFICES ASSUME FramesInOrder, [FrameNext]_frameVars PROVE FramesInOrder'
  OBVIOUS
<1>1. ASSUME NEW t \in Thread, ThreadNext(t) PROVE FramesInOrder'
  BY <1>1, WriteStep, CopyAtOnceStep, CopyStepByStepStep, CopyMessageStep, EndFrameStep
     DEF ThreadNext
<1>2. ASSUME NEW T \in SUBSET Thread, Take(T) PROVE FramesInOrder'
  BY <1>2, TakeStep
<1>3. CASE UNCHANGED frameVars
  BY <1>3 DEF frameVars, FramesInOrder, TypeOK
<1> QED
  BY <1>1, <1>2, <1>3 DEF FrameNext

-----------------------------------------------------------------------------
\* The invariant of the threads' queues: their use of memory stays within the maximum
\* (MessageQueueBase.cpp:131), and the bracket of the current frame is open.
THEOREM FrameInvariance == FrameSpec => []FramesInOrder
<1> QED
  BY InitLemma, StepLemma, PTL DEF FrameSpec

\* Debug's steps are steps of FrameQueue.
LEMMA NextIsFrameNext == [Next]_vars => [FrameNext]_frameVars
<1> SUFFICES ASSUME [Next]_vars PROVE [FrameNext]_frameVars
  OBVIOUS
<1>1. ASSUME NEW t \in Thread, ThreadNext(t) PROVE FrameNext
  BY <1>1 DEF FrameNext
<1>2. CASE MoveMessages
  <2>1. Take(Thread)
    BY <1>2 DEF MoveMessages, Move, Take
  <2> QED
    BY <2>1 DEF FrameNext
<1>3. CASE RemoveAndSend
  BY <1>3 DEF RemoveAndSend
<1>4. CASE UNCHANGED vars
  BY <1>4 DEF vars
<1> QED
  BY <1>1, <1>2, <1>3, <1>4 DEF Next

\* So Spec implements FrameSpec.
THEOREM DebugIsFrameQueue == Spec => FrameSpec
<1>1. DebugInit => Init
  BY DEF DebugInit
<1> QED
  BY <1>1, NextIsFrameNext, PTL DEF Spec, FrameSpec

\* The same while Debug takes the packets.
LEMMA DebugFrames == Spec => []FramesInOrder
BY DebugIsFrameQueue, FrameInvariance, PTL

\* As long as the reserve was left to the brackets, every packet that Debug gets consists
\* of complete frames, whatever the sizes of queues and messages (ModuleContainer.cpp:118).
THEOREM PacketsComplete == Spec => []CompleteFrames
<1>1. FramesInOrder => CompleteFrames
  BY DEF FramesInOrder, CompleteFrames
<1> QED
  BY <1>1, DebugFrames, PTL

-----------------------------------------------------------------------------
\* A thread's own messages stay its own if one of its messages follows,
LEMMA OwnAppend ==
  ASSUME NEW t \in Thread, NEW ms \in Seq(Message), Own(ms, t), NEW m \in Message,
         m.from = t, m.id \in Brackets => m.size = bracketSize[t],
         ms /= <<>> \/ m.id = "idFrameBegin"
  PROVE  Own(Append(ms, m), t) /\ Append(ms, m) /= <<>>
<1> DEFINE ns == Append(ms, m)
           k == Len(ms)
<1>1. /\ k \in Nat /\ Len(ns) = k + 1 /\ ns[k + 1] = m
      /\ \A i \in 1 .. k : ns[i] = ms[i]
  OBVIOUS
<1>2. ns /= <<>> /\ (ms = <<>> <=> k = 0)
  OBVIOUS
<1> HIDE DEF ns, k
<1>3. ns[1].id = "idFrameBegin"
  BY <1>1, <1>2 DEF Own
<1>4. ASSUME NEW i \in 1 .. Len(ns)
      PROVE  ns[i].from = t /\ (ns[i].id \in Brackets => ns[i].size = bracketSize[t])
  <2>1. CASE i = k + 1
    BY <1>1, <2>1
  <2>2. CASE i \in 1 .. k
    BY <1>1, <2>2 DEF Own, k
  <2> QED
    BY <1>1, <2>1, <2>2
<1> QED
  BY <1>2, <1>3, <1>4 DEF Own, ns

\* if it is accepted or not,
LEMMA OwnFinish ==
  ASSUME NEW t \in Thread, NEW q, MessageQueueOK(q), Own(q.messages, t), q.messages /= <<>>,
         NEW m \in Message, m.from = t, m.id \in Brackets => m.size = bracketSize[t]
  PROVE  Own(Finish(q, m).messages, t) /\ Finish(q, m).messages /= <<>>
<1>1. q.messages \in Seq(Message)
  BY DEF MessageQueueOK
<1>2. Finish(q, m).messages = Append(q.messages, m) \/ Finish(q, m) = q
  BY FinishLemma
<1> QED
  BY <1>1, <1>2, OwnAppend

\* if several messages follow that are no brackets,
LEMMA OwnJoin ==
  ASSUME NEW t \in Thread, NEW a \in Seq(Message), Own(a, t), a /= <<>>,
         NEW b \in Seq(Message), b /= <<>>,
         \A i \in 1 .. Len(b) : b[i].from = t /\ b[i].id \notin Brackets
  PROVE  Own(a \o b, t) /\ a \o b /= <<>>
<1> DEFINE ms == a \o b
           k == Len(a)
<1>1. /\ k \in Nat /\ k > 0 /\ Len(b) \in Nat /\ Len(ms) = k + Len(b)
      /\ \A i \in 1 .. k + Len(b) : ms[i] = IF i <= k THEN a[i] ELSE b[i - k]
  BY ConcatProperties
<1> HIDE DEF ms
<1>2. ms[1].id = "idFrameBegin" /\ ms /= <<>>
  <2>1. 1 \in 1 .. k + Len(b)
    BY <1>1
  <2>2. ms[1] = a[1]
    BY <1>1, <2>1
  <2>3. ms /= <<>>
    BY <1>1
  <2> QED
    BY <2>2, <2>3 DEF Own
<1>3. ASSUME NEW i \in 1 .. Len(ms)
      PROVE  ms[i].from = t /\ (ms[i].id \in Brackets => ms[i].size = bracketSize[t])
  <2>1. CASE i <= k
    <3>1. ms[i] = a[i] /\ i \in 1 .. Len(a)
      BY <1>1, <2>1
    <3> QED
      BY <3>1 DEF Own
  <2>2. CASE i > k
    <3>1. ms[i] = b[i - k] /\ i - k \in 1 .. Len(b)
      BY <1>1, <2>2
    <3> QED
      BY <3>1
  <2> QED
    BY <1>1, <2>1, <2>2
<1> QED
  BY <1>2, <1>3 DEF Own, ms

\* or if the last one is taken back,
LEMMA OwnShorter ==
  ASSUME NEW t \in Thread, NEW ms \in Seq(Message), Own(ms, t), Len(ms) > 0
  PROVE  Own(SubSeq(ms, 1, Len(ms) - 1), t)
<1> DEFINE k == Len(ms) - 1
           ns == SubSeq(ms, 1, k)
<1>1. Len(ms) \in Nat /\ ms /= <<>>
  OBVIOUS
<1>2. k \in 0 .. Len(ms) /\ Len(ms) \in Nat /\ k < Len(ms) /\ ms /= <<>>
  BY <1>1
<1>3. ns \in Seq(Message) /\ Len(ns) = k /\ \A i \in 1 .. k : ns[i] = ms[i]
  BY <1>2, BytesFirst
<1>4. ns = <<>> <=> k = 0
  <2> HIDE DEF ns
  <2> QED
    BY <1>3, EmptySeq
<1> HIDE DEF ns, k
<1>5. \A i \in 1 .. Len(ns) : ns[i] = ms[i] /\ i \in 1 .. Len(ms)
  BY <1>2, <1>3
<1>6. ns /= <<>> => 1 \in 1 .. Len(ns)
  BY <1>2, <1>3, <1>4
<1> QED
  BY <1>2, <1>5, <1>6 DEF Own, ns, k

\* and at the end of a frame,
LEMMA OwnClose ==
  ASSUME TypeOK, NEW t \in Thread, Own(queue[t].messages, t), queue[t].messages /= <<>>
  PROVE  Own(Close(t).messages, t)
<1>1. MessageQueueOK(queue[t]) /\ frames[t] \in Nat /\ queue[t].messages \in Seq(Message)
  BY DEF TypeOK, MessageQueueOK
<1>2. CASE queue[t].numberOfMessages > numberOfMessages[t] + 1
  <2> DEFINE m == Bracket("idFrameFinished", t, frames[t])
  <2>1. m \in Message /\ m.from = t /\ m.size = bracketSize[t]
    BY <1>1, BracketLemma DEF Bracket, Brackets
  <2>2. Close(t) = Finish(queue[t], m)
    BY <1>2 DEF Close
  <2> HIDE DEF m
  <2> QED
    BY <1>1, <2>1, <2>2, OwnFinish
<1>3. CASE ~(queue[t].numberOfMessages > numberOfMessages[t] + 1)
  <2>1. Close(t) = removeLastMessage(queue[t])
    BY <1>3 DEF Close
  <2>2. Len(queue[t].messages) > 0
    BY <1>1
  <2>3. Close(t).messages = SubSeq(queue[t].messages, 1, Len(queue[t].messages) - 1)
    BY <1>1, <2>1, <2>2, RemoveLemma
  <2> QED
    BY <1>1, <2>2, <2>3, OwnShorter
<1> QED
  BY <1>2, <1>3

\* after which the queue holds at least the bracket of the next frame: an empty queue has
\* room for it.
LEMMA OwnBegin ==
  ASSUME NEW t \in Thread, NEW q, MessageQueueOK(q), Own(q.messages, t), NEW n \in Nat
  PROVE  LET r == Finish(q, Bracket("idFrameBegin", t, n))
         IN  Own(r.messages, t) /\ r.messages /= <<>>
<1> DEFINE m == Bracket("idFrameBegin", t, n)
           r == Finish(q, m)
<1>1. m \in Message /\ m.from = t /\ m.size = bracketSize[t] /\ m.id = "idFrameBegin"
  BY BracketLemma DEF Bracket, Brackets
<1>2. q.messages \in Seq(Message)
  BY DEF MessageQueueOK
<1>3. CASE q.messages = <<>>
  <2>1. q.usedSize = 0
    <3>1. q.usedSize = Bytes(q.messages)
      BY DEF MessageQueueOK
    <3>2. Bytes(<<>>) = 0
      BY BytesRecursion DEF Bytes
    <3> QED
      BY <1>3, <3>1, <3>2
  <2>2. bracketSize[t] \in Nat /\ 2 * bracketSize[t] <= reserveForInfrastructure
    BY FrameQueueAssumption, ReserveAssumption
  <2>3. q.usedSize + bracketSize[t] <= maximumSize
    BY <2>1, <2>2, FrameQueueAssumption, ReserveAssumption
  <2>4. r.messages = Append(q.messages, m)
    <3>1. "idFrameBegin" \in Brackets
      BY DEF Brackets
    <3> QED
      BY <2>3, <3>1, BracketAccepted
  <2>5. Own(Append(q.messages, m), t) /\ Append(q.messages, m) /= <<>>
    <3> HIDE DEF m
    <3> QED
      BY <1>1, <1>2, OwnAppend
  <2> QED
    BY <2>4, <2>5
<1>4. CASE q.messages /= <<>>
  <2>1. Own(Finish(q, m).messages, t) /\ Finish(q, m).messages /= <<>>
    <3> HIDE DEF m
    <3> QED
      BY <1>1, <1>4, OwnFinish
  <2> QED
    BY <2>1
<1> QED
  BY <1>3, <1>4

\* A step that changes only the queue of thread t.
LEMMA OwnQueueStep ==
  ASSUME FramesInOrder, OwnMessages, NEW t \in Thread, NEW q, NEW c,
         queue' = [queue EXCEPT ![t] = q], copying' = [copying EXCEPT ![t] = c],
         Own(q.messages, t), q.messages /= <<>>,
         \A i \in 1 .. Len(c) : c[i].from = t,
         UNCHANGED packet
  PROVE  OwnMessages'
<1>1. ASSUME NEW u \in Thread
      PROVE  /\ Own(queue'[u].messages, u) /\ queue'[u].messages /= <<>>
             /\ Own(packet'[u].messages, u)
             /\ \A i \in 1 .. Len(copying'[u]) : copying'[u][i].from = u
  <2>1. /\ queue'[u] = IF u = t THEN q ELSE queue[u]
        /\ copying'[u] = IF u = t THEN c ELSE copying[u]
        /\ packet'[u] = packet[u]
    BY DEF FramesInOrder, TypeOK
  <2> QED
    BY <2>1 DEF OwnMessages
<1> QED
  BY <1>1 DEF OwnMessages, Own

\* What is collected is the thread's own.
LEMMA OwnCollected ==
  ASSUME FramesInOrder, NEW t \in Thread, NEW ids \in Collections(t)
  PROVE  LET ms == Collected(t, ids).messages
         IN  \A i \in 1 .. Len(ms) : ms[i].from = t
<1> DEFINE ms == Collected(t, ids).messages
<1>1. Len(ids) \in {1, 2} /\ DOMAIN ids = 1 .. Len(ids)
  BY DEF Collections
<1>2. ms = [i \in 1 .. Len(ids) |-> Output(ids[i], t)]
  BY <1>1 DEF Collected
<1>3. ms \in Seq(Message)
  BY CollectedLemma
<1> HIDE DEF ms
<1>4. 1 .. Len(ms) = 1 .. Len(ids)
  BY <1>2, <1>3
<1>5. \A i \in 1 .. Len(ms) : ms[i].from = t
  BY <1>2, <1>4 DEF Output
<1> QED
  BY <1>5 DEF ms

\* Whatever was refused: the messages of each thread begin with its bracket.
LEMMA OwnStep == FramesInOrder /\ OwnMessages /\ [FrameNext]_frameVars => OwnMessages'
<1> SUFFICES ASSUME FramesInOrder, OwnMessages, [FrameNext]_frameVars PROVE OwnMessages'
  OBVIOUS
<1>0. ASSUME NEW t \in Thread
      PROVE  /\ MessageQueueOK(queue[t]) /\ queue[t].messages \in Seq(Message)
             /\ Own(queue[t].messages, t) /\ queue[t].messages /= <<>>
             /\ Own(packet[t].messages, t)
             /\ \A i \in 1 .. Len(copying[t]) : copying[t][i].from = t
             /\ frames[t] \in Nat /\ copying[t] \in Seq(Content) /\ TypeOK
             /\ copying = [copying EXCEPT ![t] = copying[t]]
             /\ queue = [queue EXCEPT ![t] = queue[t]]
  <2>1. TypeOK
    BY DEF FramesInOrder
  <2>2. copying = [copying EXCEPT ![t] = copying[t]] /\ queue = [queue EXCEPT ![t] = queue[t]]
    BY <2>1 DEF TypeOK
  <2> QED
    BY <2>1, <2>2 DEF TypeOK, OwnMessages, MessageQueueOK
<1>1. ASSUME NEW t \in Thread, NEW id \in outputs[t], Write(t, id) PROVE OwnMessages'
  <2> DEFINE m == Output(id, t)
             q == Finish(queue[t], m)
  <2>1. m \in Message /\ m.from = t /\ m.id \notin Brackets
    BY <1>0, MessageLemma, FrameQueueAssumption DEF Output
  <2>2. queue' = [queue EXCEPT ![t] = q] /\ copying' = copying /\ packet' = packet
    BY <1>1 DEF Write
  <2> HIDE DEF m
  <2>3. Own(q.messages, t) /\ q.messages /= <<>>
    BY <1>0, <2>1, OwnFinish
  <2>4. copying' = [copying EXCEPT ![t] = copying[t]]
    BY <1>0, <2>2
  <2> HIDE DEF q
  <2> QED
    BY <1>0, <2>2, <2>3, <2>4, OwnQueueStep
<1>2. ASSUME NEW t \in Thread, NEW ids \in Collections(t), CopyAtOnce(t, ids)
      PROVE  OwnMessages'
  <2> DEFINE other == Collected(t, ids)
             q == copyAtOnce(other, queue[t], maximumSize, reserveForInfrastructure)
  <2>1. queue' = [queue EXCEPT ![t] = q] /\ copying' = copying /\ packet' = packet
    BY <1>2 DEF CopyAtOnce
  <2>2. /\ other.messages \in Seq(Message) /\ other.messages /= <<>>
        /\ \A i \in 1 .. Len(other.messages) : other.messages[i].id \notin Brackets
    BY CollectedLemma
  <2>3. \A i \in 1 .. Len(other.messages) : other.messages[i].from = t
    BY OwnCollected
  <2>4. q.messages = queue[t].messages \o other.messages
    BY DEF copyAtOnce
  <2> HIDE DEF q
  <2>5. Own(q.messages, t) /\ q.messages /= <<>>
    <3> DEFINE b == other.messages
    <3>1. b \in Seq(Message) /\ b /= <<>>
          /\ \A i \in 1 .. Len(b) : b[i].from = t /\ b[i].id \notin Brackets
      BY <2>2, <2>3
    <3>2. q.messages = queue[t].messages \o b
      BY <2>4
    <3> HIDE DEF b
    <3> QED
      BY <1>0, <3>1, <3>2, OwnJoin
  <2>6. copying' = [copying EXCEPT ![t] = copying[t]]
    BY <1>0, <2>1
  <2> QED
    BY <1>0, <2>1, <2>5, <2>6, OwnQueueStep
<1>3. ASSUME NEW t \in Thread, NEW ids \in Collections(t), CopyStepByStep(t, ids)
      PROVE  OwnMessages'
  <2> DEFINE c == Collected(t, ids).messages
  <2>1. copying' = [copying EXCEPT ![t] = c] /\ queue' = queue /\ packet' = packet
    BY <1>3 DEF CopyStepByStep
  <2>2. \A i \in 1 .. Len(c) : c[i].from = t
    BY OwnCollected
  <2> HIDE DEF c
  <2>3. queue' = [queue EXCEPT ![t] = queue[t]]
    BY <1>0, <2>1
  <2> QED
    BY <1>0, <2>1, <2>2, <2>3, OwnQueueStep
<1>4. ASSUME NEW t \in Thread, copyMessage(t) PROVE OwnMessages'
  <2> DEFINE c == copying[t]
             m == Head(c)
             q == Finish(queue[t], m)
  <2>1. c \in Seq(Content) /\ c /= <<>> /\ \A i \in 1 .. Len(c) : c[i].from = t
    BY <1>0, <1>4 DEF copyMessage
  <2>2. /\ queue' = [queue EXCEPT ![t] = q] /\ copying' = [copying EXCEPT ![t] = Tail(c)]
        /\ packet' = packet
    BY <1>4 DEF copyMessage
  <2> HIDE DEF c
  <2>3. m \in Content /\ m = c[1] /\ 1 \in 1 .. Len(c)
    BY <2>1
  <2>4. m \in Message /\ m.from = t /\ m.id \notin Brackets
    BY <2>1, <2>3 DEF Content
  <2>5. \A i \in 1 .. Len(Tail(c)) : Tail(c)[i].from = t
    <3>1. \A i \in 1 .. Len(Tail(c)) : Tail(c)[i] = c[i + 1] /\ i + 1 \in 1 .. Len(c)
      BY <2>1, HeadTailProperties
    <3> QED
      BY <2>1, <3>1
  <2> HIDE DEF m
  <2>6. Own(q.messages, t) /\ q.messages /= <<>>
    BY <1>0, <2>4, OwnFinish
  <2> HIDE DEF q
  <2> QED
    BY <1>0, <2>2, <2>5, <2>6, OwnQueueStep
<1>5. ASSUME NEW t \in Thread, EndFrame(t) PROVE OwnMessages'
  <2> DEFINE closed == Close(t)
             rest == IF Sends(t) THEN Empty ELSE closed
             q == Finish(rest, Bracket("idFrameBegin", t, frames[t] + 1))
             p == IF Sends(t) THEN closed ELSE packet[t]
  <2>1. MessageQueueOK(closed) /\ Own(closed.messages, t)
    BY <1>0, CloseLemma, OwnClose DEF FramesInOrder
  <2>2. Own(Empty.messages, t)
    BY DEF Empty, Own
  <2>3. /\ queue' = [queue EXCEPT ![t] = q] /\ packet' = [packet EXCEPT ![t] = p]
        /\ copying' = copying
    <3>1. packet = [packet EXCEPT ![t] = packet[t]]
      BY <1>0 DEF TypeOK
    <3>2. Rest(t).queue = rest
      BY DEF Rest
    <3> QED
      BY <1>5, <3>1, <3>2 DEF EndFrame
  <2> HIDE DEF closed
  <2>4. MessageQueueOK(rest) /\ Own(rest.messages, t) /\ Own(p.messages, t)
    BY <1>0, <2>1, <2>2, EmptyLemma
  <2> HIDE DEF rest, p
  <2>5. Own(q.messages, t) /\ q.messages /= <<>>
    BY <1>0, <2>4, OwnBegin
  <2> HIDE DEF q
  <2>6. ASSUME NEW u \in Thread
        PROVE  /\ Own(queue'[u].messages, u) /\ queue'[u].messages /= <<>>
               /\ Own(packet'[u].messages, u)
               /\ \A i \in 1 .. Len(copying'[u]) : copying'[u][i].from = u
    <3>1. /\ queue'[u] = IF u = t THEN q ELSE queue[u]
          /\ packet'[u] = IF u = t THEN p ELSE packet[u]
          /\ copying'[u] = copying[u]
      BY <1>0, <2>3 DEF TypeOK
    <3> QED
      BY <1>0, <2>4, <2>5, <3>1
  <2> QED
    BY <2>6 DEF OwnMessages, Own
<1>6. ASSUME NEW T \in SUBSET Thread, Take(T) PROVE OwnMessages'
  <2>1. ASSUME NEW u \in Thread
        PROVE  /\ Own(queue'[u].messages, u) /\ queue'[u].messages /= <<>>
               /\ Own(packet'[u].messages, u)
               /\ \A i \in 1 .. Len(copying'[u]) : copying'[u][i].from = u
    <3>1. /\ queue'[u] = queue[u] /\ copying'[u] = copying[u]
          /\ packet'[u] = Empty \/ packet'[u] = packet[u]
      BY <1>6 DEF Take
    <3>2. Own(Empty.messages, u)
      BY DEF Empty, Own
    <3> QED
      BY <1>0, <3>1, <3>2
  <2> QED
    BY <2>1 DEF OwnMessages, Own
<1>7. CASE UNCHANGED frameVars
  BY <1>7 DEF frameVars, OwnMessages, Own
<1> QED
  BY <1>1, <1>2, <1>3, <1>4, <1>5, <1>6, <1>7 DEF FrameNext, ThreadNext

-----------------------------------------------------------------------------
\* What DebugTypeOK and DebugQueueSound say of Debug's queue.
SoundQueue(q) ==
  /\ q \in [messages : Seq(DebugMessage), usedSize : Int, numberOfMessages : Nat,
            overdrawn : BOOLEAN]
  /\ q.numberOfMessages = Len(q.messages)
  /\ q.usedSize = Bytes(q.messages)
  /\ q.usedSize <= debugSize
  /\ Matched(q.messages)

\* The messages of the threads and of Debug.
LEMMA DebugMessageLemma ==
  /\ Message \subseteq DebugMessage
  /\ \A m \in DebugMessage : m.size \in Nat
  /\ answers \in Nat => TypeInfo \in DebugMessage
  /\ TypeInfo.id = "idTypeInfo"
<1>1. Message \subseteq DebugMessage
  BY DEF Message, DebugMessage, MessageID
<1>2. \A m \in DebugMessage : m.size \in Nat
  BY DEF DebugMessage
<1>3. answers \in Nat => TypeInfo \in DebugMessage
  BY DEF DebugMessage, TypeInfo, MessageID
<1> QED
  BY <1>1, <1>2, <1>3 DEF TypeInfo

\* Debug writes a message that is no idFrameFinished of another thread: nothing is kept
\* free of it.
LEMMA DebugFinish ==
  ASSUME NEW q, SoundQueue(q), NEW m \in DebugMessage,
         m.id = "idFrameFinished" =>
           LastSender(q.messages) = m.from \/ q.usedSize + m.size > debugSize
  PROVE  LET r == finishMessage(q, m, debugSize, 0)
         IN  /\ SoundQueue(r)
             /\ IF q.usedSize + m.size <= debugSize
                  THEN /\ r.messages = Append(q.messages, m)
                       /\ LastSender(r.messages) = IF m.id = "idFrameBegin"
                                                     THEN m.from
                                                     ELSE LastSender(q.messages)
                       /\ r.usedSize >= q.usedSize
                  ELSE r = q
<1>1. /\ q.messages \in Seq(DebugMessage) /\ q.usedSize \in Int /\ q.numberOfMessages \in Nat
      /\ q.overdrawn \in BOOLEAN /\ m.size \in Nat /\ debugSize \in Nat
  BY DebugMessageLemma, DebugQueueAssumption DEF SoundQueue
<1>2. Accepts(q, m, debugSize, 0) <=> q.usedSize + m.size <= debugSize
  BY <1>1 DEF Accepts, reserve
<1>3. CASE q.usedSize + m.size <= debugSize
  <2> DEFINE overdraws == /\ m.id \in Infrastructure \ Brackets
                          /\ debugSize - q.usedSize - m.size < 0
             r == AppendMessage(q, m, overdraws)
             ms == Append(q.messages, m)
  <2>1. finishMessage(q, m, debugSize, 0) = r
    BY <1>2, <1>3 DEF finishMessage
  <2>2. overdraws \in BOOLEAN
    OBVIOUS
  <2> HIDE DEF overdraws
  <2>3. r = [messages |-> ms, usedSize |-> q.usedSize + m.size,
             numberOfMessages |-> q.numberOfMessages + 1,
             overdrawn |-> q.overdrawn \/ overdraws]
    BY DEF AppendMessage
  <2>4. (q.overdrawn \/ overdraws) \in BOOLEAN
    BY <1>1, <2>2
  <2>5. ms \in Seq(DebugMessage) /\ Len(ms) = Len(q.messages) + 1
    BY <1>1
  <2>6. Bytes(ms) = Bytes(q.messages) + m.size
    BY <1>1, BytesAppend
  <2>7. m.id = "idFrameFinished" => LastSender(q.messages) = m.from
    BY <1>1, <1>3
  <2>8. /\ Matched(ms)
        /\ LastSender(ms) = IF m.id = "idFrameBegin" THEN m.from ELSE LastSender(q.messages)
    BY <1>1, <2>7, MatchedAppend DEF SoundQueue
  <2> HIDE DEF r, ms
  <2>9. /\ r.messages = ms /\ r.usedSize = q.usedSize + m.size
        /\ r.numberOfMessages = q.numberOfMessages + 1
    BY <2>3
  <2>10. r \in [messages : Seq(DebugMessage), usedSize : Int, numberOfMessages : Nat,
                overdrawn : BOOLEAN]
    BY <1>1, <2>3, <2>4, <2>5
  <2>11. SoundQueue(r)
    BY <1>1, <1>3, <2>5, <2>6, <2>8, <2>9, <2>10 DEF SoundQueue
  <2>12. r.usedSize >= q.usedSize
    BY <1>1, <2>9
  <2> QED
    BY <1>3, <2>1, <2>8, <2>9, <2>11, <2>12 DEF ms
<1>4. CASE ~(q.usedSize + m.size <= debugSize)
  BY <1>2, <1>4 DEF finishMessage
<1> QED
  BY <1>3, <1>4

\* The messages of a thread, one by one: if the queue has no room for idFrameBegin, it has
\* none for the idFrameFinished that follow, for they have the same size.
LEMMA CopiedLemma ==
  ASSUME NEW t \in Thread, NEW q, MessageQueueOK(q), Own(q.messages, t),
         NEW other, SoundQueue(other)
  PROVE  SoundQueue(Copied(q, other)[Len(q.messages)])
<1> DEFINE ms == q.messages
           after == Copied(q, other)
           Holds(r) == /\ SoundQueue(r)
                       /\ \/ LastSender(r.messages) = t
                          \/ r.usedSize + bracketSize[t] > debugSize
           T == {n \in Nat : n < Len(ms) => Holds(after[n + 1])}
<1>1. ms \in Seq(Message) /\ Len(ms) \in Nat /\ bracketSize[t] \in Nat /\ debugSize \in Nat
  BY FrameQueueAssumption, DebugQueueAssumption DEF MessageQueueOK
<1>2. \A i \in 1 .. Len(ms) :
        /\ ms[i] \in DebugMessage /\ ms[i].from = t
        /\ ms[i].id \in Brackets => ms[i].size = bracketSize[t]
  BY <1>1, DebugMessageLemma DEF Own
<1>3. /\ after[0] = other
      /\ \A i \in 1 .. Len(ms) : after[i] = finishMessage(after[i - 1], ms[i], debugSize, 0)
  BY <1>1, CopiedRecursion
<1> HIDE DEF after
<1>4. 0 \in T
  <2> SUFFICES ASSUME 0 < Len(ms) PROVE Holds(after[1])
    BY <1>1
  <2>1. 1 \in 1 .. Len(ms) /\ 1 - 1 = 0
    BY <1>1
  <2>2. after[1] = finishMessage(other, ms[1], debugSize, 0)
    BY <1>3, <2>1
  <2>3. ms[1].id = "idFrameBegin"
    BY <1>1, <2>1 DEF Own
  <2>4. ms[1].id /= "idFrameFinished" /\ ms[1].size = bracketSize[t] /\ ms[1].from = t
    BY <1>2, <2>1, <2>3 DEF Brackets
  <2>5. ms[1] \in DebugMessage
    BY <1>2, <2>1
  <2> DEFINE m == ms[1]
  <2> HIDE DEF m
  <2>6. /\ SoundQueue(after[1])
        /\ IF other.usedSize + m.size <= debugSize
             THEN LastSender(after[1].messages) = m.from
             ELSE after[1] = other
    BY <2>2, <2>3, <2>4, <2>5, DebugFinish DEF m
  <2>7. other.usedSize \in Int
    BY DEF SoundQueue
  <2> QED
    BY <1>1, <2>4, <2>6, <2>7 DEF m
<1>5. ASSUME NEW n \in T PROVE n + 1 \in T
  <2> SUFFICES ASSUME n + 1 < Len(ms) PROVE Holds(after[(n + 1) + 1])
    OBVIOUS
  <2> DEFINE r == after[n + 1]
             m == ms[(n + 1) + 1]
             s == after[(n + 1) + 1]
  <2>1. /\ (n + 1) + 1 \in 1 .. Len(ms) /\ ((n + 1) + 1) - 1 = n + 1 /\ n < Len(ms)
    BY <1>1
  <2>2. Holds(r)
    BY <2>1
  <2>3. /\ m \in DebugMessage /\ m.from = t
        /\ m.id \in Brackets => m.size = bracketSize[t]
    BY <1>2, <2>1
  <2>4. s = finishMessage(r, m, debugSize, 0)
    BY <1>3, <2>1
  <2> HIDE DEF r, m, s, ms
  <2>5. m.id = "idFrameFinished" =>
          LastSender(r.messages) = m.from \/ r.usedSize + m.size > debugSize
    BY <2>2, <2>3 DEF Brackets
  <2>6. /\ SoundQueue(s)
        /\ IF r.usedSize + m.size <= debugSize
             THEN /\ LastSender(s.messages) = IF m.id = "idFrameBegin"
                                                THEN m.from ELSE LastSender(r.messages)
                  /\ s.usedSize >= r.usedSize
             ELSE s = r
    BY <2>2, <2>3, <2>4, <2>5, DebugFinish
  <2>7. r.usedSize \in Int /\ s.usedSize \in Int
    BY <2>2, <2>6 DEF SoundQueue
  <2>8. Holds(s)
    <3>1. CASE ~(r.usedSize + m.size <= debugSize)
      BY <2>2, <2>6, <3>1
    <3>2. CASE r.usedSize + m.size <= debugSize /\ LastSender(r.messages) = t
      BY <2>3, <2>6, <3>2
    <3>3. CASE /\ r.usedSize + m.size <= debugSize
               /\ r.usedSize + bracketSize[t] > debugSize
      BY <1>1, <2>6, <2>7, <3>3
    <3> QED
      BY <2>2, <3>1, <3>2, <3>3
  <2> QED
    BY <2>8 DEF s
<1>6. T = Nat
  <2> HIDE DEF T
  <2>1. T \in SUBSET Nat
    BY DEF T
  <2> QED
    BY <1>4, <1>5, <2>1, AllNumbers
<1>7. CASE Len(ms) = 0
  BY <1>3, <1>7 DEF after
<1>8. CASE Len(ms) > 0
  <2> DEFINE n == Len(ms) - 1
  <2>1. n \in Nat /\ n < Len(ms) /\ n + 1 = Len(ms)
    BY <1>1, <1>8
  <2> HIDE DEF n
  <2>2. Holds(after[n + 1])
    BY <1>6, <2>1
  <2> QED
    BY <2>1, <2>2 DEF after
<1> QED
  BY <1>1, <1>7, <1>8

\* All messages of a thread, at once or one by one.
LEMMA CopyAllLemma ==
  ASSUME NEW t \in Thread, NEW q, MessageQueueOK(q), Own(q.messages, t),
         NEW other, SoundQueue(other)
  PROVE  SoundQueue(copyAllMessages(q, other))
<1>1. CASE ~reserve(other, q.usedSize, debugSize)
  <2>1. copyAllMessages(q, other) = Copied(q, other)[Len(q.messages)]
    BY <1>1 DEF copyAllMessages
  <2> QED
    BY <2>1, CopiedLemma
<1>2. CASE reserve(other, q.usedSize, debugSize)
  <2> DEFINE r == copyAtOnce(q, other, debugSize, 0)
             overdraws == debugSize - other.usedSize - q.usedSize < 0
             a == other.messages
             b == q.messages
             ms == a \o b
  <2>1. copyAllMessages(q, other) = r
    BY <1>2 DEF copyAllMessages
  <2>2. r = [messages |-> ms, usedSize |-> other.usedSize + q.usedSize,
             numberOfMessages |-> other.numberOfMessages + q.numberOfMessages,
             overdrawn |-> other.overdrawn \/ overdraws]
    BY DEF copyAtOnce
  <2>3. overdraws \in BOOLEAN
    OBVIOUS
  <2> HIDE DEF overdraws, r
  <2>4. /\ a \in Seq(DebugMessage) /\ b \in Seq(Message)
        /\ other.usedSize \in Int /\ q.usedSize \in Int
        /\ other.numberOfMessages \in Nat /\ q.numberOfMessages \in Nat
        /\ other.overdrawn \in BOOLEAN
        /\ other.numberOfMessages = Len(a) /\ q.numberOfMessages = Len(b)
        /\ other.usedSize = Bytes(a) /\ q.usedSize = Bytes(b)
        /\ Matched(a) /\ Own(b, t)
    BY DEF SoundQueue, MessageQueueOK
  <2>5. b \in Seq(DebugMessage)
    BY <2>4, DebugMessageLemma, SeqMonotonic
  <2> HIDE DEF a, b
  <2>6. ms \in Seq(DebugMessage) /\ Len(ms) = Len(a) + Len(b)
    BY <2>4, <2>5, ConcatProperties
  <2>7. Bytes(ms) = Bytes(a) + Bytes(b)
    BY <2>4, <2>5, DebugMessageLemma, BytesJoin
  <2>8. Matched(ms)
    BY <2>4, <2>5, MatchedJoin
  <2> HIDE DEF ms
  <2>9. (other.overdrawn \/ overdraws) \in BOOLEAN
    BY <2>3, <2>4
  <2>10. /\ r.messages = ms /\ r.usedSize = other.usedSize + q.usedSize
         /\ r.numberOfMessages = other.numberOfMessages + q.numberOfMessages
    BY <2>2
  <2>11. r \in [messages : Seq(DebugMessage), usedSize : Int, numberOfMessages : Nat,
                overdrawn : BOOLEAN]
    BY <2>2, <2>4, <2>6, <2>9
  <2>12. other.usedSize + q.usedSize <= debugSize
    BY <1>2 DEF reserve
  <2>13. SoundQueue(r)
    BY <2>4, <2>6, <2>7, <2>8, <2>10, <2>11, <2>12 DEF SoundQueue
  <2> QED
    BY <2>1, <2>13
<1> QED
  BY <1>1, <1>2

\* The packets of all receivers.
LEMMA ReceivedLemma ==
  ASSUME FramesInOrder, OwnMessages, NEW start, SoundQueue(start)
  PROVE  \A i \in 0 .. Len(receivers) : SoundQueue(Received(start)[i])
<1> DEFINE after == Received(start)
           T == {n \in Nat : n <= Len(receivers) => SoundQueue(after[n])}
<1>1. /\ Len(receivers) \in Nat
      /\ \A i \in 1 .. Len(receivers) : receivers[i] \in Thread
  BY DebugQueueAssumption
<1>2. /\ after[0] = start
      /\ \A i \in 1 .. Len(receivers) :
           after[i] = copyAllMessages(packet[receivers[i]], after[i - 1])
  BY <1>1, ReceivedRecursion
<1>3. ASSUME NEW t \in Thread PROVE MessageQueueOK(packet[t]) /\ Own(packet[t].messages, t)
  BY DEF FramesInOrder, TypeOK, OwnMessages
<1> HIDE DEF after
<1>4. 0 \in T
  BY <1>2
<1>5. ASSUME NEW n \in T PROVE n + 1 \in T
  <2> SUFFICES ASSUME n + 1 <= Len(receivers) PROVE SoundQueue(after[n + 1])
    OBVIOUS
  <2> DEFINE t == receivers[n + 1]
             other == after[n]
  <2>1. n + 1 \in 1 .. Len(receivers) /\ (n + 1) - 1 = n /\ n <= Len(receivers)
    BY <1>1
  <2>2. t \in Thread /\ SoundQueue(other)
    BY <1>1, <2>1
  <2>3. after[n + 1] = copyAllMessages(packet[t], other)
    BY <1>2, <2>1
  <2> HIDE DEF t, other
  <2> QED
    BY <1>3, <2>2, <2>3, CopyAllLemma
<1>6. T = Nat
  <2> HIDE DEF T
  <2>1. T \in SUBSET Nat
    BY DEF T
  <2> QED
    BY <1>4, <1>5, <2>1, AllNumbers
<1> QED
  BY <1>1, <1>6 DEF after

-----------------------------------------------------------------------------
\* What removeRepetitions knows after i messages: every message was kept or deleted, what
\* was kept has the sender that the original has, and there is nothing behind the
\* idFrameBegin to which it may go back.
ScanOK(s, ms, i) ==
  /\ s.kept \in Seq(DebugMessage)
  /\ s.deleted \in Nat /\ Len(s.kept) + s.deleted = i
  /\ s.name = Sender(ms, i) /\ LastSender(s.kept) = s.name
  /\ Matched(s.kept)
  /\ Bytes(s.kept) <= BytesTo(ms)[i]
  /\ \/ s.frameBegin = NoFrame
     \/ s.frameBegin \in Nat /\ Len(s.kept) = s.frameBegin + 1 /\ s.frameEmpty = TRUE

\* Which brackets are copied.
LEMMA CopyLemmaOfBrackets ==
  ASSUME NEW m, NEW s, NEW left
  PROVE  /\ m.id = "idFrameBegin" => Copy(m, s, left)
         /\ m.id = "idFrameFinished" /\ Copy(m, s, left) => ~s.frameEmpty
BY DEF Copy, Counted, AlwaysKept, LatestFrameOnly

\* It holds before the first message
LEMMA ScanStartLemma ==
  ASSUME NEW ms \in Seq(DebugMessage) PROVE ScanOK(ScanStart(ms), ms, 0)
<1> DEFINE s == ScanStart(ms)
<1>1. /\ s.kept = <<>> /\ s.deleted = 0 /\ s.name = Unknown /\ s.frameBegin = NoFrame
  BY DEF ScanStart
<1> HIDE DEF s
<1>2. /\ Len(<<>>) = 0 /\ <<>> \in Seq(DebugMessage) /\ Len(ms) \in Nat
  OBVIOUS
<1>3. Bytes(<<>>) = 0 /\ BytesTo(ms)[0] = 0
  BY <1>2, BytesRecursion DEF Bytes
<1>4. LastSender(<<>>) = Unknown /\ Sender(ms, 0) = Unknown
  BY <1>2, SenderStep DEF LastSender
<1>5. Matched(<<>>)
  BY <1>2 DEF Matched
<1>6. ScanOK(s, ms, 0)
  BY <1>1, <1>2, <1>3, <1>4, <1>5 DEF ScanOK
<1> QED
  BY <1>6 DEF s

\* and is kept by each message.
LEMMA ScanStep ==
  ASSUME NEW ms \in Seq(DebugMessage), Matched(ms), NEW i \in Nat, i + 1 <= Len(ms),
         NEW s, ScanOK(s, ms, i)
  PROVE  ScanOK(Scan(s, ms[i + 1]), ms, i + 1)
<1> DEFINE m == ms[i + 1]
           name == IF m.id = "idFrameBegin" THEN m.from ELSE s.name
           threads == IF Counted(m.id) THEN [s.threads EXCEPT ![name][m.id] = (@ - 1) % CounterSize]
                                       ELSE s.threads
           copy == Copy(m, s, threads[name])
           reverts == m.id = "idFrameBegin" /\ s.frameBegin /= NoFrame
           kept == IF reverts THEN SubSeq(s.kept, 1, s.frameBegin) ELSE s.kept
           r == Scan(s, m)
<1>1. /\ i + 1 \in 1 .. Len(ms) /\ (i + 1) - 1 = i /\ Len(ms) \in Nat /\ i \in 0 .. Len(ms)
      /\ m \in DebugMessage
  OBVIOUS
<1>2. m.size \in Nat
  BY <1>1, DebugMessageLemma
<1>3. /\ BytesTo(ms)[i + 1] = BytesTo(ms)[i] + m.size
      /\ BytesTo(ms)[i] \in Nat
  BY <1>1, BytesRecursion, DebugMessageLemma, BytesTyped
<1>4. Sender(ms, i + 1) = IF m.id = "idFrameBegin" THEN m.from ELSE Sender(ms, i)
  BY <1>1, SenderStep
<1>5. m.id = "idFrameFinished" => Sender(ms, i + 1) = m.from
  BY <1>1 DEF Matched
<1>6. /\ m.id = "idFrameBegin" => copy
      /\ m.id = "idFrameFinished" /\ copy => ~s.frameEmpty
  BY CopyLemmaOfBrackets
<1>7. copy \in BOOLEAN
  BY DEF Copy
<1>8. /\ r.name = name
      /\ r.kept = (IF copy THEN Append(kept, m) ELSE kept)
      /\ r.deleted = s.deleted + Deleted(reverts, copy)
      /\ r.frameBegin = FrameBegin(s, m, Len(kept), copy)
      /\ r.frameEmpty = (IF copy THEN m.id \in Brackets ELSE s.frameEmpty)
  BY DEF Scan
<1> HIDE DEF m, threads, copy, r
<1>9. /\ s.kept \in Seq(DebugMessage) /\ Len(s.kept) \in Nat
      /\ s.deleted \in Nat /\ Len(s.kept) + s.deleted = i
      /\ s.name = Sender(ms, i) /\ LastSender(s.kept) = s.name
      /\ Matched(s.kept) /\ Bytes(s.kept) <= BytesTo(ms)[i]
      /\ \/ s.frameBegin = NoFrame
         \/ s.frameBegin \in Nat /\ Len(s.kept) = s.frameBegin + 1 /\ s.frameEmpty = TRUE
  BY DEF ScanOK
<1>10. r.name = Sender(ms, i + 1)
  BY <1>4, <1>8, <1>9
<1>11. /\ kept \in Seq(DebugMessage) /\ Matched(kept)
       /\ Len(kept) \in Nat /\ Bytes(kept) \in Nat /\ Bytes(kept) <= BytesTo(ms)[i]
       /\ ~reverts => Len(kept) + s.deleted = i
       /\ reverts => Len(kept) + s.deleted + 1 = i
  <2>1. CASE ~reverts
    <3>1. Bytes(s.kept) \in Nat
      BY <1>9, DebugMessageLemma, BytesTyped DEF Bytes
    <3> QED
      BY <1>9, <2>1, <3>1
  <2>2. CASE reverts
    <3> DEFINE k == s.frameBegin
    <3>1. k \in Nat /\ Len(s.kept) = k + 1
      BY <1>9, <2>2
    <3>2. k \in 0 .. Len(s.kept) /\ k + 1 \in 1 .. Len(s.kept) /\ (k + 1) - 1 = k
      BY <3>1
    <3>3. kept = SubSeq(s.kept, 1, k)
      BY <2>2
    <3> HIDE DEF k, kept, reverts
    <3>4. kept \in Seq(DebugMessage) /\ Len(kept) = k /\ Bytes(kept) = BytesTo(s.kept)[k]
      BY <1>9, <3>2, <3>3, BytesFirst
    <3>5. Matched(kept)
      BY <1>9, <3>2, <3>3, MatchedFirst
    <3>6. BytesTo(s.kept)[k + 1] = BytesTo(s.kept)[k] + s.kept[k + 1].size
      BY <1>9, <3>2, BytesRecursion
    <3>7. BytesTo(s.kept)[k] \in Nat /\ s.kept[k + 1].size \in Nat
      BY <1>9, <3>2, DebugMessageLemma, BytesTyped
    <3>8. Bytes(s.kept) = BytesTo(s.kept)[k + 1]
      BY <3>1 DEF Bytes
    <3>9. Bytes(kept) \in Nat /\ Bytes(kept) <= BytesTo(ms)[i]
      <4>1. Bytes(s.kept) <= BytesTo(ms)[i]
        BY <1>9
      <4> QED
        BY <1>3, <3>4, <3>6, <3>7, <3>8, <4>1
    <3>10. Len(kept) \in Nat /\ Len(kept) + s.deleted + 1 = i
      BY <1>9, <3>1, <3>4
    <3> QED
      BY <2>2, <3>4, <3>5, <3>9, <3>10
  <2> QED
    BY <2>1, <2>2
<1>12. /\ Deleted(TRUE, TRUE) = 1 /\ Deleted(FALSE, TRUE) = 0 /\ Deleted(FALSE, FALSE) = 1
       /\ FrameBegin(s, m, Len(kept), FALSE) = s.frameBegin
       /\ m.id = "idFrameBegin" => FrameBegin(s, m, Len(kept), TRUE) = Len(kept)
       /\ m.id = "idFrameFinished" => FrameBegin(s, m, Len(kept), TRUE) = s.frameBegin
       /\ m.id \notin Brackets => FrameBegin(s, m, Len(kept), TRUE) = NoFrame
  <2>1. Deleted(TRUE, TRUE) = 1 /\ Deleted(FALSE, TRUE) = 0 /\ Deleted(FALSE, FALSE) = 1
    BY DEF Deleted
  <2>2. FrameBegin(s, m, Len(kept), FALSE) = s.frameBegin
    BY DEF FrameBegin
  <2>3. m.id = "idFrameBegin" => FrameBegin(s, m, Len(kept), TRUE) = Len(kept)
    BY DEF FrameBegin, Brackets
  <2>4. m.id = "idFrameFinished" => FrameBegin(s, m, Len(kept), TRUE) = s.frameBegin
    BY DEF FrameBegin, Brackets
  <2>5. m.id \notin Brackets => FrameBegin(s, m, Len(kept), TRUE) = NoFrame
    BY DEF FrameBegin, Brackets
  <2> QED
    BY <2>1, <2>2, <2>3, <2>4, <2>5
<1>13. reverts \in BOOLEAN
  OBVIOUS
<1>14. m.id = "idFrameFinished" => ~reverts
  OBVIOUS
<1>15. m.id /= "idFrameBegin" => ~reverts /\ kept = s.kept
  OBVIOUS
<1> HIDE DEF kept, reverts
<1>16. /\ copy => copy = TRUE
       /\ ~copy => copy = FALSE
       /\ reverts => reverts = TRUE
       /\ ~reverts => reverts = FALSE
  BY <1>7, <1>13, Zenon
<1> DEFINE new == Append(kept, m)
<1>17. /\ new \in Seq(DebugMessage) /\ Len(new) = Len(kept) + 1
       /\ Bytes(new) = Bytes(kept) + m.size
  BY <1>1, <1>11, BytesAppend DEF m
<1>18. Matched(new) /\ LastSender(new) = IF m.id = "idFrameBegin" THEN m.from
                                                                ELSE LastSender(kept)
  <2>1. m.id = "idFrameFinished" => LastSender(kept) = m.from
    BY <1>4, <1>5, <1>9, <1>15
  <2>2. m \in DebugMessage
    BY <1>1 DEF m
  <2> QED
    BY <1>11, <2>1, <2>2, MatchedAppend
<1> HIDE DEF new
<1>19. ASSUME copy PROVE ScanOK(r, ms, i + 1)
  <2>1. r.kept = new
    BY <1>8, <1>19 DEF new
  <2>2. /\ ~reverts => r.deleted = s.deleted
        /\ reverts => r.deleted = s.deleted + 1
    <3>1. r.deleted = s.deleted + Deleted(reverts, copy)
      BY <1>8
    <3>2. Deleted(TRUE, TRUE) = 1 /\ Deleted(FALSE, TRUE) = 0
      BY <1>12
    <3>3. copy = TRUE
      BY <1>16, <1>19, Zenon
    <3>4. ASSUME reverts PROVE r.deleted = s.deleted + 1
      <4>1. reverts = TRUE
        BY <1>16, <3>4, Zenon
      <4> QED
        BY <3>1, <3>2, <3>3, <4>1, Zenon
    <3>5. ASSUME ~reverts PROVE r.deleted = s.deleted + 0
      <4>1. reverts = FALSE
        BY <1>16, <3>5, Zenon
      <4> QED
        BY <3>1, <3>2, <3>3, <4>1, Zenon
    <3> QED
      BY <1>9, <3>4, <3>5
  <2>3. r.deleted \in Nat /\ Len(r.kept) + r.deleted = i + 1
    <3>1. Len(r.kept) = Len(kept) + 1
      <4>1. Len(new) = Len(kept) + 1
        BY <1>17
      <4> QED
        BY <2>1, <4>1
    <3>2. s.deleted \in Nat /\ Len(kept) \in Nat
      BY <1>9, <1>11
    <3>3. CASE reverts
      <4>1. Len(kept) + s.deleted + 1 = i /\ r.deleted = s.deleted + 1
        BY <1>11, <2>2, <3>3, Zenon
      <4> QED
        BY <3>1, <3>2, <4>1
    <3>4. CASE ~reverts
      <4>1. Len(kept) + s.deleted = i /\ r.deleted = s.deleted
        BY <1>11, <2>2, <3>4, Zenon
      <4> QED
        BY <3>1, <3>2, <4>1
    <3> QED
      BY <3>3, <3>4
  <2>4. LastSender(r.kept) = r.name
    BY <1>8, <1>9, <1>15, <1>18, <2>1
  <2>5. Bytes(r.kept) <= BytesTo(ms)[i + 1]
    BY <1>2, <1>3, <1>11, <1>17, <2>1
  <2>6. \/ r.frameBegin = NoFrame
        \/ r.frameBegin \in Nat /\ Len(r.kept) = r.frameBegin + 1 /\ r.frameEmpty = TRUE
    <3>1. CASE m.id = "idFrameBegin"
      <4>1. r.frameBegin = Len(kept)
        BY <1>8, <1>12, <1>19, <1>16, <3>1, Zenon
      <4>2. r.frameEmpty = TRUE
        BY <1>7, <1>8, <1>19, <3>1 DEF Brackets
      <4> QED
        BY <1>11, <1>17, <2>1, <4>1, <4>2
    <3>2. CASE m.id \notin Brackets
      <4>1. r.frameBegin = NoFrame
        BY <1>8, <1>12, <1>19, <1>16, <3>2, Zenon
      <4> QED
        BY <4>1
    <3>3. CASE m.id = "idFrameFinished"
      <4>1. r.frameBegin = s.frameBegin
        BY <1>8, <1>12, <1>19, <1>16, <3>3, Zenon
      <4> QED
        BY <1>6, <1>9, <1>19, <3>3, <4>1
    <3> QED
      BY <3>1, <3>2, <3>3 DEF Brackets
  <2> QED
    BY <1>10, <1>17, <1>18, <2>1, <2>3, <2>4, <2>5, <2>6 DEF ScanOK
<1>20. ASSUME ~copy PROVE ScanOK(r, ms, i + 1)
  <2>1. m.id /= "idFrameBegin" /\ r.kept = s.kept
    BY <1>6, <1>8, <1>15, <1>20
  <2>2. r.deleted = s.deleted + 1
    <3>1. r.deleted = s.deleted + Deleted(reverts, copy)
      BY <1>8
    <3>2. Deleted(FALSE, FALSE) = 1
      BY <1>12
    <3>3. copy = FALSE /\ reverts = FALSE
      BY <1>15, <1>16, <1>20, <2>1, Zenon
    <3> QED
      BY <3>1, <3>2, <3>3, Zenon
  <2>3. r.deleted \in Nat /\ Len(r.kept) + r.deleted = i + 1
    BY <1>9, <2>1, <2>2
  <2>4. LastSender(r.kept) = r.name
    BY <1>8, <1>9, <2>1
  <2>5. Bytes(r.kept) <= BytesTo(ms)[i + 1]
    BY <1>2, <1>3, <1>9, <1>11, <1>15, <2>1
  <2>6. r.frameBegin = s.frameBegin /\ r.frameEmpty = s.frameEmpty
    <3>1. /\ r.frameBegin = FrameBegin(s, m, Len(kept), copy)
          /\ r.frameEmpty = IF copy THEN m.id \in Brackets ELSE s.frameEmpty
      BY <1>8
    <3>2. FrameBegin(s, m, Len(kept), FALSE) = s.frameBegin
      BY <1>12
    <3>3. copy = FALSE
      BY <1>16, <1>20, Zenon
    <3> QED
      BY <1>20, <3>1, <3>2, <3>3, Zenon
  <2>7. \/ r.frameBegin = NoFrame
        \/ r.frameBegin \in Nat /\ Len(r.kept) = r.frameBegin + 1 /\ r.frameEmpty = TRUE
    BY <1>9, <2>1, <2>6
  <2> QED
    BY <1>9, <1>10, <2>1, <2>3, <2>4, <2>5, <2>7 DEF ScanOK
<1> QED
  BY <1>7, <1>19, <1>20 DEF r, m

\* So removing repetitions leaves a queue that is what it says.
LEMMA RepetitionsLemma ==
  ASSUME NEW q, SoundQueue(q) PROVE SoundQueue(removeRepetitions(q))
<1> DEFINE ms == q.messages
           after == Scanned(ms)
           T == {n \in Nat : n <= Len(ms) => ScanOK(after[n], ms, n)}
           end == after[Len(ms)]
           r == removeRepetitions(q)
<1>1. /\ ms \in Seq(DebugMessage) /\ Len(ms) \in Nat /\ Matched(ms)
      /\ q.usedSize \in Int /\ q.numberOfMessages \in Nat /\ q.overdrawn \in BOOLEAN
      /\ q.numberOfMessages = Len(ms) /\ q.usedSize = BytesTo(ms)[Len(ms)]
      /\ q.usedSize <= debugSize /\ debugSize \in Nat
  BY DebugQueueAssumption DEF SoundQueue, Bytes
<1>2. r = [q EXCEPT !.messages = end.kept, !.numberOfMessages = @ - end.deleted,
                    !.usedSize = Bytes(end.kept)]
  BY DEF removeRepetitions
<1> HIDE DEF r
<1>3. /\ after[0] = ScanStart(ms)
      /\ \A i \in 1 .. Len(ms) : after[i] = Scan(after[i - 1], ms[i])
  BY <1>1, ScannedRecursion
<1> HIDE DEF ms, after
<1>4. 0 \in T
  BY <1>1, <1>3, ScanStartLemma
<1>5. ASSUME NEW n \in T PROVE n + 1 \in T
  <2> SUFFICES ASSUME n + 1 <= Len(ms) PROVE ScanOK(after[n + 1], ms, n + 1)
    OBVIOUS
  <2>1. n \in Nat /\ n + 1 \in 1 .. Len(ms) /\ (n + 1) - 1 = n /\ n <= Len(ms)
    BY <1>1
  <2>2. ScanOK(after[n], ms, n)
    BY <2>1
  <2>3. after[n + 1] = Scan(after[n], ms[n + 1])
    BY <1>3, <2>1
  <2> QED
    BY <1>1, <2>1, <2>2, <2>3, ScanStep
<1>6. ScanOK(end, ms, Len(ms))
  <2>1. T = Nat
    <3> HIDE DEF T
    <3>1. T \in SUBSET Nat
      BY DEF T
    <3> QED
      BY <1>4, <1>5, <3>1, AllNumbers
  <2> QED
    BY <1>1, <2>1
<1> HIDE DEF end
<1>7. /\ end.kept \in Seq(DebugMessage) /\ end.deleted \in Nat
      /\ Len(end.kept) \in Nat /\ Len(end.kept) + end.deleted = Len(ms)
      /\ Matched(end.kept)
      /\ Bytes(end.kept) <= BytesTo(ms)[Len(ms)]
  BY <1>6 DEF ScanOK
<1>8. Bytes(end.kept) \in Nat
  BY <1>7, DebugMessageLemma, BytesTyped DEF Bytes
<1>9. q.numberOfMessages - end.deleted = Len(end.kept)
  BY <1>1, <1>7
<1>10. Bytes(end.kept) <= debugSize
  BY <1>1, <1>7, <1>8
<1>11. /\ q \in [messages : Seq(DebugMessage), usedSize : Int, numberOfMessages : Nat,
                 overdrawn : BOOLEAN]
  BY DEF SoundQueue
<1>12. /\ r.messages = end.kept /\ r.usedSize = Bytes(end.kept)
       /\ r.numberOfMessages = q.numberOfMessages - end.deleted
  BY <1>2, <1>11
<1>13. r \in [messages : Seq(DebugMessage), usedSize : Int, numberOfMessages : Nat,
              overdrawn : BOOLEAN]
  <2>1. r = [messages |-> end.kept, usedSize |-> Bytes(end.kept),
             numberOfMessages |-> q.numberOfMessages - end.deleted,
             overdrawn |-> q.overdrawn]
    BY <1>2, <1>11
  <2> QED
    BY <1>1, <1>7, <1>8, <1>9, <2>1
<1>14. SoundQueue(r)
  BY <1>7, <1>8, <1>9, <1>10, <1>12, <1>13 DEF SoundQueue
<1> QED
  BY <1>14 DEF r

-----------------------------------------------------------------------------
\* As many as there are numbers up to n.
LEMMA UptoCardinality ==
  ASSUME NEW n \in Nat PROVE IsFiniteSet(1 .. n) /\ Cardinality(1 .. n) = n
<1>1. 1 \in Int /\ n \in Int
  OBVIOUS
<1>2. /\ IsFiniteSet(1 .. n)
      /\ Cardinality(1 .. n) = IF 1 > n THEN 0 ELSE n - 1 + 1
  BY <1>1, FS_Interval
<1> QED
  BY <1>2

\* Positions of messages: how many there are up to one of them.
LEMMA RankIs ==
  ASSUME NEW n \in Nat, NEW K \in SUBSET (1 .. n)
  PROVE  /\ IsFiniteSet(K) /\ Cardinality(K) \in Nat
         /\ \A i \in Int : Rank(K, i) \in Nat /\ Rank(K, i) <= Cardinality(K)
         /\ \A i \in K : Rank(K, i) \in 1 .. Cardinality(K)
         /\ \A i, j \in K : i < j => Rank(K, i) < Rank(K, j)
<1> DEFINE Upto(i) == {k \in K : k <= i}
<1>1. IsFiniteSet(1 .. n)
  BY FS_Interval
<1>2. IsFiniteSet(K)
  BY <1>1, FS_Subset
<1>3. Cardinality(K) \in Nat
  BY <1>2, FS_CardinalityType
<1>4. ASSUME NEW i \in Int
      PROVE  /\ Rank(K, i) = Cardinality(Upto(i)) /\ IsFiniteSet(Upto(i))
             /\ Rank(K, i) \in Nat /\ Rank(K, i) <= Cardinality(K)
  <2>1. IsFiniteSet(Upto(i)) /\ Cardinality(Upto(i)) <= Cardinality(K)
    <3>1. Upto(i) \in SUBSET K
      OBVIOUS
    <3> QED
      BY <1>2, <3>1, FS_Subset
  <2>2. Cardinality(Upto(i)) \in Nat
    BY <2>1, FS_CardinalityType
  <2> QED
    BY <2>1, <2>2 DEF Rank
<1>5. ASSUME NEW i \in K PROVE Rank(K, i) # 0
  <2>1. i \in Int /\ i \in Upto(i)
    OBVIOUS
  <2> HIDE DEF Upto
  <2> QED
    BY <1>4, <2>1, FS_EmptySet
<1>6. ASSUME NEW i \in K, NEW j \in K, i < j PROVE Rank(K, i) < Rank(K, j)
  <2>1. i \in Int /\ j \in Int
    OBVIOUS
  <2>2. Upto(i) \in SUBSET Upto(j) /\ Upto(i) # Upto(j)
    <3>1. j \in Upto(j) /\ j \notin Upto(i)
      BY <1>6
    <3>2. \A k \in K : k \in Int /\ (k <= i => k <= j)
      BY <1>6, <2>1
    <3>3. Upto(i) \in SUBSET Upto(j)
      BY <3>2
    <3> QED
      BY <3>1, <3>3
  <2> HIDE DEF Upto
  <2>3. /\ Cardinality(Upto(i)) <= Cardinality(Upto(j))
        /\ Cardinality(Upto(i)) # Cardinality(Upto(j))
    BY <1>4, <2>1, <2>2, FS_Subset
  <2> QED
    BY <1>4, <2>1, <2>3
<1>7. \A i \in K : i \in Int
  OBVIOUS
<1>8. ASSUME NEW i \in K PROVE Rank(K, i) \in 1 .. Cardinality(K)
  <2>1. Rank(K, i) \in Nat /\ Rank(K, i) <= Cardinality(K) /\ Rank(K, i) # 0
    BY <1>4, <1>5, <1>7
  <2> QED
    BY <1>3, <2>1
<1> HIDE DEF Upto
<1> QED
  BY <1>2, <1>3, <1>4, <1>6, <1>8

\* Each number up to their number is the rank of one of them.
LEMMA RankReaches ==
  ASSUME NEW n \in Nat, NEW K \in SUBSET (1 .. n), NEW x \in 1 .. Cardinality(K)
  PROVE  \E i \in K : Rank(K, i) = x
<1> DEFINE f == [i \in K |-> Rank(K, i)]
           N == 1 .. Cardinality(K)
<1>1. f \in [K -> N]
  BY RankIs
<1>2. \A i, j \in K : f[i] = f[j] => i = j
  <2> SUFFICES ASSUME NEW i \in K, NEW j \in K, i # j PROVE Rank(K, i) # Rank(K, j)
    OBVIOUS
  <2>1. i \in Int /\ j \in Int
    OBVIOUS
  <2>2. Rank(K, i) \in Nat /\ Rank(K, j) \in Nat
    BY <2>1, RankIs
  <2>3. i < j \/ j < i
    BY <2>1
  <2>4. i < j => Rank(K, i) < Rank(K, j)
    BY RankIs
  <2>5. j < i => Rank(K, j) < Rank(K, i)
    BY RankIs
  <2> QED
    BY <2>2, <2>3, <2>4, <2>5
<1>3. IsFiniteSet(N) /\ Cardinality(N) = Cardinality(K)
  <2>1. Cardinality(K) \in Nat
    BY RankIs
  <2> QED
    BY <2>1, FS_Interval
<1> HIDE DEF f, N
<1>4. f \in Injection(K, N)
  BY <1>1, <1>2 DEF Injection, IsInjective
<1>5. f \in Surjection(K, N)
  BY <1>3, <1>4, FS_Injection
<1>6. \E i \in K : f[i] = x
  BY <1>5 DEF Surjection, N
<1> QED
  BY <1>6 DEF f

\* The messages at some positions: what they are, and that nothing else is.
LEMMA PickedIs ==
  ASSUME NEW ms \in Seq(DebugMessage), NEW K \in SUBSET (1 .. Len(ms))
  PROVE  /\ Picked(ms, K) \in Seq(DebugMessage) /\ Len(Picked(ms, K)) = Cardinality(K)
         /\ \A i \in K : Picked(ms, K)[Rank(K, i)] = ms[i]
<1>1. Len(ms) \in Nat /\ \A i \in K : i \in Int /\ ms[i] \in DebugMessage
  OBVIOUS
<1>2. Cardinality(K) \in Nat /\ \A i \in K : Rank(K, i) \in 1 .. Cardinality(K)
  BY <1>1, RankIs
<1> DEFINE at(x) == CHOOSE i \in K : Rank(K, i) = x
<1>3. ASSUME NEW x \in 1 .. Cardinality(K) PROVE at(x) \in K /\ Rank(K, at(x)) = x
  <2>1. \E i \in K : Rank(K, i) = x
    BY <1>1, RankReaches
  <2> QED
    BY <2>1
<1>4. Picked(ms, K) = [x \in 1 .. Cardinality(K) |-> ms[at(x)]]
  BY DEF Picked
<1> HIDE DEF at
<1>5. Picked(ms, K) \in Seq(DebugMessage) /\ Len(Picked(ms, K)) = Cardinality(K)
  <2>1. \A x \in 1 .. Cardinality(K) : ms[at(x)] \in DebugMessage
    BY <1>1, <1>3
  <2>2. Picked(ms, K) \in [1 .. Cardinality(K) -> DebugMessage]
    BY <1>4, <2>1
  <2> QED
    BY <1>2, <2>2
<1>6. ASSUME NEW i \in K PROVE Picked(ms, K)[Rank(K, i)] = ms[i]
  <2> DEFINE j == at(Rank(K, i))
  <2>1. j \in K /\ Rank(K, j) = Rank(K, i)
    BY <1>2, <1>3
  <2>2. Picked(ms, K)[Rank(K, i)] = ms[j]
    BY <1>2, <1>4
  <2>3. i \in Int /\ j \in Int /\ Rank(K, i) \in Nat
    <3>1. Rank(K, i) \in 1 .. Cardinality(K) /\ i \in Int
      BY <1>1, <1>2
    <3> HIDE DEF j
    <3>2. j \in Int
      BY <1>1, <2>1
    <3> QED
      BY <3>1, <3>2
  <2>4. (i < j => Rank(K, i) < Rank(K, j)) /\ (j < i => Rank(K, j) < Rank(K, i))
    BY <1>1, <2>1, RankIs
  <2> HIDE DEF j
  <2>5. i = j
    BY <2>1, <2>3, <2>4
  <2> QED
    BY <2>2, <2>5
<1> QED
  BY <1>5, <1>6

\* Only one sequence has the messages picked at their ranks.
LEMMA PickedOnly ==
  ASSUME NEW ms \in Seq(DebugMessage), NEW K \in SUBSET (1 .. Len(ms)),
         NEW r \in Seq(DebugMessage), Len(r) = Cardinality(K),
         \A i \in K : r[Rank(K, i)] = ms[i]
  PROVE  r = Picked(ms, K)
<1> DEFINE p == Picked(ms, K)
<1>1. p \in Seq(DebugMessage) /\ Len(p) = Len(r) /\ \A i \in K : p[Rank(K, i)] = ms[i]
  BY PickedIs
<1>2. ASSUME NEW x \in 1 .. Len(r) PROVE r[x] = p[x]
  <2>1. Len(ms) \in Nat
    OBVIOUS
  <2>2. PICK i \in K : Rank(K, i) = x
    BY <2>1, RankReaches
  <2> QED
    BY <1>1, <2>2
<1> HIDE DEF p
<1>3. r = p
  BY <1>1, <1>2, SeqEqual
<1> QED
  BY <1>3 DEF p

\* No message,
LEMMA PickedNone == ASSUME NEW ms PROVE Picked(ms, {}) = <<>>
<1>1. Cardinality({}) = 0
  BY FS_EmptySet
<1> QED
  BY <1>1 DEF Picked

\* one more,
LEMMA PickedAppend ==
  ASSUME NEW ms \in Seq(DebugMessage), NEW n \in Nat, NEW j \in n + 1 .. Len(ms),
         NEW K \in SUBSET (1 .. n)
  PROVE  Picked(ms, K \cup {j}) = Append(Picked(ms, K), ms[j])
<1> DEFINE J == K \cup {j}
           p == Picked(ms, K)
           r == Append(p, ms[j])
<1>1. /\ Len(ms) \in Nat /\ n \in Nat /\ j \in Int /\ ms[j] \in DebugMessage
      /\ K \in SUBSET (1 .. Len(ms)) /\ J \in SUBSET (1 .. Len(ms))
      /\ \A i \in K : i \in Int /\ i < j
  OBVIOUS
<1>2. IsFiniteSet(K) /\ Cardinality(K) \in Nat
  BY RankIs
<1>3. Cardinality(J) = Cardinality(K) + 1
  <2>1. j \notin K
    BY <1>1
  <2>2. Cardinality(K \cup {j}) = IF j \in K THEN Cardinality(K) ELSE Cardinality(K) + 1
    BY <1>2, FS_AddElement
  <2> QED
    BY <2>1, <2>2
<1>4. /\ p \in Seq(DebugMessage) /\ Len(p) = Cardinality(K)
      /\ \A i \in K : p[Rank(K, i)] = ms[i]
  BY <1>1, PickedIs
<1> HIDE DEF p
<1>5. r \in Seq(DebugMessage) /\ Len(r) = Cardinality(J)
  BY <1>1, <1>2, <1>3, <1>4
<1>6. ASSUME NEW i \in K PROVE r[Rank(J, i)] = ms[i]
  <2>1. {k \in J : k <= i} = {k \in K : k <= i}
    BY <1>1
  <2>2. Rank(J, i) = Rank(K, i) /\ Rank(K, i) \in 1 .. Len(p)
    BY <1>4, <2>1, RankIs DEF Rank
  <2>3. r[Rank(K, i)] = p[Rank(K, i)]
    BY <1>1, <1>4, <2>2
  <2> QED
    BY <1>4, <2>2, <2>3
<1>7. r[Rank(J, j)] = ms[j]
  <2>1. {k \in J : k <= j} = J
    <3>1. \A k \in J : k <= j
      BY <1>1
    <3> HIDE DEF J
    <3> QED
      BY <3>1
  <2>2. Rank(J, j) = Len(p) + 1
    BY <1>3, <1>4, <2>1 DEF Rank
  <2> QED
    BY <1>1, <1>4, <2>2
<1>8. \A i \in J : r[Rank(J, i)] = ms[i]
  BY <1>6, <1>7
<1> HIDE DEF r, J
<1>9. r = Picked(ms, J)
  BY <1>1, <1>5, <1>8, PickedOnly
<1> QED
  BY <1>9 DEF r, p, J

\* and the last one taken back.
LEMMA PickedBack ==
  ASSUME NEW ms \in Seq(DebugMessage), NEW n \in Nat, NEW j \in n + 1 .. Len(ms),
         NEW K \in SUBSET (1 .. n)
  PROVE  SubSeq(Picked(ms, K \cup {j}), 1, Cardinality(K)) = Picked(ms, K)
<1> DEFINE p == Picked(ms, K)
<1>1. K \in SUBSET (1 .. Len(ms)) /\ ms[j] \in DebugMessage
  OBVIOUS
<1>2. p \in Seq(DebugMessage) /\ Len(p) = Cardinality(K)
  BY <1>1, PickedIs
<1>3. Picked(ms, K \cup {j}) = Append(p, ms[j])
  BY PickedAppend
<1> HIDE DEF p
<1>4. SubSeq(Append(p, ms[j]), 1, Len(p)) = p
  BY <1>1, <1>2
<1> QED
  BY <1>2, <1>3, <1>4 DEF p

\* Only the messages at the positions count.
LEMMA PickedAgree ==
  ASSUME NEW ms \in Seq(DebugMessage), NEW ns \in Seq(DebugMessage),
         NEW K \in SUBSET (1 .. Len(ms)), K \in SUBSET (1 .. Len(ns)),
         \A i \in K : ms[i] = ns[i]
  PROVE  Picked(ms, K) = Picked(ns, K)
<1> DEFINE p == Picked(ms, K)
<1>1. p \in Seq(DebugMessage) /\ Len(p) = Cardinality(K) /\ \A i \in K : p[Rank(K, i)] = ns[i]
  BY PickedIs
<1> HIDE DEF p
<1>2. p = Picked(ns, K)
  BY <1>1, PickedOnly
<1> QED
  BY <1>2 DEF p

\* Some messages of a and everything behind them.
LEMMA PickedJoin ==
  ASSUME NEW a \in Seq(DebugMessage), NEW b \in Seq(DebugMessage),
         NEW K \in SUBSET (1 .. Len(a))
  PROVE  Picked(a \o b, K \cup (Len(a) + 1 .. Len(a) + Len(b))) = Picked(a, K) \o b
<1> DEFINE ms == a \o b
           upto(x) == Len(a) + 1 .. Len(a) + x
           J == K \cup upto(Len(b))
           p == Picked(a, K)
           r == p \o b
<1>1. /\ Len(a) \in Nat /\ Len(b) \in Nat /\ ms \in Seq(DebugMessage)
      /\ Len(ms) = Len(a) + Len(b)
      /\ \A i \in 1 .. Len(a) : ms[i] = a[i]
      /\ \A x \in 1 .. Len(b) : ms[Len(a) + x] = b[x]
  OBVIOUS
<1>2. \A i \in K : i \in Int /\ 1 <= i /\ i <= Len(a)
  BY <1>1
<1>3. J \in SUBSET (1 .. Len(ms))
  <2>1. ASSUME NEW i \in J PROVE i \in 1 .. Len(a) + Len(b)
    BY <1>1, <1>2
  <2> HIDE DEF J
  <2> QED
    BY <1>1, <2>1
<1>4. IsFiniteSet(K) /\ Cardinality(K) \in Nat
  BY <1>1, RankIs
<1>5. ASSUME NEW x \in 0 .. Len(b)
      PROVE  Cardinality(K \cup upto(x)) = Cardinality(K) + x
  <2>1. IsFiniteSet(upto(x)) /\ Cardinality(upto(x)) = x
    <3>1. Len(a) + 1 \in Int /\ Len(a) + x \in Int
      BY <1>1
    <3>2. /\ IsFiniteSet(upto(x))
          /\ Cardinality(upto(x)) = IF Len(a) + 1 > Len(a) + x
                                      THEN 0 ELSE (Len(a) + x) - (Len(a) + 1) + 1
      BY <3>1, FS_Interval
    <3> QED
      BY <1>1, <3>2
  <2>2. K \cap upto(x) = {}
    BY <1>1, <1>2
  <2> HIDE DEF upto
  <2>3. /\ Cardinality(K \cup upto(x))
             = Cardinality(K) + Cardinality(upto(x)) - Cardinality(K \cap upto(x))
    BY <1>4, <2>1, FS_Union
  <2>4. Cardinality(K \cap upto(x)) = 0
    BY <2>2, FS_EmptySet
  <2>5. x \in Nat
    OBVIOUS
  <2> QED
    BY <1>4, <2>1, <2>3, <2>4, <2>5
<1>6. /\ p \in Seq(DebugMessage) /\ Len(p) = Cardinality(K)
      /\ \A i \in K : p[Rank(K, i)] = a[i]
  BY PickedIs
<1> HIDE DEF p, ms
<1>7. r \in Seq(DebugMessage) /\ Len(r) = Cardinality(J)
  <2>1. Cardinality(J) = Cardinality(K) + Len(b)
    BY <1>1, <1>5
  <2> HIDE DEF J, upto
  <2>2. r \in Seq(DebugMessage) /\ Len(r) = Len(p) + Len(b)
    BY <1>6, ConcatProperties
  <2> QED
    BY <1>6, <2>1, <2>2
<1>8. ASSUME NEW i \in K PROVE r[Rank(J, i)] = ms[i]
  <2>1. {k \in J : k <= i} = {k \in K : k <= i}
    BY <1>1, <1>2
  <2>2. Rank(J, i) = Rank(K, i) /\ Rank(K, i) \in 1 .. Len(p)
    BY <1>1, <1>6, <2>1, RankIs DEF Rank
  <2>3. r[Rank(K, i)] = p[Rank(K, i)]
    BY <1>1, <1>6, <2>2
  <2> QED
    BY <1>1, <1>2, <1>6, <2>2, <2>3
<1>9. ASSUME NEW x \in 1 .. Len(b) PROVE r[Rank(J, Len(a) + x)] = ms[Len(a) + x]
  <2>1. {k \in J : k <= Len(a) + x} = K \cup upto(x)
    <3>1. \A k \in K : k <= Len(a) + x
      BY <1>1, <1>2
    <3>2. \A k \in upto(Len(b)) : k <= Len(a) + x <=> k \in upto(x)
      BY <1>1
    <3>3. upto(x) \subseteq upto(Len(b))
      BY <1>1
    <3> HIDE DEF upto
    <3> QED
      BY <3>1, <3>2, <3>3
  <2>2. Rank(J, Len(a) + x) = Len(p) + x
    <3>1. x \in 0 .. Len(b)
      BY <1>1
    <3>2. Cardinality(K \cup upto(x)) = Cardinality(K) + x
      BY <1>5, <3>1
    <3> HIDE DEF J, upto
    <3> QED
      BY <1>6, <2>1, <3>2 DEF Rank
  <2>3. r[Len(p) + x] = b[x]
    BY <1>1, <1>6
  <2> QED
    BY <1>1, <2>2, <2>3
<1>10. ASSUME NEW i \in J PROVE r[Rank(J, i)] = ms[i]
  <2>1. CASE i \in K
    BY <1>8, <2>1
  <2>2. CASE i \in upto(Len(b))
    <3> DEFINE x == i - Len(a)
    <3>1. x \in 1 .. Len(b) /\ Len(a) + x = i
      BY <1>1, <2>2
    <3> HIDE DEF x, r, J
    <3> QED
      BY <1>9, <3>1
  <2> QED
    BY <2>1, <2>2
<1> HIDE DEF r, J
<1>11. r = Picked(ms, J)
  BY <1>1, <1>3, <1>7, <1>10, PickedOnly
<1> QED
  BY <1>11 DEF r, p, J, ms

-----------------------------------------------------------------------------
\* The messages ns are those of ms at positions P, in their order; r says where they are.
Maps(ms, P, r, ns) ==
  /\ ms \in Seq(DebugMessage) /\ P \in SUBSET (1 .. Len(ms))
  /\ ns \in Seq(DebugMessage) /\ r \in [P -> 1 .. Len(ns)]
  /\ \A x \in 1 .. Len(ns) : \E i \in P : r[i] = x
  /\ \A i, j \in P : i < j <=> r[i] < r[j]
  /\ \A i \in P : ns[r[i]] = ms[i]

\* The messages picked are mapped by their ranks.
LEMMA PickedMaps ==
  ASSUME NEW ms \in Seq(DebugMessage), NEW P \in SUBSET (1 .. Len(ms))
  PROVE  Maps(ms, P, [i \in P |-> Rank(P, i)], Picked(ms, P))
<1> DEFINE r == [i \in P |-> Rank(P, i)]
           ns == Picked(ms, P)
<1>1. Len(ms) \in Nat /\ \A i \in P : i \in Int
  OBVIOUS
<1>2. /\ ns \in Seq(DebugMessage) /\ Len(ns) = Cardinality(P)
      /\ \A i \in P : ns[Rank(P, i)] = ms[i]
  BY PickedIs
<1>3. \A i \in P : Rank(P, i) \in 1 .. Cardinality(P)
  BY <1>1, RankIs
<1>4. ASSUME NEW x \in 1 .. Cardinality(P) PROVE \E i \in P : Rank(P, i) = x
  BY <1>1, RankReaches
<1>5. ASSUME NEW i \in P, NEW j \in P PROVE i < j <=> Rank(P, i) < Rank(P, j)
  <2>1. /\ i < j => Rank(P, i) < Rank(P, j)
        /\ j < i => Rank(P, j) < Rank(P, i)
    BY <1>1, RankIs
  <2>2. i \in Int /\ j \in Int /\ Rank(P, i) \in Int /\ Rank(P, j) \in Int
    BY <1>1, <1>3
  <2>3. i = j \/ i < j \/ j < i
    BY <2>2
  <2> QED
    BY <2>1, <2>2, <2>3
<1> HIDE DEF ns
<1>6. r \in [P -> 1 .. Len(ns)] /\ \A i \in P : r[i] = Rank(P, i)
  BY <1>2, <1>3
<1> HIDE DEF r
<1>7. /\ \A x \in 1 .. Len(ns) : \E i \in P : r[i] = x
      /\ \A i, j \in P : i < j <=> r[i] < r[j]
      /\ \A i \in P : ns[r[i]] = ms[i]
  BY <1>2, <1>4, <1>5, <1>6
<1>8. Maps(ms, P, r, ns)
  BY <1>2, <1>6, <1>7 DEF Maps
<1> QED
  BY <1>8 DEF r, ns

\* Where the messages at positions S of ms are in ns.
At(r, S) == {r[i] : i \in S}

\* As many positions are in ns as in ms.
LEMMA ImageCardinality ==
  ASSUME NEW ms, NEW P, NEW r, NEW ns, Maps(ms, P, r, ns), NEW S \in SUBSET P
  PROVE  /\ IsFiniteSet(S) /\ IsFiniteSet(At(r, S))
         /\ Cardinality(At(r, S)) = Cardinality(S)
<1> DEFINE T == At(r, S)
           g == [i \in S |-> r[i]]
<1>1. Len(ms) \in Nat /\ S \in SUBSET (1 .. Len(ms))
  BY DEF Maps
<1>2. IsFiniteSet(S)
  BY <1>1, RankIs
<1>3. \A i, j \in S : r[i] = r[j] => i = j
  <2> SUFFICES ASSUME NEW i \in S, NEW j \in S, i # j PROVE r[i] # r[j]
    OBVIOUS
  <2>1. i \in Int /\ j \in Int /\ i \in P /\ j \in P
    BY <1>1
  <2>2. r[i] \in Int /\ r[j] \in Int
    BY <2>1 DEF Maps
  <2>3. (i < j <=> r[i] < r[j]) /\ (j < i <=> r[j] < r[i])
    BY <2>1 DEF Maps
  <2> QED
    BY <2>1, <2>2, <2>3
<1>4. g \in [S -> T] /\ \A i \in S : g[i] = r[i]
  BY DEF At
<1>5. \A x \in T : \E i \in S : g[i] = x
  BY DEF At
<1> HIDE DEF g, T
<1>6. g \in Bijection(S, T)
  BY <1>3, <1>4, <1>5 DEF Bijection, Injection, Surjection, IsInjective
<1>7. ExistsBijection(S, T)
  BY <1>6 DEF ExistsBijection
<1>8. IsFiniteSet(T) /\ Cardinality(T) = Cardinality(S)
  BY <1>2, <1>7, FS_Bijection
<1> QED
  BY <1>2, <1>8 DEF T

\* What is picked from the messages picked.
LEMMA PickedPicked ==
  ASSUME NEW ms, NEW P, NEW r, NEW ns, Maps(ms, P, r, ns), NEW K \in SUBSET P
  PROVE  Picked(ns, At(r, K)) = Picked(ms, K)
<1> DEFINE J == At(r, K)
           p == Picked(ms, K)
<1>1. /\ ms \in Seq(DebugMessage) /\ ns \in Seq(DebugMessage) /\ P \in SUBSET (1 .. Len(ms))
      /\ r \in [P -> 1 .. Len(ns)] /\ K \in SUBSET (1 .. Len(ms)) /\ J \in SUBSET (1 .. Len(ns))
      /\ \A k \in K : k \in Int /\ k \in P
  <2>1. /\ ms \in Seq(DebugMessage) /\ ns \in Seq(DebugMessage) /\ P \in SUBSET (1 .. Len(ms))
        /\ r \in [P -> 1 .. Len(ns)]
    BY DEF Maps
  <2>2. \A k \in K : k \in P /\ k \in Int /\ r[k] \in 1 .. Len(ns)
    BY <2>1
  <2>3. J \in SUBSET (1 .. Len(ns))
    BY <2>2 DEF At
  <2>4. K \in SUBSET (1 .. Len(ms))
    BY <2>1
  <2> QED
    BY <2>1, <2>2, <2>3, <2>4
<1>2. /\ p \in Seq(DebugMessage) /\ Len(p) = Cardinality(K)
      /\ \A i \in K : p[Rank(K, i)] = ms[i]
  BY <1>1, PickedIs
<1> HIDE DEF p
<1>3. Len(p) = Cardinality(J)
  BY <1>2, ImageCardinality
<1>4. ASSUME NEW i \in K PROVE p[Rank(J, r[i])] = ns[r[i]]
  <2> DEFINE S == {k \in K : k <= i}
  <2>1. \A k \in K : k <= i <=> r[k] <= r[i]
    <3> SUFFICES ASSUME NEW k \in K PROVE k <= i <=> r[k] <= r[i]
      OBVIOUS
    <3> HIDE DEF S, J
    <3>1. k \in Int /\ i \in Int /\ k \in P /\ i \in P
      BY <1>1
    <3>2. r[k] \in Int /\ r[i] \in Int
      BY <1>1, <3>1
    <3>3. i < k <=> r[i] < r[k]
      BY <3>1 DEF Maps
    <3> QED
      BY <3>1, <3>2, <3>3
  <2>2. {x \in J : x <= r[i]} = At(r, S)
    BY <2>1 DEF At
  <2>3. Cardinality(At(r, S)) = Cardinality(S)
    <3>1. S \in SUBSET P
      OBVIOUS
    <3> QED
      BY <3>1, ImageCardinality
  <2>4. Rank(J, r[i]) = Rank(K, i)
    BY <2>2, <2>3 DEF Rank
  <2>5. ns[r[i]] = ms[i]
    BY DEF Maps
  <2> QED
    BY <1>2, <2>4, <2>5
<1>5. \A x \in J : p[Rank(J, x)] = ns[x]
  BY <1>4 DEF At
<1> HIDE DEF J
<1>6. p = Picked(ns, J)
  BY <1>1, <1>2, <1>3, <1>5, PickedOnly
<1> QED
  BY <1>6 DEF p, J

-----------------------------------------------------------------------------
\* Positions have a first
LEMMA FirstOf ==
  ASSUME NEW S \in SUBSET Nat, S /= {}
  PROVE  \E m \in S : \A x \in S : m <= x
<1>1. PICK m \in S : \A x \in S : ~(<<x, m>> \in OpToRel(<, Nat))
  BY WFMin, NatLessThanWellFounded
<1>2. ASSUME NEW x \in S PROVE m <= x
  <2>1. x \in Nat /\ m \in Nat
    OBVIOUS
  <2>2. x < m => <<x, m>> \in OpToRel(<, Nat)
    BY <2>1 DEF OpToRel
  <2>3. ~(x < m)
    BY <1>1, <2>2
  <2> QED
    BY <2>1, <2>3
<1> QED
  BY <1>2

\* and a last one.
LEMMA LastOf ==
  ASSUME NEW n \in Nat, NEW S \in SUBSET (1 .. n), S /= {}
  PROVE  \E m \in S : \A x \in S : x <= m
<1> DEFINE D == {d \in Nat : d <= n /\ n - d \in S}
<1>1. D \in SUBSET Nat /\ D /= {}
  <2>1. PICK x \in S : TRUE
    OBVIOUS
  <2>2. n - x \in Nat /\ n - x <= n /\ n - (n - x) = x
    BY <2>1
  <2>3. n - x \in D
    BY <2>1, <2>2
  <2> QED
    BY <2>3
<1>2. PICK d \in D : \A e \in D : d <= e
  <2> HIDE DEF D
  <2> QED
    BY <1>1, FirstOf
<1>3. ASSUME NEW x \in S PROVE x <= n - d
  <2>1. x \in Int /\ d \in Nat /\ n - x \in Nat /\ n - x <= n /\ n - (n - x) = x
    BY <1>2
  <2>2. n - x \in D
    BY <2>1
  <2>3. d <= n - x
    BY <1>2, <2>2
  <2> QED
    BY <2>1, <2>3
<1>4. n - d \in S
  BY <1>2
<1> QED
  BY <1>3, <1>4

\* Message j is the last idFrameBegin up to i.
LastBegin(ms, j, i) ==
  /\ j \in 1 .. i /\ ms[j].id = "idFrameBegin"
  /\ \A k \in j + 1 .. i : ms[k].id /= "idFrameBegin"

\* Without an idFrameBegin in between, the sender stays the same.
LEMMA SenderSame ==
  ASSUME NEW ms, NEW k \in Nat, NEW i \in Nat, k <= i,
         \A j \in k + 1 .. i : ms[j].id /= "idFrameBegin"
  PROVE  Sender(ms, i) = Sender(ms, k)
<1> DEFINE begins(x) == {j \in 1 .. x : ms[j].id = "idFrameBegin"}
<1>1. begins(i) = begins(k)
  <2>1. \A j \in 1 .. i : j \in 1 .. k \/ j \in k + 1 .. i
    OBVIOUS
  <2>2. \A j \in 1 .. k : j \in 1 .. i
    OBVIOUS
  <2> QED
    BY <2>1, <2>2
<1> QED
  BY <1>1 DEF Sender

\* The sender is who sent the last idFrameBegin, if there is one.
LEMMA SenderIs ==
  ASSUME NEW ms, NEW i \in Nat, Len(ms) \in Nat, i <= Len(ms)
  PROVE  /\ \A j \in 1 .. i : LastBegin(ms, j, i) => Sender(ms, i) = ms[j].from
         /\ (\A j \in 1 .. i : ms[j].id /= "idFrameBegin") => Sender(ms, i) = Unknown
         /\ (\A j \in 1 .. i : ms[j].id /= "idFrameBegin") \/ \E j \in 1 .. i : LastBegin(ms, j, i)
<1>1. ASSUME NEW j \in 1 .. i, LastBegin(ms, j, i) PROVE Sender(ms, i) = ms[j].from
  <2>1. /\ j \in Nat /\ j <= i /\ j \in 1 .. Len(ms) /\ ms[j].id = "idFrameBegin"
        /\ \A k \in j + 1 .. i : ms[k].id /= "idFrameBegin"
    BY <1>1 DEF LastBegin
  <2>2. Sender(ms, i) = Sender(ms, j)
    BY <2>1, SenderSame
  <2> QED
    BY <2>1, <2>2, SenderStep
<1>2. ASSUME \A j \in 1 .. i : ms[j].id /= "idFrameBegin" PROVE Sender(ms, i) = Unknown
  <2>1. \A j \in 0 + 1 .. i : ms[j].id /= "idFrameBegin"
    BY <1>2
  <2>2. 0 \in Nat /\ 0 <= i
    OBVIOUS
  <2>3. Sender(ms, i) = Sender(ms, 0)
    BY <2>1, <2>2, SenderSame
  <2> QED
    BY <2>3, SenderStep
<1>3. ASSUME ~(\A j \in 1 .. i : ms[j].id /= "idFrameBegin")
      PROVE  \E j \in 1 .. i : LastBegin(ms, j, i)
  <2> DEFINE S == {j \in 1 .. i : ms[j].id = "idFrameBegin"}
  <2>1. S \in SUBSET (1 .. i) /\ S /= {}
    BY <1>3
  <2>2. PICK j \in S : \A x \in S : x <= j
    <3> HIDE DEF S
    <3> QED
      BY <2>1, LastOf
  <2>3. j \in 1 .. i /\ ms[j].id = "idFrameBegin"
    BY <2>2
  <2>4. ASSUME NEW k \in j + 1 .. i PROVE ms[k].id /= "idFrameBegin"
    <3>1. k \in 1 .. i /\ k > j
      BY <2>3
    <3> QED
      BY <2>2, <2>3, <3>1
  <2> QED
    BY <2>3, <2>4 DEF LastBegin
<1> QED
  BY <1>1, <1>2, <1>3

-----------------------------------------------------------------------------
\* Positions P keep what matters: every message that stays, the idFrameBegin each of the
\* messages is behind, and the ends of all frames of its thread that are behind a message
\* kept only for the latest frame.
Enough(ms, P) ==
  /\ P \in SUBSET (1 .. Len(ms))
  /\ \A i \in 1 .. Len(ms) : Stays(ms, i) => i \in P
  /\ \A i \in P, j \in 1 .. Len(ms) : LastBegin(ms, j, i) => j \in P
  /\ \A i \in P : ms[i].id \in LatestFrameOnly =>
       Left(ms, i, Sender(ms, i), "idFrameFinished") \in SUBSET P

\* Typing and order of what Maps relates, in a form that the steps below use.
LEMMA MapsFacts ==
  ASSUME NEW ms, NEW P, NEW r, NEW ns, Maps(ms, P, r, ns)
  PROVE  /\ Len(ms) \in Nat /\ Len(ns) \in Nat
         /\ \A i \in P : /\ i \in Int /\ 1 <= i /\ i <= Len(ms)
                         /\ r[i] \in Int /\ 1 <= r[i] /\ r[i] <= Len(ns)
                         /\ ns[r[i]] = ms[i]
         /\ \A x \in 1 .. Len(ns) : \E i \in P : r[i] = x
         /\ \A i, j \in P : (i < j <=> r[i] < r[j]) /\ (i <= j <=> r[i] <= r[j])
<1>1. /\ Len(ms) \in Nat /\ Len(ns) \in Nat
      /\ \A i \in P : i \in 1 .. Len(ms) /\ r[i] \in 1 .. Len(ns)
  BY DEF Maps
<1>2. /\ \A x \in 1 .. Len(ns) : \E i \in P : r[i] = x
      /\ \A i, j \in P : i < j <=> r[i] < r[j]
      /\ \A i \in P : ns[r[i]] = ms[i]
  BY DEF Maps
<1>3. \A i \in P : /\ i \in Int /\ 1 <= i /\ i <= Len(ms)
                   /\ r[i] \in Int /\ 1 <= r[i] /\ r[i] <= Len(ns)
  BY <1>1
<1>4. ASSUME NEW i \in P, NEW j \in P PROVE i <= j <=> r[i] <= r[j]
  <2>1. i \in Int /\ j \in Int /\ r[i] \in Int /\ r[j] \in Int /\ (j < i <=> r[j] < r[i])
    BY <1>2, <1>3
  <2> QED
    BY <2>1
<1> QED
  BY <1>1, <1>2, <1>3, <1>4

\* The senders are the same,
LEMMA SenderMaps ==
  ASSUME NEW ms, NEW P, NEW r, NEW ns, Maps(ms, P, r, ns), Enough(ms, P), NEW i \in P
  PROVE  Sender(ns, r[i]) = Sender(ms, i)
<1>1. /\ Len(ms) \in Nat /\ Len(ns) \in Nat
      /\ i \in Nat /\ i <= Len(ms) /\ r[i] \in Nat /\ r[i] <= Len(ns)
  BY MapsFacts
<1>2. CASE \E j \in 1 .. i : LastBegin(ms, j, i)
  <2>1. PICK j \in 1 .. i : LastBegin(ms, j, i)
    BY <1>2
  <2>2. j \in 1 .. Len(ms)
    BY <1>1
  <2>3. j \in P
    BY <2>1, <2>2 DEF Enough
  <2>4. r[j] \in 1 .. r[i] /\ ns[r[j]].id = "idFrameBegin" /\ ns[r[j]].from = ms[j].from
    <3>1. r[j] \in Int /\ 1 <= r[j] /\ r[j] <= r[i] /\ ns[r[j]] = ms[j]
      BY <2>3, MapsFacts
    <3> QED
      BY <1>1, <2>1, <3>1 DEF LastBegin
  <2>5. ASSUME NEW y \in r[j] + 1 .. r[i] PROVE ns[y].id /= "idFrameBegin"
    <3>1. y \in 1 .. Len(ns) /\ r[j] < y /\ y <= r[i]
      BY <1>1, <2>4
    <3>2. PICK k \in P : r[k] = y
      BY <3>1, MapsFacts
    <3>3. j < k /\ k <= i /\ k \in Int /\ ns[r[k]] = ms[k]
      BY <2>3, <3>1, <3>2, MapsFacts
    <3>4. k \in j + 1 .. i
      BY <3>3
    <3> QED
      BY <2>1, <3>2, <3>3, <3>4 DEF LastBegin
  <2>6. LastBegin(ns, r[j], r[i])
    BY <2>4, <2>5 DEF LastBegin
  <2>7. Sender(ns, r[i]) = ns[r[j]].from /\ Sender(ms, i) = ms[j].from
    BY <1>1, <2>1, <2>4, <2>6, SenderIs
  <2> QED
    BY <2>4, <2>7
<1>3. CASE \A j \in 1 .. i : ms[j].id /= "idFrameBegin"
  <2>1. ASSUME NEW y \in 1 .. r[i] PROVE ns[y].id /= "idFrameBegin"
    <3>1. y \in 1 .. Len(ns) /\ y <= r[i]
      BY <1>1
    <3>2. PICK k \in P : r[k] = y
      BY <3>1, MapsFacts
    <3>3. k <= i /\ k \in Int /\ 1 <= k /\ ns[r[k]] = ms[k]
      BY <3>1, <3>2, MapsFacts
    <3> QED
      BY <1>3, <3>2, <3>3
  <2>2. Sender(ns, r[i]) = Unknown /\ Sender(ms, i) = Unknown
    BY <1>1, <1>3, <2>1, SenderIs
  <2> QED
    BY <2>2
<1> QED
  BY <1>1, <1>2, <1>3, SenderIs

\* and what is left in ns is what is left in ms of the positions P.
LEMMA LeftMaps ==
  ASSUME NEW ms, NEW P, NEW r, NEW ns, Maps(ms, P, r, ns), Enough(ms, P), NEW i \in P,
         NEW name, NEW id
  PROVE  Left(ns, r[i], name, id) = At(r, Left(ms, i, name, id) \cap P)
<1>1. Len(ms) \in Nat /\ Len(ns) \in Nat /\ i \in Int /\ 1 <= i /\ r[i] \in Int /\ 1 <= r[i]
  BY MapsFacts
<1>2. ASSUME NEW y \in Left(ns, r[i], name, id)
      PROVE  \E k \in Left(ms, i, name, id) \cap P : r[k] = y
  <2>1. y \in r[i] + 1 .. Len(ns) /\ ns[y].id = id /\ Sender(ns, y) = name
    BY DEF Left
  <2>2. y \in 1 .. Len(ns) /\ r[i] < y
    BY <1>1, <2>1
  <2>3. PICK k \in P : r[k] = y
    BY <2>2, MapsFacts
  <2>4. i < k /\ k \in Int /\ k <= Len(ms) /\ ms[k] = ns[y] /\ Sender(ms, k) = Sender(ns, y)
    BY <2>2, <2>3, MapsFacts, SenderMaps
  <2>5. k \in i + 1 .. Len(ms)
    BY <1>1, <2>4
  <2> QED
    BY <2>1, <2>3, <2>4, <2>5 DEF Left
<1>3. ASSUME NEW k \in Left(ms, i, name, id) \cap P PROVE r[k] \in Left(ns, r[i], name, id)
  <2>1. k \in i + 1 .. Len(ms) /\ k \in P /\ ms[k].id = id /\ Sender(ms, k) = name
    BY DEF Left
  <2>2. i < k
    BY <1>1, <2>1
  <2>3. /\ r[i] < r[k] /\ r[k] \in Int /\ r[k] <= Len(ns) /\ ns[r[k]] = ms[k]
        /\ Sender(ns, r[k]) = Sender(ms, k)
    BY <2>1, <2>2, MapsFacts, SenderMaps
  <2>4. r[k] \in r[i] + 1 .. Len(ns)
    BY <1>1, <2>3
  <2> QED
    BY <2>1, <2>3, <2>4 DEF Left
<1> QED
  BY <1>2, <1>3 DEF At

-----------------------------------------------------------------------------
\* Kept, Carries and Stays by cases.
LEMMA KeptIs ==
  ASSUME NEW ms, NEW i
  PROVE  LET later(id) == Left(ms, i, Sender(ms, i), id)
             id == ms[i].id
         IN  /\ id \in AlwaysKept => Kept(ms, i)
             /\ id \in LatestFrameOnly =>
                  (Kept(ms, i) <=> Cardinality(later("idFrameFinished")) = 1)
             /\ id = "idText" => (Kept(ms, i) <=> Cardinality(later("idText")) <= TextLimit)
             /\ id \notin AlwaysKept \cup LatestFrameOnly \cup {"idText"} =>
                  (Kept(ms, i) <=> later(id) = {})
<1> DEFINE id == ms[i].id
<1>1. AlwaysKept \cap LatestFrameOnly = {} /\ "idText" \notin AlwaysKept \cup LatestFrameOnly
  BY DEF AlwaysKept, LatestFrameOnly
<1>2. ASSUME id \in AlwaysKept PROVE Kept(ms, i)
  BY <1>1, <1>2 DEF Kept
<1>3. ASSUME id \in LatestFrameOnly
      PROVE  Kept(ms, i) <=> Cardinality(Left(ms, i, Sender(ms, i), "idFrameFinished")) = 1
  BY <1>1, <1>3 DEF Kept
<1>4. ASSUME id = "idText"
      PROVE  Kept(ms, i) <=> Cardinality(Left(ms, i, Sender(ms, i), "idText")) <= TextLimit
  BY <1>1, <1>4 DEF Kept
<1>5. ASSUME id \notin AlwaysKept \cup LatestFrameOnly \cup {"idText"}
      PROVE  Kept(ms, i) <=> Left(ms, i, Sender(ms, i), id) = {}
  BY <1>5 DEF Kept
<1> QED
  BY <1>2, <1>3, <1>4, <1>5

\* The cases of Stays, and that what carries information stays.
LEMMA StaysIs ==
  ASSUME NEW ms, NEW i
  PROVE  /\ ms[i].id = "idFrameBegin" =>
              (Stays(ms, i) <=> \/ NoneBetween(ms, i, Len(ms) + 1, {"idFrameBegin"})
                                \/ \E k \in i + 1 .. Len(ms) :
                                     Carries(ms, k) /\ NoneBetween(ms, i, k, {"idFrameBegin"}))
         /\ ms[i].id = "idFrameFinished" =>
              (Stays(ms, i) <=> \E k \in 1 .. i - 1 :
                                  Carries(ms, k) /\ NoneBetween(ms, k, i, Brackets))
         /\ ms[i].id \notin Brackets => (Stays(ms, i) <=> Kept(ms, i))
         /\ Carries(ms, i) => Stays(ms, i) /\ Kept(ms, i) /\ ms[i].id \notin Brackets
<1>1. ASSUME ms[i].id = "idFrameBegin"
      PROVE  Stays(ms, i) <=> \/ NoneBetween(ms, i, Len(ms) + 1, {"idFrameBegin"})
                              \/ \E k \in i + 1 .. Len(ms) :
                                   Carries(ms, k) /\ NoneBetween(ms, i, k, {"idFrameBegin"})
  BY <1>1 DEF Stays
<1>2. ASSUME ms[i].id = "idFrameFinished"
      PROVE  Stays(ms, i) <=> \E k \in 1 .. i - 1 :
                                Carries(ms, k) /\ NoneBetween(ms, k, i, Brackets)
  BY <1>2 DEF Stays
<1>3. ASSUME ms[i].id \notin Brackets PROVE Stays(ms, i) <=> Kept(ms, i)
  BY <1>3 DEF Stays, Brackets
<1>4. Carries(ms, i) => Kept(ms, i) /\ ms[i].id \notin Brackets
  BY DEF Carries
<1> QED
  BY <1>1, <1>2, <1>3, <1>4

\* What is left behind one of those that are left.
LEMMA LeftBehind ==
  ASSUME NEW ms, Len(ms) \in Nat, NEW i \in Int, NEW name, NEW id,
         NEW m \in Left(ms, i, name, id)
  PROVE  /\ m \in Int /\ i < m /\ m <= Len(ms) /\ ms[m].id = id /\ Sender(ms, m) = name
         /\ Left(ms, m, name, id) = {x \in Left(ms, i, name, id) : m < x}
<1>1. m \in i + 1 .. Len(ms) /\ ms[m].id = id /\ Sender(ms, m) = name
  BY DEF Left
<1>2. ASSUME NEW x \in Left(ms, m, name, id) PROVE x \in Left(ms, i, name, id) /\ m < x
  <2>1. x \in m + 1 .. Len(ms) /\ ms[x].id = id /\ Sender(ms, x) = name
    BY DEF Left
  <2>2. x \in i + 1 .. Len(ms) /\ m < x
    BY <1>1, <2>1
  <2> QED
    BY <2>1, <2>2 DEF Left
<1>3. ASSUME NEW x \in Left(ms, i, name, id), m < x PROVE x \in Left(ms, m, name, id)
  <2>1. x \in i + 1 .. Len(ms) /\ ms[x].id = id /\ Sender(ms, x) = name
    BY DEF Left
  <2>2. x \in m + 1 .. Len(ms)
    BY <1>1, <1>3, <2>1
  <2> QED
    BY <2>1, <2>2 DEF Left
<1>4. Left(ms, m, name, id) = {x \in Left(ms, i, name, id) : m < x}
  BY <1>2, <1>3
<1>5. m \in Int /\ i < m /\ m <= Len(ms)
  BY <1>1
<1> QED
  BY <1>1, <1>4, <1>5

\* The messages left are finitely many.
LEMMA LeftSet ==
  ASSUME NEW ms, Len(ms) \in Nat, NEW i \in Nat, NEW name, NEW id
  PROVE  /\ Left(ms, i, name, id) \in SUBSET (1 .. Len(ms))
         /\ IsFiniteSet(Left(ms, i, name, id)) /\ Cardinality(Left(ms, i, name, id)) \in Nat
         /\ \A S \in SUBSET Left(ms, i, name, id) :
              /\ IsFiniteSet(S) /\ Cardinality(S) \in Nat
              /\ Cardinality(S) <= Cardinality(Left(ms, i, name, id))
<1>1. Left(ms, i, name, id) \in SUBSET (1 .. Len(ms))
  <2>1. \A x \in i + 1 .. Len(ms) : x \in 1 .. Len(ms)
    OBVIOUS
  <2> QED
    BY <2>1 DEF Left
<1>2. IsFiniteSet(Left(ms, i, name, id)) /\ Cardinality(Left(ms, i, name, id)) \in Nat
  BY <1>1, RankIs
<1>3. ASSUME NEW S \in SUBSET Left(ms, i, name, id)
      PROVE  /\ IsFiniteSet(S) /\ Cardinality(S) \in Nat
             /\ Cardinality(S) <= Cardinality(Left(ms, i, name, id))
  <2>1. S \in SUBSET (1 .. Len(ms))
    BY <1>1
  <2>2. Cardinality(S) <= Cardinality(Left(ms, i, name, id))
    BY <1>2, FS_Subset
  <2> QED
    BY <2>1, <2>2, RankIs
<1> QED
  BY <1>1, <1>2, <1>3

\* A message of ms at one of the positions is repeated in ns if and only if it is in ms.
LEMMA KeptMaps ==
  ASSUME NEW ms, NEW P, NEW r, NEW ns, Maps(ms, P, r, ns), Enough(ms, P), NEW i \in P,
         ms[i].id \notin Brackets
  PROVE  Kept(ns, r[i]) <=> Kept(ms, i)
<1> DEFINE name == Sender(ms, i)
           later(id) == Left(ms, i, name, id)
<1>1. /\ Len(ms) \in Nat /\ Len(ns) \in Nat /\ i \in Nat /\ ns[r[i]] = ms[i]
      /\ Sender(ns, r[i]) = name
  BY MapsFacts, SenderMaps
<1>2. ASSUME NEW id
      PROVE  /\ IsFiniteSet(later(id) \cap P)
             /\ Cardinality(Left(ns, r[i], name, id)) = Cardinality(later(id) \cap P)
             /\ Cardinality(later(id) \cap P) \in Nat /\ Cardinality(later(id)) \in Nat
             /\ Cardinality(later(id) \cap P) <= Cardinality(later(id))
             /\ Left(ns, r[i], name, id) = {} <=> later(id) \cap P = {}
  <2>1. later(id) \cap P \in SUBSET P /\ later(id) \cap P \in SUBSET later(id)
    OBVIOUS
  <2>2. Left(ns, r[i], name, id) = At(r, later(id) \cap P)
    BY LeftMaps
  <2> HIDE DEF later
  <2>3. /\ IsFiniteSet(later(id) \cap P)
        /\ Cardinality(Left(ns, r[i], name, id)) = Cardinality(later(id) \cap P)
    BY <2>1, <2>2, ImageCardinality
  <2>4. Left(ns, r[i], name, id) = {} <=> later(id) \cap P = {}
    BY <2>2 DEF At
  <2>5. /\ Cardinality(later(id)) \in Nat /\ Cardinality(later(id) \cap P) \in Nat
        /\ Cardinality(later(id) \cap P) <= Cardinality(later(id))
    BY <1>1, <2>1, LeftSet DEF later
  <2> QED
    BY <2>3, <2>4, <2>5
<1>3. ASSUME NEW id, id \notin Brackets, NEW m \in later(id), Kept(ms, m) PROVE m \in P
  <2>1. m \in 1 .. Len(ms) /\ ms[m].id = id
    BY <1>1, LeftBehind, LeftSet
  <2>2. Stays(ms, m)
    BY <1>3, <2>1, StaysIs
  <2> QED
    BY <2>1, <2>2 DEF Enough
<1>4. CASE ms[i].id \in AlwaysKept
  BY <1>1, <1>4, KeptIs
<1>5. CASE ms[i].id \in LatestFrameOnly
  <2>1. later("idFrameFinished") \cap P = later("idFrameFinished")
    BY <1>5 DEF Enough
  <2>2. Kept(ms, i) <=> Cardinality(later("idFrameFinished")) = 1
    BY <1>5, KeptIs
  <2>3. Kept(ns, r[i]) <=> Cardinality(Left(ns, r[i], name, "idFrameFinished")) = 1
    BY <1>1, <1>5, KeptIs
  <2> HIDE DEF later, name
  <2> QED
    BY <1>2, <2>1, <2>2, <2>3
<1>6. CASE ms[i].id = "idText"
  <2> DEFINE S == later("idText")
             Q == S \cap P
  <2>1. Kept(ms, i) <=> Cardinality(S) <= TextLimit
    BY <1>6, KeptIs
  <2>2. Kept(ns, r[i]) <=> Cardinality(Left(ns, r[i], name, "idText")) <= TextLimit
    BY <1>1, <1>6, KeptIs
  <2>3. /\ IsFiniteSet(Q) /\ Cardinality(Q) \in Nat /\ Cardinality(S) \in Nat
        /\ Cardinality(Q) <= Cardinality(S)
        /\ Cardinality(Left(ns, r[i], name, "idText")) = Cardinality(Q)
    BY <1>2
  <2>4. ASSUME Cardinality(Q) <= TextLimit PROVE S \in SUBSET P
    <3> DEFINE R == S \ P
    <3> SUFFICES ASSUME R /= {} PROVE FALSE
      OBVIOUS
    <3>1. S \in SUBSET (1 .. Len(ms))
      BY <1>1, LeftSet
    <3>2. PICK m \in R : \A x \in R : x <= m
      <4> HIDE DEF S
      <4>1. R \in SUBSET (1 .. Len(ms))
        BY <3>1
      <4> HIDE DEF R
      <4> QED
        BY <1>1, <4>1, LastOf
    <3>3. m \in S /\ m \notin P
      BY <3>2
    <3>4. /\ m \in Nat /\ ms[m].id = "idText" /\ Sender(ms, m) = name
          /\ Left(ms, m, name, "idText") = {x \in S : m < x}
      <4>1. m \in 1 .. Len(ms)
        BY <3>1, <3>3
      <4> QED
        BY <1>1, <3>3, <4>1, LeftBehind
    <3>5. Left(ms, m, name, "idText") \in SUBSET Q
      <4> HIDE DEF S
      <4>1. ASSUME NEW x \in S, m < x PROVE x \in P
        <5>1. x \in Int /\ ~(x <= m)
          BY <3>1, <3>4, <4>1
        <5> QED
          BY <3>2, <5>1
      <4> QED
        BY <3>4, <4>1
    <3>6. Cardinality(Left(ms, m, name, "idText")) <= Cardinality(Q)
      <4> HIDE DEF Q
      <4> QED
        BY <2>3, <3>5, FS_Subset
    <3>7. Cardinality(Left(ms, m, name, "idText")) \in Nat
      BY <1>1, <3>4, LeftSet
    <3>8. Cardinality(Left(ms, m, name, "idText")) <= TextLimit
      <4> HIDE DEF Q
      <4> QED
        BY <2>3, <2>4, <3>6, <3>7, DebugQueueAssumption
    <3>9. Kept(ms, m)
      BY <3>4, <3>8, KeptIs
    <3>10. "idText" \notin Brackets
      BY DEF Brackets
    <3> QED
      BY <1>3, <3>3, <3>9, <3>10
  <2>5. ASSUME S \in SUBSET P PROVE Q = S
    BY <2>5
  <2> HIDE DEF Q, S
  <2> QED
    BY <2>1, <2>2, <2>3, <2>4, <2>5, DebugQueueAssumption
<1>7. CASE ms[i].id \notin AlwaysKept \cup LatestFrameOnly \cup {"idText"}
  <2> DEFINE S == later(ms[i].id)
  <2>1. Kept(ms, i) <=> S = {}
    BY <1>7, KeptIs
  <2>2. Kept(ns, r[i]) <=> S \cap P = {}
    <3>1. Kept(ns, r[i]) <=> Left(ns, r[i], name, ms[i].id) = {}
      BY <1>1, <1>7, KeptIs
    <3> QED
      BY <1>2, <3>1
  <2>3. ASSUME S /= {} PROVE S \cap P /= {}
    <3>1. S \in SUBSET (1 .. Len(ms))
      BY <1>1, LeftSet
    <3>2. PICK m \in S : \A x \in S : x <= m
      <4> HIDE DEF S
      <4> QED
        BY <1>1, <2>3, <3>1, LastOf
    <3>3. /\ m \in Nat /\ ms[m].id = ms[i].id /\ Sender(ms, m) = name
          /\ Left(ms, m, name, ms[i].id) = {x \in S : m < x}
      <4>1. m \in 1 .. Len(ms)
        BY <3>1, <3>2
      <4> QED
        BY <1>1, <3>2, <4>1, LeftBehind
    <3>4. {x \in S : m < x} = {}
      <4> HIDE DEF S
      <4>1. ASSUME NEW x \in S PROVE ~(m < x)
        <5>1. x \in Int /\ x <= m
          BY <3>1, <3>2
        <5> QED
          BY <3>3, <5>1
      <4> QED
        BY <4>1
    <3>5. Kept(ms, m)
      BY <1>7, <3>3, <3>4, KeptIs
    <3>6. m \in P
      BY <1>3, <3>2, <3>5
    <3> QED
      BY <3>2, <3>6
  <2> HIDE DEF S
  <2> QED
    BY <2>1, <2>2, <2>3
<1> QED
  BY <1>4, <1>5, <1>6, <1>7

\* Between two messages picked there is none of the types ids if none was picked there.
LEMMA NoneMaps ==
  ASSUME NEW ms, NEW P, NEW r, NEW ns, Maps(ms, P, r, ns), NEW i \in P, NEW j \in P, NEW ids
  PROVE  NoneBetween(ns, r[i], r[j], ids)
           <=> \A k \in P : i < k /\ k < j => ms[k].id \notin ids
<1>1. ASSUME NoneBetween(ns, r[i], r[j], ids), NEW k \in P, i < k, k < j
      PROVE  ms[k].id \notin ids
  <2>1. /\ r[i] \in Int /\ r[k] \in Int /\ r[j] \in Int /\ r[i] < r[k] /\ r[k] < r[j]
        /\ ns[r[k]] = ms[k]
    BY <1>1, MapsFacts
  <2>2. r[k] \in r[i] + 1 .. r[j] - 1
    BY <2>1
  <2> QED
    BY <1>1, <2>1, <2>2 DEF NoneBetween
<1>2. ASSUME \A k \in P : i < k /\ k < j => ms[k].id \notin ids,
             NEW y \in r[i] + 1 .. r[j] - 1
      PROVE  ns[y].id \notin ids
  <2>1. /\ r[i] \in Int /\ r[j] \in Int /\ 1 <= r[i] /\ r[j] <= Len(ns) /\ Len(ns) \in Nat
    BY MapsFacts
  <2>2. y \in 1 .. Len(ns) /\ r[i] < y /\ y < r[j]
    BY <2>1
  <2>3. PICK k \in P : r[k] = y
    BY <2>2, MapsFacts
  <2>4. i < k /\ k < j /\ ns[r[k]] = ms[k]
    BY <2>2, <2>3, MapsFacts
  <2> QED
    BY <1>2, <2>3, <2>4
<1> QED
  BY <1>1, <1>2 DEF NoneBetween

\* Whether a message carries information is the same before and after picking.
LEMMA CarriesMaps ==
  ASSUME NEW ms, NEW P, NEW r, NEW ns, Maps(ms, P, r, ns), Enough(ms, P), NEW i \in P
  PROVE  Carries(ns, r[i]) <=> Carries(ms, i)
<1>1. ns[r[i]] = ms[i]
  BY MapsFacts
<1>2. ms[i].id \notin Brackets => (Kept(ns, r[i]) <=> Kept(ms, i))
  BY KeptMaps
<1> QED
  BY <1>1, <1>2 DEF Carries

\* If there is an idFrameBegin behind message i and not behind j, there is one of those at
\* the positions.
LEMMA BeginBetween ==
  ASSUME NEW ms, Len(ms) \in Nat, NEW P, Enough(ms, P), NEW i \in Nat, NEW j \in P,
         NEW b \in i + 1 .. j, ms[b].id = "idFrameBegin"
  PROVE  \E k \in P : i < k /\ k <= j /\ ms[k].id = "idFrameBegin"
<1>1. j \in 1 .. Len(ms)
  BY DEF Enough
<1>2. b \in 1 .. j /\ i < b
  BY <1>1
<1>3. PICK k \in 1 .. j : LastBegin(ms, k, j)
  BY <1>1, <1>2, SenderIs
<1>4. k \in 1 .. Len(ms)
  BY <1>1
<1>5. k \in P
  BY <1>3, <1>4 DEF Enough
<1>6. b <= k
  <2>1. ~(b \in k + 1 .. j)
    BY <1>3 DEF LastBegin
  <2> QED
    BY <1>1, <1>2, <1>4, <2>1
<1>7. ms[k].id = "idFrameBegin"
  BY <1>3 DEF LastBegin
<1> QED
  BY <1>1, <1>2, <1>4, <1>5, <1>6, <1>7

\* So is whether an idFrameFinished stays,
LEMMA StaysFinished ==
  ASSUME NEW ms, NEW P, NEW r, NEW ns, Maps(ms, P, r, ns), Enough(ms, P), NEW i \in P,
         ms[i].id = "idFrameFinished"
  PROVE  Stays(ns, r[i]) <=> Stays(ms, i)
<1>1. /\ Len(ms) \in Nat /\ Len(ns) \in Nat /\ ns[r[i]] = ms[i]
      /\ i \in Int /\ 1 <= i /\ i <= Len(ms) /\ r[i] \in Int /\ 1 <= r[i] /\ r[i] <= Len(ns)
  BY MapsFacts
<1>2. ASSUME Stays(ms, i) PROVE Stays(ns, r[i])
  <2>1. PICK k \in 1 .. i - 1 : Carries(ms, k) /\ NoneBetween(ms, k, i, Brackets)
    BY <1>2, StaysIs
  <2>2. k \in 1 .. Len(ms) /\ k < i
    BY <1>1
  <2>3. k \in P
    BY <2>1, <2>2, StaysIs DEF Enough
  <2>4. Carries(ns, r[k])
    BY <2>1, <2>3, CarriesMaps
  <2>5. NoneBetween(ns, r[k], r[i], Brackets)
    <3>1. ASSUME NEW x \in P, k < x, x < i PROVE ms[x].id \notin Brackets
      <4>1. x \in k + 1 .. i - 1
        <5>1. x \in Int
          BY MapsFacts
        <5> QED
          BY <1>1, <2>2, <3>1, <5>1
      <4> QED
        BY <2>1, <4>1 DEF NoneBetween
    <3> QED
      BY <2>3, <3>1, NoneMaps
  <2>6. r[k] \in 1 .. r[i] - 1
    <3>1. r[k] \in Int /\ 1 <= r[k] /\ r[k] < r[i]
      BY <2>2, <2>3, MapsFacts
    <3> QED
      BY <1>1, <3>1
  <2> QED
    BY <1>1, <2>4, <2>5, <2>6, StaysIs
<1>3. ASSUME Stays(ns, r[i]) PROVE Stays(ms, i)
  <2>1. PICK y \in 1 .. r[i] - 1 : Carries(ns, y) /\ NoneBetween(ns, y, r[i], Brackets)
    BY <1>1, <1>3, StaysIs
  <2>2. y \in 1 .. Len(ns) /\ y < r[i]
    BY <1>1
  <2>3. PICK k \in P : r[k] = y
    BY <2>2, MapsFacts
  <2>4. k \in Int /\ 1 <= k /\ k < i /\ Carries(ms, k)
    BY <2>1, <2>2, <2>3, CarriesMaps, MapsFacts
  <2>5. \A x \in P : k < x /\ x < i => ms[x].id \notin Brackets
    BY <2>1, <2>3, NoneMaps
  <2>6. NoneBetween(ms, k, i, Brackets)
    <3> DEFINE S == {x \in 1 .. Len(ms) : k < x /\ x < i /\ ms[x].id \in Brackets}
    <3> SUFFICES ASSUME S /= {} PROVE FALSE
      <4>1. ASSUME NEW x \in k + 1 .. i - 1 PROVE x \in 1 .. Len(ms) /\ k < x /\ x < i
        BY <1>1, <2>4
      <4> QED
        BY <4>1 DEF NoneBetween
    <3>1. PICK b \in S : \A x \in S : b <= x
      <4>1. S \in SUBSET Nat
        OBVIOUS
      <4> HIDE DEF S
      <4> QED
        BY <4>1, FirstOf
    <3>2. b \in 1 .. Len(ms) /\ k < b /\ b < i /\ ms[b].id \in Brackets
      BY <3>1
    <3>3. CASE ms[b].id = "idFrameBegin"
      <4>1. b \in k + 1 .. i /\ k \in Nat
        BY <1>1, <2>4, <3>2
      <4>2. PICK x \in P : k < x /\ x <= i /\ ms[x].id = "idFrameBegin"
        <5>1. Len(ms) \in Nat
          BY <1>1
        <5> HIDE DEF S
        <5> QED
          BY <3>3, <4>1, <5>1, BeginBetween
      <4>3. x \in Int /\ x /= i
        BY <4>2, MapsFacts
      <4>4. x < i
        BY <1>1, <4>2, <4>3
      <4> QED
        BY <2>5, <4>2, <4>4 DEF Brackets
    <3>4. CASE ms[b].id = "idFrameFinished"
      <4>1. NoneBetween(ms, k, b, Brackets)
        <5>1. ASSUME NEW x \in k + 1 .. b - 1, ms[x].id \in Brackets PROVE FALSE
          <6>1. x \in S /\ x < b
            BY <1>1, <2>4, <3>2, <5>1
          <6> QED
            BY <3>1, <3>2, <6>1
        <5> QED
          BY <5>1 DEF NoneBetween
      <4>2. k \in 1 .. b - 1
        BY <2>4, <3>2
      <4>3. Stays(ms, b)
        BY <2>4, <3>4, <4>1, <4>2, StaysIs
      <4>4. b \in P
        BY <3>2, <4>3 DEF Enough
      <4> QED
        BY <2>5, <3>2, <4>4
    <3> QED
      BY <3>2, <3>3, <3>4 DEF Brackets
  <2>7. k \in 1 .. i - 1
    BY <1>1, <2>4
  <2> QED
    BY <2>4, <2>6, <2>7, StaysIs
<1>4. Stays(ms, i) \in BOOLEAN /\ Stays(ns, r[i]) \in BOOLEAN
  BY <1>1 DEF Stays
<1> QED
  BY <1>2, <1>3

\* and an idFrameBegin.
LEMMA StaysBegin ==
  ASSUME NEW ms, NEW P, NEW r, NEW ns, Maps(ms, P, r, ns), Enough(ms, P), NEW i \in P,
         ms[i].id = "idFrameBegin"
  PROVE  Stays(ns, r[i]) <=> Stays(ms, i)
<1>1. /\ Len(ms) \in Nat /\ Len(ns) \in Nat /\ ns[r[i]] = ms[i]
      /\ i \in Nat /\ 1 <= i /\ i <= Len(ms) /\ r[i] \in Int /\ 1 <= r[i] /\ r[i] <= Len(ns)
  BY MapsFacts
<1> DEFINE begin == {"idFrameBegin"}
           NoneAfter(qs, x) == NoneBetween(qs, x, Len(qs) + 1, begin)
           Holds(qs, x) == \E k \in x + 1 .. Len(qs) :
                             Carries(qs, k) /\ NoneBetween(qs, x, k, begin)
<1>2. ASSUME NoneAfter(ms, i) PROVE NoneAfter(ns, r[i])
  <2>1. ASSUME NEW y \in r[i] + 1 .. (Len(ns) + 1) - 1 PROVE ns[y].id \notin begin
    <3>1. y \in 1 .. Len(ns) /\ r[i] < y
      BY <1>1
    <3>2. PICK k \in P : r[k] = y
      BY <3>1, MapsFacts
    <3>3. i < k /\ k \in Int /\ k <= Len(ms) /\ ns[y] = ms[k]
      BY <3>1, <3>2, MapsFacts
    <3>4. k \in i + 1 .. (Len(ms) + 1) - 1
      BY <1>1, <3>3
    <3> QED
      BY <1>2, <3>3, <3>4 DEF NoneBetween
  <2> QED
    BY <2>1 DEF NoneBetween
<1>3. ASSUME Holds(ms, i) PROVE Holds(ns, r[i])
  <2>1. PICK k \in i + 1 .. Len(ms) : Carries(ms, k) /\ NoneBetween(ms, i, k, begin)
    BY <1>3
  <2>2. k \in 1 .. Len(ms) /\ i < k
    BY <1>1
  <2>3. k \in P
    BY <2>1, <2>2, StaysIs DEF Enough
  <2>4. Carries(ns, r[k])
    BY <2>1, <2>3, CarriesMaps
  <2>5. NoneBetween(ns, r[i], r[k], begin)
    <3>1. ASSUME NEW x \in P, i < x, x < k PROVE ms[x].id \notin begin
      <4>1. x \in i + 1 .. k - 1
        <5>1. x \in Int
          BY MapsFacts
        <5> QED
          BY <1>1, <2>2, <3>1, <5>1
      <4> QED
        BY <2>1, <4>1 DEF NoneBetween
    <3> HIDE DEF begin
    <3> QED
      BY <2>3, <3>1, NoneMaps
  <2>6. r[k] \in r[i] + 1 .. Len(ns)
    <3>1. r[k] \in Int /\ r[k] <= Len(ns) /\ r[i] < r[k]
      BY <2>2, <2>3, MapsFacts
    <3> QED
      BY <1>1, <3>1
  <2> QED
    BY <2>4, <2>5, <2>6
<1>4. ASSUME NoneAfter(ns, r[i]), ~NoneAfter(ms, i) PROVE FALSE
  <2> DEFINE S == {b \in 1 .. Len(ms) : i < b /\ ms[b].id = "idFrameBegin"}
  <2>1. S /= {}
    <3>1. PICK b \in i + 1 .. (Len(ms) + 1) - 1 : ms[b].id = "idFrameBegin"
      BY <1>4 DEF NoneBetween
    <3>2. b \in 1 .. Len(ms) /\ i < b
      BY <1>1
    <3> QED
      BY <3>1, <3>2
  <2>2. PICK b \in S : \A x \in S : x <= b
    <3>1. S \in SUBSET (1 .. Len(ms))
      OBVIOUS
    <3> HIDE DEF S
    <3> QED
      BY <1>1, <2>1, <3>1, LastOf
  <2>3. b \in 1 .. Len(ms) /\ i < b /\ ms[b].id = "idFrameBegin"
    BY <2>2
  <2>4. NoneAfter(ms, b)
    <3>1. ASSUME NEW x \in b + 1 .. (Len(ms) + 1) - 1, ms[x].id = "idFrameBegin" PROVE FALSE
      <4>1. x \in S /\ x > b
        BY <1>1, <2>3, <3>1
      <4> QED
        BY <2>2, <2>3, <4>1
    <3> QED
      BY <3>1 DEF NoneBetween
  <2>5. Stays(ms, b)
    BY <2>3, <2>4, StaysIs
  <2>6. b \in P
    BY <2>3, <2>5 DEF Enough
  <2>7. r[b] \in Int /\ r[i] < r[b] /\ r[b] <= Len(ns) /\ ns[r[b]] = ms[b]
    BY <2>3, <2>6, MapsFacts
  <2>8. r[b] \in r[i] + 1 .. (Len(ns) + 1) - 1
    BY <1>1, <2>7
  <2> QED
    BY <1>4, <2>3, <2>7, <2>8 DEF NoneBetween
<1>5. ASSUME Holds(ns, r[i]) PROVE Holds(ms, i)
  <2>1. PICK y \in r[i] + 1 .. Len(ns) : Carries(ns, y) /\ NoneBetween(ns, r[i], y, begin)
    BY <1>5
  <2>2. y \in 1 .. Len(ns) /\ r[i] < y
    BY <1>1
  <2>3. PICK k \in P : r[k] = y
    BY <2>2, MapsFacts
  <2>4. k \in Int /\ i < k /\ k <= Len(ms) /\ Carries(ms, k)
    BY <2>1, <2>2, <2>3, CarriesMaps, MapsFacts
  <2>5. \A x \in P : i < x /\ x < k => ms[x].id \notin begin
    <3> HIDE DEF begin
    <3> QED
      BY <2>1, <2>3, NoneMaps
  <2>6. ASSUME NEW b \in i + 1 .. k - 1, ms[b].id = "idFrameBegin" PROVE FALSE
    <3>1. b \in i + 1 .. k
      BY <1>1, <2>4
    <3>2. PICK x \in P : i < x /\ x <= k /\ ms[x].id = "idFrameBegin"
      <4> HIDE DEF begin, NoneAfter, Holds
      <4>1. Len(ms) \in Nat /\ i \in Nat
        BY <1>1
      <4> QED
        BY <2>6, <3>1, <4>1, BeginBetween
    <3>3. x \in Int /\ x /= k
      BY <2>4, <3>2, StaysIs, MapsFacts DEF Brackets
    <3>4. x < k
      BY <2>4, <3>2, <3>3
    <3> QED
      BY <2>5, <3>2, <3>4
  <2>7. NoneBetween(ms, i, k, begin)
    BY <2>6 DEF NoneBetween
  <2>8. k \in i + 1 .. Len(ms)
    BY <1>1, <2>4
  <2> QED
    BY <2>4, <2>7, <2>8
<1>6. /\ Stays(ms, i) <=> NoneAfter(ms, i) \/ Holds(ms, i)
      /\ Stays(ns, r[i]) <=> NoneAfter(ns, r[i]) \/ Holds(ns, r[i])
  BY <1>1, StaysIs
<1> HIDE DEF NoneAfter, Holds
<1> QED
  BY <1>2, <1>3, <1>4, <1>5, <1>6

\* A message stays of ns if and only if it stays of ms; so what is latest in ns is what is
\* latest in ms.
LEMMA LatestOfEnough ==
  ASSUME NEW ms \in Seq(DebugMessage), NEW P, Enough(ms, P)
  PROVE  Latest(Picked(ms, P)) = Latest(ms)
<1> DEFINE ns == Picked(ms, P)
           r == [i \in P |-> Rank(P, i)]
           K == {i \in 1 .. Len(ms) : Stays(ms, i)}
<1>1. P \in SUBSET (1 .. Len(ms)) /\ K \in SUBSET P
  BY DEF Enough
<1>2. Maps(ms, P, r, ns)
  BY <1>1, PickedMaps
<1> HIDE DEF ns, r
<1>3. ASSUME NEW i \in P PROVE Stays(ns, r[i]) <=> Stays(ms, i)
  <2>1. CASE ms[i].id = "idFrameBegin"
    BY <1>2, <2>1, StaysBegin
  <2>2. CASE ms[i].id = "idFrameFinished"
    BY <1>2, <2>2, StaysFinished
  <2>3. CASE ms[i].id \notin Brackets
    <3>1. ns[r[i]] = ms[i] /\ (Kept(ns, r[i]) <=> Kept(ms, i))
      BY <1>2, <2>3, MapsFacts, KeptMaps
    <3> QED
      BY <2>3, <3>1, StaysIs
  <2> QED
    BY <2>1, <2>2, <2>3 DEF Brackets
<1>4. {x \in 1 .. Len(ns) : Stays(ns, x)} = At(r, K)
  <2>1. ASSUME NEW x \in 1 .. Len(ns), Stays(ns, x) PROVE \E i \in K : r[i] = x
    <3>1. PICK i \in P : r[i] = x
      BY <1>2, MapsFacts
    <3> QED
      BY <1>1, <1>3, <2>1, <3>1
  <2>2. ASSUME NEW i \in K PROVE r[i] \in 1 .. Len(ns) /\ Stays(ns, r[i])
    <3>1. i \in P
      BY <1>1
    <3>2. r[i] \in Int /\ 1 <= r[i] /\ r[i] <= Len(ns)
      BY <1>2, <3>1, MapsFacts
    <3> QED
      BY <1>3, <3>1, <3>2
  <2> QED
    BY <2>1, <2>2 DEF At
<1> HIDE DEF K
<1>5. Picked(ns, At(r, K)) = Picked(ms, K)
  <2>1. K \in SUBSET P
    BY <1>1
  <2> QED
    BY <1>2, <2>1, PickedPicked
<1>6. Latest(ns) = Picked(ns, At(r, K))
  BY <1>4 DEF Latest
<1>7. Latest(ms) = Picked(ms, K)
  BY DEF Latest, K
<1> QED
  BY <1>5, <1>6, <1>7 DEF ns

-----------------------------------------------------------------------------
\* More messages after those of a: what was repeated stays repeated.
LEMMA LeftJoin ==
  ASSUME NEW a \in Seq(DebugMessage), NEW b \in Seq(DebugMessage), NEW i \in 1 .. Len(a),
         NEW id
  PROVE  /\ Len(a) \in Nat /\ Len(b) \in Nat /\ Len(a \o b) = Len(a) + Len(b)
         /\ a \o b \in Seq(DebugMessage) /\ (a \o b)[i] = a[i]
         /\ Sender(a \o b, i) = Sender(a, i)
         /\ Left(a, i, Sender(a, i), id) \in SUBSET Left(a \o b, i, Sender(a, i), id)
         /\ \A x \in Left(a \o b, i, Sender(a, i), id) :
              x <= Len(a) => x \in Left(a, i, Sender(a, i), id)
<1> DEFINE ms == a \o b
<1>1. /\ Len(a) \in Nat /\ Len(b) \in Nat /\ Len(ms) = Len(a) + Len(b)
      /\ ms \in Seq(DebugMessage) /\ \A x \in 1 .. Len(a) : ms[x] = a[x]
  OBVIOUS
<1> HIDE DEF ms
<1>2. \A x \in 0 .. Len(a) : Sender(a, x) = Sender(ms, x)
  <2>1. Len(ms) \in Nat /\ Len(a) <= Len(a) /\ Len(a) <= Len(ms)
    BY <1>1
  <2> QED
    BY <1>1, <2>1, SenderAgree
<1>3. ASSUME NEW x \in Left(a, i, Sender(a, i), id) PROVE x \in Left(ms, i, Sender(a, i), id)
  <2>1. x \in i + 1 .. Len(a) /\ a[x].id = id /\ Sender(a, x) = Sender(a, i)
    BY DEF Left
  <2>2. x \in i + 1 .. Len(ms) /\ x \in 1 .. Len(a)
    BY <1>1, <2>1
  <2> QED
    BY <1>1, <1>2, <2>1, <2>2 DEF Left
<1>4. ASSUME NEW x \in Left(ms, i, Sender(a, i), id), x <= Len(a)
      PROVE  x \in Left(a, i, Sender(a, i), id)
  <2>1. x \in i + 1 .. Len(ms) /\ ms[x].id = id /\ Sender(ms, x) = Sender(a, i)
    BY DEF Left
  <2>2. x \in i + 1 .. Len(a) /\ x \in 1 .. Len(a)
    BY <1>1, <1>4, <2>1
  <2> QED
    BY <1>1, <1>2, <2>1, <2>2 DEF Left
<1>5. Sender(ms, i) = Sender(a, i)
  BY <1>2
<1> QED
  BY <1>1, <1>3, <1>4, <1>5 DEF ms

\* The end of the frame is one of its thread that is left.
LEMMA FramesEndLeft ==
  ASSUME NEW ms, Len(ms) \in Nat, FramesEnd(ms), NEW i \in 1 .. Len(ms),
         ms[i].id \in LatestFrameOnly
  PROVE  \E j \in Left(ms, i, Sender(ms, i), "idFrameFinished") : NoneBetween(ms, i, j, Brackets)
<1>1. PICK j \in i + 1 .. Len(ms) :
        ms[j].id = "idFrameFinished" /\ NoneBetween(ms, i, j, Brackets)
  BY DEF FramesEnd
<1>2. Sender(ms, j) = Sender(ms, i)
  <2>1. ASSUME NEW k \in i + 1 .. j PROVE ms[k].id /= "idFrameBegin"
    <3>1. k = j \/ k \in i + 1 .. j - 1
      OBVIOUS
    <3> QED
      BY <1>1, <3>1 DEF NoneBetween, Brackets
  <2>2. i \in Nat /\ j \in Nat /\ i <= j
    OBVIOUS
  <2> QED
    BY <2>1, <2>2, SenderSame
<1>3. j \in Left(ms, i, Sender(ms, i), "idFrameFinished")
  BY <1>1, <1>2 DEF Left
<1> QED
  BY <1>1, <1>3

\* So only what arrives later of the same thread decides whether a message of a is kept.
LEMMA KeptJoin ==
  ASSUME NEW a \in Seq(DebugMessage), NEW b \in Seq(DebugMessage), FramesEnd(a),
         NEW i \in 1 .. Len(a), Kept(a \o b, i)
  PROVE  Kept(a, i)
<1> DEFINE ms == a \o b
           later(id) == Left(a, i, Sender(a, i), id)
           all(id) == Left(ms, i, Sender(a, i), id)
<1>1. /\ Len(a) \in Nat /\ Len(ms) \in Nat /\ i \in Nat /\ ms[i] = a[i]
      /\ Sender(ms, i) = Sender(a, i) /\ Kept(ms, i)
  <2>1. Len(a) \in Nat /\ Len(b) \in Nat /\ Len(ms) = Len(a) + Len(b)
    OBVIOUS
  <2>2. ms[i] = a[i] /\ Sender(ms, i) = Sender(a, i)
    BY LeftJoin
  <2> HIDE DEF ms
  <2>3. Len(ms) \in Nat /\ i \in Nat
    BY <2>1
  <2> QED
    BY <2>1, <2>2, <2>3 DEF ms
<1>2. ASSUME NEW id
      PROVE  /\ later(id) \in SUBSET all(id)
             /\ Cardinality(later(id)) <= Cardinality(all(id))
             /\ Cardinality(later(id)) \in Nat /\ Cardinality(all(id)) \in Nat
             /\ IsFiniteSet(later(id))
  <2>1. later(id) \in SUBSET all(id)
    BY LeftJoin
  <2> HIDE DEF ms
  <2>2. Cardinality(later(id)) <= Cardinality(all(id)) /\ Cardinality(all(id)) \in Nat
    BY <1>1, <2>1, LeftSet
  <2>3. Cardinality(later(id)) \in Nat /\ IsFiniteSet(later(id))
    BY <1>1, LeftSet
  <2> QED
    BY <2>1, <2>2, <2>3
<1> HIDE DEF ms
<1>3. CASE a[i].id \in AlwaysKept
  BY <1>3, KeptIs
<1>4. CASE a[i].id \in LatestFrameOnly
  <2>1. Cardinality(all("idFrameFinished")) = 1
    BY <1>1, <1>4, KeptIs
  <2>2. later("idFrameFinished") /= {}
    BY <1>1, <1>4, FramesEndLeft
  <2>3. Cardinality(later("idFrameFinished")) /= 0
    <3> HIDE DEF later
    <3> QED
      BY <1>2, <2>2, FS_EmptySet
  <2>4. Cardinality(later("idFrameFinished")) = 1
    <3> HIDE DEF later, all
    <3> QED
      BY <1>2, <2>1, <2>3
  <2> QED
    BY <1>4, <2>4, KeptIs
<1>5. CASE a[i].id = "idText"
  <2>1. Cardinality(all("idText")) <= TextLimit
    BY <1>1, <1>5, KeptIs
  <2>2. Cardinality(later("idText")) <= TextLimit
    <3> HIDE DEF later, all
    <3> QED
      BY <1>2, <2>1, DebugQueueAssumption
  <2> QED
    BY <1>5, <2>2, KeptIs
<1>6. CASE a[i].id \notin AlwaysKept \cup LatestFrameOnly \cup {"idText"}
  <2>1. all(a[i].id) = {}
    BY <1>1, <1>6, KeptIs
  <2>2. later(a[i].id) = {}
    <3> HIDE DEF later, all
    <3> QED
      BY <1>2, <2>1
  <2> QED
    BY <1>6, <2>2, KeptIs
<1> QED
  BY <1>3, <1>4, <1>5, <1>6

\* What arrives later does not matter between messages that arrived before.
LEMMA NoneJoin ==
  ASSUME NEW a \in Seq(DebugMessage), NEW b \in Seq(DebugMessage), NEW i \in Nat, 1 <= i,
         NEW j \in Int, j <= Len(a) + 1, NEW ids
  PROVE  NoneBetween(a \o b, i, j, ids) <=> NoneBetween(a, i, j, ids)
<1> DEFINE ms == a \o b
<1>1. Len(a) \in Nat /\ \A x \in 1 .. Len(a) : ms[x] = a[x]
  OBVIOUS
<1> HIDE DEF ms
<1>2. \A k \in i + 1 .. j - 1 : k \in 1 .. Len(a)
  BY <1>1
<1>3. \A k \in i + 1 .. j - 1 : ms[k] = a[k]
  BY <1>1, <1>2
<1> QED
  BY <1>3 DEF NoneBetween, ms

\* What does not stay does not stay either when more arrives.
LEMMA StaysJoin ==
  ASSUME NEW a \in Seq(DebugMessage), NEW b \in Seq(DebugMessage), FramesEnd(a),
         NEW i \in 1 .. Len(a), Stays(a \o b, i)
  PROVE  Stays(a, i)
<1> DEFINE ms == a \o b
<1>1. /\ Len(a) \in Nat /\ Len(b) \in Nat /\ Len(ms) = Len(a) + Len(b)
      /\ \A x \in 1 .. Len(a) : ms[x] = a[x]
  OBVIOUS
<1>2. ASSUME NEW k \in 1 .. Len(a), Carries(ms, k) PROVE Carries(a, k)
  <2>1. Kept(ms, k) /\ ms[k].id \notin Brackets /\ ms[k] = a[k]
    BY <1>1, <1>2 DEF Carries
  <2>2. Kept(a, k)
    BY <2>1, KeptJoin
  <2> QED
    BY <2>1, <2>2 DEF Carries
<1>3. ASSUME NEW x \in Nat, NEW j \in Int, NEW ids, 1 <= x, j <= Len(a) + 1,
             NoneBetween(ms, x, j, ids)
      PROVE  NoneBetween(a, x, j, ids)
  BY <1>3, NoneJoin
<1>4. Kept(ms, i) => Kept(a, i)
  BY KeptJoin
<1>5. Stays(ms, i) /\ ms[i] = a[i] /\ i \in Nat /\ 1 <= i /\ i <= Len(a)
  BY <1>1
<1> HIDE DEF ms
<1>6. CASE a[i].id = "idFrameBegin"
  <2>1. CASE NoneBetween(ms, i, Len(ms) + 1, {"idFrameBegin"})
    <3>1. \A k \in i + 1 .. (Len(a) + 1) - 1 : k \in i + 1 .. (Len(ms) + 1) - 1
      BY <1>1
    <3>2. NoneBetween(ms, i, Len(a) + 1, {"idFrameBegin"})
      BY <2>1, <3>1 DEF NoneBetween
    <3>3. Len(a) + 1 \in Int /\ Len(a) + 1 <= Len(a) + 1
      BY <1>1
    <3>4. NoneBetween(a, i, Len(a) + 1, {"idFrameBegin"})
      BY <1>3, <1>5, <3>2, <3>3
    <3> QED
      BY <1>6, <3>4, StaysIs
  <2>2. CASE \E k \in i + 1 .. Len(ms) :
               Carries(ms, k) /\ NoneBetween(ms, i, k, {"idFrameBegin"})
    <3>1. PICK k \in i + 1 .. Len(ms) :
            Carries(ms, k) /\ NoneBetween(ms, i, k, {"idFrameBegin"})
      BY <2>2
    <3>2. k \in Int /\ i < k
      BY <1>5
    <3>3. CASE k <= Len(a)
      <4>1. k \in 1 .. Len(a) /\ k <= Len(a) + 1 /\ k \in i + 1 .. Len(a)
        BY <1>1, <1>5, <3>2, <3>3
      <4>2. Carries(a, k) /\ NoneBetween(a, i, k, {"idFrameBegin"})
        BY <1>2, <1>3, <1>5, <3>1, <3>2, <4>1
      <4> QED
        BY <1>6, <4>1, <4>2, StaysIs
    <3>4. CASE Len(a) < k
      <4>1. \A x \in i + 1 .. (Len(a) + 1) - 1 : x \in i + 1 .. k - 1
        BY <1>1, <3>2, <3>4
      <4>2. NoneBetween(ms, i, Len(a) + 1, {"idFrameBegin"})
        BY <3>1, <4>1 DEF NoneBetween
      <4>3. Len(a) + 1 \in Int /\ Len(a) + 1 <= Len(a) + 1
        BY <1>1
      <4>4. NoneBetween(a, i, Len(a) + 1, {"idFrameBegin"})
        BY <1>3, <1>5, <4>2, <4>3
      <4> QED
        BY <1>6, <4>4, StaysIs
    <3> QED
      BY <1>1, <3>2, <3>3, <3>4
  <2> QED
    BY <1>5, <1>6, <2>1, <2>2, StaysIs
<1>7. CASE a[i].id = "idFrameFinished"
  <2>1. PICK k \in 1 .. i - 1 : Carries(ms, k) /\ NoneBetween(ms, k, i, Brackets)
    BY <1>5, <1>7, StaysIs
  <2>2. k \in Nat /\ 1 <= k /\ k \in 1 .. Len(a) /\ i \in Int /\ i <= Len(a) + 1
    BY <1>1, <1>5
  <2>3. Carries(a, k) /\ NoneBetween(a, k, i, Brackets)
    BY <1>2, <1>3, <2>1, <2>2
  <2> QED
    BY <1>7, <2>3, StaysIs
<1>8. CASE a[i].id \notin Brackets
  BY <1>4, <1>5, <1>8, StaysIs
<1> QED
  BY <1>6, <1>7, <1>8 DEF Brackets

\* The last idFrameBegin before a message that stays, stays.
LEMMA BeginStays ==
  ASSUME NEW a \in Seq(DebugMessage), NEW i \in 1 .. Len(a), Stays(a, i),
         NEW j \in 1 .. Len(a), LastBegin(a, j, i)
  PROVE  Stays(a, j)
<1>1. /\ Len(a) \in Nat /\ i \in Nat /\ j \in Nat /\ 1 <= j /\ j <= i /\ i <= Len(a)
      /\ a[j].id = "idFrameBegin" /\ \A k \in j + 1 .. i : a[k].id /= "idFrameBegin"
  BY DEF LastBegin
<1>2. ASSUME NEW k \in j + 1 .. i, Carries(a, k) PROVE Stays(a, j)
  <2>1. k \in j + 1 .. Len(a) /\ \A x \in j + 1 .. k - 1 : x \in j + 1 .. i
    BY <1>1
  <2>2. NoneBetween(a, j, k, {"idFrameBegin"})
    BY <1>1, <2>1 DEF NoneBetween
  <2> QED
    BY <1>1, <1>2, <2>1, <2>2, StaysIs
<1>3. CASE i = j
  BY <1>3
<1>4. CASE i /= j /\ a[i].id \notin Brackets
  <2>1. Carries(a, i)
    BY <1>4, StaysIs DEF Carries
  <2>2. i \in j + 1 .. i
    BY <1>1, <1>4
  <2> QED
    BY <1>2, <2>1, <2>2
<1>5. CASE i /= j /\ a[i].id = "idFrameFinished"
  <2>1. PICK k \in 1 .. i - 1 : Carries(a, k) /\ NoneBetween(a, k, i, Brackets)
    BY <1>5, StaysIs
  <2>2. k /= j
    BY <1>1, <2>1, StaysIs DEF Brackets
  <2>3. ~(j \in k + 1 .. i - 1)
    BY <1>1, <2>1 DEF NoneBetween, Brackets
  <2>4. k \in j + 1 .. i
    BY <1>1, <1>5, <2>2, <2>3
  <2> QED
    BY <1>2, <2>1, <2>4
<1>6. CASE i /= j /\ a[i].id = "idFrameBegin"
  <2>1. i \in j + 1 .. i
    BY <1>1, <1>6
  <2> QED
    BY <1>1, <1>6, <2>1
<1> QED
  BY <1>3, <1>4, <1>5, <1>6 DEF Brackets

\* The end of the frame of a message that stays, stays; for what is only kept for the
\* latest frame there is only this end.
LEMMA FinishedStays ==
  ASSUME NEW a \in Seq(DebugMessage), FramesEnd(a), NEW i \in 1 .. Len(a), Stays(a, i),
         a[i].id \in LatestFrameOnly
  PROVE  \E j \in i + 1 .. Len(a) :
           /\ Left(a, i, Sender(a, i), "idFrameFinished") = {j}
           /\ a[j].id = "idFrameFinished" /\ Stays(a, j) /\ NoneBetween(a, i, j, Brackets)
<1> DEFINE S == Left(a, i, Sender(a, i), "idFrameFinished")
<1>1. Len(a) \in Nat /\ i \in Nat
  OBVIOUS
<1>2. PICK j \in S : NoneBetween(a, i, j, Brackets)
  BY <1>1, FramesEndLeft
<1>3. j \in i + 1 .. Len(a) /\ a[j].id = "idFrameFinished"
  BY <1>2 DEF Left
<1>4. a[i].id \notin Brackets /\ Kept(a, i)
  <2>1. a[i].id \notin Brackets
    BY DEF Brackets, LatestFrameOnly
  <2> QED
    BY <2>1, StaysIs
<1>5. Cardinality(S) = 1
  BY <1>4, KeptIs
<1>6. IsFiniteSet(S)
  BY <1>1, LeftSet
<1>7. S = {j}
  <2> HIDE DEF S
  <2>1. \E x : S = {x}
    BY <1>5, <1>6, FS_Singleton
  <2> QED
    BY <1>2, <2>1
<1>8. Stays(a, j)
  <2>1. Carries(a, i)
    BY <1>4 DEF Carries
  <2>2. i \in 1 .. j - 1
    BY <1>1, <1>3
  <2> QED
    BY <1>2, <1>3, <2>1, <2>2, StaysIs
<1> QED
  BY <1>2, <1>3, <1>7, <1>8

\* So of a the messages that stay, and all that arrive later, are enough.
LEMMA EnoughJoin ==
  ASSUME NEW a \in Seq(DebugMessage), NEW b \in Seq(DebugMessage), FramesEnd(a)
  PROVE  Enough(a \o b, {i \in 1 .. Len(a) : Stays(a, i)}
                          \cup (Len(a) + 1 .. Len(a) + Len(b)))
<1> DEFINE ms == a \o b
           K == {i \in 1 .. Len(a) : Stays(a, i)}
           B == Len(a) + 1 .. Len(a) + Len(b)
           P == K \cup B
<1>1. /\ Len(a) \in Nat /\ Len(b) \in Nat /\ Len(ms) = Len(a) + Len(b)
      /\ \A x \in 1 .. Len(a) : ms[x] = a[x]
  OBVIOUS
<1>2. P \in SUBSET (1 .. Len(ms))
  <2>1. \A x \in 1 .. Len(a) : x \in 1 .. Len(ms)
    BY <1>1
  <2>2. \A x \in B : x \in 1 .. Len(ms)
    BY <1>1
  <2> HIDE DEF ms, B
  <2> QED
    BY <2>1, <2>2
<1>3. \A i \in 1 .. Len(ms) : i \in 1 .. Len(a) \/ i \in B
  BY <1>1
<1>4. \A i \in 1 .. Len(a) : Stays(ms, i) => Stays(a, i)
  BY StaysJoin
<1>5. ASSUME NEW i \in P, NEW j \in 1 .. Len(ms), LastBegin(ms, j, i) PROVE j \in P
  <2>1. /\ j \in 1 .. i /\ ms[j].id = "idFrameBegin"
        /\ \A k \in j + 1 .. i : ms[k].id /= "idFrameBegin"
    BY <1>5 DEF LastBegin
  <2>2. i \in Int /\ i <= Len(ms)
    <3>1. i \in 1 .. Len(ms)
      BY <1>2
    <3> QED
      BY <1>1, <3>1
  <2> HIDE DEF ms
  <2>3. CASE j \in B
    BY <2>3
  <2>4. CASE j \in 1 .. Len(a) /\ Len(a) < i
    <3>1. a[j].id = "idFrameBegin"
      BY <1>1, <2>1, <2>4
    <3>2. ASSUME NEW k \in j + 1 .. (Len(a) + 1) - 1 PROVE a[k].id \notin {"idFrameBegin"}
      <4>1. k \in j + 1 .. i /\ k \in 1 .. Len(a)
        BY <1>1, <2>2, <2>4
      <4> QED
        BY <1>1, <2>1, <4>1
    <3>3. Stays(a, j)
      BY <3>1, <3>2, StaysIs DEF NoneBetween
    <3> QED
      BY <2>4, <3>3
  <2>5. CASE j \in 1 .. Len(a) /\ i <= Len(a)
    <3>1. i \in 1 .. Len(a) /\ Stays(a, i)
      <4>1. i \notin B
        BY <1>1, <2>2, <2>5
      <4> QED
        BY <4>1
    <3>2. LastBegin(a, j, i)
      <4>1. \A k \in j + 1 .. i : k \in 1 .. Len(a)
        BY <1>1, <2>5, <3>1
      <4> QED
        BY <1>1, <2>1, <2>5, <4>1 DEF LastBegin
    <3>3. Stays(a, j)
      BY <2>5, <3>1, <3>2, BeginStays
    <3> QED
      BY <2>5, <3>3
  <2> QED
    BY <1>1, <1>3, <2>2, <2>3, <2>4, <2>5
<1>6. ASSUME NEW i \in P, ms[i].id \in LatestFrameOnly,
             NEW x \in Left(ms, i, Sender(ms, i), "idFrameFinished")
      PROVE  x \in P
  <2>1. x \in i + 1 .. Len(ms)
    BY DEF Left
  <2>2. i \in Int /\ 1 <= i
    <3>1. i \in 1 .. Len(ms)
      BY <1>2
    <3> QED
      BY <1>1, <3>1
  <2>3. x \in Int /\ 1 <= x /\ x <= Len(ms) /\ i < x
    BY <1>1, <2>1, <2>2
  <2>4. CASE x \in B
    BY <2>4
  <2>5. CASE x <= Len(a)
    <3>1. i \in 1 .. Len(a) /\ i \notin B
      BY <1>1, <2>2, <2>3, <2>5
    <3>2. Stays(a, i) /\ a[i].id \in LatestFrameOnly
      BY <1>1, <1>6, <3>1
    <3>3. PICK j \in i + 1 .. Len(a) :
            Left(a, i, Sender(a, i), "idFrameFinished") = {j} /\ Stays(a, j)
      BY <3>1, <3>2, FinishedStays
    <3>4. Sender(ms, i) = Sender(a, i)
      BY <3>1, LeftJoin
    <3>5. x \in Left(a, i, Sender(a, i), "idFrameFinished")
      BY <2>5, <3>1, <3>4, LeftJoin
    <3>6. x = j /\ x \in 1 .. Len(a)
      BY <1>1, <2>3, <2>5, <3>3, <3>5
    <3> QED
      BY <3>3, <3>6
  <2> HIDE DEF ms
  <2> QED
    BY <1>1, <2>3, <2>4, <2>5
<1>7. ASSUME NEW i \in 1 .. Len(ms), Stays(ms, i) PROVE i \in P
  <2>1. i \in 1 .. Len(a) => i \in K
    BY <1>4, <1>7
  <2> HIDE DEF ms, K, B
  <2> QED
    BY <1>3, <2>1
<1> HIDE DEF ms, P
<1>8. Enough(ms, P)
  BY <1>2, <1>5, <1>6, <1>7 DEF Enough
<1> QED
  BY <1>8 DEF ms, P

\* Removing repetitions first does not change what is latest.
LEMMA LatestJoin ==
  ASSUME NEW a \in Seq(DebugMessage), NEW b \in Seq(DebugMessage), FramesEnd(a)
  PROVE  Latest(Latest(a) \o b) = Latest(a \o b)
<1> DEFINE K == {i \in 1 .. Len(a) : Stays(a, i)}
           P == K \cup (Len(a) + 1 .. Len(a) + Len(b))
<1>1. K \in SUBSET (1 .. Len(a)) /\ Picked(a, K) = Latest(a)
  BY DEF Latest
<1>2. Enough(a \o b, P)
  BY EnoughJoin
<1>3. a \o b \in Seq(DebugMessage)
  OBVIOUS
<1> HIDE DEF K
<1>4. Picked(a \o b, P) = Latest(a) \o b
  BY <1>1, PickedJoin
<1> HIDE DEF P
<1>5. Latest(Picked(a \o b, P)) = Latest(a \o b)
  BY <1>2, <1>3, LatestOfEnough
<1> QED
  BY <1>4, <1>5

\* Latest only removes messages.
LEMMA LatestShorter ==
  ASSUME NEW a \in Seq(DebugMessage)
  PROVE  Latest(a) \in Seq(DebugMessage) /\ Len(Latest(a)) <= Len(a)
<1> DEFINE K == {i \in 1 .. Len(a) : Stays(a, i)}
<1>1. K \in SUBSET (1 .. Len(a)) /\ Picked(a, K) = Latest(a) /\ Len(a) \in Nat
  BY DEF Latest
<1> HIDE DEF K
<1>2. Latest(a) \in Seq(DebugMessage) /\ Len(Latest(a)) = Cardinality(K)
  <2>1. Picked(a, K) \in Seq(DebugMessage) /\ Len(Picked(a, K)) = Cardinality(K)
    BY <1>1, PickedIs
  <2> QED
    BY <1>1, <2>1
<1>3. IsFiniteSet(1 .. Len(a)) /\ Cardinality(1 .. Len(a)) = Len(a)
  BY <1>1, UptoCardinality
<1>4. Cardinality(K) <= Cardinality(1 .. Len(a))
  BY <1>1, <1>3, FS_Subset
<1> QED
  BY <1>2, <1>3, <1>4

\* If the same is latest, it is with what arrives later.
LEMMA LatestSame ==
  ASSUME NEW p \in Seq(DebugMessage), NEW q \in Seq(DebugMessage), NEW x \in Seq(DebugMessage),
         FramesEnd(p), FramesEnd(q), Latest(p) = Latest(q)
  PROVE  Latest(p \o x) = Latest(q \o x)
<1>1. Latest(Latest(p) \o x) = Latest(p \o x) /\ Latest(Latest(q) \o x) = Latest(q \o x)
  BY LatestJoin
<1> QED
  BY <1>1

\* What removing repetitions leaves has none to remove.
LEMMA LatestTwice ==
  ASSUME NEW a \in Seq(DebugMessage), FramesEnd(a)
  PROVE  Latest(Latest(a)) = Latest(a)
<1>1. <<>> \in Seq(DebugMessage) /\ a \o <<>> = a
  OBVIOUS
<1>2. Latest(a) \o <<>> = Latest(a)
  BY LatestShorter
<1>3. Latest(Latest(a) \o <<>>) = Latest(a \o <<>>)
  BY <1>1, LatestJoin
<1> QED
  BY <1>1, <1>2, <1>3

\* Frames that end still do if more arrive,
LEMMA FramesEndJoin ==
  ASSUME NEW a \in Seq(DebugMessage), NEW b \in Seq(DebugMessage), FramesEnd(a), FramesEnd(b)
  PROVE  FramesEnd(a \o b)
<1> DEFINE ms == a \o b
<1>1. /\ Len(a) \in Nat /\ Len(b) \in Nat /\ Len(ms) = Len(a) + Len(b)
      /\ \A x \in 1 .. Len(a) : ms[x] = a[x]
      /\ \A x \in 1 .. Len(b) : ms[Len(a) + x] = b[x]
  OBVIOUS
<1> HIDE DEF ms
<1>2. ASSUME NEW i \in 1 .. Len(ms), ms[i].id \in LatestFrameOnly
      PROVE  \E j \in i + 1 .. Len(ms) :
               ms[j].id = "idFrameFinished" /\ NoneBetween(ms, i, j, Brackets)
  <2>1. CASE i <= Len(a)
    <3>1. i \in 1 .. Len(a) /\ a[i].id \in LatestFrameOnly
      BY <1>1, <1>2, <2>1
    <3>2. PICK j \in i + 1 .. Len(a) :
            a[j].id = "idFrameFinished" /\ NoneBetween(a, i, j, Brackets)
      BY <3>1 DEF FramesEnd
    <3>3. j \in i + 1 .. Len(ms) /\ ms[j] = a[j]
      BY <1>1, <3>1
    <3>4. NoneBetween(ms, i, j, Brackets)
      <4>1. j \in Int /\ j <= Len(a) + 1 /\ i \in Nat /\ 1 <= i
        BY <1>1, <3>1
      <4> QED
        BY <3>2, <4>1, NoneJoin DEF ms
    <3> QED
      BY <3>2, <3>3, <3>4
  <2>2. CASE Len(a) < i
    <3> DEFINE y == i - Len(a)
    <3>1. y \in 1 .. Len(b) /\ Len(a) + y = i
      BY <1>1, <2>2
    <3> HIDE DEF y
    <3>2. b[y].id \in LatestFrameOnly
      BY <1>1, <1>2, <3>1
    <3>3. PICK z \in y + 1 .. Len(b) :
            b[z].id = "idFrameFinished" /\ NoneBetween(b, y, z, Brackets)
      BY <3>1, <3>2 DEF FramesEnd
    <3>4. z \in 1 .. Len(b) /\ Len(a) + z \in i + 1 .. Len(ms)
      BY <1>1, <3>1
    <3>5. ms[Len(a) + z] = b[z]
      BY <1>1, <3>4
    <3>6. ASSUME NEW k \in i + 1 .. (Len(a) + z) - 1 PROVE ms[k].id \notin Brackets
      <4> DEFINE w == k - Len(a)
      <4>1. w \in y + 1 .. z - 1 /\ w \in 1 .. Len(b) /\ Len(a) + w = k
        BY <1>1, <3>1, <3>4
      <4> HIDE DEF w
      <4>2. b[w].id \notin Brackets /\ ms[k] = b[w]
        BY <1>1, <3>3, <4>1 DEF NoneBetween
      <4> QED
        BY <4>2
    <3>7. NoneBetween(ms, i, Len(a) + z, Brackets)
      BY <3>6 DEF NoneBetween
    <3> QED
      BY <3>3, <3>4, <3>5, <3>7
  <2> QED
    BY <1>1, <2>1, <2>2
<1> QED
  BY <1>2 DEF FramesEnd, ms

\* and after repetitions were removed.
LEMMA FramesEndLatest ==
  ASSUME NEW a \in Seq(DebugMessage), FramesEnd(a)
  PROVE  FramesEnd(Latest(a))
<1> DEFINE K == {i \in 1 .. Len(a) : Stays(a, i)}
           r == [i \in K |-> Rank(K, i)]
           ns == Picked(a, K)
<1>1. Maps(a, K, r, ns)
  BY PickedMaps
<1>2. \A i \in K : i \in 1 .. Len(a) /\ Stays(a, i)
  OBVIOUS
<1>3. \A i \in 1 .. Len(a) : Stays(a, i) => i \in K
  OBVIOUS
<1>4. Latest(a) = ns /\ Len(a) \in Nat
  BY DEF Latest
<1> HIDE DEF K, r, ns
<1>5. ASSUME NEW y \in 1 .. Len(ns), ns[y].id \in LatestFrameOnly
      PROVE  \E z \in y + 1 .. Len(ns) :
               ns[z].id = "idFrameFinished" /\ NoneBetween(ns, y, z, Brackets)
  <2>1. PICK i \in K : r[i] = y
    BY <1>1, MapsFacts
  <2>2. ns[y] = a[i] /\ i \in 1 .. Len(a) /\ Stays(a, i)
    BY <1>1, <1>2, <2>1, MapsFacts
  <2>3. PICK j \in i + 1 .. Len(a) :
          a[j].id = "idFrameFinished" /\ Stays(a, j) /\ NoneBetween(a, i, j, Brackets)
    BY <1>5, <2>2, FinishedStays
  <2>4. j \in 1 .. Len(a) /\ i < j
    BY <1>4, <2>2
  <2>5. j \in K
    BY <1>3, <2>3, <2>4
  <2>6. r[j] \in Int /\ r[j] <= Len(ns) /\ y < r[j] /\ ns[r[j]] = a[j] /\ Len(ns) \in Nat
    BY <1>1, <2>1, <2>4, <2>5, MapsFacts
  <2>7. r[j] \in y + 1 .. Len(ns)
    BY <2>6
  <2>8. NoneBetween(ns, y, r[j], Brackets)
    <3>1. ASSUME NEW k \in K, i < k, k < j PROVE a[k].id \notin Brackets
      <4>1. k \in i + 1 .. j - 1
        BY <1>2, <1>4, <2>2, <2>4, <3>1
      <4> QED
        BY <2>3, <4>1 DEF NoneBetween
    <3> QED
      BY <1>1, <2>1, <2>5, <3>1, NoneMaps
  <2> QED
    BY <2>3, <2>6, <2>7, <2>8
<1>6. FramesEnd(ns)
  BY <1>5 DEF FramesEnd
<1> QED
  BY <1>4, <1>6

-----------------------------------------------------------------------------
\* What removeRepetitions has kept after i messages: the idFrameBegin of a frame with
\* something in it and the last one, and of the rest what stays.
Carried(ms, i, j) ==
  \E k \in j + 1 .. i : Carries(ms, k) /\ NoneBetween(ms, j, k, {"idFrameBegin"})
KeptUpto(ms, i) ==
  {j \in 1 .. i : IF ms[j].id = "idFrameBegin" THEN LastBegin(ms, j, i) \/ Carried(ms, i, j)
                                              ELSE Stays(ms, j)}

\* There is nothing in the last frame begun.
NothingSince(ms, i, j) == LastBegin(ms, j, i) /\ ~Carried(ms, i, j)

\* After the last message the second pass has kept what stays.
LEMMA KeptUptoAll ==
  ASSUME NEW ms \in Seq(DebugMessage)
  PROVE  KeptUpto(ms, Len(ms)) = {i \in 1 .. Len(ms) : Stays(ms, i)}
<1>1. Len(ms) \in Nat
  OBVIOUS
<1>2. ASSUME NEW j \in 1 .. Len(ms), ms[j].id = "idFrameBegin"
      PROVE  LastBegin(ms, j, Len(ms)) \/ Carried(ms, Len(ms), j) <=> Stays(ms, j)
  <2>1. \A k : k \in j + 1 .. Len(ms) <=> k \in j + 1 .. (Len(ms) + 1) - 1
    BY <1>1
  <2>2. LastBegin(ms, j, Len(ms)) <=> NoneBetween(ms, j, Len(ms) + 1, {"idFrameBegin"})
    BY <1>2, <2>1 DEF LastBegin, NoneBetween
  <2> QED
    BY <1>2, <2>2, StaysIs DEF Carried
<1> QED
  BY <1>2 DEF KeptUpto

\* The next message is no idFrameBegin.
LEMMA UptoOther ==
  ASSUME NEW ms \in Seq(DebugMessage), NEW i \in Nat, i + 1 <= Len(ms),
         ms[i + 1].id /= "idFrameBegin"
  PROVE  /\ Stays(ms, i + 1) => KeptUpto(ms, i + 1) = KeptUpto(ms, i) \cup {i + 1}
         /\ ~Stays(ms, i + 1) => KeptUpto(ms, i + 1) = KeptUpto(ms, i)
         /\ \A j \in 1 .. i : LastBegin(ms, j, i + 1) <=> LastBegin(ms, j, i)
         /\ ~LastBegin(ms, i + 1, i + 1)
         /\ \A j \in 1 .. i : Carried(ms, i, j) => Carried(ms, i + 1, j)
         /\ \A j \in 1 .. i : ~Carries(ms, i + 1) /\ Carried(ms, i + 1, j) => Carried(ms, i, j)
         /\ \A j \in 1 .. i : Carries(ms, i + 1) /\ LastBegin(ms, j, i) => Carried(ms, i + 1, j)
<1>1. ASSUME NEW j \in 1 .. i PROVE LastBegin(ms, j, i + 1) <=> LastBegin(ms, j, i)
  <2>1. \A k \in j + 1 .. i + 1 : k = i + 1 \/ k \in j + 1 .. i
    OBVIOUS
  <2>2. \A k \in j + 1 .. i : k \in j + 1 .. i + 1
    OBVIOUS
  <2>3. j \in 1 .. i + 1
    OBVIOUS
  <2> QED
    BY <2>1, <2>2, <2>3 DEF LastBegin
<1>2. ~LastBegin(ms, i + 1, i + 1)
  BY DEF LastBegin
<1>3. ASSUME NEW j \in 1 .. i, Carried(ms, i, j) PROVE Carried(ms, i + 1, j)
  <2>1. \A k \in j + 1 .. i : k \in j + 1 .. i + 1
    OBVIOUS
  <2> QED
    BY <1>3, <2>1 DEF Carried
<1>4. ASSUME NEW j \in 1 .. i, ~Carries(ms, i + 1), Carried(ms, i + 1, j)
      PROVE  Carried(ms, i, j)
  <2>1. \A k \in j + 1 .. i + 1 : k = i + 1 \/ k \in j + 1 .. i
    OBVIOUS
  <2> QED
    BY <1>4, <2>1 DEF Carried
<1>5. ASSUME NEW j \in 1 .. i, LastBegin(ms, j, i)
      PROVE  NoneBetween(ms, j, i + 1, {"idFrameBegin"}) /\ i + 1 \in j + 1 .. i + 1
  <2>1. \A k \in j + 1 .. (i + 1) - 1 : k \in j + 1 .. i
    OBVIOUS
  <2>2. i + 1 \in j + 1 .. i + 1
    OBVIOUS
  <2> QED
    BY <1>5, <2>1, <2>2 DEF NoneBetween, LastBegin
<1>6. ASSUME NEW j \in 1 .. i, Carries(ms, i + 1), LastBegin(ms, j, i)
      PROVE  Carried(ms, i + 1, j)
  BY <1>5, <1>6 DEF Carried
<1>7. ASSUME NEW j \in 1 .. i, ms[j].id = "idFrameBegin"
      PROVE  LastBegin(ms, j, i) \/ Carried(ms, i, j)
               <=> LastBegin(ms, j, i + 1) \/ Carried(ms, i + 1, j)
  <2>1. ASSUME Carried(ms, i + 1, j), ~Carried(ms, i, j) PROVE LastBegin(ms, j, i)
    <3>1. PICK k \in j + 1 .. i + 1 :
            Carries(ms, k) /\ NoneBetween(ms, j, k, {"idFrameBegin"})
      BY <2>1 DEF Carried
    <3>2. ~(k \in j + 1 .. i)
      BY <2>1, <3>1 DEF Carried
    <3>3. k = i + 1
      BY <3>1, <3>2
    <3>4. \A x \in j + 1 .. i : x \in j + 1 .. k - 1
      BY <3>3
    <3> QED
      BY <1>7, <3>1, <3>4 DEF LastBegin, NoneBetween
  <2> QED
    BY <1>1, <1>3, <2>1
<1>8. ASSUME NEW j \in 1 .. i PROVE j \in KeptUpto(ms, i + 1) <=> j \in KeptUpto(ms, i)
  <2>1. j \in 1 .. i + 1
    OBVIOUS
  <2>2. CASE ms[j].id = "idFrameBegin"
    BY <1>7, <2>1, <2>2 DEF KeptUpto
  <2>3. CASE ms[j].id /= "idFrameBegin"
    BY <2>1, <2>3 DEF KeptUpto
  <2> QED
    BY <2>2, <2>3
<1>9. i + 1 \in KeptUpto(ms, i + 1) <=> Stays(ms, i + 1)
  BY DEF KeptUpto
<1>10. ASSUME NEW j PROVE /\ j \in KeptUpto(ms, i) => j \in 1 .. i
                          /\ j \in KeptUpto(ms, i + 1) => j \in 1 .. i \/ j = i + 1
  <2>1. j \in 1 .. i + 1 => j \in 1 .. i \/ j = i + 1
    OBVIOUS
  <2> QED
    BY <2>1 DEF KeptUpto
<1>11. Stays(ms, i + 1) => KeptUpto(ms, i + 1) = KeptUpto(ms, i) \cup {i + 1}
  BY <1>8, <1>9, <1>10
<1>12. ~Stays(ms, i + 1) => KeptUpto(ms, i + 1) = KeptUpto(ms, i)
  BY <1>8, <1>9, <1>10
<1> QED
  BY <1>1, <1>2, <1>3, <1>4, <1>6, <1>11, <1>12

\* The next message is an idFrameBegin: it replaces the last one if there is nothing behind
\* that.
LEMMA UptoBegin ==
  ASSUME NEW ms \in Seq(DebugMessage), NEW i \in Nat, i + 1 <= Len(ms),
         ms[i + 1].id = "idFrameBegin"
  PROVE  /\ \A j \in 1 .. i : ~LastBegin(ms, j, i + 1)
         /\ LastBegin(ms, i + 1, i + 1) /\ ~Carried(ms, i + 1, i + 1)
         /\ \A j \in 1 .. i : NothingSince(ms, i, j) =>
              /\ j \in KeptUpto(ms, i) /\ KeptUpto(ms, i) \ {j} \in SUBSET (1 .. j - 1)
              /\ KeptUpto(ms, i + 1) = (KeptUpto(ms, i) \ {j}) \cup {i + 1}
         /\ (\A j \in 1 .. i : ~NothingSince(ms, i, j)) =>
              KeptUpto(ms, i + 1) = KeptUpto(ms, i) \cup {i + 1}
<1>1. ASSUME NEW j \in 1 .. i PROVE ~LastBegin(ms, j, i + 1)
  <2>1. i + 1 \in j + 1 .. i + 1
    OBVIOUS
  <2> QED
    BY <2>1 DEF LastBegin
<1>2. LastBegin(ms, i + 1, i + 1)
  BY DEF LastBegin
<1>3. ~Carried(ms, i + 1, i + 1)
  BY DEF Carried
<1>4. ASSUME NEW j \in 1 .. i PROVE Carried(ms, i + 1, j) <=> Carried(ms, i, j)
  <2>1. ~Carries(ms, i + 1)
    BY DEF Carries, Brackets
  <2>2. \A k \in j + 1 .. i + 1 : k = i + 1 \/ k \in j + 1 .. i
    OBVIOUS
  <2>3. \A k \in j + 1 .. i : k \in j + 1 .. i + 1
    OBVIOUS
  <2> QED
    BY <2>1, <2>2, <2>3 DEF Carried
<1>5. ASSUME NEW j \in 1 .. i
      PROVE  j \in KeptUpto(ms, i + 1) <=> j \in KeptUpto(ms, i) /\ ~NothingSince(ms, i, j)
  <2>1. j \in 1 .. i + 1
    OBVIOUS
  <2>2. CASE ms[j].id = "idFrameBegin"
    BY <1>1, <1>4, <2>1, <2>2 DEF KeptUpto, NothingSince
  <2>3. CASE ms[j].id /= "idFrameBegin"
    BY <2>1, <2>3 DEF KeptUpto, NothingSince, LastBegin
  <2> QED
    BY <2>2, <2>3
<1>6. i + 1 \in KeptUpto(ms, i + 1)
  BY <1>2 DEF KeptUpto
<1>7. ASSUME NEW j PROVE /\ j \in KeptUpto(ms, i) => j \in 1 .. i
                         /\ j \in KeptUpto(ms, i + 1) => j \in 1 .. i \/ j = i + 1
  <2>1. j \in 1 .. i + 1 => j \in 1 .. i \/ j = i + 1
    OBVIOUS
  <2> QED
    BY <2>1 DEF KeptUpto
<1>8. ASSUME NEW j \in 1 .. i, NEW k \in 1 .. i, NothingSince(ms, i, j), NothingSince(ms, i, k)
      PROVE  j = k
  <2>1. /\ ms[j].id = "idFrameBegin" /\ \A x \in j + 1 .. i : ms[x].id /= "idFrameBegin"
        /\ ms[k].id = "idFrameBegin" /\ \A x \in k + 1 .. i : ms[x].id /= "idFrameBegin"
    BY <1>8 DEF NothingSince, LastBegin
  <2>2. ~(k \in j + 1 .. i) /\ ~(j \in k + 1 .. i)
    BY <2>1
  <2> QED
    BY <2>2
<1>9. ASSUME NEW j \in 1 .. i, NothingSince(ms, i, j)
      PROVE  /\ j \in KeptUpto(ms, i) /\ KeptUpto(ms, i) \ {j} \in SUBSET (1 .. j - 1)
             /\ KeptUpto(ms, i + 1) = (KeptUpto(ms, i) \ {j}) \cup {i + 1}
  <2>1. j \in KeptUpto(ms, i)
    BY <1>9 DEF NothingSince, KeptUpto, LastBegin
  <2>2. /\ ms[j].id = "idFrameBegin" /\ \A x \in j + 1 .. i : ms[x].id /= "idFrameBegin"
        /\ ~Carried(ms, i, j)
    BY <1>9 DEF NothingSince, LastBegin
  <2>3. ASSUME NEW x \in j + 1 .. i, Carries(ms, x) PROVE FALSE
    <3>1. \A k \in j + 1 .. x - 1 : k \in j + 1 .. i
      OBVIOUS
    <3> QED
      BY <2>2, <2>3, <3>1 DEF Carried, NoneBetween
  <2>4. ASSUME NEW x \in KeptUpto(ms, i), x /= j PROVE x \in 1 .. j - 1
    <3>1. x \in 1 .. i
      BY <1>7
    <3> SUFFICES ASSUME x \in j + 1 .. i PROVE FALSE
      BY <2>4, <3>1
    <3>2. Stays(ms, x) /\ ms[x].id /= "idFrameBegin"
      BY <2>2 DEF KeptUpto
    <3>3. CASE ms[x].id = "idFrameFinished"
      <4>1. PICK k \in 1 .. x - 1 : Carries(ms, k) /\ NoneBetween(ms, k, x, Brackets)
        BY <3>2, <3>3, StaysIs
      <4>2. k /= j
        BY <2>2, <4>1 DEF Carries, Brackets
      <4>3. ~(j \in k + 1 .. x - 1)
        BY <2>2, <4>1 DEF NoneBetween, Brackets
      <4>4. k \in j + 1 .. i
        BY <4>2, <4>3
      <4> QED
        BY <2>3, <4>1, <4>4
    <3>4. CASE ms[x].id \notin Brackets
      <4>1. Carries(ms, x)
        BY <3>2, <3>4, StaysIs DEF Carries
      <4> QED
        BY <2>3, <4>1
    <3> QED
      BY <3>2, <3>3, <3>4 DEF Brackets
  <2>5. KeptUpto(ms, i + 1) = (KeptUpto(ms, i) \ {j}) \cup {i + 1}
    <3>1. ASSUME NEW x \in KeptUpto(ms, i + 1)
          PROVE  x \in (KeptUpto(ms, i) \ {j}) \cup {i + 1}
      BY <1>5, <1>7, <1>9
    <3>2. ASSUME NEW x \in KeptUpto(ms, i), x /= j PROVE x \in KeptUpto(ms, i + 1)
      BY <1>5, <1>7, <1>8, <1>9, <3>2
    <3> QED
      BY <1>6, <3>1, <3>2
  <2> QED
    BY <2>1, <2>4, <2>5
<1>10. ASSUME \A j \in 1 .. i : ~NothingSince(ms, i, j)
       PROVE  KeptUpto(ms, i + 1) = KeptUpto(ms, i) \cup {i + 1}
  <2>1. ASSUME NEW x \in KeptUpto(ms, i + 1) PROVE x \in KeptUpto(ms, i) \cup {i + 1}
    BY <1>5, <1>7
  <2>2. ASSUME NEW x \in KeptUpto(ms, i) PROVE x \in KeptUpto(ms, i + 1)
    BY <1>5, <1>7, <1>10
  <2> QED
    BY <1>6, <2>1, <2>2
<1> QED
  BY <1>1, <1>2, <1>3, <1>9, <1>10

-----------------------------------------------------------------------------
\* What is left after one more message.
LEMMA LeftNext ==
  ASSUME NEW ms, Len(ms) \in Nat, NEW i \in Nat, i + 1 <= Len(ms), NEW name, NEW id
  PROVE  /\ ms[i + 1].id = id /\ Sender(ms, i + 1) = name =>
              Cardinality(Left(ms, i, name, id)) = Cardinality(Left(ms, i + 1, name, id)) + 1
         /\ ~(ms[i + 1].id = id /\ Sender(ms, i + 1) = name) =>
              Left(ms, i, name, id) = Left(ms, i + 1, name, id)
<1> DEFINE L == Left(ms, i, name, id)
           M == Left(ms, i + 1, name, id)
<1>1. ASSUME NEW x
      PROVE  x \in L <=> x \in M \/ (x = i + 1 /\ ms[i + 1].id = id /\ Sender(ms, i + 1) = name)
  <2>1. x \in i + 1 .. Len(ms) <=> x = i + 1 \/ x \in (i + 1) + 1 .. Len(ms)
    OBVIOUS
  <2> QED
    BY <2>1 DEF Left
<1>2. i + 1 \notin M
  BY DEF Left
<1>3. IsFiniteSet(M) /\ Cardinality(M) \in Nat
  <2>1. i + 1 \in Nat
    OBVIOUS
  <2> QED
    BY <2>1, LeftSet
<1>4. ASSUME ms[i + 1].id = id, Sender(ms, i + 1) = name
      PROVE  Cardinality(L) = Cardinality(M) + 1
  <2>1. L = M \cup {i + 1}
    BY <1>1, <1>4
  <2> HIDE DEF L, M
  <2> QED
    BY <1>2, <1>3, <2>1, FS_AddElement
<1>5. ASSUME ~(ms[i + 1].id = id /\ Sender(ms, i + 1) = name) PROVE L = M
  <2> HIDE DEF L, M
  <2> QED
    BY <1>1, <1>5
<1> QED
  BY <1>4, <1>5

\* A counter that is wide enough counts.
LEMMA WideEnough ==
  ASSUME NEW n \in Nat, NEW c \in Nat, n < c PROVE n % c = n
OBVIOUS

\* Which messages are copied.
LEMMA CopyIs ==
  ASSUME NEW m, NEW s, NEW left
  PROVE  /\ m.id \in AlwaysKept => Copy(m, s, left)
         /\ m.id \in LatestFrameOnly => (Copy(m, s, left) <=> left["idFrameFinished"] = 1)
         /\ m.id = "idText" => (Copy(m, s, left) <=> left["idText"] <= TextLimit)
         /\ m.id = "idFrameFinished" => (Copy(m, s, left) <=> ~s.frameEmpty)
         /\ m.id \notin AlwaysKept \cup LatestFrameOnly \cup Brackets \cup {"idText"} =>
              (Copy(m, s, left) <=> left[m.id] = 0)
<1>1. m.id \in AlwaysKept => Copy(m, s, left)
  BY DEF Copy
<1>2. m.id \in LatestFrameOnly => (Copy(m, s, left) <=> left["idFrameFinished"] = 1)
  BY DEF Copy, Counted, AlwaysKept, LatestFrameOnly
<1>3. m.id = "idText" => (Copy(m, s, left) <=> left["idText"] <= TextLimit)
  BY DEF Copy, Counted, AlwaysKept, LatestFrameOnly
<1>4. m.id = "idFrameFinished" => (Copy(m, s, left) <=> ~s.frameEmpty)
  BY DEF Copy, Counted, AlwaysKept, LatestFrameOnly
<1>5. ASSUME m.id \notin AlwaysKept \cup LatestFrameOnly \cup Brackets \cup {"idText"}
      PROVE  Copy(m, s, left) <=> left[m.id] = 0
  BY <1>5 DEF Copy, Counted, Brackets
<1> QED
  BY <1>1, <1>2, <1>3, <1>4, <1>5

-----------------------------------------------------------------------------
\* What is left of each thread is known, as long as the counters are wide enough;
Counts(threads, ms, i) ==
  /\ threads \in [Thread \cup {Unknown} -> [MessageID -> Int]]
  /\ \A name \in Thread \cup {Unknown}, id \in MessageID :
       Counted(id) => threads[name][id] = Cardinality(Left(ms, i, name, id))

\* and what has been kept is what would be kept of the messages so far.
ScanLatest(s, ms, i) ==
  /\ s.name = Sender(ms, i) /\ s.name \in Thread \cup {Unknown}
  /\ Counts(s.threads, ms, i)
  /\ s.kept = Picked(ms, KeptUpto(ms, i))
  /\ s.frameEmpty \in BOOLEAN
  /\ ~s.frameEmpty <=> \E k \in 1 .. i : Carries(ms, k) /\ NoneBetween(ms, k, i + 1, Brackets)
  /\ s.frameBegin /= NoFrame <=> \E j \in 1 .. i : NothingSince(ms, i, j)
  /\ \A j \in 1 .. i :
       NothingSince(ms, i, j) => s.frameBegin = Cardinality(KeptUpto(ms, i) \ {j})

\* The first pass: all counters are right if they are wide enough.
LEMMA CountLemma ==
  ASSUME NEW ms \in Seq(DebugMessage), Len(ms) < CounterSize
  PROVE  Counts(Count(ms), ms, 0)
<1> DEFINE left(name, id) == Cardinality(Left(ms, 0, name, id))
<1>1. ASSUME NEW name, NEW id
      PROVE  left(name, id) \in Nat /\ left(name, id) % CounterSize = left(name, id)
  <2> DEFINE S == Left(ms, 0, name, id)
  <2>1. Len(ms) \in Nat /\ 0 \in Nat
    OBVIOUS
  <2>2. S \in SUBSET (1 .. Len(ms)) /\ Cardinality(S) \in Nat
    BY <2>1, LeftSet
  <2>3. IsFiniteSet(1 .. Len(ms)) /\ Cardinality(1 .. Len(ms)) = Len(ms)
    BY <2>1, FS_Interval
  <2> HIDE DEF S
  <2>4. Cardinality(S) <= Len(ms)
    BY <2>2, <2>3, FS_Subset
  <2>5. CounterSize \in Nat /\ Cardinality(S) < CounterSize
    BY <2>1, <2>2, <2>4, DebugQueueAssumption
  <2>6. Cardinality(S) % CounterSize = Cardinality(S)
    BY <2>2, <2>5, WideEnough
  <2> QED
    BY <2>2, <2>6 DEF S
<1>2. Count(ms) = [name \in Thread \cup {Unknown} |-> [id \in MessageID |-> left(name, id)]]
  <2>1. Count(ms) = [name \in Thread \cup {Unknown} |->
                       [id \in MessageID |-> left(name, id) % CounterSize]]
    BY DEF Count
  <2> HIDE DEF left
  <2> QED
    BY <1>1, <2>1
<1> HIDE DEF left
<1>3. Count(ms) \in [Thread \cup {Unknown} -> [MessageID -> Int]]
  BY <1>1, <1>2
<1>4. \A name \in Thread \cup {Unknown}, id \in MessageID : Count(ms)[name][id] = left(name, id)
  BY <1>2
<1> QED
  BY <1>3, <1>4 DEF Counts, left

\* Before the second pass nothing has been kept.
LEMMA ScanLatestStart ==
  ASSUME NEW ms \in Seq(DebugMessage), Len(ms) < CounterSize
  PROVE  ScanLatest(ScanStart(ms), ms, 0)
<1> DEFINE s == ScanStart(ms)
<1>1. /\ s.name = Unknown /\ s.threads = Count(ms) /\ s.kept = <<>> /\ s.frameBegin = NoFrame
      /\ s.frameEmpty = TRUE
  BY DEF ScanStart
<1> HIDE DEF s
<1>2. \A j : j \notin 1 .. 0
  OBVIOUS
<1>3. KeptUpto(ms, 0) = {}
  BY <1>2 DEF KeptUpto
<1>4. Sender(ms, 0) = Unknown
  BY SenderStep
<1>5. ScanLatest(s, ms, 0)
  BY <1>1, <1>2, <1>3, <1>4, CountLemma, PickedNone DEF ScanLatest
<1> QED
  BY <1>5 DEF s

\* One message is counted down.
LEMMA CountsStep ==
  ASSUME NEW ms \in Seq(DebugMessage), Len(ms) < CounterSize, NEW i \in Nat, i + 1 <= Len(ms),
         NEW threads, Counts(threads, ms, i), Sender(ms, i + 1) \in Thread \cup {Unknown}
  PROVE  LET m == ms[i + 1]
             name == Sender(ms, i + 1)
         IN  Counts(IF Counted(m.id) THEN [threads EXCEPT ![name][m.id] = (@ - 1) % CounterSize]
                                     ELSE threads, ms, i + 1)
<1> DEFINE m == ms[i + 1]
           name == Sender(ms, i + 1)
           new == IF Counted(m.id) THEN [threads EXCEPT ![name][m.id] = (@ - 1) % CounterSize]
                                   ELSE threads
           left(k, n, id) == Cardinality(Left(ms, k, n, id))
<1>1. Len(ms) \in Nat /\ i + 1 \in 1 .. Len(ms) /\ m \in DebugMessage
  OBVIOUS
<1>2. m.id \in MessageID /\ CounterSize \in Nat \ {0}
  BY <1>1, DebugQueueAssumption DEF DebugMessage
<1> HIDE DEF m
<1>3. /\ threads \in [Thread \cup {Unknown} -> [MessageID -> Int]]
      /\ \A n \in Thread \cup {Unknown}, id \in MessageID :
           Counted(id) => threads[n][id] = left(i, n, id)
  BY DEF Counts
<1>4. ASSUME NEW n, NEW id
      PROVE  /\ m.id = id /\ name = n => left(i, n, id) = left(i + 1, n, id) + 1
             /\ ~(m.id = id /\ name = n) => left(i, n, id) = left(i + 1, n, id)
             /\ left(i + 1, n, id) \in Nat /\ left(i + 1, n, id) < CounterSize
  <2>1. /\ m.id = id /\ name = n => left(i, n, id) = left(i + 1, n, id) + 1
        /\ ~(m.id = id /\ name = n) => left(i, n, id) = left(i + 1, n, id)
    BY <1>1, LeftNext DEF m
  <2> DEFINE S == Left(ms, i + 1, n, id)
  <2>2. i + 1 \in Nat
    OBVIOUS
  <2>3. S \in SUBSET (1 .. Len(ms)) /\ Cardinality(S) \in Nat
    BY <1>1, <2>2, LeftSet
  <2>4. IsFiniteSet(1 .. Len(ms)) /\ Cardinality(1 .. Len(ms)) = Len(ms)
    BY <1>1, UptoCardinality
  <2> HIDE DEF S
  <2>5. Cardinality(S) <= Len(ms)
    BY <2>3, <2>4, FS_Subset
  <2>6. Cardinality(S) < CounterSize
    BY <1>1, <1>2, <2>3, <2>5
  <2> QED
    BY <2>1, <2>3, <2>6 DEF S
<1> HIDE DEF left, name
<1>5. name \in Thread \cup {Unknown}
  BY DEF name
<1>6. CASE Counted(m.id)
  <2>1. threads[name][m.id] = left(i, name, m.id)
    BY <1>2, <1>3, <1>5, <1>6
  <2>2. (threads[name][m.id] - 1) % CounterSize = left(i + 1, name, m.id)
    <3>1. left(i, name, m.id) = left(i + 1, name, m.id) + 1
      BY <1>4
    <3>2. left(i + 1, name, m.id) \in Nat /\ left(i + 1, name, m.id) < CounterSize
      BY <1>4
    <3>3. threads[name][m.id] - 1 = left(i + 1, name, m.id)
      BY <2>1, <3>1, <3>2
    <3>4. left(i + 1, name, m.id) % CounterSize = left(i + 1, name, m.id)
      BY <1>2, <3>2, WideEnough
    <3> QED
      BY <3>3, <3>4
  <2>3. new = [threads EXCEPT ![name][m.id] = left(i + 1, name, m.id)]
    BY <1>6, <2>2
  <2>4. left(i + 1, name, m.id) \in Int
    <3>1. left(i + 1, name, m.id) \in Nat
      BY <1>4
    <3> QED
      BY <3>1
  <2> HIDE DEF new
  <2>5. new \in [Thread \cup {Unknown} -> [MessageID -> Int]]
    BY <1>2, <1>3, <1>5, <2>3, <2>4
  <2>6. ASSUME NEW n \in Thread \cup {Unknown}, NEW id \in MessageID, Counted(id)
        PROVE  new[n][id] = left(i + 1, n, id)
    <3>1. CASE n = name /\ id = m.id
      BY <1>2, <1>3, <1>5, <2>3, <3>1
    <3>2. CASE ~(n = name /\ id = m.id)
      <4>1. new[n][id] = threads[n][id]
        BY <1>2, <1>3, <1>5, <2>3, <3>2
      <4> QED
        BY <1>3, <1>4, <2>6, <3>2, <4>1
    <3> QED
      BY <3>1, <3>2
  <2> QED
    BY <2>5, <2>6 DEF Counts, left, new, m, name
<1>7. CASE ~Counted(m.id)
  <2>1. new = threads
    BY <1>7
  <2>2. ASSUME NEW n \in Thread \cup {Unknown}, NEW id \in MessageID, Counted(id)
        PROVE  threads[n][id] = left(i + 1, n, id)
    BY <1>3, <1>4, <1>7, <2>2
  <2> HIDE DEF new
  <2> QED
    BY <1>3, <2>1, <2>2 DEF Counts, left, new, m, name
<1> QED
  BY <1>6, <1>7

\* A message that is no idFrameBegin is copied if and only if it stays.
LEMMA CopyStays ==
  ASSUME NEW ms \in Seq(DebugMessage), NEW i \in Nat, i + 1 <= Len(ms),
         NEW s, ScanLatest(s, ms, i), NEW threads, Counts(threads, ms, i + 1),
         Sender(ms, i + 1) \in Thread \cup {Unknown}, ms[i + 1].id /= "idFrameBegin"
  PROVE  Copy(ms[i + 1], s, threads[Sender(ms, i + 1)]) <=> Stays(ms, i + 1)
<1> DEFINE m == ms[i + 1]
           name == Sender(ms, i + 1)
           left == threads[name]
           later(id) == Left(ms, i + 1, name, id)
<1>1. Len(ms) \in Nat /\ i + 1 \in 1 .. Len(ms) /\ i + 1 \in Nat /\ m \in DebugMessage
  OBVIOUS
<1>2. m.id \in MessageID /\ "idFrameFinished" \in MessageID
  BY <1>1 DEF DebugMessage, MessageID, Brackets
<1>3. \A id \in MessageID : Counted(id) => left[id] = Cardinality(later(id))
  BY DEF Counts
<1>4. ASSUME NEW id PROVE IsFiniteSet(later(id))
  BY <1>1, LeftSet
<1>5. m.id /= "idFrameBegin"
  OBVIOUS
<1>6. Stays(ms, i + 1) <=> IF m.id = "idFrameFinished"
                             THEN \E k \in 1 .. (i + 1) - 1 :
                                    Carries(ms, k) /\ NoneBetween(ms, k, i + 1, Brackets)
                             ELSE Kept(ms, i + 1)
  BY <1>5, StaysIs DEF Brackets
<1>7. Counted("idFrameFinished") /\ Counted("idText")
  BY DEF Counted, AlwaysKept, LatestFrameOnly
<1>8. /\ m.id \in AlwaysKept => Kept(ms, i + 1) /\ m.id /= "idFrameFinished"
      /\ m.id \in LatestFrameOnly =>
           /\ m.id /= "idFrameFinished"
           /\ Kept(ms, i + 1) <=> Cardinality(later("idFrameFinished")) = 1
      /\ m.id = "idText" => (Kept(ms, i + 1) <=> Cardinality(later("idText")) <= TextLimit)
      /\ m.id \notin AlwaysKept \cup LatestFrameOnly \cup {"idText"} =>
           (Kept(ms, i + 1) <=> later(m.id) = {})
  BY KeptIs DEF AlwaysKept, LatestFrameOnly
<1>9. CASE m.id \in AlwaysKept
  BY <1>6, <1>8, <1>9, CopyIs
<1>10. CASE m.id \in LatestFrameOnly
  <2>1. left["idFrameFinished"] = Cardinality(later("idFrameFinished"))
    BY <1>2, <1>3, <1>7
  <2>2. Copy(m, s, left) <=> left["idFrameFinished"] = 1
    BY <1>10, CopyIs
  <2> QED
    BY <1>6, <1>8, <1>10, <2>1, <2>2
<1>11. CASE m.id = "idText"
  <2>1. left["idText"] = Cardinality(later("idText"))
    BY <1>2, <1>3, <1>7, <1>11
  <2>2. Copy(m, s, left) <=> left["idText"] <= TextLimit
    BY <1>11, CopyIs
  <2> QED
    BY <1>6, <1>8, <1>11, <2>1, <2>2
<1>12. CASE m.id = "idFrameFinished"
  <2>1. Copy(m, s, left) <=> ~s.frameEmpty
    BY <1>12, CopyIs
  <2>2. ~s.frameEmpty <=> \E k \in 1 .. i : Carries(ms, k) /\ NoneBetween(ms, k, i + 1, Brackets)
    BY DEF ScanLatest
  <2>3. (i + 1) - 1 = i
    OBVIOUS
  <2> QED
    BY <1>6, <1>12, <2>1, <2>2, <2>3
<1>13. CASE m.id \notin AlwaysKept \cup LatestFrameOnly \cup Brackets \cup {"idText"}
  <2>1. Counted(m.id)
    BY <1>13 DEF Counted, Brackets
  <2>2. left[m.id] = Cardinality(later(m.id))
    BY <1>2, <1>3, <2>1
  <2>3. Copy(m, s, left) <=> left[m.id] = 0
    BY <1>13, CopyIs
  <2>4. later(m.id) = {} <=> Cardinality(later(m.id)) = 0
    <3>1. IsFiniteSet(later(m.id))
      BY <1>4
    <3> HIDE DEF later
    <3> QED
      BY <3>1, FS_EmptySet
  <2>5. m.id /= "idFrameFinished"
    BY <1>13 DEF Brackets
  <2> QED
    BY <1>6, <1>8, <1>13, <2>2, <2>3, <2>4, <2>5
<1> QED
  BY <1>5, <1>9, <1>10, <1>11, <1>12, <1>13 DEF Brackets

\* Only messages up to the current one have been kept.
LEMMA UptoRange ==
  ASSUME NEW ms, NEW i \in Nat PROVE KeptUpto(ms, i) \in SUBSET (1 .. i)
BY DEF KeptUpto

\* One more message is scanned.
LEMMA ScanLatestStep ==
  ASSUME NEW ms \in Seq(DebugMessage), Len(ms) < CounterSize, NEW i \in Nat, i + 1 <= Len(ms),
         NEW s, ScanLatest(s, ms, i)
  PROVE  ScanLatest(Scan(s, ms[i + 1]), ms, i + 1)
<1> DEFINE m == ms[i + 1]
           name == IF m.id = "idFrameBegin" THEN m.from ELSE s.name
           threads == IF Counted(m.id) THEN [s.threads EXCEPT ![name][m.id] = (@ - 1) % CounterSize]
                                       ELSE s.threads
           copy == Copy(m, s, threads[name])
           reverts == m.id = "idFrameBegin" /\ s.frameBegin /= NoFrame
           kept == IF reverts THEN SubSeq(s.kept, 1, s.frameBegin) ELSE s.kept
           r == Scan(s, m)
           K == KeptUpto(ms, i)
           J == KeptUpto(ms, i + 1)
           something(x) == \E k \in 1 .. x : Carries(ms, k) /\ NoneBetween(ms, k, x + 1, Brackets)
<1>1. /\ Len(ms) \in Nat /\ i + 1 \in 1 .. Len(ms) /\ (i + 1) - 1 = i /\ m \in DebugMessage
      /\ i + 1 \in i + 1 .. Len(ms)
  OBVIOUS
<1>2. m.from \in Thread \cup {Unknown}
  BY <1>1 DEF DebugMessage
<1>3. /\ s.name = Sender(ms, i) /\ s.name \in Thread \cup {Unknown}
      /\ Counts(s.threads, ms, i) /\ s.kept = Picked(ms, K)
      /\ s.frameEmpty \in BOOLEAN /\ (~s.frameEmpty <=> something(i))
      /\ s.frameBegin /= NoFrame <=> \E j \in 1 .. i : NothingSince(ms, i, j)
      /\ \A j \in 1 .. i : NothingSince(ms, i, j) => s.frameBegin = Cardinality(K \ {j})
  BY DEF ScanLatest
<1>4. name = Sender(ms, i + 1) /\ name \in Thread \cup {Unknown}
  BY <1>1, <1>2, <1>3, SenderStep
<1>5. Counts(threads, ms, i + 1)
  BY <1>3, <1>4, CountsStep
<1>6. copy \in BOOLEAN
  BY DEF Copy
<1>7. /\ r.name = name /\ r.threads = threads
      /\ r.kept = (IF copy THEN Append(kept, m) ELSE kept)
      /\ r.frameBegin = FrameBegin(s, m, Len(kept), copy)
      /\ r.frameEmpty = (IF copy THEN m.id \in Brackets ELSE s.frameEmpty)
  BY DEF Scan
<1>8. m.id /= "idFrameBegin" => (copy <=> Stays(ms, i + 1))
  BY <1>4, <1>5, CopyStays
<1>9. m.id = "idFrameBegin" => copy
  BY CopyLemmaOfBrackets
<1>10. K \in SUBSET (1 .. i) /\ K \in SUBSET (1 .. Len(ms))
  <2>1. K \in SUBSET (1 .. i)
    BY UptoRange
  <2>2. \A x \in 1 .. i : x \in 1 .. Len(ms)
    BY <1>1
  <2> HIDE DEF K
  <2> QED
    BY <2>1, <2>2
<1>11. s.kept \in Seq(DebugMessage)
  BY <1>3, <1>10, PickedIs
<1>12. copy => copy = TRUE
  BY <1>6, Zenon
<1>13. ~copy => copy = FALSE
  BY <1>6, Zenon
<1>14. Picked(ms, K \cup {i + 1}) = Append(Picked(ms, K), m)
  BY <1>1, <1>10, PickedAppend
<1> HIDE DEF m, name, threads, copy, K, J, r, something
<1>15. ASSUME m.id = "idFrameBegin" PROVE ScanLatest(r, ms, i + 1)
  <2>1. /\ r.kept = Append(kept, m) /\ r.frameBegin = Len(kept) /\ r.frameEmpty = TRUE
    <3>1. copy /\ copy = TRUE
      BY <1>9, <1>12, <1>15
    <3>2. FrameBegin(s, m, Len(kept), TRUE) = Len(kept)
      BY <1>15 DEF FrameBegin, Brackets
    <3>3. m.id \in Brackets
      BY <1>15 DEF Brackets
    <3>4. r.frameBegin = FrameBegin(s, m, Len(kept), copy)
      BY <1>7
    <3>5. r.frameBegin = Len(kept)
      BY <3>1, <3>2, <3>4, Zenon
    <3>6. r.frameEmpty = (m.id \in Brackets) /\ r.kept = Append(kept, m)
      BY <1>7, <3>1
    <3> QED
      BY <3>3, <3>5, <3>6
  <2>2. ~something(i + 1)
    <3>1. ASSUME NEW k \in 1 .. i + 1, Carries(ms, k), NoneBetween(ms, k, (i + 1) + 1, Brackets)
          PROVE FALSE
      <4>1. k /= i + 1
        BY <1>15, <3>1 DEF Carries, Brackets, m
      <4>2. i + 1 \in k + 1 .. ((i + 1) + 1) - 1
        BY <4>1
      <4> QED
        BY <1>15, <3>1, <4>2 DEF NoneBetween, Brackets, m
    <3> QED
      BY <3>1 DEF something
  <2>3. /\ \A j \in 1 .. i : ~NothingSince(ms, i + 1, j)
        /\ NothingSince(ms, i + 1, i + 1)
    BY <1>15, UptoBegin DEF NothingSince, m
  <2>4. PICK H \in SUBSET (1 .. i) : J = H \cup {i + 1} /\ kept = Picked(ms, H)
    <3>1. CASE \E j \in 1 .. i : NothingSince(ms, i, j)
      <4>1. PICK j \in 1 .. i : NothingSince(ms, i, j)
        BY <3>1
      <4> DEFINE H == K \ {j}
      <4>2. j \in K /\ H \in SUBSET (1 .. j - 1) /\ J = H \cup {i + 1}
        BY <1>15, <4>1, UptoBegin DEF m, K, J
      <4>3. kept = SubSeq(s.kept, 1, Cardinality(H))
        <5>1. s.frameBegin /= NoFrame /\ s.frameBegin = Cardinality(H)
          BY <1>3, <4>1
        <5> QED
          BY <1>15, <5>1
      <4>4. K = H \cup {j} /\ H \in SUBSET (1 .. i)
        BY <1>10, <4>2
      <4>5. j - 1 \in Nat /\ j \in (j - 1) + 1 .. Len(ms)
        BY <1>1
      <4> HIDE DEF H
      <4>6. SubSeq(Picked(ms, H \cup {j}), 1, Cardinality(H)) = Picked(ms, H)
        BY <4>2, <4>5, PickedBack
      <4> QED
        BY <1>3, <4>2, <4>3, <4>4, <4>6
    <3>2. CASE \A j \in 1 .. i : ~NothingSince(ms, i, j)
      <4>1. J = K \cup {i + 1}
        BY <1>15, <3>2, UptoBegin DEF m, K, J
      <4>2. kept = s.kept
        BY <1>3, <3>2
      <4> QED
        BY <1>3, <1>10, <4>1, <4>2
    <3> QED
      BY <3>1, <3>2
  <2> HIDE DEF kept
  <2>5. r.kept = Picked(ms, J)
    BY <1>1, <2>1, <2>4, PickedAppend DEF m
  <2>6. H \in SUBSET (1 .. Len(ms)) /\ Len(kept) = Cardinality(H) /\ Len(kept) \in Nat
    <3>1. \A x \in 1 .. i : x \in 1 .. Len(ms)
      BY <1>1
    <3>2. H \in SUBSET (1 .. Len(ms))
      BY <3>1
    <3>3. Len(Picked(ms, H)) = Cardinality(H) /\ Cardinality(H) \in Nat
      BY <1>1, <3>2, PickedIs, RankIs
    <3> QED
      BY <2>4, <3>2, <3>3
  <2>7. J \ {i + 1} = H
    <3>1. i + 1 \notin H
      OBVIOUS
    <3> QED
      BY <2>4, <3>1
  <2>8. r.frameBegin /= NoFrame /\ r.frameBegin = Cardinality(J \ {i + 1})
    <3>1. Cardinality(J \ {i + 1}) = Len(kept)
      BY <2>6, <2>7
    <3>2. Len(kept) /= NoFrame
      BY <2>6 DEF NoFrame
    <3> QED
      BY <2>1, <3>1, <3>2
  <2>9. \A j \in 1 .. i + 1 : NothingSince(ms, i + 1, j) => j = i + 1
    <3>1. \A j \in 1 .. i + 1 : j = i + 1 \/ j \in 1 .. i
      OBVIOUS
    <3> QED
      BY <2>3, <3>1
  <2>10. i + 1 \in 1 .. i + 1
    OBVIOUS
  <2> QED
    BY <1>4, <1>5, <1>7, <2>1, <2>2, <2>3, <2>5, <2>8, <2>9, <2>10
    DEF ScanLatest, J, something
<1>16. ASSUME m.id /= "idFrameBegin"
       PROVE  /\ kept = s.kept
              /\ Stays(ms, i + 1) => J = K \cup {i + 1}
              /\ ~Stays(ms, i + 1) => J = K
              /\ r.kept = Picked(ms, J)
              /\ ~NothingSince(ms, i + 1, i + 1)
              /\ \A j \in 1 .. i : NothingSince(ms, i + 1, j) <=>
                                     NothingSince(ms, i, j) /\ ~Carries(ms, i + 1)
              /\ \A j \in 1 .. i + 1 : j = i + 1 \/ j \in 1 .. i
              /\ \A j \in 1 .. i : j \in 1 .. i + 1
  <2>1. kept = s.kept
    BY <1>16
  <2>2. /\ Stays(ms, i + 1) => J = K \cup {i + 1}
        /\ ~Stays(ms, i + 1) => J = K
        /\ ~NothingSince(ms, i + 1, i + 1)
        /\ \A j \in 1 .. i : NothingSince(ms, i + 1, j) <=>
                               NothingSince(ms, i, j) /\ ~Carries(ms, i + 1)
    BY <1>16, UptoOther DEF NothingSince, J, K, m
  <2>3. r.kept = Picked(ms, J)
    BY <1>3, <1>7, <1>8, <1>14, <1>16, <2>1, <2>2
  <2>4. /\ \A j \in 1 .. i + 1 : j = i + 1 \/ j \in 1 .. i
        /\ \A j \in 1 .. i : j \in 1 .. i + 1
    OBVIOUS
  <2> QED
    BY <2>1, <2>2, <2>3, <2>4
<1> HIDE DEF kept
<1>17. ASSUME m.id \notin Brackets PROVE ScanLatest(r, ms, i + 1)
  <2>1. m.id /= "idFrameBegin" /\ (copy <=> Carries(ms, i + 1)) /\ (copy <=> Stays(ms, i + 1))
    BY <1>8, <1>17, StaysIs DEF Brackets, Carries, m
  <2>2. something(i + 1) <=> copy \/ something(i)
    <3>1. i + 1 \in 1 .. i + 1 /\ NoneBetween(ms, i + 1, (i + 1) + 1, Brackets)
      BY DEF NoneBetween
    <3>2. ASSUME NEW k \in 1 .. i
          PROVE  NoneBetween(ms, k, (i + 1) + 1, Brackets) <=> NoneBetween(ms, k, i + 1, Brackets)
      <4>1. \A x \in k + 1 .. ((i + 1) + 1) - 1 : x = i + 1 \/ x \in k + 1 .. (i + 1) - 1
        OBVIOUS
      <4>2. \A x \in k + 1 .. (i + 1) - 1 : x \in k + 1 .. ((i + 1) + 1) - 1
        OBVIOUS
      <4> QED
        BY <1>17, <4>1, <4>2 DEF NoneBetween, m
    <3>3. \A j \in 1 .. i + 1 : j = i + 1 \/ j \in 1 .. i
      OBVIOUS
    <3>4. \A j \in 1 .. i : j \in 1 .. i + 1
      OBVIOUS
    <3> QED
      BY <2>1, <3>1, <3>2, <3>3, <3>4 DEF something
  <2>3. CASE copy
    <3>1. r.frameBegin = NoFrame /\ r.frameEmpty = FALSE
      <4>1. FrameBegin(s, m, Len(kept), TRUE) = NoFrame
        BY <1>17 DEF FrameBegin, Brackets
      <4>2. r.frameBegin = FrameBegin(s, m, Len(kept), copy) /\ copy = TRUE
        BY <1>7, <1>12, <2>3
      <4>3. r.frameBegin = NoFrame
        BY <4>1, <4>2, Zenon
      <4>4. r.frameEmpty = (m.id \in Brackets)
        BY <1>7, <2>3
      <4>5. (m.id \in Brackets) = FALSE
        BY <1>17
      <4> QED
        BY <4>3, <4>4, <4>5, Zenon
    <3>2. \A j \in 1 .. i + 1 : ~NothingSince(ms, i + 1, j)
      BY <1>16, <2>1, <2>3
    <3>3. something(i + 1)
      BY <2>2, <2>3
    <3> QED
      BY <1>4, <1>5, <1>7, <1>16, <2>1, <3>1, <3>2, <3>3 DEF ScanLatest, J, something
  <2>4. CASE ~copy
    <3>1. r.frameBegin = s.frameBegin /\ r.frameEmpty = s.frameEmpty
      <4>1. FrameBegin(s, m, Len(kept), FALSE) = s.frameBegin
        BY DEF FrameBegin
      <4>2. r.frameBegin = FrameBegin(s, m, Len(kept), copy) /\ copy = FALSE
        BY <1>7, <1>13, <2>4
      <4>3. r.frameBegin = s.frameBegin
        BY <4>1, <4>2, Zenon
      <4> QED
        BY <1>7, <2>4, <4>3
    <3>2. J = K /\ \A j \in 1 .. i : NothingSince(ms, i + 1, j) <=> NothingSince(ms, i, j)
      BY <1>16, <2>1, <2>4
    <3>3. /\ r.frameBegin /= NoFrame <=> \E j \in 1 .. i + 1 : NothingSince(ms, i + 1, j)
          /\ \A j \in 1 .. i + 1 :
               NothingSince(ms, i + 1, j) => r.frameBegin = Cardinality(J \ {j})
      BY <1>3, <1>16, <2>1, <3>1, <3>2
    <3>4. ~r.frameEmpty <=> something(i + 1)
      BY <1>3, <2>2, <2>4, <3>1
    <3> QED
      BY <1>3, <1>4, <1>5, <1>7, <1>16, <2>1, <3>1, <3>3, <3>4 DEF ScanLatest, J, something
  <2> QED
    BY <2>3, <2>4
<1>18. ASSUME m.id = "idFrameFinished" PROVE ScanLatest(r, ms, i + 1)
  <2>1. /\ m.id /= "idFrameBegin" /\ ~Carries(ms, i + 1) /\ (copy <=> Stays(ms, i + 1))
        /\ m.id \in Brackets
    BY <1>8, <1>18 DEF Brackets, Carries, m
  <2>2. copy <=> something(i)
    <3>1. Stays(ms, i + 1) <=> \E k \in 1 .. (i + 1) - 1 :
                                 Carries(ms, k) /\ NoneBetween(ms, k, i + 1, Brackets)
      BY <1>18, StaysIs DEF m
    <3> QED
      BY <1>1, <2>1, <3>1 DEF something
  <2>3. ~something(i + 1)
    <3>1. ASSUME NEW k \in 1 .. i + 1, Carries(ms, k), NoneBetween(ms, k, (i + 1) + 1, Brackets)
          PROVE FALSE
      <4>1. k /= i + 1
        BY <2>1, <3>1
      <4>2. i + 1 \in k + 1 .. ((i + 1) + 1) - 1
        BY <4>1
      <4> QED
        BY <2>1, <3>1, <4>2 DEF NoneBetween, m
    <3> QED
      BY <3>1 DEF something
  <2>4. r.frameBegin = s.frameBegin /\ r.frameEmpty = TRUE
    <3>1. FrameBegin(s, m, Len(kept), FALSE) = s.frameBegin
      BY DEF FrameBegin
    <3>2. FrameBegin(s, m, Len(kept), TRUE) = s.frameBegin
      BY <1>18 DEF FrameBegin, Brackets
    <3>3. r.frameBegin = FrameBegin(s, m, Len(kept), copy) /\ (copy = TRUE \/ copy = FALSE)
      BY <1>6, <1>7
    <3>4. r.frameBegin = s.frameBegin
      BY <3>1, <3>2, <3>3, Zenon
    <3>5. ~copy => s.frameEmpty = TRUE
      BY <1>3, <2>2
    <3>6. copy => r.frameEmpty = (m.id \in Brackets)
      BY <1>7
    <3>7. ~copy => r.frameEmpty = s.frameEmpty
      BY <1>7
    <3> QED
      BY <2>1, <3>4, <3>5, <3>6, <3>7
  <2>5. ASSUME copy, NEW j \in 1 .. i, NothingSince(ms, i, j) PROVE FALSE
    <3>1. PICK k \in 1 .. i : Carries(ms, k) /\ NoneBetween(ms, k, i + 1, Brackets)
      BY <2>2, <2>5 DEF something
    <3>2. /\ ms[j].id = "idFrameBegin" /\ \A x \in j + 1 .. i : ms[x].id /= "idFrameBegin"
          /\ ~Carried(ms, i, j)
      BY <2>5 DEF NothingSince, LastBegin
    <3>3. k /= j
      BY <3>1, <3>2 DEF Carries, Brackets
    <3>4. ~(j \in k + 1 .. (i + 1) - 1)
      BY <3>1, <3>2 DEF NoneBetween, Brackets
    <3>5. k \in j + 1 .. i /\ \A x \in j + 1 .. k - 1 : x \in j + 1 .. i
      BY <3>3, <3>4
    <3>6. NoneBetween(ms, j, k, {"idFrameBegin"})
      BY <3>2, <3>5 DEF NoneBetween
    <3> QED
      BY <3>1, <3>2, <3>5, <3>6 DEF Carried
  <2>6. /\ r.frameBegin /= NoFrame <=> \E j \in 1 .. i + 1 : NothingSince(ms, i + 1, j)
        /\ \A j \in 1 .. i + 1 :
             NothingSince(ms, i + 1, j) => r.frameBegin = Cardinality(J \ {j})
    <3>1. CASE copy
      BY <1>3, <1>16, <2>1, <2>4, <2>5, <3>1
    <3>2. CASE ~copy
      BY <1>3, <1>16, <2>1, <2>4, <3>2
    <3> QED
      BY <3>1, <3>2
  <2> QED
    BY <1>4, <1>5, <1>7, <1>16, <2>1, <2>3, <2>4, <2>6 DEF ScanLatest, J, something
<1>19. ScanLatest(r, ms, i + 1)
  BY <1>15, <1>17, <1>18 DEF Brackets
<1> QED
  BY <1>19 DEF r, m

\* So removing repetitions leaves exactly what is latest.
LEMMA RepetitionsLatest ==
  ASSUME NEW q, q.messages \in Seq(DebugMessage), Len(q.messages) < CounterSize,
         q = [messages |-> q.messages, usedSize |-> q.usedSize,
              numberOfMessages |-> q.numberOfMessages, overdrawn |-> q.overdrawn]
  PROVE  removeRepetitions(q).messages = Latest(q.messages)
<1> DEFINE ms == q.messages
           after == Scanned(ms)
           T == {n \in Nat : n <= Len(ms) => ScanLatest(after[n], ms, n)}
           end == after[Len(ms)]
<1>1. Len(ms) \in Nat /\ ms \in Seq(DebugMessage)
  OBVIOUS
<1>2. removeRepetitions(q).messages = end.kept
  BY DEF removeRepetitions
<1>3. /\ after[0] = ScanStart(ms)
      /\ \A i \in 1 .. Len(ms) : after[i] = Scan(after[i - 1], ms[i])
  BY <1>1, ScannedRecursion
<1> HIDE DEF after
<1>4. 0 \in T
  BY <1>1, <1>3, ScanLatestStart
<1>5. ASSUME NEW n \in T PROVE n + 1 \in T
  <2> SUFFICES ASSUME n + 1 <= Len(ms) PROVE ScanLatest(after[n + 1], ms, n + 1)
    OBVIOUS
  <2>1. n \in Nat /\ n + 1 \in 1 .. Len(ms) /\ (n + 1) - 1 = n /\ n <= Len(ms)
    BY <1>1
  <2>2. ScanLatest(after[n], ms, n)
    BY <2>1
  <2>3. after[n + 1] = Scan(after[n], ms[n + 1])
    BY <1>3, <2>1
  <2> QED
    BY <1>1, <2>1, <2>2, <2>3, ScanLatestStep
<1>6. ScanLatest(end, ms, Len(ms))
  <2>1. T = Nat
    <3> HIDE DEF T
    <3>1. T \in SUBSET Nat
      BY DEF T
    <3> QED
      BY <1>4, <1>5, <3>1, AllNumbers
  <2> QED
    BY <1>1, <2>1
<1>7. end.kept = Picked(ms, KeptUpto(ms, Len(ms)))
  BY <1>6 DEF ScanLatest
<1>8. Picked(ms, KeptUpto(ms, Len(ms))) = Latest(ms)
  BY <1>1, KeptUptoAll DEF Latest
<1> QED
  BY <1>2, <1>7, <1>8

-----------------------------------------------------------------------------
\* What is only kept for the latest frame: in complete frames it has an end.
LEMMA CompleteEnds ==
  ASSUME NEW ms \in Seq(DebugMessage), Complete(ms)
  PROVE  FramesEnd(ms)
<1>1. /\ Len(ms) \in Nat
      /\ \A i \in 1 .. Len(ms) - 1 :
           ms[i].id = "idFrameFinished" <=> ms[i + 1].id = "idFrameBegin"
  BY DEF Complete, Alternating
<1>2. ASSUME NEW i \in 1 .. Len(ms), ms[i].id \in LatestFrameOnly
      PROVE  \E j \in i + 1 .. Len(ms) :
               ms[j].id = "idFrameFinished" /\ NoneBetween(ms, i, j, Brackets)
  <2>1. ms[i].id /= "idFrameFinished"
    BY <1>2 DEF LatestFrameOnly
  <2>2. ms[Len(ms)].id = "idFrameFinished"
    <3>1. ms /= <<>>
      BY <1>1
    <3> QED
      BY <3>1 DEF Complete
  <2> DEFINE S == {j \in i + 1 .. Len(ms) : ms[j].id \in Brackets}
  <2>3. S \in SUBSET Nat /\ S /= {}
    <3>1. i /= Len(ms)
      BY <2>1, <2>2
    <3>2. Len(ms) \in i + 1 .. Len(ms)
      BY <1>1, <3>1
    <3>3. Len(ms) \in S
      BY <2>2, <3>2 DEF Brackets
    <3> QED
      BY <3>3
  <2>4. PICK j \in S : \A x \in S : j <= x
    <3> HIDE DEF S
    <3> QED
      BY <2>3, FirstOf
  <2>5. j \in i + 1 .. Len(ms) /\ ms[j].id \in Brackets
    BY <2>4
  <2>6. ASSUME NEW k \in i + 1 .. j - 1, ms[k].id \in Brackets PROVE FALSE
    <3>1. k \in i + 1 .. Len(ms) /\ k < j
      BY <1>1, <2>5
    <3>2. k \in S
      BY <2>6, <3>1
    <3> QED
      BY <2>4, <2>5, <3>1, <3>2
  <2>7. ms[j].id /= "idFrameBegin"
    <3> SUFFICES ASSUME ms[j].id = "idFrameBegin" PROVE FALSE
      OBVIOUS
    <3>1. j - 1 \in 1 .. Len(ms) - 1 /\ (j - 1) + 1 = j
      BY <1>1, <2>5
    <3>2. ms[j - 1].id = "idFrameFinished"
      BY <1>1, <3>1
    <3>3. j - 1 /= i
      BY <2>1, <3>2
    <3>4. j - 1 \in i + 1 .. j - 1
      BY <2>5, <3>3
    <3> QED
      BY <2>6, <3>2, <3>4 DEF Brackets
  <2>8. NoneBetween(ms, i, j, Brackets)
    BY <2>6 DEF NoneBetween
  <2> QED
    BY <2>5, <2>7, <2>8 DEF Brackets
<1> QED
  BY <1>2 DEF FramesEnd

\* Joining messages,
LEMMA JoinThree ==
  ASSUME NEW a \in Seq(DebugMessage), NEW b \in Seq(DebugMessage), NEW c \in Seq(DebugMessage)
  PROVE  /\ (a \o b) \o c = a \o (b \o c)
         /\ a \o b \in Seq(DebugMessage) /\ b \o c \in Seq(DebugMessage)
<1>1. (a \o b) \o c = a \o (b \o c)
  BY ConcatAssociative
<1>2. a \o b \in Seq(DebugMessage) /\ b \o c \in Seq(DebugMessage)
  BY ConcatProperties
<1> QED
  BY <1>1, <1>2

\* and appending one of them.
LEMMA AppendJoin ==
  ASSUME NEW a \in Seq(DebugMessage), NEW b \in Seq(DebugMessage), NEW m \in DebugMessage
  PROVE  a \o Append(b, m) = Append(a \o b, m)
<1> DEFINE c == <<m>>
<1>1. c \in Seq(DebugMessage)
  OBVIOUS
<1>2. Append(b, m) = b \o c
  BY AppendIsConcat
<1>3. a \o b \in Seq(DebugMessage)
  BY JoinThree
<1>4. Append(a \o b, m) = (a \o b) \o c
  BY <1>3, AppendIsConcat
<1> HIDE DEF c
<1>5. (a \o b) \o c = a \o (b \o c)
  BY <1>1, JoinThree
<1> QED
  BY <1>2, <1>4, <1>5

\* Nothing was refused: the queue r holds what q did, and the messages x behind that.
Gets(q, r, x) ==
  /\ x \in Seq(DebugMessage) /\ FramesEnd(x)
  /\ r.messages = q.messages \o x

\* One by one: if as many messages arrived as were to be copied, all arrived.
LEMMA CopiedWhole ==
  ASSUME NEW q, MessageQueueOK(q), NEW other, SoundQueue(other),
         copyAllMessages(q, other).numberOfMessages
           = other.numberOfMessages + q.numberOfMessages
  PROVE  copyAllMessages(q, other).messages = other.messages \o q.messages
<1> DEFINE ms == q.messages
           a == other.messages
           after == Copied(q, other)
           number == other.numberOfMessages
           T == {n \in Nat : n <= Len(ms) =>
                   /\ after[n].numberOfMessages \in Nat
                   /\ after[n].numberOfMessages <= number + n
                   /\ after[n].numberOfMessages = number + n =>
                        after[n].messages = a \o SubSeq(ms, 1, n)}
<1>1. /\ ms \in Seq(Message) /\ Len(ms) \in Nat /\ q.numberOfMessages = Len(ms)
      /\ a \in Seq(DebugMessage) /\ number \in Nat
  BY DEF MessageQueueOK, SoundQueue
<1>2. CASE reserve(other, q.usedSize, debugSize)
  BY <1>2 DEF copyAllMessages, copyAtOnce
<1>3. CASE ~reserve(other, q.usedSize, debugSize)
  <2>1. copyAllMessages(q, other) = after[Len(ms)]
    BY <1>3 DEF copyAllMessages
  <2>2. /\ after[0] = other
        /\ \A i \in 1 .. Len(ms) : after[i] = finishMessage(after[i - 1], ms[i], debugSize, 0)
    BY <1>1, CopiedRecursion
  <2> HIDE DEF after, ms, a, number
  <2>3. 0 \in T
    <3>1. SubSeq(ms, 1, 0) = <<>> /\ a \o <<>> = a
      BY <1>1
    <3>2. after[0].numberOfMessages = number /\ after[0].messages = a
      BY <2>2 DEF number, a
    <3> QED
      BY <1>1, <3>1, <3>2
  <2>4. ASSUME NEW n \in T PROVE n + 1 \in T
    <3> SUFFICES ASSUME n + 1 <= Len(ms)
                 PROVE  /\ after[n + 1].numberOfMessages \in Nat
                        /\ after[n + 1].numberOfMessages <= number + (n + 1)
                        /\ after[n + 1].numberOfMessages = number + (n + 1) =>
                             after[n + 1].messages = a \o SubSeq(ms, 1, n + 1)
      OBVIOUS
    <3> DEFINE r == after[n]
               m == ms[n + 1]
               s == after[n + 1]
    <3>1. n \in Nat /\ n + 1 \in 1 .. Len(ms) /\ (n + 1) - 1 = n /\ n <= Len(ms)
      BY <1>1
    <3>2. /\ r.numberOfMessages \in Nat /\ r.numberOfMessages <= number + n
          /\ r.numberOfMessages = number + n => r.messages = a \o SubSeq(ms, 1, n)
      BY <3>1
    <3>3. s = finishMessage(r, m, debugSize, 0)
      BY <2>2, <3>1
    <3>4. s = r \/ (/\ s.numberOfMessages = r.numberOfMessages + 1
                    /\ s.messages = Append(r.messages, m))
      BY <3>3 DEF finishMessage, AppendMessage
    <3>5. Append(a \o SubSeq(ms, 1, n), m) = a \o SubSeq(ms, 1, n + 1)
      <4>1. SubSeq(ms, 1, n + 1) = Append(SubSeq(ms, 1, n), m)
        BY <1>1, <3>1
      <4>2. SubSeq(ms, 1, n) \in Seq(Message) /\ m \in Message
        BY <1>1, <3>1
      <4> DEFINE b == SubSeq(ms, 1, n)
      <4> HIDE DEF b, m
      <4>3. a \o Append(b, m) = Append(a \o b, m)
        <5>1. b \in Seq(DebugMessage) /\ m \in DebugMessage
          BY <4>2, DebugMessageLemma, SeqMonotonic DEF b
        <5> QED
          BY <1>1, <5>1, AppendJoin
      <4> QED
        BY <4>1, <4>3 DEF b
    <3> HIDE DEF r, m, s
    <3>6. CASE s = r
      <4>1. s.numberOfMessages \in Nat /\ s.numberOfMessages < number + (n + 1)
        BY <1>1, <3>1, <3>2, <3>6
      <4> QED
        BY <1>1, <3>1, <4>1 DEF s
    <3>7. CASE s.numberOfMessages = r.numberOfMessages + 1 /\ s.messages = Append(r.messages, m)
      <4>1. /\ s.numberOfMessages \in Nat /\ s.numberOfMessages <= number + (n + 1)
            /\ s.numberOfMessages = number + (n + 1) => r.numberOfMessages = number + n
        <5> DEFINE x == r.numberOfMessages
                   y == s.numberOfMessages
        <5>1. number \in Nat /\ n \in Nat /\ x \in Nat /\ x <= number + n /\ y = x + 1
          BY <1>1, <3>1, <3>2, <3>7
        <5> HIDE DEF x, y
        <5>2. /\ y \in Nat /\ y <= number + (n + 1)
              /\ y = number + (n + 1) => x = number + n
          BY <5>1
        <5> QED
          BY <5>2 DEF x, y
      <4> QED
        BY <3>2, <3>5, <3>7, <4>1 DEF s
    <3> QED
      BY <3>4, <3>6, <3>7
  <2>5. T = Nat
    <3> HIDE DEF T
    <3>1. T \in SUBSET Nat
      BY DEF T
    <3> QED
      BY <2>3, <2>4, <3>1, AllNumbers
  <2>6. after[Len(ms)].numberOfMessages = number + Len(ms) =>
          after[Len(ms)].messages = a \o SubSeq(ms, 1, Len(ms))
    BY <1>1, <2>5
  <2>7. SubSeq(ms, 1, Len(ms)) = ms
    BY <1>1
  <2> QED
    BY <1>1, <2>1, <2>6, <2>7 DEF number, a, ms
<1> QED
  BY <1>2, <1>3

\* The same for the packets of all receivers.
LEMMA ReceivedWhole ==
  ASSUME FramesInOrder, OwnMessages, NEW start, SoundQueue(start),
         \A t \in Thread : ~packet[t].overdrawn,
         \A i \in 1 .. Len(receivers) :
           Received(start)[i].numberOfMessages =
             Received(start)[i - 1].numberOfMessages + packet[receivers[i]].numberOfMessages
  PROVE  \E x : Gets(start, Received(start)[Len(receivers)], x)
<1> DEFINE after == Received(start)
           T == {n \in Nat : n <= Len(receivers) => \E x : Gets(start, after[n], x)}
<1>1. /\ Len(receivers) \in Nat
      /\ \A i \in 1 .. Len(receivers) : receivers[i] \in Thread
  BY DebugQueueAssumption
<1>2. /\ after[0] = start
      /\ \A i \in 1 .. Len(receivers) :
           after[i] = copyAllMessages(packet[receivers[i]], after[i - 1])
  BY <1>1, ReceivedRecursion
<1>3. ASSUME NEW t \in Thread
      PROVE  /\ MessageQueueOK(packet[t]) /\ packet[t].messages \in Seq(DebugMessage)
             /\ FramesEnd(packet[t].messages)
  <2>1. MessageQueueOK(packet[t]) /\ Complete(packet[t].messages)
    BY DEF FramesInOrder, TypeOK
  <2>2. packet[t].messages \in Seq(Message)
    BY <2>1 DEF MessageQueueOK
  <2>3. packet[t].messages \in Seq(DebugMessage)
    BY <2>2, DebugMessageLemma, SeqMonotonic
  <2> QED
    BY <2>1, <2>3, CompleteEnds
<1>4. \A i \in 0 .. Len(receivers) : SoundQueue(after[i])
  BY ReceivedLemma
<1>5. start.messages \in Seq(DebugMessage)
  BY DEF SoundQueue
<1>6. \A i \in 1 .. Len(receivers) :
        after[i].numberOfMessages
          = after[i - 1].numberOfMessages + packet[receivers[i]].numberOfMessages
  OBVIOUS
<1> HIDE DEF after
<1>7. 0 \in T
  <2>1. FramesEnd(<<>>) /\ <<>> \in Seq(DebugMessage) /\ start.messages \o <<>> = start.messages
    BY <1>5 DEF FramesEnd
  <2>2. Gets(start, after[0], <<>>)
    BY <1>2, <2>1 DEF Gets
  <2> QED
    BY <2>2
<1>8. ASSUME NEW n \in T PROVE n + 1 \in T
  <2> SUFFICES ASSUME n + 1 <= Len(receivers) PROVE \E x : Gets(start, after[n + 1], x)
    OBVIOUS
  <2> DEFINE t == receivers[n + 1]
             other == after[n]
             y == packet[t].messages
  <2>1. /\ n + 1 \in 1 .. Len(receivers) /\ (n + 1) - 1 = n /\ n <= Len(receivers)
        /\ n \in 0 .. Len(receivers)
    BY <1>1
  <2>2. PICK x : Gets(start, other, x)
    BY <2>1
  <2>3. t \in Thread /\ SoundQueue(other)
    BY <1>1, <1>4, <2>1
  <2>4. after[n + 1] = copyAllMessages(packet[t], other)
    BY <1>2, <2>1
  <2>5. after[n + 1].numberOfMessages = other.numberOfMessages + packet[t].numberOfMessages
    BY <1>6, <2>1
  <2>6. MessageQueueOK(packet[t]) /\ y \in Seq(DebugMessage) /\ FramesEnd(y)
    BY <1>3, <2>3
  <2> HIDE DEF t, other
  <2>7. after[n + 1].messages = other.messages \o y
    BY <2>3, <2>4, <2>5, <2>6, CopiedWhole
  <2> HIDE DEF y
  <2>8. x \in Seq(DebugMessage) /\ FramesEnd(x) /\ other.messages = start.messages \o x
    BY <2>2 DEF Gets
  <2>9. (start.messages \o x) \o y = start.messages \o (x \o y) /\ x \o y \in Seq(DebugMessage)
    BY <1>5, <2>6, <2>8, JoinThree
  <2>10. FramesEnd(x \o y)
    BY <2>6, <2>8, FramesEndJoin
  <2>11. Gets(start, after[n + 1], x \o y)
    BY <2>7, <2>8, <2>9, <2>10 DEF Gets
  <2> QED
    BY <2>11
<1>9. T = Nat
  <2> HIDE DEF T
  <2>1. T \in SUBSET Nat
    BY DEF T
  <2> QED
    BY <1>7, <1>8, <2>1, AllNumbers
<1> QED
  BY <1>1, <1>9 DEF after
\* What stands behind a sequence.
LEMMA Behind ==
  ASSUME NEW S, NEW a \in Seq(S), NEW z \in Seq(S)
  PROVE  SubSeq(a \o z, Len(a) + 1, Len(a \o z)) = z
<1> DEFINE ms == a \o z
           s == SubSeq(ms, Len(a) + 1, Len(ms))
<1>1. /\ Len(a) \in Nat /\ Len(z) \in Nat /\ ms \in Seq(S) /\ Len(ms) = Len(a) + Len(z)
      /\ \A i \in 1 .. Len(z) : ms[Len(a) + i] = z[i]
  BY ConcatProperties
<1> HIDE DEF ms
<1>2. s \in Seq(S) /\ Len(s) = Len(z)
  BY <1>1
<1>3. ASSUME NEW i \in 1 .. Len(z) PROVE s[i] = z[i]
  <2>1. s[i] = ms[Len(a) + i]
    BY <1>1
  <2> QED
    BY <1>1, <2>1
<1> QED
  BY <1>2, <1>3, SeqEqual DEF ms

-----------------------------------------------------------------------------
\* The invariant of Debug's queue.
DebugQueueInv == answers \in Nat /\ SoundQueue(debugQueue) /\ arrived \in Seq(DebugMessage)

\* It is what the runs check.
LEMMA DebugQueueInvLemma == DebugQueueInv <=> DebugTypeOK /\ DebugQueueSound
BY DEF DebugQueueInv, SoundQueue, DebugTypeOK, DebugQueueSound, DebugQueueOK, FinishedMatches

\* An empty queue satisfies it.
LEMMA EmptySound == SoundQueue(Empty)
<1>1. Bytes(<<>>) = 0
  BY BytesRecursion DEF Bytes
<1>2. Matched(<<>>)
  BY DEF Matched
<1> QED
  BY <1>1, <1>2, DebugQueueAssumption DEF SoundQueue, Empty

\* The queue to which the packets are moved.
Start(own) ==
  IF own THEN finishMessage(debugQueue, TypeInfo, debugSize, 0) ELSE debugQueue

\* It is sound, and holds what Debug's queue did and Debug's own answer, unless it was refused.
LEMMA StartLemma ==
  ASSUME DebugQueueInv, NEW own \in BOOLEAN
  PROVE  /\ SoundQueue(Start(own))
         /\ (own => Start(own) /= debugQueue) => \E x : Gets(debugQueue, Start(own), x)
<1>1. /\ TypeInfo \in DebugMessage /\ TypeInfo.id = "idTypeInfo"
      /\ SoundQueue(debugQueue) /\ debugQueue.messages \in Seq(DebugMessage)
  BY DebugMessageLemma DEF DebugQueueInv, SoundQueue
<1>2. SoundQueue(finishMessage(debugQueue, TypeInfo, debugSize, 0))
  BY <1>1, DebugFinish
<1>3. Gets(debugQueue, debugQueue, <<>>)
  BY <1>1 DEF Gets, FramesEnd
<1>4. ASSUME own, Start(own) /= debugQueue PROVE Gets(debugQueue, Start(own), <<TypeInfo>>)
  <2>1. Start(own).messages = Append(debugQueue.messages, TypeInfo)
    BY <1>4 DEF Start, finishMessage, AppendMessage
  <2>2. Append(debugQueue.messages, TypeInfo) = debugQueue.messages \o <<TypeInfo>>
    BY <1>1, AppendIsConcat
  <2> DEFINE x == <<TypeInfo>>
  <2>3. x \in Seq(DebugMessage) /\ \A i \in 1 .. Len(x) : x[i].id = "idTypeInfo"
    BY <1>1
  <2> HIDE DEF x
  <2>4. FramesEnd(x)
    BY <2>3 DEF FramesEnd, LatestFrameOnly
  <2> QED
    BY <2>1, <2>2, <2>3, <2>4 DEF Gets, x
<1>5. ASSUME ~own PROVE Start(own) = debugQueue
  BY <1>5 DEF Start
<1>6. SoundQueue(Start(own))
  BY <1>1, <1>2 DEF Start
<1> QED
  BY <1>3, <1>4, <1>5, <1>6

\* Moving messages to the queue,
LEMMA MoveStep ==
  ASSUME FramesInOrder, OwnMessages, DebugQueueInv, MoveMessages PROVE DebugQueueInv'
<1>1. PICK own \in BOOLEAN : Move(own) /\ answers' = answers + IF own THEN 1 ELSE 0
  BY DEF MoveMessages
<1> DEFINE all == Received(Start(own))[Len(receivers)]
           ms == all.messages
           n == Len(debugQueue.messages) + 1
<1>2. debugQueue' = all /\ arrived' = arrived \o SubSeq(ms, n, Len(ms))
  BY <1>1 DEF Move, Start
<1>3. SoundQueue(all)
  BY StartLemma, ReceivedLemma, DebugQueueAssumption
<1>4. answers' \in Nat
  BY <1>1 DEF DebugQueueInv
<1>5. SoundQueue(debugQueue')
  BY <1>2, <1>3
<1>6. arrived' \in Seq(DebugMessage)
  <2>1. ms \in Seq(DebugMessage) /\ Len(ms) \in Nat
    BY <1>3 DEF SoundQueue
  <2>2. n \in Nat /\ n >= 1 /\ arrived \in Seq(DebugMessage)
    BY DEF DebugQueueInv, SoundQueue
  <2> HIDE DEF ms, n
  <2>3. SubSeq(ms, n, Len(ms)) \in Seq(DebugMessage)
    BY <2>1, <2>2
  <2> QED
    BY <1>2, <2>2, <2>3, ConcatProperties DEF ms
<1> QED
  BY <1>4, <1>5, <1>6 DEF DebugQueueInv

\* and what is kept of it is what is kept of all that arrived.
LEMMA MoveLatest ==
  ASSUME FramesInOrder, OwnMessages, DebugQueueInv, SameLatest, MoveMessages
  PROVE  SameLatest' /\ LatestOfAllArrived'
<1>1. PICK own \in BOOLEAN : Move(own)
  BY DEF MoveMessages
<1> DEFINE d == debugQueue.messages
           start == Start(own)
           all == Received(start)[Len(receivers)]
           ms == all.messages
<1>2. moved' = TRUE
  BY DEF MoveMessages
<1>3. debugQueue' = all /\ arrived' = arrived \o SubSeq(ms, Len(d) + 1, Len(ms))
  BY <1>1 DEF Move, Start
<1>4. ASSUME lossless'
      PROVE  /\ FramesEnd(ms) /\ FramesEnd(arrived')
             /\ Latest(ms) = Latest(arrived')
             /\ all.numberOfMessages < CounterSize
  <2>1. /\ lossless
        /\ \A t \in Thread : ~packet[t].overdrawn
        /\ own => start /= debugQueue
        /\ \A i \in 1 .. Len(receivers) :
             Received(start)[i].numberOfMessages =
               Received(start)[i - 1].numberOfMessages + packet[receivers[i]].numberOfMessages
        /\ all.numberOfMessages < CounterSize
    BY <1>1, <1>4 DEF Move, Start
  <2>2. /\ FramesEnd(d) /\ FramesEnd(arrived) /\ Latest(d) = Latest(arrived)
        /\ d \in Seq(DebugMessage) /\ arrived \in Seq(DebugMessage)
    BY <2>1 DEF SameLatest, DebugQueueInv, SoundQueue
  <2>3. SoundQueue(start)
    BY StartLemma
  <2>4. PICK x : Gets(debugQueue, start, x)
    BY <2>1, StartLemma
  <2>5. PICK y : Gets(start, all, y)
    <3> HIDE DEF start
    <3> QED
      BY <2>1, <2>3, ReceivedWhole
  <2>6. /\ x \in Seq(DebugMessage) /\ y \in Seq(DebugMessage) /\ FramesEnd(x) /\ FramesEnd(y)
        /\ ms = (d \o x) \o y
    BY <2>4, <2>5 DEF Gets
  <2> DEFINE z == x \o y
  <2> HIDE DEF d, ms, start, all
  <2>7. z \in Seq(DebugMessage) /\ FramesEnd(z)
    BY <2>6, JoinThree, FramesEndJoin
  <2>8. ms = d \o z
    BY <2>2, <2>6, JoinThree
  <2> HIDE DEF z
  <2>9. SubSeq(ms, Len(d) + 1, Len(ms)) = z
    BY <2>2, <2>7, <2>8, Behind
  <2>10. arrived' = arrived \o z
    BY <1>3, <2>9
  <2>11. FramesEnd(d \o z) /\ FramesEnd(arrived \o z)
    BY <2>2, <2>7, FramesEndJoin
  <2>12. Latest(d \o z) = Latest(arrived \o z)
    BY <2>2, <2>7, LatestSame
  <2> QED
    BY <2>1, <2>8, <2>10, <2>11, <2>12
<1> HIDE DEF all
<1>5. SameLatest'
  BY <1>3, <1>4 DEF SameLatest
<1>6. LatestOfAllArrived'
  BY <1>2 DEF LatestOfAllArrived
<1> QED
  BY <1>5, <1>6

\* Removing repetitions and sending: what it does to the queue.
LEMMA SendCases ==
  ASSUME RemoveAndSend
  PROVE  \/ debugQueue' = Empty /\ arrived' = <<>> /\ ~reduced'
         \/ debugQueue' = debugQueue /\ arrived' = arrived /\ lossless' = lossless /\ ~reduced'
         \/ /\ debugQueue' = removeRepetitions(debugQueue)
            /\ arrived' = arrived /\ lossless' = lossless
BY DEF RemoveAndSend

\* The queue remains sound,
LEMMA RemoveAndSendStep == ASSUME DebugQueueInv, RemoveAndSend PROVE DebugQueueInv'
<1>1. answers' = answers
  BY DEF RemoveAndSend
<1>2. SoundQueue(debugQueue')
  BY SendCases, EmptySound, RepetitionsLemma DEF DebugQueueInv
<1>3. arrived' \in Seq(DebugMessage)
  <2>1. <<>> \in Seq(DebugMessage) /\ arrived \in Seq(DebugMessage)
    BY DEF DebugQueueInv
  <2>2. arrived' = <<>> \/ arrived' = arrived
    BY SendCases
  <2> QED
    BY <2>1, <2>2
<1> QED
  BY <1>1, <1>2, <1>3 DEF DebugQueueInv

\* and what is left in it is what is kept of all that arrived.
LEMMA RemoveAndSendLatest ==
  ASSUME DebugQueueInv, SameLatest, RemoveAndSend PROVE SameLatest' /\ LatestOfAllArrived'
<1> DEFINE q == debugQueue
           d == q.messages
           r == removeRepetitions(q)
<1>1. CASE debugQueue' = Empty /\ arrived' = <<>> /\ ~reduced'
  <2>1. FramesEnd(<<>>) /\ Empty.messages = <<>> /\ Empty.numberOfMessages = 0
    BY DEF FramesEnd, Empty
  <2>2. 0 < CounterSize
    BY DebugQueueAssumption
  <2> QED
    BY <1>1, <2>1, <2>2 DEF SameLatest, LatestOfAllArrived
<1>2. CASE debugQueue' = debugQueue /\ arrived' = arrived /\ lossless' = lossless /\ ~reduced'
  BY <1>2 DEF SameLatest, LatestOfAllArrived
<1>3. CASE debugQueue' = r /\ arrived' = arrived /\ lossless' = lossless
  <2> SUFFICES ASSUME lossless
               PROVE  /\ FramesEnd(r.messages) /\ FramesEnd(arrived)
                      /\ Latest(r.messages) = Latest(arrived)
                      /\ r.numberOfMessages < CounterSize
                      /\ r.messages = Latest(arrived)
    BY <1>3 DEF SameLatest, LatestOfAllArrived
  <2>1. /\ d \in Seq(DebugMessage) /\ q.numberOfMessages = Len(d) /\ SoundQueue(q)
        /\ q = [messages |-> d, usedSize |-> q.usedSize,
                numberOfMessages |-> q.numberOfMessages, overdrawn |-> q.overdrawn]
    BY DEF DebugQueueInv, SoundQueue
  <2>2. /\ FramesEnd(d) /\ FramesEnd(arrived) /\ Latest(d) = Latest(arrived)
        /\ Len(d) < CounterSize
    BY <2>1 DEF SameLatest
  <2>3. r.numberOfMessages = Len(r.messages)
    BY <2>1, RepetitionsLemma DEF SoundQueue
  <2> HIDE DEF r, q
  <2>4. r.messages = Latest(d)
    BY <2>1, <2>2, RepetitionsLatest DEF r
  <2> HIDE DEF d
  <2>5. FramesEnd(Latest(d)) /\ Latest(Latest(d)) = Latest(d)
    BY <2>1, <2>2, FramesEndLatest, LatestTwice
  <2>6. Len(Latest(d)) < CounterSize
    <3>1. /\ Latest(d) \in Seq(DebugMessage) /\ Len(Latest(d)) <= Len(d)
          /\ Len(d) \in Nat /\ CounterSize \in Nat
      BY <2>1, LatestShorter, DebugQueueAssumption
    <3>2. Len(Latest(d)) \in Nat
      BY <3>1
    <3> QED
      BY <2>2, <3>1, <3>2
  <2> QED
    BY <2>2, <2>3, <2>4, <2>5, <2>6
<1> QED
  BY <1>1, <1>2, <1>3, SendCases

-----------------------------------------------------------------------------
\* The invariant of threads and Debug together: no queue uses more bytes than it has
\* (MessageQueueBase.cpp:131), the bracket of the current frame is open, what Debug
\* collects belongs to the thread of the last idFrameBegin, whatever was refused, and as
\* long as nothing was refused it says as much as all that arrived.
THEOREM Invariance == Spec => []IInv
<1> DEFINE Inv == OwnMessages /\ DebugQueueInv /\ SameLatest /\ LatestOfAllArrived
<1>1. DebugInit => Inv
  <2> SUFFICES ASSUME DebugInit PROVE Inv
    OBVIOUS
  <2>1. ASSUME NEW t \in Thread
        PROVE  /\ Own(queue[t].messages, t) /\ queue[t].messages /= <<>>
               /\ Own(packet[t].messages, t)
               /\ \A i \in 1 .. Len(copying[t]) : copying[t][i].from = t
    <3>1. /\ queue[t] = Finish(Empty, Bracket("idFrameBegin", t, 1))
          /\ packet[t] = Empty /\ copying[t] = <<>>
      BY DEF DebugInit, Init
    <3>2. Own(Empty.messages, t)
      BY DEF Empty, Own
    <3> QED
      BY <3>1, <3>2, EmptyLemma, OwnBegin
  <2>2. /\ debugQueue = Empty /\ answers = 0 /\ arrived = <<>>
        /\ ~reduced
    BY DEF DebugInit
  <2>3. DebugQueueInv
    BY <2>2, EmptySound DEF DebugQueueInv
  <2>4. SameLatest
    <3>1. FramesEnd(<<>>) /\ Empty.messages = <<>> /\ Empty.numberOfMessages = 0
      BY DEF FramesEnd, Empty
    <3>2. 0 < CounterSize
      BY DebugQueueAssumption
    <3> QED
      BY <2>2, <3>1, <3>2 DEF SameLatest
  <2>5. LatestOfAllArrived
    BY <2>2 DEF LatestOfAllArrived
  <2>6. OwnMessages
    BY <2>1 DEF OwnMessages
  <2> QED
    BY <2>3, <2>4, <2>5, <2>6
<1>2. FramesInOrder /\ Inv /\ [Next]_vars => Inv'
  <2> SUFFICES ASSUME FramesInOrder, Inv, [Next]_vars PROVE Inv'
    OBVIOUS
  <2>1. OwnMessages'
    BY NextIsFrameNext, OwnStep
  <2>2. ASSUME UNCHANGED debugVars
        PROVE  DebugQueueInv' /\ SameLatest' /\ LatestOfAllArrived'
    <3>1. /\ debugQueue' = debugQueue /\ answers' = answers /\ moved' = moved
          /\ reduced' = reduced /\ arrived' = arrived /\ lossless' = lossless
      BY <2>2 DEF debugVars
    <3>2. DebugQueueInv'
      BY <3>1 DEF DebugQueueInv
    <3>3. SameLatest'
      BY <3>1 DEF SameLatest
    <3>4. LatestOfAllArrived'
      BY <3>1 DEF LatestOfAllArrived
    <3> QED
      BY <3>2, <3>3, <3>4
  <2>3. CASE MoveMessages
    BY <2>1, <2>3, MoveStep, MoveLatest
  <2>4. CASE RemoveAndSend
    BY <2>1, <2>4, RemoveAndSendStep, RemoveAndSendLatest
  <2> QED
    BY <2>1, <2>2, <2>3, <2>4 DEF Next, vars
<1>3. FramesInOrder /\ Inv => IInv
  BY DebugQueueInvLemma DEF IInv
<1> HIDE DEF Inv
<1> QED
  BY <1>1, <1>2, <1>3, DebugFrames, PTL DEF Spec

\* Whatever is refused when queues are full, Debug's queue holds as many messages and bytes
\* as it says, and an idFrameFinished never follows the idFrameBegin of another thread: the
\* assertion in removeRepetitions (MessageQueueBase.cpp:296).
THEOREM AssertionHolds == Spec => []DebugQueueSound
<1>1. IInv => DebugQueueSound
  BY DEF IInv
<1> QED
  BY <1>1, Invariance, PTL

\* However often the console does not take the queue, which Debug then reduces again together
\* with what arrives later (removeRepetitions, MessageQueueBase.cpp:223): as long as no
\* queue refuses anything and the counters are wide enough, it holds what removing the
\* repetitions from all messages at once would leave.
THEOREM NothingLost == Spec => []LatestOfAllArrived
<1>1. IInv => LatestOfAllArrived
  BY DEF IInv
<1> QED
  BY <1>1, Invariance, PTL

=============================================================================
