-------------------------- MODULE CognitionProofs ---------------------------
(***************************************************************************)
(* For any times: the images Cognition accepts never go back in time and   *)
(* none is accepted twice, except when a log is replayed; then none waits  *)
(* because it is older than those seen before.  For any size of the ring   *)
(* buffer: it holds the newest team messages in order.                     *)
(***************************************************************************)
EXTENDS Cognition, FiniteSetTheorems, WellFoundedInduction, TLAPS

USE CognitionAssumption DEF CognitionAssumption, Camera, Time

\* Cognition's constructor and the initial values in Cognition.h.
LEMMA InitImages == Init => ImagesInOrder
  <1> SUFFICES ASSUME Init PROVE ImagesInOrder
    OBVIOUS
  <1>1. ImagesTyped
    <2>1. StartTime \in 0..MaxTime /\ 0 \in 0..MaxTime
      OBVIOUS
    <2> QED
      BY <2>1, Zenon DEF Init, ImagesTyped
  <1>2. LeftoverIsNext
    BY DEF Init, LeftoverIsNext
  <1>3. TimesInOrder
    BY DEF Init, TimesInOrder
  <1>4. AllNewInReplay
    BY DEF Init, AllNewInReplay
  <1> QED
    BY <1>1, <1>2, <1>3, <1>4 DEF ImagesInOrder

\* The camera whose turn it is and the other one are the two cameras.
LEMMA Turns ==
  ASSUME isUpper \in BOOLEAN
  PROVE  /\ Current \in Camera /\ Other(Current) \in Camera
         /\ Other(Current) # Current /\ Camera = {Current, Other(Current)}
         /\ Current = (IF isUpper THEN "lower" ELSE "upper")
  BY DEF Current, Other

\* When beforeFrame() accepts an image, the image of the camera whose turn it is
\* is new, also if the frame was started because it had been left over.
LEMMA AcceptsNew == ASSUME ImagesInOrder, Accept PROVE NewNow(Current)
  BY Turns DEF ImagesInOrder, ImagesTyped, LeftoverIsNext, Accept, NewNow, Changed

\* What counts as new is not older than what was accepted, and not processed.
LEMMA NewIsLater ==
  ASSUME ImagesInOrder, ~logReplay, NEW c \in Camera, NewNow(c)
  PROVE  frameTime[c] >= lastAcceptedTime /\ frameTime[c] > processed[c]
  BY DEF ImagesInOrder, ImagesTyped, TimesInOrder, NewNow, Changed

\* A frame with an image (Cognition::beforeFrame, afterFrame).
LEMMA AcceptStep == ImagesInOrder /\ Accept => ImagesInOrder'
  <1> SUFFICES ASSUME ImagesInOrder, Accept PROVE ImagesInOrder'
    OBVIOUS
  <1> USE DEF ImagesInOrder
  <1>0. isUpper \in BOOLEAN /\ LeftOver \in BOOLEAN
    BY DEF ImagesTyped, LeftOver, NewNow, Changed
  <1>1. ImagesTyped'
    <2>1. frameTime' \in [Camera -> 0..MaxTime] /\ lastFrameTime' \in [Camera -> 0..MaxTime]
          /\ lastAcceptedTime' \in 0..MaxTime /\ processed' \in [Camera -> 0..MaxTime]
      BY <1>0, Turns DEF ImagesTyped, Accept, AcceptedTime
    <2>2. isNew' \in [Camera -> BOOLEAN]
      BY <1>0 DEF ImagesTyped, Accept, StaysNew
    <2>3. acceptNext' \in BOOLEAN /\ isUpper' \in BOOLEAN
          /\ pc' \in {"frame", "wait"} /\ signal' \in BOOLEAN /\ logReplay' \in BOOLEAN
          /\ unused' \subseteq Camera
      BY <1>0 DEF ImagesTyped, Accept
    <2> QED
      BY <2>1, <2>2, <2>3 DEF ImagesTyped
  <1>2. isUpper' = ~isUpper
    BY <1>0, Turns DEF Accept
  <1>3. LeftoverIsNext'
    BY <1>0, <1>2, Turns DEF Accept, LeftoverIsNext, StaysNew
  <1>4. ASSUME ~logReplay' PROVE TimesInOrder'
    <2>0. ~logReplay
      BY <1>4 DEF Accept
    <2> SUFFICES ASSUME NEW c \in Camera
                 PROVE  /\ processed'[c] <= lastFrameTime'[c]
                        /\ lastFrameTime'[c] <= frameTime'[c]
                        /\ isNew'[c] => /\ frameTime'[c] >= lastAcceptedTime'
                                        /\ frameTime'[c] > processed'[c]
      BY DEF TimesInOrder
    <2>1. processed'[c] <= lastFrameTime'[c] /\ lastFrameTime'[c] <= frameTime'[c]
      BY <2>0, <1>0, Turns DEF ImagesTyped, TimesInOrder, Accept
    <2>2. ASSUME isNew'[c]
          PROVE  c = Other(Current) /\ c # Current /\ NewNow(c)
                 /\ frameTime[Current] <= frameTime[c]
      BY <2>2, <1>0, Turns DEF Accept, StaysNew, LeftOver
    <2>3. ASSUME isNew'[c]
          PROVE  frameTime'[c] >= lastAcceptedTime' /\ frameTime'[c] > processed'[c]
      BY <1>0, <2>2, <2>3, <2>0, NewIsLater, Turns DEF ImagesTyped, Accept, AcceptedTime
    <2> QED
      BY <2>1, <2>3
  <1>5. AllNewInReplay'
    BY DEF Accept, AllNewInReplay
  <1> QED
    BY <1>1, <1>3, <1>4, <1>5

\* The other steps: a packet arrives, the thread wakes, a frame without images.
LEMMA OtherSteps ==
  ImagesInOrder /\ (Wake \/ Pass \/ (\E c \in Camera : Deliver(c)) \/ UNCHANGED vars) => ImagesInOrder'
  <1> SUFFICES ASSUME ImagesInOrder, Wake \/ Pass \/ (\E c \in Camera : Deliver(c)) \/ UNCHANGED vars
               PROVE  ImagesInOrder'
    OBVIOUS
  <1>1. CASE Wake
    BY <1>1 DEF Wake, ImagesInOrder, ImagesTyped, LeftoverIsNext, TimesInOrder, AllNewInReplay
  <1>2. CASE Pass
    <2>1. \A c \in Camera : NewNow(c) \in BOOLEAN
      BY DEF ImagesInOrder, ImagesTyped, NewNow, Changed
    <2>2. ImagesTyped' /\ LeftoverIsNext'
      BY <1>2, <2>1 DEF Pass, ImagesInOrder, ImagesTyped, LeftoverIsNext, Changed
    <2>3. ASSUME ~logReplay' PROVE TimesInOrder'
      <3>1. \A c \in Camera : isNew'[c] => NewNow(c)
        BY <1>2 DEF Pass
      <3> QED
        BY <1>2, <2>3, <3>1, NewIsLater DEF Pass, ImagesInOrder, ImagesTyped, TimesInOrder
    <2>4. ASSUME logReplay' PROVE AllNewInReplay'
      <3>1. logReplay
        BY <1>2, <2>4 DEF Pass
      <3>2. \A c \in unused \union Changed : NewNow(c)
        BY <3>1 DEF ImagesInOrder, AllNewInReplay, NewNow
      <3> QED
        BY <1>2, <3>2 DEF Pass, AllNewInReplay, ImagesInOrder, ImagesTyped, Changed
    <2> QED
      BY <2>2, <2>3, <2>4 DEF ImagesInOrder
  <1>3. CASE \E c \in Camera : Deliver(c)
    BY <1>3 DEF Deliver, ImagesInOrder, ImagesTyped, LeftoverIsNext, TimesInOrder, AllNewInReplay
  <1>4. CASE UNCHANGED vars
    BY <1>4 DEF vars, ImagesInOrder, ImagesTyped, LeftoverIsNext, TimesInOrder, AllNewInReplay
  <1> QED
    BY <1>1, <1>2, <1>3, <1>4

\* The inductive invariant of the choice of images.
LEMMA ImagesInvariance == Spec => []ImagesInOrder
  <1>1. ImagesInOrder /\ [Next]_vars => ImagesInOrder'
    BY AcceptStep, OtherSteps DEF Next, Frame
  <1> QED
    BY <1>1, InitImages, PTL DEF Spec

\* In a log replay, images that are older than those seen before are used at once:
\* no frame ends with another image of each camera seen and none used, whatever the
\* times and however often the log is rewound (Cognition.cpp:51).
THEOREM PairUsed == Spec => []PairIsUsed
  <1>1. Init => PairIsUsed
    BY DEF Init, PairIsUsed
  <1>2. ImagesInOrder /\ PairIsUsed /\ [Next]_vars => PairIsUsed'
    <2> SUFFICES ASSUME ImagesInOrder, PairIsUsed, [Next]_vars, logReplay'
                 PROVE  unused' # Camera
      BY DEF PairIsUsed
    <2>1. CASE Accept
      BY <2>1 DEF Accept
    <2>2. CASE Pass
      <3>1. PICK c \in Camera : ~NewNow(c)
        BY <2>2 DEF Pass
      <3>2. logReplay
        BY <2>2 DEF Pass
      <3>3. c \notin unused \union Changed
        BY <3>1, <3>2 DEF ImagesInOrder, AllNewInReplay, NewNow
      <3> QED
        BY <2>2, <3>3 DEF Pass
    <2>3. CASE UNCHANGED <<logReplay, unused>>
      BY <2>3 DEF PairIsUsed
    <2> QED
      BY <2>1, <2>2, <2>3 DEF Next, Frame, Wake, Deliver, vars
  <1> QED
    BY <1>1, <1>2, ImagesInvariance, PTL DEF Spec

\* A frame that starts because of "acceptNext" has its image.
THEOREM LeftoverUsed == Spec => []LeftoverIsNext
  <1>1. ImagesInOrder => LeftoverIsNext
    BY DEF ImagesInOrder
  <1> QED
    BY <1>1, ImagesInvariance, PTL

\* Cognition::beforeFrame never goes back to an older image.
THEOREM Chronological == Spec => NeverBack
  <1>1. ImagesInOrder /\ [Next]_vars => [~logReplay => lastAcceptedTime' >= lastAcceptedTime]_vars
    <2> SUFFICES ASSUME ImagesInOrder, Next, ~logReplay PROVE lastAcceptedTime' >= lastAcceptedTime
      OBVIOUS
    <2>1. CASE Accept
      BY <2>1, AcceptsNew, NewIsLater, Turns DEF ImagesInOrder, ImagesTyped, Accept, AcceptedTime
    <2>2. CASE Wake \/ Pass \/ \E c \in Camera : Deliver(c)
      BY <2>2 DEF ImagesInOrder, ImagesTyped, Wake, Pass, Deliver
    <2> QED
      BY <2>1, <2>2 DEF Next, Frame
  <1> QED
    BY <1>1, ImagesInvariance, PTL DEF Spec, NeverBack

\* No image is processed twice.
THEOREM ProcessedOnce == Spec => NoImageTwice
  <1> DEFINE Once ==
        \A c \in Camera :
          ~logReplay /\ isUpper' # isUpper /\ c = (IF isUpper' THEN "upper" ELSE "lower")
            => processed'[c] > processed[c]
  <1>1. ImagesInOrder /\ [Next]_vars => [Once]_vars
    <2> SUFFICES ASSUME ImagesInOrder, Next, ~logReplay PROVE Once
      OBVIOUS
    <2>1. CASE Accept
      <3>1. frameTime[Current] > processed[Current]
        BY <2>1, AcceptsNew, NewIsLater, Turns DEF ImagesInOrder, ImagesTyped
      <3>2. isUpper' = ~isUpper /\ processed'[Current] = frameTime[Current]
        BY <2>1, Turns DEF ImagesInOrder, ImagesTyped, Accept
      <3> QED
        BY <3>1, <3>2, Turns DEF ImagesInOrder, ImagesTyped
    <2>2. CASE Wake \/ Pass \/ \E c \in Camera : Deliver(c)
      BY <2>2 DEF Wake, Pass, Deliver
    <2> QED
      BY <2>1, <2>2 DEF Next, Frame
  <1> QED
    BY <1>1, ImagesInvariance, PTL DEF Spec, NoImageTwice

-----------------------------------------------------------------------------
(* The ring buffer of team messages. *)

\* A set of numbers that contains 0 and the successor of each member contains all.
LEMMA AllNumbers ==
  ASSUME NEW T \in SUBSET Nat, 0 \in T, \A n \in T : n + 1 \in T
  PROVE  T = Nat
  <1> SUFFICES ASSUME Nat \ T # {} PROVE FALSE
    OBVIOUS
  <1>1. PICK n \in Nat \ T : \A k \in Nat \ T : ~(<<k, n>> \in OpToRel(<, Nat))
    BY WFMin, NatLessThanWellFounded
  <1>2. n # 0 /\ n - 1 \in Nat
    OBVIOUS
  <1>3. <<n - 1, n>> \in OpToRel(<, Nat)
    BY <1>2 DEF OpToRel
  <1>4. n - 1 \in T
    BY <1>1, <1>2, <1>3
  <1> QED
    BY <1>2, <1>4

\* The recursive function Buffers is defined for every sequence of packets.
LEMMA BuffersRecursion ==
  ASSUME NEW b, NEW packets, Len(packets) \in Nat
  PROVE  /\ Buffers(b, packets)[0] = b
         /\ \A i \in 1..Len(packets) :
              Buffers(b, packets)[i] = Read(Buffers(b, packets)[i - 1], packets[i])
  <1> DEFINE After(n, f) ==
               f = [i \in 0..n |-> IF i = 0 THEN b ELSE Read(f[i - 1], packets[i])]
             T == {n \in Nat : \E f : After(n, f)}
  <1>1. 0 \in T
    <2>1. After(0, [i \in 0..0 |-> b])
      OBVIOUS
    <2> QED
      BY <2>1
  <1>2. ASSUME NEW n \in T PROVE n + 1 \in T
    <2>1. PICK f : After(n, f)
      OBVIOUS
    <2> DEFINE g == [i \in 0..(n + 1) |-> IF i = n + 1 THEN Read(f[n], packets[n + 1]) ELSE f[i]]
    <2>2. /\ n \in Nat /\ \A i \in 0..n : g[i] = f[i] /\ g[n + 1] = Read(f[n], packets[n + 1])
          /\ \A i \in 0..n : f[i] = IF i = 0 THEN b ELSE Read(f[i - 1], packets[i])
      BY <2>1
    <2>3. ASSUME NEW i \in 0..(n + 1)
          PROVE  g[i] = IF i = 0 THEN b ELSE Read(g[i - 1], packets[i])
      <3>1. CASE i = n + 1
        BY <2>2, <3>1
      <3>2. CASE i \in 1..n
        <4>1. i - 1 \in 0..n /\ i \in 0..n /\ i # 0
          BY <2>2, <3>2
        <4> HIDE DEF g
        <4> QED
          BY <2>2, <4>1
      <3>3. CASE i = 0
        BY <2>2, <3>3
      <3> QED
        BY <2>2, <3>1, <3>2, <3>3
    <2>4. After(n + 1, g)
      BY <2>3
    <2>5. \E h \in {g} : After(n + 1, h)
      <3> HIDE DEF After, g
      <3> QED
        BY <2>4
    <2> QED
      BY <2>2, <2>5
  <1>3. Len(packets) \in T
    <2>1. T = Nat
      <3> HIDE DEF T
      <3>1. T \in SUBSET Nat
        BY DEF T
      <3> QED
        BY <1>1, <1>2, <3>1, AllNumbers
    <2> QED
      BY <2>1
  <1>4. After(Len(packets), Buffers(b, packets))
    <2>1. \E f : After(Len(packets), f)
      BY <1>3
    <2>2. Buffers(b, packets) = CHOOSE f : After(Len(packets), f)
      BY DEF Buffers
    <2> HIDE DEF After
    <2> QED
      BY <2>1, <2>2
  <1> QED
    BY <1>4

\* The slot k entries before the one at the head h, and the one after it.
Back(h, k) == IF k <= h THEN h - k ELSE Capacity + h - k
Forward(h) == IF h = Capacity - 1 THEN 0 ELSE h + 1

\* Entries that fit.
AtMost(e, most) == IF e <= most THEN e ELSE most

\* The remainders in the code are these.
LEMMA Around ==
  ASSUME NEW h \in 0..(Capacity - 1)
  PROVE  /\ \A k \in 0..(Capacity - 1) : (Capacity + h - k) % Capacity = Back(h, k)
         /\ (h + 1) % Capacity = Forward(h)
         /\ (Forward(h) + Capacity - 1) % Capacity = h
  <1>1. Capacity \in Nat \ {0}
    BY CapacityAssumption
  <1>2. ASSUME NEW x \in Nat
        PROVE  /\ x < Capacity => x % Capacity = x
               /\ Capacity <= x /\ x < 2 * Capacity => x % Capacity = x - Capacity
    BY <1>1
  <1>3. ASSUME NEW k \in 0..(Capacity - 1)
        PROVE  (Capacity + h - k) % Capacity = Back(h, k)
    <2>1. Capacity + h - k \in Nat
      BY <1>1
    <2> QED
      BY <1>1, <1>2, <2>1 DEF Back
  <1>4. (h + 1) % Capacity = Forward(h)
    <2>1. h + 1 \in Nat
      BY <1>1
    <2> QED
      BY <1>1, <1>2, <2>1 DEF Forward
  <1>5. (Forward(h) + Capacity - 1) % Capacity = h
    <2>1. Forward(h) + Capacity - 1 \in Nat
      BY <1>1 DEF Forward
    <2> QED
      BY <1>1, <1>2, <2>1 DEF Forward
  <1> QED
    BY <1>3, <1>4, <1>5

\* Going forward, all but the slot that is reached keep their order.
LEMMA Neighbours ==
  ASSUME NEW h \in 0..(Capacity - 1)
  PROVE  /\ Forward(h) \in 0..(Capacity - 1) /\ Back(h, 0) = h
         /\ \A k \in 0..(Capacity - 2) :
              /\ Back(Forward(h), k + 1) = Back(h, k)
              /\ Back(h, k) \in 0..(Capacity - 1) /\ Back(h, k) # Forward(h)
  BY CapacityAssumption DEF Forward, Back

Ring(buf, h, e) == [buffer |-> buf, head |-> h, entries |-> e]

\* A ring is known by its fields.
LEMMA RingFields ==
  ASSUME NEW b, b = [field \in {"buffer", "head", "entries"} |-> b[field]]
  PROVE  b = Ring(b.buffer, b.head, b.entries)
  BY DEF Ring
Buffer == [0..(Capacity - 1) -> Nat]

\* What reading a message and reading none do to the ring.
LEMMA ReadIs ==
  ASSUME NEW buf \in Buffer, NEW h \in 0..(Capacity - 1), NEW e \in 0..Capacity
  PROVE  /\ \A x \in Nat \ {0} :
              Read(Ring(buf, h, e), x)
                = Ring([buf EXCEPT ![Forward(h)] = x], Forward(h), AtMost(e + 1, Capacity))
         /\ Read(Ring(buf, h, e), Nothing)
              = Ring([buf EXCEPT ![Forward(h)] = Nothing], h, AtMost(e, Capacity - 1))
  <1>1. Capacity \in Nat \ {0} /\ (h + 1) % Capacity = Forward(h)
        /\ (Forward(h) + Capacity - 1) % Capacity = h
    BY CapacityAssumption, Around
  <1>2. setForward(Ring(buf, h, e)) = Ring(buf, Forward(h), AtMost(e + 1, Capacity))
    <2>1. setForward(Ring(buf, h, e))
            = Ring(buf, (h + 1) % Capacity, IF e < Capacity THEN e + 1 ELSE Capacity)
      <3> DEFINE c == setForward(Ring(buf, h, e))
      <3>1. c = [field \in {"buffer", "head", "entries"} |-> c[field]]
        BY DEF setForward, Ring
      <3>2. /\ c.buffer = buf /\ c.head = (h + 1) % Capacity
            /\ c.entries = IF e < Capacity THEN e + 1 ELSE Capacity
        BY DEF setForward, Ring
      <3> HIDE DEF c
      <3>3. c = Ring(c.buffer, c.head, c.entries)
        BY <3>1, RingFields
      <3> QED
        BY <3>2, <3>3 DEF c
    <2>2. (IF e < Capacity THEN e + 1 ELSE Capacity) = AtMost(e + 1, Capacity)
      BY <1>1 DEF AtMost
    <2> QED
      BY <1>1, <2>1, <2>2
  <1>3. ASSUME NEW x \in Nat \ {0}
        PROVE  Read(Ring(buf, h, e), x)
                 = Ring([buf EXCEPT ![Forward(h)] = x], Forward(h), AtMost(e + 1, Capacity))
    <2>1. Read(Ring(buf, h, e), x)
            = [setForward(Ring(buf, h, e)) EXCEPT
                 !.buffer = [@ EXCEPT ![setForward(Ring(buf, h, e)).head] = x]]
      BY DEF Read, Nothing
    <2> QED
      BY <1>2, <2>1 DEF Ring
  <1>4. Read(Ring(buf, h, e), Nothing)
          = Ring([buf EXCEPT ![Forward(h)] = Nothing], h, AtMost(e, Capacity - 1))
    <2>1. Read(Ring(buf, h, e), Nothing)
            = removeFront(Ring(buf, Forward(h), AtMost(e + 1, Capacity)))
      BY <1>2 DEF Read
    <2>2. removeFront(Ring(buf, Forward(h), AtMost(e + 1, Capacity)))
            = Ring([buf EXCEPT ![Forward(h)] = Nothing],
                   (Forward(h) + Capacity - 1) % Capacity, AtMost(e + 1, Capacity) - 1)
      <3> DEFINE d == removeFront(Ring(buf, Forward(h), AtMost(e + 1, Capacity)))
      <3>1. d = [field \in {"buffer", "head", "entries"} |-> d[field]]
        BY DEF removeFront, Ring
      <3>2. /\ d.buffer = [buf EXCEPT ![Forward(h)] = Nothing]
            /\ d.head = (Forward(h) + Capacity - 1) % Capacity
            /\ d.entries = AtMost(e + 1, Capacity) - 1
        BY DEF removeFront, Ring
      <3> HIDE DEF d
      <3>3. d = Ring(d.buffer, d.head, d.entries)
        BY <3>1, RingFields
      <3> QED
        BY <3>2, <3>3 DEF d
    <2>3. AtMost(e + 1, Capacity) - 1 = AtMost(e, Capacity - 1)
      BY <1>1 DEF AtMost
    <2> QED
      BY <1>1, <2>1, <2>2, <2>3
  <1> QED
    BY <1>3, <1>4

\* The slots that are in use hold the last messages of r, the head the very last; only
\* the oldest of those that fit may be missing.
InOrder(buf, h, e, r) ==
  /\ buf \in Buffer /\ h \in 0..(Capacity - 1) /\ e \in 0..Capacity
  /\ e <= r /\ (e = r \/ e >= Capacity - 1)
  /\ \A k \in 0..(e - 1) : buf[Back(h, k)] = r - k

Holds(b, r) == b = Ring(b.buffer, b.head, b.entries) /\ InOrder(b.buffer, b.head, b.entries, r)

\* A message comes into the reserved slot.
LEMMA ReadMessage ==
  ASSUME NEW b, NEW r \in Nat, Holds(b, r)
  PROVE  Holds(Read(b, r + 1), r + 1)
  <1> DEFINE buf == [b.buffer EXCEPT ![Forward(b.head)] = r + 1]
             h == Forward(b.head)
             e == AtMost(b.entries + 1, Capacity)
  <1>1. /\ b = Ring(b.buffer, b.head, b.entries)
        /\ b.buffer \in Buffer /\ b.head \in 0..(Capacity - 1) /\ b.entries \in 0..Capacity
        /\ b.entries <= r /\ (b.entries = r \/ b.entries >= Capacity - 1)
        /\ \A k \in 0..(b.entries - 1) : b.buffer[Back(b.head, k)] = r - k
        /\ Capacity \in Nat \ {0}
    BY CapacityAssumption DEF Holds, InOrder
  <1>2. Read(b, r + 1) = Ring(buf, h, e)
    <2>1. r + 1 \in Nat \ {0}
      OBVIOUS
    <2>2. Read(Ring(b.buffer, b.head, b.entries), r + 1) = Ring(buf, h, e)
      BY <1>1, <2>1, ReadIs
    <2> QED
      BY <1>1, <2>2
  <1>3. h \in 0..(Capacity - 1) /\ e \in 0..Capacity
        /\ e <= r + 1 /\ (e = r + 1 \/ e >= Capacity - 1)
    BY <1>1, Neighbours DEF AtMost
  <1>4. buf \in Buffer /\ buf[h] = r + 1
        /\ \A i \in 0..(Capacity - 1) : i # h => buf[i] = b.buffer[i]
    <2>1. r + 1 \in Nat /\ b.buffer \in Buffer
      BY <1>1
    <2> QED
      BY <1>3, <2>1 DEF Buffer
  <1>5. \A k \in 1..(e - 1) : k - 1 \in 0..(Capacity - 2) /\ k - 1 \in 0..(b.entries - 1)
                               /\ (k - 1) + 1 = k /\ r - (k - 1) = (r + 1) - k
    BY <1>1 DEF AtMost
  <1> HIDE DEF buf, e
  <1>6. ASSUME NEW k \in 0..(e - 1) PROVE buf[Back(h, k)] = (r + 1) - k
    <2>1. CASE k = 0
      BY <1>3, <1>4, <2>1, Neighbours
    <2>2. CASE k \in 1..(e - 1)
      <3>1. Back(h, k) = Back(b.head, k - 1) /\ Back(h, k) \in 0..(Capacity - 1)
            /\ Back(h, k) # h
        BY <1>1, <1>5, <2>2, Neighbours
      <3>2. b.buffer[Back(b.head, k - 1)] = r - (k - 1)
        BY <1>1, <1>5, <2>2
      <3> QED
        BY <1>4, <1>5, <2>2, <3>1, <3>2
    <2> QED
      BY <1>3, <2>1, <2>2
  <1> QED
    BY <1>2, <1>3, <1>4, <1>6 DEF Holds, InOrder, Ring

\* A packet with a wrong size, or none at all, gives the reserved slot back; what it
\* costs is at most the oldest entry of a full ring.
LEMMA ReadNothing ==
  ASSUME NEW b, NEW r \in Nat, Holds(b, r)
  PROVE  /\ Holds(Read(b, Nothing), r)
         /\ Read(b, Nothing).entries = AtMost(r, Capacity - 1)
  <1> DEFINE buf == [b.buffer EXCEPT ![Forward(b.head)] = Nothing]
             h == b.head
             e == AtMost(b.entries, Capacity - 1)
  <1>1. /\ b = Ring(b.buffer, b.head, b.entries)
        /\ b.buffer \in Buffer /\ b.head \in 0..(Capacity - 1) /\ b.entries \in 0..Capacity
        /\ b.entries <= r /\ (b.entries = r \/ b.entries >= Capacity - 1)
        /\ \A k \in 0..(b.entries - 1) : b.buffer[Back(b.head, k)] = r - k
        /\ Capacity \in Nat \ {0}
    BY CapacityAssumption DEF Holds, InOrder
  <1>2. Read(b, Nothing) = Ring(buf, h, e)
    <2>1. Read(Ring(b.buffer, b.head, b.entries), Nothing) = Ring(buf, h, e)
      BY <1>1, ReadIs
    <2> QED
      BY <1>1, <2>1
  <1>3. /\ e \in 0..Capacity /\ e <= r /\ (e = r \/ e >= Capacity - 1)
        /\ e = AtMost(r, Capacity - 1)
        /\ \A k \in 0..(e - 1) : k \in 0..(Capacity - 2) /\ k \in 0..(b.entries - 1)
    BY <1>1 DEF AtMost
  <1>4. buf \in Buffer
        /\ \A i \in 0..(Capacity - 1) : i # Forward(h) => buf[i] = b.buffer[i]
    <2>1. Nothing \in Nat /\ b.buffer \in Buffer
      BY <1>1 DEF Nothing
    <2> QED
      BY <2>1 DEF Buffer
  <1> HIDE DEF buf, e
  <1>5. ASSUME NEW k \in 0..(e - 1) PROVE buf[Back(h, k)] = r - k
    <2>1. Back(h, k) \in 0..(Capacity - 1) /\ Back(h, k) # Forward(h)
      BY <1>1, <1>3, Neighbours
    <2>2. b.buffer[Back(h, k)] = r - k
      BY <1>1, <1>3
    <2> QED
      BY <1>4, <2>1, <2>2
  <1> QED
    BY <1>1, <1>2, <1>3, <1>4, <1>5 DEF Holds, InOrder, Ring

\* The number of messages among the first packets.
LEMMA MessagesCounted ==
  ASSUME NEW p
  PROVE  /\ Messages(p, 0) = 0
         /\ \A n \in Nat : Messages(p, n) \in Nat
         /\ \A n \in Nat : Messages(p, n + 1) = IF p[n + 1] THEN Messages(p, n) + 1
                                                            ELSE Messages(p, n)
  <1> DEFINE Of(n) == {i \in 1..n : p[i]}
  <1>1. \A n \in Nat : IsFiniteSet(Of(n)) /\ Cardinality(Of(n)) \in Nat
    <2> SUFFICES ASSUME NEW n \in Nat PROVE IsFiniteSet(Of(n)) /\ Cardinality(Of(n)) \in Nat
      OBVIOUS
    <2>1. IsFiniteSet(1..n)
      BY FS_Interval
    <2>2. IsFiniteSet(Of(n))
      BY <2>1, FS_Subset
    <2> QED
      BY <2>2, FS_CardinalityType
  <1>2. Messages(p, 0) = 0
    <2>1. Of(0) = {}
      OBVIOUS
    <2> QED
      BY <2>1, FS_EmptySet DEF Messages
  <1>3. ASSUME NEW n \in Nat
        PROVE  Messages(p, n + 1) = IF p[n + 1] THEN Messages(p, n) + 1 ELSE Messages(p, n)
    <2>1. CASE p[n + 1]
      <3>1. Of(n + 1) = Of(n) \union {n + 1} /\ n + 1 \notin Of(n)
        BY <2>1
      <3> HIDE DEF Of
      <3>2. Cardinality(Of(n + 1)) = Cardinality(Of(n)) + 1
        BY <1>1, <3>1, FS_AddElement
      <3> QED
        BY <2>1, <3>2 DEF Messages, Of
    <2>2. CASE ~p[n + 1]
      <3>1. Of(n + 1) = Of(n)
        BY <2>2
      <3> QED
        BY <2>2, <3>1 DEF Messages
    <2> QED
      BY <2>1, <2>2
  <1> QED
    BY <1>1, <1>2, <1>3 DEF Messages

\* After a burst of packets the ring holds the newest messages, for a burst of any
\* length and any mix of messages and packets with a wrong size.
LEMMA BurstRead ==
  ASSUME NEW b, NEW p \in Burst, received \in Nat, Holds(b, received)
  PROVE  LET n == received + Messages(p, Len(p))
         IN  /\ n \in Nat /\ Holds(receive(b, Numbered(p)), n)
             /\ receive(b, Numbered(p)).entries = AtMost(n, Capacity - 1)
  <1>1. PICK m \in 0..MaxBurst : p \in [1..m -> BOOLEAN]
    BY DEF Burst
  <1>2. /\ m \in Nat /\ Len(p) = m /\ Len(Numbered(p)) = m
        /\ \A i \in 1..m : Numbered(p)[i] = IF p[i] THEN received + Messages(p, i) ELSE Nothing
    BY <1>1 DEF Numbered
  <1> DEFINE after == Buffers(b, Numbered(p))
             read(i) == received + Messages(p, i)
             T == {i \in Nat : i <= m => Holds(after[i], read(i))}
  <1>a. m \in Nat
    BY <1>1
  <1>b. \A i \in Nat : read(i) \in Nat
    <2>1. \A i \in Nat : Messages(p, i) \in Nat
      BY MessagesCounted, Zenon
    <2> QED
      BY <2>1
  <1>3. /\ after[0] = b
        /\ \A i \in 1..m : after[i] = Read(after[i - 1], Numbered(p)[i])
    BY <1>2, BuffersRecursion
  <1> HIDE DEF after
  <1>4. 0 \in T
    <2>1. read(0) = received
      BY MessagesCounted
    <2> QED
      BY <1>3, <2>1
  <1>5. ASSUME NEW i \in T PROVE i + 1 \in T
    <2> SUFFICES ASSUME i + 1 <= m PROVE Holds(after[i + 1], read(i + 1))
      OBVIOUS
    <2>1. i \in Nat /\ i + 1 \in 1..m /\ (i + 1) - 1 = i
      BY <1>2
    <2>2. Holds(after[i], read(i)) /\ read(i) \in Nat
      <3>1. Holds(after[i], read(i))
        <4> HIDE DEF read
        <4> QED
          BY <1>a, <2>1
      <3> QED
        BY <1>b, <2>1, <3>1
    <2> HIDE DEF T
    <2>3. after[i + 1] = Read(after[i], Numbered(p)[i + 1])
      <3>1. after[i + 1] = Read(after[(i + 1) - 1], Numbered(p)[i + 1])
        BY <1>3, <2>1
      <3> QED
        BY <2>1, <3>1
    <2>a. Numbered(p)[i + 1] = IF p[i + 1] THEN received + Messages(p, i + 1) ELSE Nothing
      BY <1>2, <2>1
    <2>b. /\ Messages(p, i) \in Nat
          /\ Messages(p, i + 1) = IF p[i + 1] THEN Messages(p, i) + 1 ELSE Messages(p, i)
      BY <2>1, MessagesCounted
    <2>4. CASE p[i + 1]
      <3>1. read(i + 1) = read(i) + 1 /\ Numbered(p)[i + 1] = read(i) + 1
        BY <2>4, <2>a, <2>b
      <3> HIDE DEF read
      <3> QED
        BY <2>2, <2>3, <3>1, ReadMessage
    <2>5. CASE ~p[i + 1]
      <3>1. read(i + 1) = read(i) /\ Numbered(p)[i + 1] = Nothing
        BY <2>5, <2>a, <2>b
      <3> HIDE DEF read
      <3> QED
        BY <2>2, <2>3, <3>1, ReadNothing
    <2> QED
      BY <2>4, <2>5
  <1>6. Holds(after[m], read(m)) /\ read(m) \in Nat
    <2> HIDE DEF T
    <2>1. T \in SUBSET Nat
      BY DEF T
    <2>2. m \in T
      BY <1>2, <1>4, <1>5, <2>1, AllNumbers
    <2>3. read(m) \in Nat
      BY <1>a, <1>b
    <2>4. Holds(after[m], read(m))
      <3> HIDE DEF read
      <3> QED
        BY <1>2, <2>2 DEF T
    <2> QED
      BY <2>3, <2>4
  <1> QED
    BY <1>2, <1>6, ReadNothing DEF receive, after

NewestInRing ==
  Holds(inTeamMessages, received) /\ inTeamMessages.entries = AtMost(received, Capacity - 1)

\* KeepsNewest says of the messages what Holds says of the slots.
LEMMA NewestHeld ==
  ASSUME MessagesTyped
  PROVE  KeepsNewest <=> NewestInRing
  <1> DEFINE b == inTeamMessages
             e == b.entries
             n == IF received < Capacity THEN received ELSE Capacity - 1
  <1>1. /\ b = Ring(b.buffer, b.head, b.entries)
        /\ b.buffer \in Buffer /\ b.head \in 0..(Capacity - 1) /\ e \in 0..Capacity
        /\ received \in Nat /\ Capacity \in Nat \ {0}
    BY CapacityAssumption DEF MessagesTyped, Ring, Buffer
  <1>2. n = AtMost(received, Capacity - 1) /\ n \in Nat
    BY <1>1 DEF AtMost
  <1>3. TakenBack(b) = [i \in 1..e |-> b.buffer[(Capacity + b.head - (e - i)) % Capacity]]
    BY DEF TakenBack
  <1>4. \A i \in 1..e : /\ e - i \in 0..(e - 1) /\ e - i \in 0..(Capacity - 1)
                        /\ (Capacity + b.head - (e - i)) % Capacity = Back(b.head, e - i)
    <2> SUFFICES ASSUME NEW i \in 1..e
                 PROVE  /\ e - i \in 0..(e - 1) /\ e - i \in 0..(Capacity - 1)
                        /\ (Capacity + b.head - (e - i)) % Capacity = Back(b.head, e - i)
      OBVIOUS
    <2>1. e - i \in 0..(e - 1) /\ e - i \in 0..(Capacity - 1)
      BY <1>1
    <2> QED
      BY <1>1, <2>1, Around
  <1>5. TakenBack(b) = [i \in 1..e |-> b.buffer[Back(b.head, e - i)]]
    BY <1>3, <1>4
  <1> HIDE DEF b, n
  <1>6. ASSUME KeepsNewest
        PROVE  Holds(b, received) /\ e = AtMost(received, Capacity - 1)
    <2>1. TakenBack(b) = [i \in 1..n |-> received - n + i]
      BY <1>6 DEF KeepsNewest, b, n
    <2>2. e = n
      <3>1. 1..e = 1..n
        BY <1>5, <2>1
      <3> QED
        BY <1>1, <1>2, <3>1
    <2>3. ASSUME NEW k \in 0..(e - 1) PROVE b.buffer[Back(b.head, k)] = received - k
      <3>1. e - k \in 1..e /\ e - (e - k) = k /\ received - n + (e - k) = received - k
        BY <1>1, <1>2, <2>2
      <3>2. TakenBack(b)[e - k] = b.buffer[Back(b.head, k)]
        BY <1>5, <3>1
      <3>3. TakenBack(b)[e - k] = received - k
        BY <2>1, <2>2, <3>1
      <3> QED
        BY <3>2, <3>3
    <2>4. e <= received /\ (e = received \/ e >= Capacity - 1)
      BY <1>1, <1>2, <2>2 DEF AtMost
    <2> QED
      BY <1>1, <1>2, <2>2, <2>3, <2>4 DEF Holds, InOrder
  <1>7. ASSUME Holds(b, received), e = AtMost(received, Capacity - 1)
        PROVE  KeepsNewest
    <2>1. \A i \in 1..e : b.buffer[Back(b.head, e - i)] = received - (e - i)
      BY <1>4, <1>7 DEF Holds, InOrder
    <2>2. \A i \in 1..e : received - (e - i) = received - n + i
      BY <1>1, <1>2, <1>7
    <2>3. TakenBack(b) = [i \in 1..n |-> received - n + i]
      BY <1>2, <1>5, <1>7, <2>1, <2>2
    <2> QED
      BY <2>3 DEF KeepsNewest, b, n
  <1> QED
    BY <1>6, <1>7 DEF NewestInRing, b

\* The messages that arrive in a frame come into the ring; if they are handled, it is
\* empty.
LEMMA MessagesStep ==
  ASSUME MessagesTyped, KeepsNewest, TeamMessages
  PROVE  MessagesTyped' /\ KeepsNewest'
  <1>1. PICK p \in Burst, handled \in BOOLEAN :
          LET n == received + Messages(p, Len(p))
              b == receive(inTeamMessages, Numbered(p))
          IN  /\ n <= MaxReceived
              /\ inTeamMessages' = IF handled THEN Taken(b) ELSE b
              /\ received' = IF handled THEN 0 ELSE n
    BY DEF TeamMessages
  <1> DEFINE n == received + Messages(p, Len(p))
             b == receive(inTeamMessages, Numbered(p))
  <1>2. n \in 0..MaxReceived /\ Holds(b, n) /\ b.entries = AtMost(n, Capacity - 1)
    <2>1. received \in Nat /\ Holds(inTeamMessages, received)
      BY NewestHeld DEF MessagesTyped, NewestInRing
    <2> QED
      BY <1>1, <2>1, BurstRead
  <1>3. Holds(Taken(b), 0) /\ Taken(b).entries = AtMost(0, Capacity - 1)
    <2>1. Capacity \in Nat \ {0} /\ b.head \in 0..(Capacity - 1)
      BY <1>2, CapacityAssumption DEF Holds, InOrder
    <2>2. Taken(b) = Ring([i \in 0..(Capacity - 1) |-> Nothing], b.head, 0)
      <3> DEFINE c == Taken(b)
      <3> HIDE DEF b
      <3>1. c = [field \in {"buffer", "head", "entries"} |-> c[field]]
        BY DEF Taken, EmptyBuffer
      <3>2. c.buffer = [i \in 0..(Capacity - 1) |-> Nothing] /\ c.head = b.head /\ c.entries = 0
        BY DEF Taken, EmptyBuffer
      <3> HIDE DEF c
      <3>3. c = Ring(c.buffer, c.head, c.entries)
        BY <3>1, RingFields
      <3> QED
        BY <3>2, <3>3 DEF c
    <2>3. InOrder([i \in 0..(Capacity - 1) |-> Nothing], b.head, 0, 0)
      BY <2>1 DEF InOrder, Buffer, Nothing
    <2> QED
      BY <2>1, <2>2, <2>3 DEF Holds, Ring, AtMost
  <1> HIDE DEF n, b
  <1>4. /\ received' \in 0..MaxReceived /\ Holds(inTeamMessages', received')
        /\ inTeamMessages'.entries = AtMost(received', Capacity - 1)
    BY <1>1, <1>2, <1>3 DEF n, b
  <1>5. MessagesTyped'
    BY <1>4 DEF MessagesTyped, Holds, InOrder, Ring, Buffer
  <1>6. NewestInRing'
    BY <1>4 DEF NewestInRing
  <1>7. KeepsNewest'
    BY <1>5, <1>6, NewestHeld, PTL
  <1> QED
    BY <1>5, <1>7

\* The inductive invariant holds in every reachable state.
THEOREM Invariance == Spec => []IInv
  <1>1. Init => MessagesTyped /\ KeepsNewest
    <2> SUFFICES ASSUME Init PROVE MessagesTyped /\ KeepsNewest
      OBVIOUS
    <2>1. MessagesTyped
      BY CapacityAssumption DEF Init, MessagesTyped, EmptyBuffer, Nothing
    <2>2. Holds(EmptyBuffer, 0) /\ EmptyBuffer.entries = AtMost(0, Capacity - 1)
      BY CapacityAssumption DEF EmptyBuffer, Holds, InOrder, Ring, Buffer, Nothing, AtMost
    <2> QED
      BY <2>1, <2>2, NewestHeld DEF Init, NewestInRing
  <1>2. MessagesTyped /\ KeepsNewest /\ [Next]_vars => MessagesTyped' /\ KeepsNewest'
    <2> SUFFICES ASSUME MessagesTyped, KeepsNewest, [Next]_vars
                 PROVE  MessagesTyped' /\ KeepsNewest'
      OBVIOUS
    <2>1. CASE TeamMessages
      BY <2>1, MessagesStep
    <2>2. CASE UNCHANGED <<inTeamMessages, received>>
      BY <2>2 DEF MessagesTyped, KeepsNewest
    <2> QED
      BY <2>1, <2>2 DEF Next, Frame, Accept, Pass, Wake, Deliver, vars
  <1> QED
    BY <1>1, <1>2, ImagesInvariance, PTL DEF Spec, IInv

\* The ring buffer holds the newest team messages in order, for any capacity, any
\* bursts of packets and any number of frames in which nobody handles them.
THEOREM NewestKept == Spec => []KeepsNewest
  <1>1. IInv => KeepsNewest
    BY DEF IInv
  <1> QED
    BY <1>1, Invariance, PTL

\* Every variable keeps to its type.
THEOREM TypeCorrect == Spec => []TypeOK
  <1>1. IInv => TypeOK
    BY DEF IInv, ImagesInOrder, TypeOK
  <1> QED
    BY <1>1, Invariance, PTL
=============================================================================
