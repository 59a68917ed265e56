------------------------- MODULE ProviderSortProofs -------------------------
(***************************************************************************)
(* sortProviders is correct for any number of providers: it returns true   *)
(* only with a consistent sequence of all of them, and false only if there *)
(* is none.                                                                *)
(***************************************************************************)
EXTENDS ProviderSort, WellFoundedInduction, TLAPS

\* Where the entries of a list are after one was moved to the end.
LEMMA MovedToEnd ==
  ASSUME NEW T, NEW list \in Seq(T), NEW k \in 1..Len(list)
  PROVE  /\ MoveToEnd(list, k) \in Seq(T)
         /\ Len(MoveToEnd(list, k)) = Len(list)
         /\ \A j \in 1..Len(list) :
              MoveToEnd(list, k)[j] = IF j < k THEN list[j]
                                      ELSE IF j < Len(list) THEN list[j + 1] ELSE list[k]
<1> DEFINE front == SubSeq(list, 1, k - 1)
           back  == SubSeq(list, k + 1, Len(list))
<1>1. /\ front \in Seq(T) /\ Len(front) = k - 1
      /\ \A j \in 1..(k - 1) : front[j] = list[j]
  OBVIOUS
<1>2. /\ back \in Seq(T) /\ Len(back) = Len(list) - k
      /\ \A j \in 1..(Len(list) - k) : back[j] = list[k + j]
  OBVIOUS
<1>3. /\ front \o back \in Seq(T) /\ Len(front \o back) = Len(list) - 1
      /\ \A j \in 1..(Len(list) - 1) :
           (front \o back)[j] = IF j < k THEN list[j] ELSE list[j + 1]
  <2> HIDE DEF front, back
  <2>1. front \o back \in Seq(T) /\ Len(front \o back) = Len(list) - 1
    <3>0. front \in Seq(T) /\ back \in Seq(T)
      BY <1>1, <1>2
    <3>1. Len(front \o back) = Len(front) + Len(back)
      BY <3>0
    <3>2. front \o back \in Seq(T)
      BY <3>0
    <3>3. (k - 1) + (Len(list) - k) = Len(list) - 1
      OBVIOUS
    <3>4. QED
      BY <1>1, <1>2, <3>1, <3>2, <3>3
  <2>2. ASSUME NEW j \in 1..(Len(list) - 1)
        PROVE  (front \o back)[j] = IF j < k THEN list[j] ELSE list[j + 1]
    <3>1. CASE j < k
      BY <1>1, <1>2, <3>1
    <3>2. CASE ~(j < k)
      <4>1. (front \o back)[j] = back[j - (k - 1)]
        BY <1>1, <1>2, <3>2
      <4>2. back[j - (k - 1)] = list[k + (j - (k - 1))]
        BY <1>2, <3>2
      <4>3. k + (j - (k - 1)) = j + 1
        OBVIOUS
      <4>4. QED
        BY <4>1, <4>2, <4>3, <3>2
    <3>3. QED
      BY <3>1, <3>2
  <2>3. QED
    BY <2>1, <2>2
<1> HIDE DEF front, back
<1>4. MoveToEnd(list, k) = Append(front \o back, list[k])
  BY DEF MoveToEnd, front, back
<1>5. MoveToEnd(list, k) \in Seq(T) /\ Len(MoveToEnd(list, k)) = Len(list)
  BY <1>3, <1>4
<1>6. ASSUME NEW j \in 1..Len(list)
      PROVE  MoveToEnd(list, k)[j] = IF j < k THEN list[j]
                                     ELSE IF j < Len(list) THEN list[j + 1] ELSE list[k]
  <2>1. CASE j < Len(list)
    <3>1. j \in 1..(Len(list) - 1)
      BY <2>1
    <3>2. MoveToEnd(list, k)[j] = (front \o back)[j]
      BY <1>3, <1>4, <3>1
    <3>3. QED
      BY <1>3, <3>1, <3>2, <2>1
  <2>2. CASE j = Len(list)
    <3>1. MoveToEnd(list, k)[j] = list[k]
      BY <1>3, <1>4, <2>2
    <3>2. k = j \/ ~(j < k)
      BY <2>2
    <3>3. QED
      BY <3>1, <3>2, <2>2
  <2>3. QED
    BY <2>1, <2>2
<1>7. QED
  BY <1>5, <1>6

-----------------------------------------------------------------------------
\* Before the first step nothing is sorted and nothing was tried.
LEMMA InitIInv == Init => IInv
<1> SUFFICES ASSUME Init PROVE IInv
  OBVIOUS
<1>1. Len(Input) \in Nat /\ Input \in Seq(Wanted)
  BY ProviderSortAssumption
<1>2. TypeOK
  BY <1>1 DEF Init, TypeOK
<1>3. SameProviders
  BY <1>1, ProviderSortAssumption DEF Init, SameProviders, Wanted
<1>4. PrefixSorted /\ SuffixBlocked /\ ResultMeans
  BY <1>1 DEF Init, PrefixSorted, SuffixBlocked, ResultMeans
<1>5. QED
  BY <1>2, <1>3, <1>4 DEF IInv

\* A satisfied provider extends the sorted part, and what was blocked may not be any
\* more: pushBackCount starts again.
LEMMA FoundStep == IInv /\ Found => IInv'
<1> SUFFICES ASSUME IInv, Found PROVE IInv'
  OBVIOUS
<1> USE DEF IInv, Found, input
<1>1. /\ Len(Input) \in Nat /\ Len(providers) = Len(Input) /\ i \in 1..Len(Input)
      /\ remaining = Len(Input) + 1 - i /\ providers[i] \in Wanted
  BY ProviderSortAssumption DEF TypeOK, SameProviders, PrefixSorted
<1>2. TypeOK'
  BY <1>1 DEF TypeOK
<1>3. SameProviders'
  BY DEF SameProviders
<1>4. PrefixSorted'
  <2>1. remaining' = Len(Input) + 1 - i' /\ pushBackCount' <= remaining'
    BY <1>1
  <2>2. provided' = byOthers' \union {providers'[k] : k \in 1..(i' - 1)}
    <3>1. 1..(i' - 1) = 1..(i - 1) \union {i}
      BY <1>1
    <3>2. {providers[k] : k \in 1..(i' - 1)}
            = {providers[k] : k \in 1..(i - 1)} \union {providers[i]}
      BY <3>1
    <3>3. provided = byOthers \union {providers[k] : k \in 1..(i - 1)}
      BY DEF PrefixSorted
    <3>4. {providers'[k] : k \in 1..(i' - 1)} = {providers[k] : k \in 1..(i' - 1)}
      OBVIOUS
    <3>5. provided' = provided \union {providers[i]} /\ byOthers' = byOthers
      OBVIOUS
    <3> HIDE DEF IInv, Found
    <3>6. QED
      BY <3>2, <3>3, <3>4, <3>5
  <2>3. ASSUME NEW k \in 1..(i' - 1), NEW r \in requires'[providers'[k]] \ {providers'[k]}
        PROVE  r \in byOthers' \/ \E l \in 1..(k - 1) : providers'[l] = r
    <3>1. CASE k = i
      <4>1. r \in provided
        BY <3>1 DEF Satisfied
      <4>2. QED
        BY <4>1, <3>1 DEF PrefixSorted
    <3>2. CASE k # i
      <4>1. k \in 1..(i - 1)
        BY <1>1, <3>2
      <4>2. QED
        BY <4>1 DEF PrefixSorted
    <3>3. QED
      BY <3>1, <3>2
  <2>4. QED
    BY <2>1, <2>2, <2>3 DEF PrefixSorted
<1>5. SuffixBlocked'
  BY <1>1 DEF SuffixBlocked
<1>6. ResultMeans'
  BY DEF ResultMeans
<1>7. QED
  BY <1>2, <1>3, <1>4, <1>5, <1>6

\* A provider that misses something joins the blocked ones at the end.
LEMMA PushBackStep == IInv /\ PushBack => IInv'
<1> SUFFICES ASSUME IInv, PushBack PROVE IInv'
  OBVIOUS
<1> DEFINE n == Len(Input)
<1>1. /\ n \in Nat /\ Len(providers) = n /\ i \in 1..n
      /\ providers \in Seq(Wanted)
      /\ remaining = n + 1 - i /\ pushBackCount \in 1..remaining
      /\ i' = i /\ pushBackCount' = pushBackCount - 1
      /\ providers' = MoveToEnd(providers, i)
  BY ProviderSortAssumption DEF IInv, PushBack, TypeOK, SameProviders, PrefixSorted
<1>2. /\ providers' \in Seq(Wanted) /\ Len(providers') = n
      /\ \A j \in 1..n : providers'[j] = IF j < i THEN providers[j]
                                         ELSE IF j < n THEN providers[j + 1] ELSE providers[i]
  BY <1>1, MovedToEnd
<1> USE DEF IInv, PushBack, input
<1> HIDE DEF n
<1>3. TypeOK'
  BY <1>1, <1>2 DEF TypeOK, n
<1>4. SameProviders'
  <2>1. \A k, l \in 1..n : providers[k] = providers[l] => k = l
    BY <1>1 DEF SameProviders
  <2>2. \A k, l \in 1..n : providers'[k] = providers'[l] => k = l
    BY <1>1, <1>2, <2>1
  <2>3. ASSUME NEW p \in Wanted PROVE \E k \in 1..n : providers'[k] = p
    <3>1. PICK k \in 1..n : providers[k] = p
      BY <1>1 DEF SameProviders
    <3>2. CASE k < i
      BY <1>2, <3>1, <3>2
    <3>3. CASE k = i
      <4>1. n \in 1..n /\ ~(n < i) /\ ~(n < n)
        BY <1>1
      <4>2. providers'[n] = providers[i]
        BY <1>2, <4>1
      <4>3. QED
        BY <3>1, <3>3, <4>1, <4>2
    <3>4. CASE k > i
      <4>1. k - 1 \in 1..n /\ ~(k - 1 < i) /\ k - 1 < n /\ (k - 1) + 1 = k
        BY <1>1, <3>4
      <4>2. providers'[k - 1] = providers[k]
        BY <1>2, <4>1
      <4>3. QED
        BY <3>1, <4>1, <4>2
    <3>5. QED
      BY <1>1, <3>2, <3>3, <3>4
  <2>4. QED
    BY <1>2, <2>2, <2>3 DEF SameProviders, n
<1>5. \A k \in 1..(i - 1) : providers'[k] = providers[k]
  BY <1>1, <1>2
<1>6. PrefixSorted'
  <2>1. remaining' = n + 1 - i' /\ pushBackCount' <= remaining'
    BY <1>1
  <2>2. provided' = byOthers' \union {providers'[k] : k \in 1..(i' - 1)}
    BY <1>1, <1>5 DEF PrefixSorted
  <2>3. ASSUME NEW k \in 1..(i' - 1), NEW r \in requires'[providers'[k]] \ {providers'[k]}
        PROVE  r \in byOthers' \/ \E l \in 1..(k - 1) : providers'[l] = r
    <3>1. k \in 1..(i - 1) /\ r \in requires[providers[k]] \ {providers[k]}
      BY <1>1, <1>5
    <3>2. r \in byOthers \/ \E l \in 1..(k - 1) : providers[l] = r
      BY <3>1 DEF PrefixSorted
    <3>3. \A l \in 1..(k - 1) : providers'[l] = providers[l]
      BY <1>1, <1>5, <3>1
    <3>4. QED
      BY <3>2, <3>3
  <2>4. QED
    BY <2>1, <2>2, <2>3 DEF PrefixSorted, n
<1>7. SuffixBlocked'
  <2> SUFFICES ASSUME NEW k \in 1..n, k > i' - 1 + pushBackCount'
               PROVE  ~Satisfied(providers'[k])
    BY DEF SuffixBlocked, Satisfied, n
  <2>1. k >= i /\ k + 1 > i - 1 + pushBackCount
    BY <1>1
  <2>2. CASE k < n
    <3>1. providers'[k] = providers[k + 1] /\ k + 1 \in 1..n
      BY <1>1, <1>2, <2>1, <2>2
    <3>2. QED
      BY <2>1, <3>1 DEF SuffixBlocked, n
  <2>3. CASE k = n
    <3>1. providers'[k] = providers[i]
      BY <1>1, <1>2, <2>1, <2>3
    <3>2. QED
      BY <3>1
  <2>4. QED
    BY <1>1, <2>2, <2>3
<1>8. ResultMeans'
  BY DEF ResultMeans
<1>9. QED
  BY <1>3, <1>4, <1>6, <1>7, <1>8

\* The function returns where the walk stopped.
LEMMA ReturnStep == IInv /\ (Fail \/ Succeed \/ UNCHANGED vars) => IInv'
<1> SUFFICES ASSUME IInv, Fail \/ Succeed \/ UNCHANGED vars PROVE IInv'
  OBVIOUS
<1>1. UNCHANGED <<input, providers, i, provided, remaining, pushBackCount>>
  BY DEF Fail, Succeed, vars
<1>2. TypeOK' /\ SameProviders' /\ PrefixSorted' /\ SuffixBlocked'
  <2>1. TypeOK'
    BY <1>1 DEF IInv, TypeOK, Fail, Succeed, vars, input
  <2>2. SameProviders'
    BY <1>1 DEF IInv, SameProviders
  <2>3. PrefixSorted'
    BY <1>1 DEF IInv, PrefixSorted, input
  <2>4. SuffixBlocked'
    BY <1>1 DEF IInv, SuffixBlocked, Satisfied, input
  <2>5. QED
    BY <2>1, <2>2, <2>3, <2>4
<1>3. ResultMeans'
  BY ProviderSortAssumption DEF Fail, Succeed, vars, IInv, TypeOK, SameProviders, ResultMeans
<1>4. QED
  BY <1>2, <1>3 DEF IInv

\* The loop invariant: the prefix is sorted, the suffix blocked.
THEOREM Invariance == Spec => []IInv
<1>1. IInv /\ [Next]_vars => IInv'
  BY FoundStep, PushBackStep, ReturnStep DEF Next
<1>2. QED
  BY InitIInv, <1>1, PTL DEF Spec

\* In a consistent list the first provider of a set waits for none of the others.
LEMMA ConsistentSortable == IInv /\ Consistent(providers) => Sortable
<1> SUFFICES ASSUME IInv, Consistent(providers), NEW S \in (SUBSET Wanted) \ {{}}
             PROVE  \E p \in S : requires[p] \intersect (S \ {p}) = {}
  BY DEF Sortable
<1> DEFINE Places == {k \in 1..Len(providers) : providers[k] \in S}
<1>1. Places # {} /\ Places \subseteq Nat
  <2>1. PICK p \in S : p \in Wanted
    OBVIOUS
  <2>2. PICK k \in 1..Len(providers) : providers[k] = p
    BY <2>1 DEF IInv, SameProviders
  <2> QED
    BY <2>2
<1>2. PICK k \in Places : \A l \in Places : ~(<<l, k>> \in OpToRel(<, Nat))
  BY <1>1, WFMin, NatLessThanWellFounded
<1>3. k \in 1..Len(providers) /\ providers[k] \in S /\ Len(providers) \in Nat
  BY DEF IInv, TypeOK
<1>4. ASSUME NEW r \in requires[providers[k]], r \in S, r # providers[k] PROVE FALSE
  <2>1. r \notin byOthers
    BY <1>4, ProviderSortAssumption DEF IInv, TypeOK
  <2>2. PICK l \in 1..(k - 1) : providers[l] = r
    BY <1>3, <1>4, <2>1 DEF Consistent
  <2>3. l \in Places /\ l < k /\ l \in Nat /\ k \in Nat
    BY <1>3, <1>4, <2>2
  <2>4. <<l, k>> \in OpToRel(<, Nat)
    BY <2>3 DEF OpToRel
  <2> QED
    BY <1>2, <2>3, <2>4
<1> QED
  BY <1>3, <1>4

\* true comes with a consistent sequence of all providers, false only if no sequence
\* is: after one turn without success the remaining ones block each other.  If every
\* requirement is provided by somebody, the answer is whether the configuration is
\* Sortable, which is all that ModuleGraphCreator uses of it.
THEOREM Correctness == Spec => []Correct
<1>1. IInv => Correct
  <2> SUFFICES ASSUME IInv PROVE Correct
    OBVIOUS
  <2>1. result = "true" => Consistent(providers) /\ SameProviders
    <3> SUFFICES ASSUME result = "true" PROVE Consistent(providers)
      BY DEF IInv
    <3>1. i - 1 = Len(providers)
      BY ProviderSortAssumption DEF IInv, ResultMeans, SameProviders
    <3>2. QED
      BY <3>1 DEF IInv, PrefixSorted, Consistent
  <2>2. ASSUME result = "false" PROVE Impossible
    <3> DEFINE n == Len(Input)
               S == {providers[k] : k \in i..n}
    <3>1. n \in Nat /\ i \in 1..n /\ Len(providers) = n
      BY <2>2, ProviderSortAssumption DEF IInv, TypeOK, ResultMeans, SameProviders
    <3>2. S \in (SUBSET Wanted) \ {{}}
      <4>1. \A k \in 1..n : providers[k] \in Wanted
        BY <3>1 DEF IInv, TypeOK
      <4>2. i \in i..n /\ \A k \in i..n : k \in 1..n
        BY <3>1
      <4>3. QED
        BY <4>1, <4>2
    <3>3. ASSUME NEW p \in S
          PROVE  \E r \in requires[p] \ {p} : r \in S \/ r \notin (byOthers \union Wanted)
      <4>1. PICK k \in i..n : p = providers[k]
        OBVIOUS
      <4>2. ~Satisfied(p)
        BY <2>2, <3>1, <4>1 DEF IInv, ResultMeans, SuffixBlocked
      <4>3. PICK r \in requires[p] \ {p} : r \notin provided
        BY <4>2 DEF Satisfied
      <4>4. r \notin byOthers
        BY <4>3 DEF IInv, PrefixSorted
      <4>5. CASE r \in Wanted
        <5>1. PICK l \in 1..n : providers[l] = r
          BY <3>1, <4>5 DEF IInv, SameProviders
        <5>2. ~(l \in 1..(i - 1))
          BY <4>3, <5>1 DEF IInv, PrefixSorted
        <5>3. l \in i..n
          BY <3>1, <5>1, <5>2
        <5>4. QED
          BY <5>1, <5>3
      <4>6. QED
        BY <4>4, <4>5
    <3>4. QED
      BY <3>2, <3>3 DEF Impossible
  <2>3. ASSUME Available, result # "none" PROVE result = "true" <=> Sortable
    <3>1. result \in {"true", "false"}
      BY <2>3 DEF IInv, TypeOK
    <3>2. result = "true" => Sortable
      BY <2>1, ConsistentSortable
    <3>3. Impossible => ~Sortable
      <4> SUFFICES ASSUME NEW S \in (SUBSET Wanted) \ {{}},
                          \A p \in S : \E r \in requires[p] \ {p} :
                            r \in S \/ r \notin (byOthers \union Wanted)
                   PROVE  \A p \in S : requires[p] \intersect (S \ {p}) # {}
        BY DEF Impossible, Sortable
      <4> QED
        BY <2>3 DEF Available
    <3> QED
      BY <2>2, <3>1, <3>2, <3>3
  <2>4. QED
    BY <2>1, <2>2, <2>3 DEF Correct
<1>2. QED
  BY <1>1, Invariance, PTL
=============================================================================
