---------------------------- MODULE ProviderSort ----------------------------
(***************************************************************************)
(* ModuleGraphCreator::sortProviders brings the providers of a thread into *)
(* a sequence in which each one runs after those it depends on.  It walks  *)
(* along the list; a provider with a requirement that is not provided yet  *)
(* is moved to the end, as often as there are providers left.              *)
(***************************************************************************)
EXTENDS Naturals, Sequences, FiniteSets

CONSTANTS
  Input,            \* the providers, by representation, in their initial order
  External          \* representations that need not be provided by this thread

Wanted == {Input[k] : k \in 1..Len(Input)}

ASSUME ProviderSortAssumption ==
  /\ Input \in Seq(Wanted)
  /\ \A k, l \in 1..Len(Input) : Input[k] = Input[l] => k = l
  /\ Wanted \intersect External = {}

VARIABLES
  requires,         \* requires[p]: the requirements of p's module (input)
  byOthers,         \* received from other threads or provided by default (input)
  providers,        \* the list
  i,                \* the iterator
  provided,         \* the representations provided so far
  remaining,        \* the providers that are not in the correct sequence yet
  pushBackCount,    \* how many may still be moved to the end
  result            \* what the function returned

input == <<requires, byOthers>>
vars == <<input, providers, i, provided, remaining, pushBackCount, result>>

Init ==
  /\ requires \in [Wanted -> SUBSET (Wanted \union External)]
  /\ byOthers \in SUBSET External
  /\ providers = Input /\ i = 1
  /\ provided = byOthers
  /\ remaining = Len(Input) /\ pushBackCount = Len(Input)
  /\ result = "none"

-----------------------------------------------------------------------------
\* A requirement of the provider itself does not count.
Satisfied(p) == requires[p] \ {p} \subseteq provided

\* All requirements are fulfilled: the provider stays where it is.
Found ==
  /\ result = "none" /\ i <= Len(providers) /\ Satisfied(providers[i])
  /\ provided' = provided \union {providers[i]}
  /\ i' = i + 1
  /\ remaining' = remaining - 1
  /\ pushBackCount' = remaining'
  /\ UNCHANGED <<input, providers, result>>

\* emplace_back(*k), erase(k)
MoveToEnd(list, k) ==
  Append(SubSeq(list, 1, k - 1) \o SubSeq(list, k + 1, Len(list)), list[k])

\* Mutant: the number of moves is not limited.
PushBackForEver ==
  /\ result = "none" /\ i <= Len(providers) /\ ~Satisfied(providers[i])
  /\ pushBackCount > 0
  /\ providers' = MoveToEnd(providers, i)
  /\ UNCHANGED <<input, i, provided, remaining, pushBackCount, result>>

\* Mutant: the iterator erase() returns is advanced once more.
PushBackAndAdvance ==
  /\ result = "none" /\ i <= Len(providers) /\ ~Satisfied(providers[i])
  /\ pushBackCount > 0
  /\ providers' = MoveToEnd(providers, i)
  /\ i' = i + 1
  /\ pushBackCount' = pushBackCount - 1
  /\ UNCHANGED <<input, provided, remaining, result>>

\* At least one requirement is missing: the provider goes to the end.
PushBack ==
  /\ result = "none" /\ i <= Len(providers) /\ ~Satisfied(providers[i])
  /\ pushBackCount > 0
  /\ providers' = MoveToEnd(providers, i)
  /\ pushBackCount' = pushBackCount - 1
  /\ UNCHANGED <<input, i, provided, remaining, result>>

\* None of the remaining ones was satisfied.
Fail ==
  /\ result = "none" /\ i <= Len(providers) /\ ~Satisfied(providers[i])
  /\ pushBackCount = 0
  /\ result' = "false"
  /\ UNCHANGED <<input, providers, i, provided, remaining, pushBackCount>>

Succeed ==
  /\ result = "none" /\ i > Len(providers)
  /\ result' = "true"
  /\ UNCHANGED <<input, providers, i, provided, remaining, pushBackCount>>

Next == Found \/ PushBack \/ Fail \/ Succeed

Spec == Init /\ [][Next]_vars
\* The loop is not interrupted.
FairSpec == Spec /\ WF_vars(Next)

-----------------------------------------------------------------------------
TypeOK ==
  /\ requires \in [Wanted -> SUBSET (Wanted \union External)]
  /\ byOthers \subseteq External
  /\ providers \in Seq(Wanted)
  /\ i \in 1..Len(Input) + 1
  /\ provided \subseteq Wanted \union External
  /\ remaining \in 0..Len(Input) /\ pushBackCount \in 0..Len(Input)
  /\ result \in {"none", "true", "false"}

\* The list still holds every provider, once.
SameProviders ==
  /\ Len(providers) = Len(Input)
  /\ \A k, l \in 1..Len(providers) : providers[k] = providers[l] => k = l
  /\ \A p \in Wanted : \E k \in 1..Len(providers) : providers[k] = p

\* What the walk has left behind is in order, and pushBackCount tells how many
\* entries at the end of the list were found to miss a requirement since the last
\* success: the last ones.
PrefixSorted ==
  /\ remaining = Len(Input) + 1 - i /\ pushBackCount <= remaining
  /\ provided = byOthers \union {providers[k] : k \in 1..(i - 1)}
  /\ \A k \in 1..(i - 1) : \A r \in requires[providers[k]] \ {providers[k]} :
       r \in byOthers \/ \E l \in 1..(k - 1) : providers[l] = r
SuffixBlocked ==
  \A k \in 1..Len(Input) : k > i - 1 + pushBackCount => ~Satisfied(providers[k])
ResultMeans ==
  /\ result = "true" => i = Len(Input) + 1
  /\ result = "false" => i <= Len(Input) /\ pushBackCount = 0

IInv == TypeOK /\ SameProviders /\ PrefixSorted /\ SuffixBlocked /\ ResultMeans

\* An order: every provider runs after those whose representations it needs.
Consistent(list) ==
  \A k \in 1..Len(list) : \A r \in requires[list[k]] \ {list[k]} :
    r \in byOthers \/ \E l \in 1..(k - 1) : list[l] = r

\* No order exists: some providers wait for each other or for something that
\* nobody provides.
Impossible ==
  \E S \in (SUBSET Wanted) \ {{}} : \A p \in S :
    \E r \in requires[p] \ {p} : r \in S \/ r \notin (byOthers \union Wanted)

\* Somebody provides each requirement, as calcShared has checked.
Available == \A p \in Wanted : requires[p] \subseteq Wanted \union byOthers

\* No set of providers waits for itself: Sortable of ModuleGraphCreator.
Sortable ==
  \A S \in (SUBSET Wanted) \ {{}} : \E p \in S : requires[p] \intersect (S \ {p}) = {}

\* The function returns true only with a consistent sequence of all providers, and
\* false only if there is none: one turn of the list is enough to tell.  Then it says
\* of a configuration what ModuleGraphCreator assumes.
Correct ==
  /\ result = "true" => Consistent(providers) /\ SameProviders
  /\ result = "false" => Impossible
  /\ Available /\ result # "none" => (result = "true" <=> Sortable)

\* The loop ends: the iterator and the count cannot chase each other forever.
Returns == <>(result # "none")
=============================================================================
