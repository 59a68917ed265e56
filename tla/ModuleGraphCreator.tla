------------------------- MODULE ModuleGraphCreator -------------------------
(***************************************************************************)
(* What ModuleGraphCreator::update makes of a configuration: whether it is *)
(* accepted, which representations the threads exchange, and which entries *)
(* of the blackboards must be reset.  A configuration assigns to each      *)
(* thread the modules that provide its representations, and a set of       *)
(* representations that keep their default.  Aliases (a representation     *)
(* named after the thread it comes from) are left out.                     *)
(***************************************************************************)
EXTENDS Naturals, FiniteSets

CONSTANTS
  Thread, Representation, Module,
  Requires,         \* Requires[m]: the REQUIRES of module m
  Provides          \* Provides[m]: the PROVIDES of module m

ASSUME ModulesAssumption ==
  /\ Requires \in [Module -> SUBSET Representation]
  /\ Provides \in [Module -> SUBSET Representation]

IsConfiguration(c) ==
  /\ c = [providers |-> c.providers, default |-> c.default]
  /\ c.providers = [t \in Thread |-> c.providers[t]]
  /\ \A t \in Thread :
       /\ DOMAIN c.providers[t] \subseteq Representation
       /\ c.providers[t] \in [DOMAIN c.providers[t] -> Module]
  /\ c.default \subseteq Representation

\* The configuration of a creator or runner that never got one.
NoConfiguration ==
  [providers |-> [t \in Thread |-> [r \in {} |-> r]], default |-> {}]

Provided(c, t) == DOMAIN c.providers[t]

\* The modules marked as required in thread t.
Required(c, t) == {c.providers[t][r] : r \in Provided(c, t)}

\* The list of providers: which module provides which representation.
Providers(c, t) == {<<c.providers[t][r], r>> : r \in Provided(c, t)}

\* The requirements that thread t cannot meet itself.  A module's USES are none: they
\* are not part of its info.
Missing(c, t) ==
  (UNION {Requires[m] : m \in Required(c, t)}) \ (Provided(c, t) \union c.default)

\* received[t][s], which is also sent[s][t]: what t gets from s.
Received(c, t, s) == IF s = t THEN {} ELSE Missing(c, t) \intersect Provided(c, s)

\* The errors calcShared finds, as what must hold if it finds none.
calcShared(c) ==
  /\ \A t \in Thread : \A r \in Provided(c, t) :
       r \in Provides[c.providers[t][r]] /\ r \notin c.default
  /\ \A t \in Thread : \A r \in Missing(c, t) :
       \E s \in Thread \ {t} : /\ r \in Provided(c, s)
                               /\ \A u \in Thread \ {s, t} : r \notin Provided(c, u)
  /\ \A r \in c.default : \E m \in Module : r \in Requires[m]

\* sortProviders succeeds exactly if the providers of the thread can be put into
\* an order (module ProviderSort): no set of them waits for itself.  A module may
\* require what it provides.
Sortable(c, t) ==
  \A S \in (SUBSET Provided(c, t)) \ {{}} :
    \E r \in S : Requires[c.providers[t][r]] \intersect (S \ {r}) = {}

\* Nobody provides r, nor has it a default.
SwitchedOff(c, r) == r \notin c.default /\ \A t \in Thread : r \notin Provided(c, t)

Accepted(c) == calcShared(c) /\ \A t \in Thread : Sortable(c, t)

\* representationsToReset: what another module, or only the default, provides
\* now.  The provider is looked up in all threads.  What is switched off is not listed.
representationsToReset(prev, c) ==
  {r \in Representation :
     \E t \in Thread :
       /\ r \in Provided(prev, t)
       /\ (\E s \in Thread : r \in Provided(c, s)) \/ r \in c.default
       /\ \A s \in Thread : r \in Provided(c, s) =>
                              c.providers[s][r] # prev.providers[t][r]}
=============================================================================
