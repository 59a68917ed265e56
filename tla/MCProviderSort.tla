--------------------------- MODULE MCProviderSort ---------------------------
(***************************************************************************)
(* Three providers that may require each other and x, in every way.  Their *)
(* initial order does not matter, as all requirements are tried.           *)
(***************************************************************************)
EXTENDS ProviderSort

CONSTANTS a, b, c, x

MCInput == <<a, b, c>>
MCExternal == {x}
=============================================================================
