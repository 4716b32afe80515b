----------------------------- MODULE MCCxaGuard -----------------------------
(***************************************************************************)
(* A small instance of CxaGuard: which statics the initialisers use, and   *)
(* where the thread descriptors lie.                                       *)
(***************************************************************************)
EXTENDS CxaGuard, TLC

CONSTANTS t1, t2, t3, g1, g2

\* The initialiser of g1 uses g2, and each may by mistake use its own static.
NestedUses == (g1 :> {g1, g2}) @@ (g2 :> {g2})

\* Descriptors one apart: distinct after truncation.
CloseDescriptors == (t1 :> 1) @@ (t2 :> 2) @@ (t3 :> 3)
=============================================================================
