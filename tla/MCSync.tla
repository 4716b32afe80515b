------------------------------- MODULE MCSync -------------------------------
(***************************************************************************)
(* An instance of Sync.  One thread has two shares in the barrier, the     *)
(* first section has two frame descriptions and fills the cache.           *)
(***************************************************************************)
EXTENDS Sync, TLC

CONSTANTS s1, s2, a1, a2, b1

MCShare == [t \in Thread |-> IF t = maker THEN 2 ELSE 1]
MCFdes == (s1 :> <<a1, a2>>) @@ (s2 :> <<b1>>)
=============================================================================
