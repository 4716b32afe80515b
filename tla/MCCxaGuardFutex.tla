-------------------------- MODULE MCCxaGuardFutex --------------------------
(***************************************************************************)
(* An instance of CxaGuardFutex: one static whose initialiser may use it,  *)
(* and three threads.                                                      *)
(***************************************************************************)
EXTENDS CxaGuardFutex, TLC

CONSTANTS t1, t2, t3, g1

SelfUse == (g1 :> {g1})
Ids == (t1 :> 1) @@ (t2 :> 2) @@ (t3 :> 3)
============================================================================
