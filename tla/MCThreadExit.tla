---------------------------- MODULE MCThreadExit ----------------------------
(***************************************************************************)
(* An instance of ThreadExit: destructors that construct further           *)
(* variables, to the depth that musl's rounds allow.                       *)
(***************************************************************************)
EXTENDS ThreadExit, TLC

CONSTANTS v1, v2, v3

\* v1's destructor uses v2, whose destructor uses v3.
ThreeDeep == (v1 :> {v2}) @@ (v2 :> {v3}) @@ (v3 :> {})

EmutlsFirst == <<"emutls", "dtors", "user", "thread_struct">>
=============================================================================
