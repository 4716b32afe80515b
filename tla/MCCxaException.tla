--------------------------- MODULE MCCxaException ---------------------------
(***************************************************************************)
(* An instance of CxaException.  The bound on frames lets either one       *)
(* thread go deep or both go half as deep.                                 *)
(***************************************************************************)
EXTENDS CxaException, TLC

CONSTANT A

\* A call with a local variable to destroy, a try block with such a variable
\* and a typed handler, a catch-all.
MCCallSites == {<<>>, <<"cleanup", A>>, <<"any">>}

Symmetry == Permutations(Thread) \cup Permutations(Exc)
=============================================================================
