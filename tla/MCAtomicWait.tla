---------------------------- MODULE MCAtomicWait ----------------------------
(***************************************************************************)
(* An instance of AtomicWait: m and n are native, g and h are of another   *)
(* width and hash to one entry.  Stores to m are of any order and wake     *)
(* any number; those to n are seq_cst and wake all.                        *)
(***************************************************************************)
EXTENDS AtomicWait, TLC

CONSTANTS m, n, g, h, nativeEntry, globalEntry

MCEntryOf == (m :> nativeEntry) @@ (n :> nativeEntry)
                 @@ (g :> globalEntry) @@ (h :> globalEntry)

MCOrders == [a \in Atom |-> IF a = n THEN {"seq_cst"} ELSE {"seq_cst", "release"}]
MCKinds == [a \in Atom |-> IF a = n THEN {"all"} ELSE {"one", "all"}]
=============================================================================
