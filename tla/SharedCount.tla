---------------------------- MODULE SharedCount ----------------------------
(***************************************************************************)
(* The control block of shared_ptr and weak_ptr (libcxx/src/memory.cpp,    *)
(* libcxx/include/__memory/shared_count.h).  Both counts start at 0 for    *)
(* one owner and are -1 for none; all shared owners together are one weak  *)
(* owner.  Every atomic access is one action.                              *)
(*                                                                         *)
(* A thread keeps at most one pointer of each kind; copies go to a thread  *)
(* that has none and is in no call of its own.                             *)
(***************************************************************************)
EXTENDS Integers, FiniteSets

CONSTANTS Thread,
          owner   \* the thread that made the object

VARIABLES shared_owners, weak_owners,
          disposed,  \* the times the object was destroyed
          freed,     \* the times the block was freed
          shared,    \* the threads that have a shared_ptr
          weak,      \* the threads that have a weak_ptr
          pc,        \* pc[t]
          object_owners  \* object_owners[t]: the local variable of lock

counts == <<shared_owners, weak_owners>>
vars == <<counts, disposed, freed, shared, weak, pc, object_owners>>

Init == /\ shared_owners = 0 /\ weak_owners = 0
        /\ disposed = 0 /\ freed = 0
        /\ shared = {owner} /\ weak = {}
        /\ pc = [t \in Thread |-> "idle"]
        /\ object_owners = [t \in Thread |-> 0]

Goto(t, l) == pc' = [pc EXCEPT ![t] = l]

-----------------------------------------------------------------------------
\* t copies its pointer for u.
AddShared(t, u) ==
    /\ pc[t] = "idle" /\ pc[u] = "idle" /\ t \in shared /\ u \notin shared
    /\ shared_owners' = shared_owners + 1
    /\ shared' = shared \cup {u}
    /\ UNCHANGED <<weak_owners, disposed, freed, weak, pc, object_owners>>

AddWeak(t, u) ==
    /\ pc[t] = "idle" /\ pc[u] = "idle" /\ t \in shared \cup weak /\ u \notin weak
    /\ weak_owners' = weak_owners + 1
    /\ weak' = weak \cup {u}
    /\ UNCHANGED <<shared_owners, disposed, freed, shared, pc, object_owners>>

ReleaseShared(t) ==
    /\ pc[t] = "idle" /\ t \in shared
    /\ shared' = shared \ {t}
    /\ shared_owners' = shared_owners - 1
    /\ Goto(t, IF shared_owners' = -1 THEN "on_zero_shared" ELSE "idle")
    /\ UNCHANGED <<weak_owners, disposed, freed, weak, object_owners>>

AfterDisposeNothing == "idle"
AfterDispose == "release_weak"

OnZeroShared(t) ==
    /\ pc[t] = "on_zero_shared"
    /\ disposed' = disposed + 1
    /\ Goto(t, AfterDispose)
    /\ UNCHANGED <<counts, freed, shared, weak, object_owners>>

CallReleaseWeak(t) ==
    /\ pc[t] = "idle" /\ t \in weak
    /\ weak' = weak \ {t}
    /\ Goto(t, "release_weak")
    /\ UNCHANGED <<counts, disposed, freed, shared, object_owners>>

\* __release_weak: a look first, which spares the last one the decrement.
SeesOneOther == weak_owners <= 1
SeesLast == weak_owners = 0

ReleaseWeakLoad(t) ==
    /\ pc[t] = "release_weak"
    /\ Goto(t, IF SeesLast THEN "on_zero_shared_weak" ELSE "decrement")
    /\ UNCHANGED <<counts, disposed, freed, shared, weak, object_owners>>

ReleaseWeakDecrement(t) ==
    /\ pc[t] = "decrement"
    /\ weak_owners' = weak_owners - 1
    /\ Goto(t, IF weak_owners' = -1 THEN "on_zero_shared_weak" ELSE "idle")
    /\ UNCHANGED <<shared_owners, disposed, freed, shared, weak, object_owners>>

OnZeroSharedWeak(t) ==
    /\ pc[t] = "on_zero_shared_weak"
    /\ freed' = freed + 1
    /\ Goto(t, "idle")
    /\ UNCHANGED <<counts, disposed, shared, weak, object_owners>>

-----------------------------------------------------------------------------
\* weak_ptr::lock: t has a weak_ptr throughout.
LockLoad(t) ==
    /\ pc[t] = "idle" /\ t \in weak /\ t \notin shared
    /\ object_owners' = [object_owners EXCEPT ![t] = shared_owners]
    /\ Goto(t, "lock")
    /\ UNCHANGED <<counts, disposed, freed, shared, weak>>

SwapsBlindly(t) == TRUE
Swaps(t) == shared_owners = object_owners[t]

\* The loop returns no pointer, a pointer, or looks again.
Lock(t) ==
    /\ pc[t] = "lock"
    /\ \/ /\ object_owners[t] = -1
          /\ Goto(t, "idle")
          /\ object_owners' = [object_owners EXCEPT ![t] = 0]
          /\ UNCHANGED <<shared_owners, shared>>
       \/ /\ object_owners[t] # -1 /\ Swaps(t)
          /\ shared_owners' = object_owners[t] + 1
          /\ shared' = shared \cup {t}
          /\ Goto(t, "idle")
          /\ object_owners' = [object_owners EXCEPT ![t] = 0]
       \/ /\ object_owners[t] # -1 /\ ~Swaps(t)
          /\ object_owners' = [object_owners EXCEPT ![t] = shared_owners]
          /\ UNCHANGED <<shared_owners, shared, pc>>
    /\ UNCHANGED <<weak_owners, disposed, freed, weak>>

Step(t) == \/ ReleaseShared(t) \/ OnZeroShared(t)
           \/ CallReleaseWeak(t) \/ ReleaseWeakLoad(t) \/ ReleaseWeakDecrement(t) \/ OnZeroSharedWeak(t)
           \/ LockLoad(t) \/ Lock(t)

Next == \E t \in Thread : Step(t) \/ \E u \in Thread : AddShared(t, u) \/ AddWeak(t, u)

Spec == Init /\ [][Next]_vars

-----------------------------------------------------------------------------
TypeOK == /\ shared_owners \in Int /\ weak_owners \in Int
          /\ shared \subseteq Thread /\ weak \subseteq Thread
          /\ disposed \in Nat /\ freed \in Nat
          /\ object_owners \in [Thread -> Int]
          /\ pc \in [Thread -> {"idle", "on_zero_shared", "release_weak", "decrement",
                                "on_zero_shared_weak", "lock"}]

At(l) == {t \in Thread : pc[t] = l}

\* The threads that have let a pointer go but not yet its weak count.
Releasing == At("on_zero_shared") \cup At("release_weak") \cup At("decrement")

\* The counts are those of the pointers and of the threads on the way, until
\* the last one has found that it is the last.  The first to let the last
\* shared_ptr go destroys the object, the last of all frees the block.
CountsAreExact ==
    /\ shared_owners = Cardinality(shared) - 1
    /\ IF shared = {} /\ weak = {} /\ Releasing = {}
       THEN \/ freed = 1 /\ At("on_zero_shared_weak") = {}
            \/ freed = 0 /\ \E t \in Thread : At("on_zero_shared_weak") = {t}
       ELSE /\ freed = 0 /\ At("on_zero_shared_weak") = {}
            /\ weak_owners = Cardinality(weak) + Cardinality(Releasing)
                                 - IF shared = {} THEN 1 ELSE 0
    /\ IF shared = {}
       THEN \/ disposed = 1 /\ At("on_zero_shared") = {}
            \/ disposed = 0 /\ \E t \in Thread : At("on_zero_shared") = {t}
       ELSE disposed = 0 /\ At("on_zero_shared") = {}
    /\ At("lock") \subseteq weak \ shared

\* The object is destroyed once, and never while somebody has a shared_ptr: a
\* lock that races the last release gets a living object or nothing.
ObjectDisposedOnce ==
    /\ disposed <= 1
    /\ shared # {} => disposed = 0 /\ \A t \in Thread : pc[t] # "on_zero_shared"

\* The block is freed once, when nobody has a pointer or is in an operation on
\* it: the look in __release_weak that finds no other owner is right.
BlockFreedOnce ==
    /\ freed <= 1
    /\ \A t \in Thread : pc[t] = "on_zero_shared_weak" \/ freed = 1 =>
           shared = {} /\ weak = {} /\ \A u \in Thread \ {t} : pc[u] = "idle"

\* When the last pointer is gone the object is destroyed and the block freed.
NothingLeaks ==
    shared = {} /\ weak = {} /\ (\A t \in Thread : pc[t] = "idle") => disposed = 1 /\ freed = 1

\* Object and block live as long as their pointers, and end once.
LifetimesEndOnce == ObjectDisposedOnce /\ BlockFreedOnce /\ NothingLeaks
=============================================================================
