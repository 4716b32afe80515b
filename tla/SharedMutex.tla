---------------------------- MODULE SharedMutex ----------------------------
(***************************************************************************)
(* std::shared_mutex and std::shared_timed_mutex (libcxx/src/              *)
(* shared_mutex.cpp, libcxx/include/shared_mutex): one word, one mutex     *)
(* and two condition variables.  A writer first enters (gate 1), which     *)
(* keeps newcomers out, and then waits until the readers have left         *)
(* (gate 2).                                                               *)
(*                                                                         *)
(* A section under the mutex is one action: a thread that waits gives the  *)
(* mutex up in the same step.  Notifications that come after the mutex is  *)
(* released are actions of their own.                                      *)
(***************************************************************************)
EXTENDS Naturals, FiniteSets

CONSTANTS Thread,
          n_readers   \* the most readers that the word can count

VARIABLES write_entered,  \* the top bit of the word
          readers,        \* the rest of the word
          timed,          \* the threads whose last call had a time limit
          pc              \* pc[t]; "wait1", "waitS" sleep at gate 1, "wait2" at gate 2

vars == <<write_entered, readers, timed, pc>>

AtGate1 == {"wait1", "waitS"}
Asleep == AtGate1 \cup {"wait2"}

Init == /\ write_entered = FALSE /\ readers = 0 /\ timed = {}
        /\ pc = [t \in Thread |-> "idle"]

Goto(t, l) == pc' = [pc EXCEPT ![t] = l]

\* Where a sleeper goes on when it is woken.
Woken(l) == CASE l = "wait1" -> "lock" [] l = "wait2" -> "drain" [] l = "waitS" -> "lock_shared"

-----------------------------------------------------------------------------
\* lock: the loop at gate 1, and in the same section the first test at gate 2.
CallLock(t) == pc[t] = "idle" /\ Goto(t, "lock") /\ UNCHANGED <<write_entered, readers>>

LockWaits(t) == /\ pc[t] = "lock" /\ write_entered
                /\ Goto(t, "wait1")
                /\ UNCHANGED <<write_entered, readers, timed>>

LockEnters(t) == /\ pc[t] = "lock" /\ ~write_entered
                 /\ write_entered' = TRUE
                 /\ Goto(t, IF readers = 0 THEN "owns" ELSE "wait2")
                 /\ UNCHANGED <<readers, timed>>

LockDrains(t) == /\ pc[t] = "drain"
                 /\ Goto(t, IF readers = 0 THEN "owns" ELSE "wait2")
                 /\ UNCHANGED <<write_entered, readers, timed>>

try_lock(t) == /\ pc[t] = "idle" /\ ~write_entered /\ readers = 0
               /\ write_entered' = TRUE
               /\ Goto(t, "owns")
               /\ UNCHANGED <<readers, timed>>

NotifiesOneAfterUnlock == "notify1_one"
NotifiesAfterUnlock == "notify1_all"

unlock(t) == /\ pc[t] = "owns"
             /\ write_entered' = FALSE /\ readers' = 0
             /\ Goto(t, NotifiesAfterUnlock)
             /\ UNCHANGED timed

-----------------------------------------------------------------------------
CallLockShared(t) == pc[t] = "idle" /\ Goto(t, "lock_shared") /\ UNCHANGED <<write_entered, readers>>

\* lock or try_lock_until, lock_shared or try_lock_shared_until.
Call(t) == /\ CallLock(t) \/ CallLockShared(t)
           /\ timed' \in {timed \cup {t}, timed \ {t}}

\* The condition at gate 1 for a reader.
SharedMayEnterPastWriter == readers # n_readers
SharedMayEnter == ~write_entered /\ readers # n_readers

LockSharedWaits(t) == /\ pc[t] = "lock_shared" /\ ~SharedMayEnter
                      /\ Goto(t, "waitS")
                      /\ UNCHANGED <<write_entered, readers, timed>>

\* lock_shared from its loop, try_lock_shared at once.
LockSharedEnters(t) == /\ pc[t] \in {"lock_shared", "idle"} /\ SharedMayEnter
                       /\ readers' = readers + 1
                       /\ Goto(t, "shares")
                       /\ UNCHANGED <<write_entered, timed>>

\* Whom a reader that leaves n others behind has to wake.
NotifiesFirstOnly(n) == IF write_entered THEN "idle"
                        ELSE IF n = n_readers - 1 THEN "notify1_one" ELSE "idle"
NotifiesAfterUnlockShared(n) ==
    IF write_entered
    THEN IF n = 0 THEN "notify2_one" ELSE "idle"
    ELSE IF n = n_readers - 1 THEN "notify1_one" ELSE "idle"

unlock_shared(t) == /\ pc[t] = "shares"
                    /\ readers' = readers - 1
                    /\ Goto(t, NotifiesAfterUnlockShared(readers - 1))
                    /\ UNCHANGED <<write_entered, timed>>

-----------------------------------------------------------------------------
\* notify_all wakes every sleeper of the gate, notify_one one of them.
PcAfterNotifyAll(t) ==
    [u \in Thread |-> IF u = t THEN "idle" ELSE IF pc[u] \in AtGate1 THEN Woken(pc[u]) ELSE pc[u]]

NotifyAll(t) == /\ pc[t] = "notify1_all"
                /\ pc' = PcAfterNotifyAll(t)
                /\ UNCHANGED <<write_entered, readers, timed>>

NotifyOne(t) ==
    /\ pc[t] \in {"notify1_one", "notify2_one"}
    /\ LET Sleepers == {u \in Thread : pc[u] \in IF pc[t] = "notify1_one" THEN AtGate1
                                                 ELSE {"wait2"}}
       IN  \/ Sleepers = {} /\ Goto(t, "idle")
           \/ \E u \in Sleepers : pc' = [pc EXCEPT ![t] = "idle", ![u] = Woken(@)]
    /\ UNCHANGED <<write_entered, readers, timed>>

\* A condition variable may wake a sleeper that nobody notified.
Spurious(t) == /\ pc[t] \in Asleep
               /\ Goto(t, Woken(pc[t]))
               /\ UNCHANGED <<write_entered, readers, timed>>

\* A time limit ends the sleep, the gate is tried once more, and the call gives
\* up: a writer behind gate 1 takes back its mark and wakes those before it.
GivesUpSilently(t) == [pc EXCEPT ![t] = "idle"]
PcAfterGivingUp(t) == PcAfterNotifyAll(t)

TimesOut(t) ==
    /\ t \in timed
    /\ \/ /\ \/ pc[t] = "wait1" /\ write_entered
             \/ pc[t] = "waitS" /\ ~SharedMayEnter
          /\ Goto(t, "idle")
          /\ UNCHANGED write_entered
       \/ /\ pc[t] = "wait2" /\ readers # 0
          /\ write_entered' = FALSE
          /\ pc' = PcAfterGivingUp(t)
    /\ UNCHANGED <<readers, timed>>

\* What goes on by itself: a thread in a call runs, and one that holds the lock
\* releases it.
Step(t) == \/ LockWaits(t) \/ LockEnters(t) \/ LockDrains(t) \/ unlock(t)
           \/ LockSharedWaits(t) \/ (pc[t] # "idle" /\ LockSharedEnters(t)) \/ unlock_shared(t)
           \/ NotifyAll(t) \/ NotifyOne(t)

Next == \E t \in Thread :
    \/ Step(t)
    \/ Call(t) \/ try_lock(t) \/ (pc[t] = "idle" /\ LockSharedEnters(t))
    \/ Spurious(t) \/ TimesOut(t)

Spec == Init /\ [][Next]_vars

-----------------------------------------------------------------------------
Places == {"idle", "lock", "wait1", "drain", "wait2", "owns", "lock_shared", "waitS", "shares",
           "notify1_all", "notify1_one", "notify2_one"}

TypeOK == /\ write_entered \in BOOLEAN /\ readers \in 0..n_readers
          /\ timed \subseteq Thread /\ pc \in [Thread -> Places]

In(places) == {t \in Thread : pc[t] \in places}

\* A writer owns the mutex alone, and the word counts the readers: what a
\* reader leaves behind is what unlock_shared computes from the word.
SharedExclusion ==
    /\ Cardinality(In({"owns", "drain", "wait2"})) = IF write_entered THEN 1 ELSE 0
    /\ readers = Cardinality(In({"shares"}))
    /\ In({"owns"}) # {} => In({"shares"}) = {}

\* Nobody sleeps at a gate that is open: whoever opened it is still about to
\* notify, everybody at gate 1 unless there is only one.
NoSleeperAtOpenGate ==
    /\ In({"wait2"}) # {} /\ readers = 0 => In({"notify2_one"}) # {}
    /\ In(AtGate1) # {} /\ ~write_entered /\ readers # n_readers =>
           \/ In({"notify1_all"}) # {}
           \/ Cardinality(In(AtGate1)) = 1 /\ In({"notify1_one"}) # {}

\* A writer that has entered and waits without limit gets the mutex, however
\* many readers keep coming.  There is one such writer at a time.
EnteredWriterOwns == In({"wait2", "drain"}) \ timed # {} ~> In({"owns"}) # {}

\* A sleeper at gate 1 is woken.
Gate1Wakes == \A t \in Thread : pc[t] \in AtGate1 ~> pc[t] \notin AtGate1
=============================================================================
