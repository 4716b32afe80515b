----------------------------- MODULE Contention -----------------------------
(***************************************************************************)
(* The tables behind std::atomic::wait and notify, libcxx/src/atomic.cpp,  *)
(* and openkal's suspension primitive below them.  An entry counts the     *)
(* waiters of every atomic that hashes to it; an entry of the global table *)
(* also has a word to sleep on, for atomics that are not four bytes wide.  *)
(*                                                                         *)
(* This module has the state and what one step does to it; the modules     *)
(* that extend it say who takes which step when.                           *)
(***************************************************************************)
EXTENDS Naturals, FiniteSets

CONSTANTS
    Thread,  \* threads
    Entry,   \* entries of the two tables
    Awake    \* the word of a thread that is not in kal_task_wait

ASSUME ContentionAssumption == IsFiniteSet(Thread)

VARIABLES
    waiter_count,    \* waiter_count[e]: threads in __contention_wait
    platform_state,  \* platform_state[e]: changes at every notification
    asleep           \* asleep[t]: the word t sleeps on, or Awake

contentionVars == <<waiter_count, platform_state, asleep>>

ContentionInit ==
    /\ waiter_count = [e \in Entry |-> 0]
    /\ platform_state = [e \in Entry |-> 0]
    /\ asleep = [t \in Thread |-> Awake]

ContentionTypeOK(Word) ==
    /\ waiter_count \in [Entry -> Nat]
    /\ platform_state \in [Entry -> Nat]
    /\ asleep \in [Thread -> Word \cup {Awake}]

\* __contention_wait, around the platform's wait.
AddNoWaiter(e) == UNCHANGED waiter_count
AddWaiter(e) == waiter_count' = [waiter_count EXCEPT ![e] = @ + 1]
SubWaiter(e) == waiter_count' = [waiter_count EXCEPT ![e] = @ - 1]

\* __contention_notify: the platform is called only if somebody waits.
HasWaiters(e) == waiter_count[e] # 0

\* __atomic_notify_global_table: whoever monitors the entry sees a change.
Launder(e) == platform_state' = [platform_state EXCEPT ![e] = @ + 1]

\* kal_task_wait: sleep on the word if it still has the expected value.
kal_task_wait(t, word, current, expected) ==
    asleep' = [asleep EXCEPT ![t] = IF current = expected THEN word ELSE Awake]

\* kal_task_wake: one sleeper on the word, or all of them.
kal_task_wake(word, one) ==
    LET sleepers == {t \in Thread : asleep[t] = word}
    IN  \/ /\ one /\ sleepers # {}
           /\ \E t \in sleepers : asleep' = [asleep EXCEPT ![t] = Awake]
        \/ /\ ~one \/ sleepers = {}
           /\ asleep' = [t \in Thread |-> IF t \in sleepers THEN Awake ELSE asleep[t]]
=============================================================================
