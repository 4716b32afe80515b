------------------------------ MODULE OnceInit ------------------------------
(***************************************************************************)
(* What __cxa_guard_acquire / release / abort promise to the code the      *)
(* compiler emits around a function-local static: at most one thread runs  *)
(* the initialiser at a time, an initialiser that throws leaves the        *)
(* variable uninitialised for the next comer, one that returns is never    *)
(* run again, and a thread is told "done" only once that has happened.     *)
(* Nothing is said about how threads wait; CxaGuard (global mutex) and     *)
(* CxaGuardFutex (futex) are both shown to implement this module.          *)
(***************************************************************************)
CONSTANTS Thread, Guard

VARIABLES status,  \* status[g]: "unset", "complete", or the initialising thread
          seen     \* seen[t]: the guards t has been told are complete

vars == <<status, seen>>

TypeOK == /\ status \in [Guard -> {"unset", "complete"} \cup Thread]
          /\ seen \in [Thread -> SUBSET Guard]

Init == /\ status = [g \in Guard |-> "unset"]
        /\ seen = [t \in Thread |-> {}]

Begin(t, g) == /\ status[g] = "unset"
               /\ status' = [status EXCEPT ![g] = t]
               /\ UNCHANGED seen

Finish(t, g) == /\ status[g] = t
                /\ status' = [status EXCEPT ![g] = "complete"]
                /\ UNCHANGED seen

Fail(t, g) == /\ status[g] = t
              /\ status' = [status EXCEPT ![g] = "unset"]
              /\ UNCHANGED seen

Observe(t, g) == /\ status[g] = "complete"
                 /\ seen' = [seen EXCEPT ![t] = @ \cup {g}]
                 /\ UNCHANGED status

Next == \E t \in Thread, g \in Guard :
            Begin(t, g) \/ Finish(t, g) \/ Fail(t, g) \/ Observe(t, g)

Spec == Init /\ [][Next]_vars
=============================================================================
