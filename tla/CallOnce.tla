------------------------------ MODULE CallOnce ------------------------------
(***************************************************************************)
(* std::call_once (libcxx/src/call_once.cpp and the inline part in         *)
(* __mutex/once_flag.h).  All flags share one mutex and one condition      *)
(* variable.  A section under the mutex is one action; the broadcast comes *)
(* after it.  The function called does not itself call call_once.          *)
(*                                                                         *)
(* It makes the same promise as the guards of static locals: OnceInit.     *)
(***************************************************************************)
EXTENDS Naturals

CONSTANTS Thread, Flag,
          MaxThrows   \* bound: calls of the function that throw

VARIABLES flag,    \* flag[f]: "Unset", "Pending" or "Complete"
          pc,      \* pc[t]
          on,      \* on[t]: the flag of t's call; stale when t is idle
          throws,  \* calls that threw so far
          seen     \* history: seen[t], the flags for which a call of t returned

vars == <<flag, pc, on, throws, seen>>

Init == /\ flag = [f \in Flag |-> "Unset"]
        /\ pc = [t \in Thread |-> "idle"]
        /\ on = [t \in Thread |-> CHOOSE f \in Flag : TRUE]
        /\ throws = 0
        /\ seen = [t \in Thread |-> {}]

Goto(t, l) == pc' = [pc EXCEPT ![t] = l]
Set(t, v) == flag' = [flag EXCEPT ![on[t]] = v]
CallReturns(t, f) == Goto(t, "idle") /\ seen' = [seen EXCEPT ![t] = @ \cup {f}]

\* The inline part: one look without the mutex.
CallOnce(t, f) ==
    /\ pc[t] = "idle"
    /\ on' = [on EXCEPT ![t] = f]
    /\ IF flag[f] = "Complete" THEN CallReturns(t, f)
                               ELSE Goto(t, "enter") /\ UNCHANGED seen
    /\ UNCHANGED <<flag, throws>>

MustWaitNever(f) == FALSE
MustWait(f) == flag[f] = "Pending"

EnterWaits(t) == /\ pc[t] = "enter" /\ MustWait(on[t])
                 /\ Goto(t, "wait")
                 /\ UNCHANGED <<flag, on, throws, seen>>

EnterRuns(t) == /\ pc[t] = "enter" /\ flag[on[t]] = "Unset"
                /\ Set(t, "Pending")
                /\ Goto(t, "func")
                /\ UNCHANGED <<on, throws, seen>>

EnterReturns(t) == /\ pc[t] = "enter" /\ ~MustWait(on[t]) /\ flag[on[t]] # "Unset"
                   /\ CallReturns(t, on[t])
                   /\ UNCHANGED <<flag, on, throws>>

FuncReturns(t) == /\ pc[t] = "func"
                  /\ Set(t, "Complete")
                  /\ Goto(t, "broadcast")
                  /\ UNCHANGED <<on, throws, seen>>

\* The exception guard; the exception goes on to the caller.
AfterThrowSilent == "idle"
AfterThrow == "broadcast_throw"

FuncThrows(t) == /\ pc[t] = "func" /\ throws < MaxThrows
                 /\ throws' = throws + 1
                 /\ Set(t, "Unset")
                 /\ Goto(t, AfterThrow)
                 /\ UNCHANGED <<on, seen>>

\* Wakes the sleepers of every flag.
Broadcast(t) ==
    /\ pc[t] \in {"broadcast", "broadcast_throw"}
    /\ pc' = [u \in Thread |-> IF u = t THEN "idle" ELSE IF pc[u] = "wait" THEN "enter" ELSE pc[u]]
    /\ seen' = IF pc[t] = "broadcast" THEN [seen EXCEPT ![t] = @ \cup {on[t]}] ELSE seen
    /\ UNCHANGED <<flag, on, throws>>

Spurious(t) == pc[t] = "wait" /\ Goto(t, "enter") /\ UNCHANGED <<flag, on, throws, seen>>

\* What goes on by itself; the function returns or throws.
Step(t) == \/ EnterWaits(t) \/ EnterRuns(t) \/ EnterReturns(t)
           \/ FuncReturns(t) \/ FuncThrows(t) \/ Broadcast(t)

Next == \E t \in Thread : Step(t) \/ Spurious(t) \/ \E f \in Flag : CallOnce(t, f)

Spec == Init /\ [][Next]_vars

-----------------------------------------------------------------------------
TypeOK == /\ flag \in [Flag -> {"Unset", "Pending", "Complete"}]
          /\ pc \in [Thread -> {"idle", "enter", "wait", "func", "broadcast", "broadcast_throw"}]
          /\ on \in [Thread -> Flag]
          /\ throws \in 0..MaxThrows
          /\ seen \in [Thread -> SUBSET Flag]

Running(f) == {t \in Thread : pc[t] = "func" /\ on[t] = f}

\* A flag is pending exactly while one thread runs its function, and complete
\* when a call has returned or is about to.
FlagsAgree ==
    /\ \A f \in Flag : flag[f] = "Pending" <=> Running(f) # {}
    /\ \A t, u \in Thread : pc[t] = "func" /\ pc[u] = "func" /\ on[t] = on[u] => t = u
    /\ \A t \in Thread : pc[t] = "broadcast" => flag[on[t]] = "Complete"
    /\ \A t \in Thread : \A f \in seen[t] : flag[f] = "Complete"

\* A flag as OnceInit sees it.
Status(f) == IF flag[f] = "Unset" THEN "unset"
             ELSE IF flag[f] = "Complete" THEN "complete"
             ELSE CHOOSE t \in Running(f) : TRUE

Once == INSTANCE OnceInit WITH Guard <- Flag, status <- [f \in Flag |-> Status(f)]

\* call_once calls the function again only after it threw, never twice at a
\* time, and returns only once it has returned.
OnceSpec == Once!Spec

\* A call that sleeps on a flag that is no longer pending is about to be woken:
\* the one condition variable serves all flags, and the exception guard wakes
\* too.
NoStrandedOnceWaiter ==
    (\E t \in Thread : pc[t] = "wait" /\ flag[on[t]] # "Pending")
        => \E u \in Thread : pc[u] \in {"broadcast", "broadcast_throw"}

\* Every call of call_once ends, if the function does.
CallOnceReturns == \A t \in Thread : pc[t] # "idle" ~> pc[t] = "idle"
=============================================================================
