---------------------------- MODULE FutureState ----------------------------
(***************************************************************************)
(* The state that a future shares with its promise, its deferred function  *)
(* or its asynchronous thread (libcxx/src/future.cpp, libcxx/include/      *)
(* future).  Waiters have a shared_future each.  Providers may all set the *)
(* promise, which belongs to one of them; in the asynchronous case that    *)
(* one is the thread that executes the function, and it has no reference.  *)
(*                                                                         *)
(* A section under the mutex is one action.  notify_all is called under    *)
(* the mutex and belongs to it.                                            *)
(***************************************************************************)
EXTENDS Integers, FiniteSets

CONSTANTS Waiter, Provider,
          owner   \* the provider that has the promise, or executes

VARIABLES kind,      \* "promise", "deferred" or "async"
          constructed, ready, deferred,  \* bits of __state_
          exception, \* "none", "thrown" or "broken_promise"
          owners,    \* __shared_owners_: -1 is none
          freed,     \* whether the state was deleted
          pc,        \* pc[t]
          op,        \* op[t]: "wait", "for", "get" or "zero", what a waiter waits in
          at_exit,   \* the providers that make the state ready when they exit
          satisfied, \* history: values and exceptions that were stored
          got        \* history: got[w], what get last returned, or "none"

bits == <<constructed, ready, deferred, exception>>
vars == <<kind, bits, owners, freed, pc, op, at_exit, satisfied, got>>

AllThreads == Waiter \cup Provider

Init == /\ kind \in {"promise", "deferred", "async"}
        /\ constructed = FALSE /\ ready = FALSE /\ exception = "none"
        /\ deferred = (kind = "deferred")
        /\ owners = Cardinality(Waiter) - IF kind = "promise" THEN 0 ELSE 1
        /\ freed = FALSE
        /\ pc = [t \in AllThreads |-> IF kind = "async" /\ t = owner THEN "execute" ELSE "idle"]
        /\ op = [t \in Waiter |-> "none"]
        /\ at_exit = {} /\ satisfied = 0
        /\ got = [t \in Waiter |-> "none"]

has_value == constructed \/ exception # "none"
Result == IF exception # "none" THEN exception ELSE IF constructed THEN "value" ELSE "nothing"

\* t goes to l, and notify_all sends the sleepers to look again.
GotoAndNotify(t, l) ==
    pc' = [u \in AllThreads |-> IF u = t THEN l ELSE IF pc[u] = "sleep" THEN "look" ELSE pc[u]]
Goto(t, l) == pc' = [pc EXCEPT ![t] = l]

\* set_value and set_exception, here and at thread exit; a state that has a
\* value is left alone, and the caller gets promise_already_satisfied.
Store(r) == /\ constructed' = (r = "value")
            /\ exception' = IF r = "value" THEN "none" ELSE r
            /\ satisfied' = satisfied + 1

-----------------------------------------------------------------------------
PromiseIsAlive == kind = "promise" /\ pc[owner] = "idle"

Set(p, r) ==
    /\ PromiseIsAlive /\ pc[p] = "idle" /\ ~has_value
    /\ Store(r) /\ ready' = TRUE
    /\ GotoAndNotify(p, "idle")
    /\ UNCHANGED <<kind, deferred, owners, freed, op, at_exit, got>>

MaySetAtExitAgain == exception = "none"
MaySetAtExit == ~has_value

SetAtThreadExit(p, r) ==
    /\ PromiseIsAlive /\ pc[p] = "idle" /\ MaySetAtExit
    /\ Store(r)
    /\ at_exit' = at_exit \cup {p}
    /\ owners' = owners + 1
    /\ UNCHANGED <<kind, ready, deferred, freed, pc, op, got>>

\* ~promise looks without the mutex, breaks the promise and lets the state go.
MustBreakNever == FALSE
MustBreak == ~has_value /\ owners > 0

DestroyPromise ==
    /\ PromiseIsAlive
    /\ Goto(owner, IF MustBreak THEN "break" ELSE "release")
    /\ UNCHANGED <<kind, bits, owners, freed, op, at_exit, satisfied, got>>

BreakPromise ==
    /\ pc[owner] = "break"
    /\ Store("broken_promise") /\ ready' = TRUE
    /\ GotoAndNotify(owner, "release")
    /\ UNCHANGED <<kind, deferred, owners, freed, op, at_exit, got>>

\* A provider exits: ~__thread_struct_imp, or nothing to do.
ThreadExit(p) ==
    /\ kind = "promise"
    /\ pc[p] = IF p = owner THEN "done" ELSE "idle"
    /\ \/ p \in at_exit /\ ready' = TRUE /\ GotoAndNotify(p, "exit_release")
       \/ p \notin at_exit /\ Goto(p, "exited") /\ UNCHANGED ready
    /\ UNCHANGED <<kind, constructed, deferred, exception, owners, freed, op, at_exit, satisfied,
                   got>>

\* __release_shared of a provider; the asynchronous kind never comes here.
ProviderReleases(p) ==
    /\ pc[p] \in {"release", "exit_release"}
    /\ owners' = owners - 1
    /\ freed' = (freed \/ owners' = -1)
    /\ Goto(p, IF pc[p] = "release" THEN "done" ELSE "exited")
    /\ UNCHANGED <<kind, bits, op, at_exit, satisfied, got>>

-----------------------------------------------------------------------------
Call(w, o) ==
    /\ w \in Waiter /\ pc[w] = "idle"
    /\ op' = [op EXCEPT ![w] = o]
    /\ Goto(w, "look")
    /\ UNCHANGED <<kind, bits, owners, freed, at_exit, satisfied, got>>

\* What follows the wait: get reads, the last owner deletes, others return.
AfterWait(w) == CASE op[w] = "get" -> "read" [] op[w] = "zero" -> "delete" [] OTHER -> "idle"

\* __sub_wait and wait_until, from the top or after the condition variable.
DeferredKept == deferred
DeferredAfterClaim == FALSE

Look(w) ==
    /\ pc[w] = "look"
    /\ \/ ready /\ Goto(w, AfterWait(w)) /\ UNCHANGED deferred
       \/ ~ready /\ deferred /\ op[w] = "for" /\ Goto(w, "idle") /\ UNCHANGED deferred
       \/ ~ready /\ deferred /\ op[w] # "for" /\ deferred' = DeferredAfterClaim /\ Goto(w, "execute")
       \/ ~ready /\ ~deferred /\ Goto(w, "sleep") /\ UNCHANGED deferred
    /\ UNCHANGED <<kind, constructed, ready, exception, owners, freed, op, at_exit, satisfied, got>>

\* wait_until reaches its time, or any sleeper wakes for no reason.
TimesOut(w) == /\ pc[w] = "sleep"
               /\ \/ op[w] = "for" /\ Goto(w, "idle")
                  \/ Goto(w, "look")
               /\ UNCHANGED <<kind, bits, owners, freed, op, at_exit, satisfied, got>>

\* __execute: the function returns or throws, in the first waiter's thread
\* (deferred) or in its own (async).
Execute(t, r) ==
    /\ pc[t] = "execute"
    /\ Store(r) /\ ready' = TRUE
    /\ GotoAndNotify(t, IF t \in Waiter THEN AfterWait(t) ELSE "exited")
    /\ UNCHANGED <<kind, deferred, owners, freed, op, at_exit, got>>

Read(w) == /\ pc[w] = "read"
           /\ got' = [got EXCEPT ![w] = Result]
           /\ Goto(w, "idle")
           /\ UNCHANGED <<kind, bits, owners, freed, op, at_exit, satisfied>>

\* ~shared_future; the last one waits for an asynchronous function.
ZeroWaitsNever == FALSE
ZeroWaits == kind = "async"

WaiterReleases(w) ==
    /\ w \in Waiter /\ pc[w] = "idle"
    /\ owners' = owners - 1
    /\ op' = [op EXCEPT ![w] = "zero"]
    /\ Goto(w, IF owners' # -1 THEN "exited" ELSE IF ZeroWaits THEN "look" ELSE "delete")
    /\ UNCHANGED <<kind, bits, freed, at_exit, satisfied, got>>

Delete(w) == /\ pc[w] = "delete"
             /\ freed' = TRUE
             /\ Goto(w, "exited")
             /\ UNCHANGED <<kind, bits, owners, op, at_exit, satisfied, got>>

\* What goes on by itself: calls proceed, the function ends, the promise goes
\* out of scope and its threads exit.
Step(t) == \/ t = owner /\ (DestroyPromise \/ BreakPromise)
           \/ t \in Provider /\ (ThreadExit(t) \/ ProviderReleases(t))
           \/ \E r \in {"value", "thrown"} : Execute(t, r)
           \/ t \in Waiter /\ (Look(t) \/ Read(t) \/ Delete(t))

Next == \E t \in AllThreads :
    \/ Step(t)
    \/ t \in Provider /\ \E r \in {"value", "thrown"} : Set(t, r) \/ SetAtThreadExit(t, r)
    \/ t \in Waiter /\ (TimesOut(t) \/ WaiterReleases(t))
    \/ \E o \in {"wait", "for", "get"} : Call(t, o)

Spec == Init /\ [][Next]_vars

-----------------------------------------------------------------------------
TypeOK == /\ {constructed, ready, deferred, freed} \subseteq BOOLEAN
          /\ exception \in {"none", "thrown", "broken_promise"}
          /\ kind \in {"promise", "deferred", "async"}
          /\ owners \in Int /\ satisfied \in Nat
          /\ op \in [Waiter -> {"none", "wait", "for", "get", "zero"}]
          /\ pc \in [AllThreads -> {"idle", "look", "sleep", "execute", "read", "delete",
                                "break", "release", "done", "exit_release", "exited"}]
          /\ at_exit \subseteq Provider
          /\ got \in [Waiter -> {"none", "value", "thrown", "broken_promise"}]

\* Who refers to the state: futures until they let go, providers that still have
\* to make it ready when they exit, and the promise.
Futures == {w \in Waiter : op[w] # "zero"}
Exiting == {p \in at_exit : pc[p] # "exited"}
PromiseRefers == kind = "promise" /\ pc[owner] \in {"idle", "break", "release"}

\* The count is that of the references.  When there are none the state is
\* deleted, or the last future is on its way to do it.
OwnersAreExact ==
    /\ owners = Cardinality(Futures) + Cardinality(Exiting) - IF PromiseRefers THEN 0 ELSE 1
    /\ IF owners = -1
       THEN \/ freed /\ (kind = "async" => ready) /\ \A w \in Waiter : pc[w] = "exited"
            \/ ~freed /\ \E w \in Waiter : /\ pc[w] # "exited"
                                           /\ \A v \in Waiter \ {w} : pc[v] = "exited"
       ELSE ~freed /\ \A w \in Waiter : op[w] = "zero" => pc[w] = "exited"

\* What a thread's place says of its call and of the state.
WaiterIsSound(w) ==
    /\ pc[w] \in {"idle", "look", "sleep", "execute", "read", "delete", "exited"}
    /\ pc[w] \in {"look", "sleep"} => op[w] # "none"
    /\ pc[w] \in {"delete", "exited"} => op[w] = "zero"
    /\ op[w] = "zero" => \/ pc[w] = "exited"
                         \/ pc[w] \in {"look", "sleep"} /\ kind = "async"
                         \/ pc[w] = "delete" /\ (kind = "async" => ready)
    /\ pc[w] = "execute" => kind = "deferred" /\ op[w] \in {"wait", "get"}
    /\ pc[w] = "read" => has_value

ProviderIsSound(p) ==
    /\ \/ pc[p] \in {"idle", "exit_release", "exited"}
       \/ p = owner /\ pc[p] \in {"execute", "break", "release", "done"}
    /\ pc[p] = "exit_release" => p \in at_exit
    /\ kind = "promise" => pc[p] # "execute"
    /\ kind = "deferred" => pc[p] = "idle"
    /\ kind = "async" => pc[p] = IF p # owner THEN "idle" ELSE IF ready THEN "exited" ELSE "execute"

\* One thread at most executes the function, and it, or the ~promise that found
\* no result, is the one to store it.
OneDecides ==
    /\ at_exit # {} => kind = "promise" /\ has_value
    /\ deferred => kind = "deferred" /\ ~has_value
    /\ \A t \in AllThreads : pc[t] \in {"execute", "break"} => ~has_value /\ ~deferred
    /\ \A t, u \in AllThreads : pc[t] = "execute" /\ pc[u] = "execute" => t = u

CallsAreSound == /\ \A w \in Waiter : WaiterIsSound(w)
                 /\ \A p \in Provider : ProviderIsSound(p)
                 /\ OneDecides

\* A result is stored once: by one of the providers, by the one execution of
\* the function, or by ~promise, and only then is the state ready.
SatisfiedOnce == /\ satisfied = IF has_value THEN 1 ELSE 0
                 /\ ready => satisfied = 1

\* get returns the result and never a value that was not constructed.
GotResult == \A w \in Waiter : got[w] \in {"none", Result} \ {"nothing"}

\* There is one result, and whoever gets one gets that.
OneResult == SatisfiedOnce /\ GotResult

\* The state is deleted when nobody refers to it any more: not under a thread
\* that is in a call, and not under the function that runs asynchronously.
StateOutlivesUse ==
    /\ freed => \A t \in AllThreads :
           pc[t] = "exited" \/ (t \in Provider /\ pc[t] \in {"idle", "done"} /\ t \notin at_exit
                                /\ ~PromiseIsAlive)
    /\ owners = -1 /\ (\A t \in AllThreads : pc[t] = "exited") => freed

\* Whoever waits returns: the promise is kept or broken, or its thread exits.
WaiterReturns == \A w \in Waiter : pc[w] \in {"look", "sleep"} ~> pc[w] \notin {"look", "sleep"}
=============================================================================
