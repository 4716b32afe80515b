------------------------------ MODULE CxaGuard ------------------------------
(***************************************************************************)
(* Thread-safe initialisation of function-local statics:                   *)
(* llvm/libcxxabi/src/cxa_guard.cpp over cxa_guard_impl.h, in the build's  *)
(* configuration, GuardObject<InitByteGlobalMutex> (mcpp.toml does not     *)
(* define _LIBCXXABI_USE_FUTEX).                                           *)
(*                                                                         *)
(* The init byte and the thread id are only touched with global_mutex      *)
(* held, so each critical section is one step.  cond.wait releases the     *)
(* mutex atomically with going to sleep: the step that finds the guard     *)
(* pending sets WAITING_BIT and sleeps.  The guard byte is an atomic that  *)
(* is read and written without the mutex, in steps of its own.             *)
(***************************************************************************)
EXTENDS Naturals, Sequences

CONSTANTS
    Thread,       \* threads of the program
    Guard,        \* guard variables, one per function-local static
    Uses,         \* Uses[g]: the statics that the initialiser of g may use
    HasThreadId,  \* has_thread_id_support: Itanium guard and a platform thread id
    Descriptor,   \* Descriptor[t]: the address of t's thread descriptor
    IdRange,      \* 2^width of the thread id kept in the guard
    MaxThrows,    \* bound: how many initialisers exit by an exception
    NoThread,     \* not a thread
    NoGuard       \* not a guard

ASSUME CxaGuardAssumption ==
    /\ Uses \in [Guard -> SUBSET Guard]
    /\ HasThreadId \in BOOLEAN
    /\ Descriptor \in [Thread -> Nat]
    /\ IdRange \in Nat \ {0}
    /\ MaxThrows \in Nat
    /\ NoThread \notin Thread
    /\ NoGuard \notin Guard

VARIABLES
    guard_byte,   \* guard_byte[g]: the bits of the byte inline code tests
    init_byte,    \* init_byte[g]: the bits of the byte under global_mutex
    thread_id,    \* thread_id[g]: the id recorded by the initialising thread
    pc,           \* pc[t]: where t is
    at,           \* at[t]: the guard t is acquiring, or NoGuard
    stack,        \* stack[t]: the statics whose initialisers t is inside of
    has_waiting,  \* has_waiting[t]: the local variable of release() / abort()
    constructed,  \* constructed[g]: how often an initialiser of g returned
    seen,         \* seen[t]: guards for which t was told INIT_IS_DONE
    throws,       \* initialisers that have thrown so far
    aborted       \* the thread that ended the process, or NoThread

vars == <<guard_byte, init_byte, thread_id, pc, at, stack, has_waiting,
          constructed, seen, throws, aborted>>

UNSET == {}
COMPLETE_BIT == {"complete"}
PENDING_BIT == {"pending"}
WAITING_BIT == {"waiting"}

(***************************************************************************)
(* PlatformThreadID: the descriptor's address cast to 32 bits.             *)
(***************************************************************************)
ThreadId(t) == Descriptor[t] % IdRange

\* *init_byte_address & PENDING_BIT
PendingByEquality(g) == init_byte[g] = PENDING_BIT
Pending(g) == PENDING_BIT \subseteq init_byte[g]

\* *init_byte_address == COMPLETE_BIT
NeverComplete(g) == FALSE
IsComplete(g) == init_byte[g] = COMPLETE_BIT

\* *init_byte_address |= WAITING_BIT
AssignWaiting(bits) == WAITING_BIT
ForgetWaiting(bits) == bits
OrWaiting(bits) == bits \cup WAITING_BIT

\* The initialiser the thread is executing right now.
Innermost(t) == stack[t][Len(stack[t])]
Push(t) == stack' = [stack EXCEPT ![t] = Append(@, at[t])]
Pop(t) == stack' = [stack EXCEPT ![t] = SubSeq(@, 1, Len(@) - 1)]

\* The statics t may use next: any at top level, else those its initialiser uses.
Usable(t) == IF stack[t] = <<>> THEN Guard ELSE Uses[Innermost(t)]

Init ==
    /\ guard_byte = [g \in Guard |-> UNSET]
    /\ init_byte = [g \in Guard |-> UNSET]
    /\ thread_id = [g \in Guard |-> 0]
    /\ pc = [t \in Thread |-> "run"]
    /\ at = [t \in Thread |-> NoGuard]
    /\ stack = [t \in Thread |-> <<>>]
    /\ has_waiting = [t \in Thread |-> FALSE]
    /\ constructed = [g \in Guard |-> 0]
    /\ seen = [t \in Thread |-> {}]
    /\ throws = 0
    /\ aborted = NoThread

-----------------------------------------------------------------------------
(***************************************************************************)
(* __cxa_guard_acquire                                                     *)
(***************************************************************************)

\* acquire returns INIT_IS_DONE for guard g.
ReturnDone(t, g) ==
    /\ pc' = [pc EXCEPT ![t] = "run"]
    /\ at' = [at EXCEPT ![t] = NoGuard]
    /\ seen' = [seen EXCEPT ![t] = @ \cup {g}]

\* GuardByte::acquire finds the byte set: done, without the mutex.
GuardByteDone(t, g) ==
    /\ pc[t] = "run"
    /\ g \in Usable(t)
    /\ guard_byte[g] # UNSET
    /\ ReturnDone(t, g)
    /\ UNCHANGED <<guard_byte, init_byte, thread_id, stack, has_waiting,
                   constructed, throws, aborted>>

\* GuardByte::acquire finds it unset: on to InitByteGlobalMutex::acquire.
GuardByteUnset(t, g) ==
    /\ pc[t] = "run"
    /\ g \in Usable(t)
    /\ guard_byte[g] = UNSET
    /\ pc' = [pc EXCEPT ![t] = "init_acquire"]
    /\ at' = [at EXCEPT ![t] = g]
    /\ UNCHANGED <<guard_byte, init_byte, thread_id, stack, has_waiting,
                   constructed, seen, throws, aborted>>

\* The check made once, on entry, before the wait loop.
RecursionByPendingAlone(t) == HasThreadId /\ Pending(at[t])
RecursionByEquality(t) ==
    HasThreadId /\ PendingByEquality(at[t]) /\ thread_id[at[t]] = ThreadId(t)
RecursionDetected(t) ==
    HasThreadId /\ Pending(at[t]) /\ thread_id[at[t]] = ThreadId(t)

\* ABORT_WITH_MESSAGE("... detected recursive initialization ...").
AbortRecursive(t) ==
    /\ pc[t] = "init_acquire"
    /\ RecursionDetected(t)
    /\ aborted' = t
    /\ UNCHANGED <<guard_byte, init_byte, thread_id, pc, at, stack,
                   has_waiting, constructed, seen, throws>>

\* The head of the wait loop is reached on entry and after each cond.wait.
InWaitLoop(t) == \/ pc[t] = "init_acquire" /\ ~RecursionDetected(t)
                 \/ pc[t] = "woken"

\* *init_byte_address |= WAITING_BIT; global_cond.wait(global_mutex)
WaitPending(t) ==
    /\ InWaitLoop(t)
    /\ Pending(at[t])
    /\ init_byte' = [init_byte EXCEPT ![at[t]] = OrWaiting(@)]
    /\ pc' = [pc EXCEPT ![t] = "waiting"]
    /\ UNCHANGED <<guard_byte, thread_id, at, stack, has_waiting,
                   constructed, seen, throws, aborted>>

\* The loop is over and the init byte says the work is done.
AcquireDone(t) ==
    /\ InWaitLoop(t)
    /\ ~Pending(at[t])
    /\ IsComplete(at[t])
    /\ ReturnDone(t, at[t])
    /\ UNCHANGED <<guard_byte, init_byte, thread_id, stack, has_waiting,
                   constructed, throws, aborted>>

\* The loop is over and nobody did the work: INIT_IS_PENDING, t starts on it.
AcquirePending(t) ==
    /\ InWaitLoop(t)
    /\ ~Pending(at[t])
    /\ ~IsComplete(at[t])
    /\ thread_id' = [thread_id EXCEPT ![at[t]] =
                        IF HasThreadId THEN ThreadId(t) ELSE @]
    /\ init_byte' = [init_byte EXCEPT ![at[t]] = PENDING_BIT]
    /\ Push(t)
    /\ pc' = [pc EXCEPT ![t] = "run"]
    /\ at' = [at EXCEPT ![t] = NoGuard]
    /\ UNCHANGED <<guard_byte, has_waiting, constructed, seen, throws,
                   aborted>>

\* A condition variable may return from wait without a broadcast.
SpuriousWakeup(t) ==
    /\ pc[t] = "waiting"
    /\ pc' = [pc EXCEPT ![t] = "woken"]
    /\ UNCHANGED <<guard_byte, init_byte, thread_id, at, stack, has_waiting,
                   constructed, seen, throws, aborted>>

-----------------------------------------------------------------------------
(***************************************************************************)
(* __cxa_guard_release: the initialiser returned.                          *)
(***************************************************************************)

\* The initialiser's last effect, then GuardByte::release.
GuardByteRelease(t) ==
    /\ pc[t] = "run"
    /\ stack[t] # <<>>
    /\ constructed' = [constructed EXCEPT ![Innermost(t)] = @ + 1]
    /\ guard_byte' = [guard_byte EXCEPT ![Innermost(t)] = COMPLETE_BIT]
    /\ pc' = [pc EXCEPT ![t] = "init_release"]
    /\ UNCHANGED <<init_byte, thread_id, at, stack, has_waiting, seen, throws,
                   aborted>>

\* The critical section of InitByteGlobalMutex::release.
InitByteRelease(t) ==
    /\ pc[t] = "init_release"
    /\ has_waiting' = [has_waiting EXCEPT ![t] =
                          WAITING_BIT \subseteq init_byte[Innermost(t)]]
    /\ init_byte' = [init_byte EXCEPT ![Innermost(t)] = COMPLETE_BIT]
    /\ Pop(t)
    /\ pc' = [pc EXCEPT ![t] = "unlocked"]
    /\ UNCHANGED <<guard_byte, thread_id, at, constructed, seen, throws,
                   aborted>>

(***************************************************************************)
(* __cxa_guard_abort: the initialiser threw.  GuardByte::abort does        *)
(* nothing; this is the critical section of InitByteGlobalMutex::abort.    *)
(***************************************************************************)
InitByteAbort(t) ==
    /\ pc[t] = "run"
    /\ stack[t] # <<>>
    /\ throws < MaxThrows
    /\ throws' = throws + 1
    /\ thread_id' = [thread_id EXCEPT ![Innermost(t)] =
                        IF HasThreadId THEN 0 ELSE @]
    /\ has_waiting' = [has_waiting EXCEPT ![t] =
                          WAITING_BIT \subseteq init_byte[Innermost(t)]]
    /\ init_byte' = [init_byte EXCEPT ![Innermost(t)] = UNSET]
    /\ Pop(t)
    /\ pc' = [pc EXCEPT ![t] = "unlocked"]
    /\ UNCHANGED <<guard_byte, at, constructed, seen, aborted>>

\* if (has_waiting) global_cond.broadcast(), after the mutex is released: the
\* condition variable is shared, so waiters for every guard wake up.
Broadcast(t) ==
    /\ pc[t] = "unlocked"
    /\ pc' = [u \in Thread |->
                 IF u = t THEN "run"
                 ELSE IF has_waiting[t] /\ pc[u] = "waiting" THEN "woken"
                 ELSE pc[u]]
    /\ has_waiting' = [has_waiting EXCEPT ![t] = FALSE]
    /\ UNCHANGED <<guard_byte, init_byte, thread_id, at, stack, constructed,
                   seen, throws, aborted>>

-----------------------------------------------------------------------------
\* Steps the library takes on its own once called.
LibraryStep(t) ==
    \/ AbortRecursive(t)
    \/ WaitPending(t)
    \/ AcquireDone(t)
    \/ AcquirePending(t)
    \/ InitByteRelease(t)
    \/ Broadcast(t)

\* The end of the initialiser t is inside of.
InitialiserEnds(t) == GuardByteRelease(t) \/ InitByteAbort(t)

Next == /\ aborted = NoThread
        /\ \E t \in Thread :
              \/ \E g \in Guard : GuardByteDone(t, g) \/ GuardByteUnset(t, g)
              \/ LibraryStep(t)
              \/ SpuriousWakeup(t)
              \/ InitialiserEnds(t)

Spec == Init /\ [][Next]_vars

(***************************************************************************)
(* Scheduling: a thread inside the library keeps running and gets the      *)
(* mutex when it asks for it, and an initialiser does not run for ever.    *)
(* Nothing is assumed of spurious wakeups or of new calls.                 *)
(***************************************************************************)
Fairness == \A t \in Thread : /\ WF_vars(aborted = NoThread /\ LibraryStep(t))
                              /\ WF_vars(aborted = NoThread /\ InitialiserEnds(t))

FairSpec == Spec /\ Fairness

-----------------------------------------------------------------------------
PCs == {"run", "init_acquire", "waiting", "woken", "init_release", "unlocked"}

\* Types of the guard object's fields and of the threads' locals.
TypeOK ==
    /\ guard_byte \in [Guard -> {UNSET, COMPLETE_BIT}]
    /\ init_byte \in [Guard -> {UNSET, COMPLETE_BIT, PENDING_BIT,
                                PENDING_BIT \cup WAITING_BIT}]
    /\ thread_id \in [Guard -> Nat]
    /\ pc \in [Thread -> PCs]
    /\ at \in [Thread -> Guard \cup {NoGuard}]
    /\ stack \in [Thread -> Seq(Guard)]
    /\ has_waiting \in [Thread -> BOOLEAN]
    /\ constructed \in [Guard -> Nat]
    /\ seen \in [Thread -> SUBSET Guard]
    /\ throws \in Nat
    /\ aborted \in Thread \cup {NoThread}

\* t is inside the initialiser of g: acquire told it INIT_IS_PENDING and
\* neither release nor abort has reset the guard yet.
Inside(t, g) == \E i \in 1 .. Len(stack[t]) : stack[t][i] = g

\* An initialiser is never entered while another activation of it, in any
\* thread or further out in the same one, has not ended: the point of
\* InitByteGlobalMutex::acquire's wait loop.
MutualExclusion ==
    \A t, u \in Thread :
        \A i \in 1 .. Len(stack[t]), j \in 1 .. Len(stack[u]) :
            stack[t][i] = stack[u][j] => t = u /\ i = j

\* A static is constructed at most once, and a thread that was told
\* INIT_IS_DONE, by either byte, finds it constructed.
ConstructedOnceBeforeUse ==
    /\ \A g \in Guard : constructed[g] <= 1
    /\ \A t \in Thread : \A g \in seen[t] : constructed[g] = 1

\* The process is ended for recursive initialisation only when the thread
\* really is inside the initialiser it is about to enter.
NoFalseRecursion ==
    aborted # NoThread => Inside(aborted, at[aborted])

\* With thread ids a thread never sleeps waiting for itself: recursion ends
\* the process instead of hanging it.
NoSelfWait ==
    HasThreadId => \A t \in Thread :
                      pc[t] = "waiting" => ~Inside(t, at[t])

(***************************************************************************)
(* The inductive invariant.  Both bytes and the threads' call stacks tell  *)
(* the same story, at every point between the store to the guard byte and  *)
(* the critical section that completes the init byte.                      *)
(***************************************************************************)

\* The program counter says what the call has in its hands.
CallsAreSound ==
    \A t \in Thread :
        /\ pc[t] \in {"init_acquire", "waiting", "woken"} => at[t] \in Guard
        /\ pc[t] = "init_release" => stack[t] # <<>>

\* A guard is pending exactly while some thread is inside its initialiser.
PendingMeansInside ==
    \A g \in Guard : Pending(g) <=> \E t \in Thread : Inside(t, g)

\* The guard byte runs ahead of the init byte only between the two halves of
\* cxa_guard_release, and only for the innermost initialiser.
GuardByteRunsAhead ==
    /\ \A g \in Guard :
          /\ guard_byte[g] # UNSET => IsComplete(g) \/ Pending(g)
          /\ IsComplete(g) => guard_byte[g] # UNSET
    /\ \A t \in Thread : \A i \in 1 .. Len(stack[t]) :
          guard_byte[stack[t][i]] # UNSET <=>
              i = Len(stack[t]) /\ pc[t] = "init_release"

\* The guard byte is the record of construction, and "done" is its echo.
GuardByteRecordsConstruction ==
    /\ \A g \in Guard :
          constructed[g] = IF guard_byte[g] = UNSET THEN 0 ELSE 1
    /\ \A t \in Thread : \A g \in seen[t] : guard_byte[g] # UNSET

\* The recorded id is the running initialiser's, so nobody sleeps on itself.
IdsMatch ==
    HasThreadId => \A t \in Thread :
        /\ \A i \in 1 .. Len(stack[t]) : thread_id[stack[t][i]] = ThreadId(t)
        /\ pc[t] \in {"waiting", "woken"} => ~Inside(t, at[t])

\* The two bytes, the recorded id, the call stacks and the answers given never
\* disagree: what acquire, release and abort rely on when they take the mutex.
GuardInv == /\ TypeOK
            /\ CallsAreSound
            /\ MutualExclusion
            /\ PendingMeansInside
            /\ GuardByteRunsAhead
            /\ GuardByteRecordsConstruction
            /\ IdsMatch

\* No wakeup is lost: a thread that entered acquire gets an answer, although
\* each waiter is woken only if its WAITING_BIT was still there when the
\* initialiser ended.  It gets none if recursion ends the process first.
AcquireReturns ==
    \A t \in Thread :
        pc[t] \in {"init_acquire", "waiting", "woken"}
            ~> pc[t] = "run" \/ aborted # NoThread

\* The guard variables are an implementation of OnceInit.
Insiders(g) == {t \in Thread : Inside(t, g)}
Status(g) == IF guard_byte[g] # UNSET THEN "complete"
             ELSE IF Insiders(g) = {} THEN "unset"
             ELSE CHOOSE t \in Insiders(g) : TRUE

Abstract == INSTANCE OnceInit WITH status <- [g \in Guard |-> Status(g)]

\* Whatever the interleaving, the guards behave as OnceInit: begin, fail or
\* finish one initialiser at a time, then only observe.
ImplementsOnceInit == Abstract!Spec
=============================================================================
