--------------------------- MODULE CxaGuardFutex ---------------------------
(***************************************************************************)
(* The lock-free alternative in cxa_guard_impl.h,                          *)
(* GuardObject<InitByteFutex>: the init byte is changed by compare-and-    *)
(* exchange, the thread id by plain atomic stores before and after, and    *)
(* threads sleep on the four bytes that hold the guard byte and the init   *)
(* byte.  Every atomic access is a step of its own.                        *)
(***************************************************************************)
EXTENDS Naturals, Sequences

CONSTANTS
    Thread,     \* threads of the program
    Guard,      \* guard variables
    Uses,       \* Uses[g]: the statics that the initialiser of g may use
    ThreadId,   \* ThreadId[t]: the kernel's id of t, its own and never 0
    MaxThrows,  \* bound: how many initialisers exit by an exception
    NoThread,   \* not a thread
    NoGuard     \* not a guard

ASSUME CxaGuardFutexAssumption ==
    /\ Uses \in [Guard -> SUBSET Guard]
    /\ ThreadId \in [Thread -> Nat \ {0}]
    /\ \A t, u \in Thread : ThreadId[t] = ThreadId[u] => t = u
    /\ MaxThrows \in Nat
    /\ NoThread \notin Thread /\ NoGuard \notin Guard

VARIABLES
    guard_byte,   \* guard_byte[g]
    init_byte,    \* init_byte[g]: its bits
    thread_id,    \* thread_id[g]: the id recorded by the initialising thread
    pc,           \* pc[t]
    at,           \* at[t]: the guard of t's call, or NoGuard
    last_val,     \* last_val[t]: the local variable of acquire
    stack,        \* stack[t]: the statics whose initialisers t is inside of
    constructed,  \* constructed[g]: how often an initialiser of g returned
    seen,         \* seen[t]: guards for which t was told INIT_IS_DONE
    throws,       \* initialisers that have thrown so far
    aborted       \* the thread that ended the process, or NoThread

program == <<stack, constructed, seen, throws, aborted>>
vars == <<guard_byte, init_byte, thread_id, pc, at, last_val, program>>

UNSET == {}
COMPLETE_BIT == {"complete"}
PENDING_BIT == {"pending"}
WAITING_BIT == {"waiting"}

Innermost(t) == stack[t][Len(stack[t])]
Usable(t) == IF stack[t] = <<>> THEN Guard ELSE Uses[Innermost(t)]
Goto(t, l) == pc' = [pc EXCEPT ![t] = l]

Init ==
    /\ guard_byte = [g \in Guard |-> UNSET]
    /\ init_byte = [g \in Guard |-> UNSET]
    /\ thread_id = [g \in Guard |-> 0]
    /\ pc = [t \in Thread |-> "run"]
    /\ at = [t \in Thread |-> NoGuard]
    /\ last_val = [t \in Thread |-> UNSET]
    /\ stack = [t \in Thread |-> <<>>]
    /\ constructed = [g \in Guard |-> 0]
    /\ seen = [t \in Thread |-> {}]
    /\ throws = 0
    /\ aborted = NoThread

-----------------------------------------------------------------------------
(***************************************************************************)
(* acquire                                                                 *)
(***************************************************************************)
ReturnDone(t, g) ==
    /\ seen' = [seen EXCEPT ![t] = @ \cup {g}]
    /\ at' = [at EXCEPT ![t] = NoGuard]
    /\ last_val' = [last_val EXCEPT ![t] = UNSET]
    /\ Goto(t, "run")

GuardByteDone(t, g) ==
    /\ pc[t] = "run"
    /\ g \in Usable(t) /\ guard_byte[g] # UNSET
    /\ ReturnDone(t, g)
    /\ UNCHANGED <<guard_byte, init_byte, thread_id, stack, constructed, throws,
                   aborted>>

GuardByteUnset(t, g) ==
    /\ pc[t] = "run"
    /\ g \in Usable(t) /\ guard_byte[g] = UNSET
    /\ at' = [at EXCEPT ![t] = g]
    /\ Goto(t, "acquire")
    /\ UNCHANGED <<guard_byte, init_byte, thread_id, last_val, program>>

ClaimableUnlessPending(g) == init_byte[g] # PENDING_BIT
Claimable(g) == init_byte[g] = UNSET

\* compare_exchange(UNSET, PENDING_BIT) succeeds: t is to initialise ...
ClaimGuard(t) ==
    /\ pc[t] = "acquire"
    /\ Claimable(at[t])
    /\ init_byte' = [init_byte EXCEPT ![at[t]] = PENDING_BIT]
    /\ Goto(t, "store_id")
    /\ UNCHANGED <<guard_byte, thread_id, at, last_val, program>>

\* ... and records itself, before INIT_IS_PENDING is returned.
StoreId(t) ==
    /\ pc[t] = "store_id"
    /\ thread_id' = [thread_id EXCEPT ![at[t]] = ThreadId[t]]
    /\ stack' = [stack EXCEPT ![t] = Append(@, at[t])]
    /\ at' = [at EXCEPT ![t] = NoGuard]
    /\ last_val' = [last_val EXCEPT ![t] = UNSET]
    /\ Goto(t, "run")
    /\ UNCHANGED <<guard_byte, init_byte, constructed, seen, throws, aborted>>

\* It fails because the work is done ...
AcquireDone(t) ==
    /\ pc[t] = "acquire"
    /\ init_byte[at[t]] = COMPLETE_BIT
    /\ ReturnDone(t, at[t])
    /\ UNCHANGED <<guard_byte, init_byte, thread_id, stack, constructed, throws,
                   aborted>>

\* ... or because somebody is at it.
FindPending(t) ==
    /\ pc[t] = "acquire"
    /\ PENDING_BIT \subseteq init_byte[at[t]]
    /\ last_val' = [last_val EXCEPT ![t] = init_byte[at[t]]]
    /\ Goto(t, "load_id")
    /\ UNCHANGED <<guard_byte, init_byte, thread_id, at, program>>

CheckRecursion(t) ==
    /\ pc[t] = "load_id"
    /\ \/ /\ thread_id[at[t]] = ThreadId[t]
          /\ aborted' = t
          /\ UNCHANGED pc
       \/ /\ thread_id[at[t]] # ThreadId[t]
          /\ Goto(t, IF WAITING_BIT \subseteq last_val[t] THEN "wait" ELSE "set_waiting")
          /\ UNCHANGED aborted
    /\ UNCHANGED <<guard_byte, init_byte, thread_id, at, last_val, stack,
                   constructed, seen, throws>>

\* compare_exchange(last_val, PENDING | WAITING), with its four outcomes.
WaitingBits == PENDING_BIT \cup WAITING_BIT

SetWaiting(t) ==
    LET byte == init_byte[at[t]]
    IN  /\ pc[t] = "set_waiting"
        /\ \/ /\ byte = last_val[t]
              /\ init_byte' = [init_byte EXCEPT ![at[t]] = WaitingBits]
              /\ Goto(t, "wait")
              /\ UNCHANGED <<at, last_val, seen>>
           \/ /\ byte = COMPLETE_BIT
              /\ ReturnDone(t, at[t])
              /\ UNCHANGED init_byte
           \/ /\ byte = UNSET
              /\ Goto(t, "acquire")
              /\ UNCHANGED <<init_byte, at, last_val, seen>>
           \/ /\ byte = WaitingBits
              /\ Goto(t, "wait")
              /\ UNCHANGED <<init_byte, at, last_val, seen>>
        /\ UNCHANGED <<guard_byte, thread_id, stack, constructed, throws, aborted>>

\* The futex word holds both bytes; the guard byte is expected to be unset.
ExpectedUnmarked(g) == guard_byte[g] = UNSET /\ PENDING_BIT \subseteq init_byte[g]
ExpectedValueForFutex(g) == guard_byte[g] = UNSET /\ init_byte[g] = WaitingBits

WaitOnInitialization(t) ==
    /\ pc[t] = "wait"
    /\ Goto(t, IF ExpectedValueForFutex(at[t]) THEN "asleep" ELSE "acquire")
    /\ UNCHANGED <<guard_byte, init_byte, thread_id, at, last_val, program>>

FutexReturns(t) ==
    /\ pc[t] = "asleep"
    /\ Goto(t, "acquire")
    /\ UNCHANGED <<guard_byte, init_byte, thread_id, at, last_val, program>>

-----------------------------------------------------------------------------
(***************************************************************************)
(* release and abort                                                       *)
(***************************************************************************)
GuardByteRelease(t) ==
    /\ pc[t] = "run" /\ stack[t] # <<>>
    /\ constructed' = [constructed EXCEPT ![Innermost(t)] = @ + 1]
    /\ guard_byte' = [guard_byte EXCEPT ![Innermost(t)] = COMPLETE_BIT]
    /\ Goto(t, "release")
    /\ UNCHANGED <<init_byte, thread_id, at, last_val, stack, seen, throws, aborted>>

\* abort clears the id before it gives the guard back.
KeepId(t) == UNCHANGED thread_id
ClearId(t) == thread_id' = [thread_id EXCEPT ![Innermost(t)] = 0]

AbortClearsId(t) ==
    /\ pc[t] = "run" /\ stack[t] # <<>>
    /\ throws < MaxThrows
    /\ throws' = throws + 1
    /\ ClearId(t)
    /\ Goto(t, "abort")
    /\ UNCHANGED <<guard_byte, init_byte, at, last_val, stack, constructed, seen,
                   aborted>>

\* init_byte.exchange: COMPLETE_BIT or UNSET; the old value says whom to wake.
ExchangeInitByte(t) ==
    LET g == Innermost(t)
    IN  /\ pc[t] \in {"release", "abort"}
        /\ init_byte' = [init_byte EXCEPT ![g] =
                            IF pc[t] = "release" THEN COMPLETE_BIT ELSE UNSET]
        /\ stack' = [stack EXCEPT ![t] = SubSeq(@, 1, Len(@) - 1)]
        /\ at' = [at EXCEPT ![t] = g]
        /\ Goto(t, IF WAITING_BIT \subseteq init_byte[g] THEN "wake" ELSE "ended")
        /\ UNCHANGED <<guard_byte, thread_id, last_val, constructed, seen, throws,
                       aborted>>

\* Futex wake on the guard's own word, if there was a WAITING_BIT.
WakeAll(t) ==
    /\ pc[t] \in {"wake", "ended"}
    /\ pc' = [u \in Thread |->
                 IF u = t THEN "run"
                 ELSE IF pc[t] = "wake" /\ pc[u] = "asleep" /\ at[u] = at[t]
                      THEN "acquire" ELSE pc[u]]
    /\ at' = [at EXCEPT ![t] = NoGuard]
    /\ UNCHANGED <<guard_byte, init_byte, thread_id, last_val, program>>

LibraryStep(t) ==
    \/ ClaimGuard(t) \/ StoreId(t) \/ AcquireDone(t) \/ FindPending(t)
    \/ CheckRecursion(t) \/ SetWaiting(t) \/ WaitOnInitialization(t)
    \/ ExchangeInitByte(t) \/ WakeAll(t)

InitialiserEnds(t) == GuardByteRelease(t) \/ AbortClearsId(t)

Next == /\ aborted = NoThread
        /\ \E t \in Thread :
              \/ \E g \in Guard : GuardByteDone(t, g) \/ GuardByteUnset(t, g)
              \/ LibraryStep(t) \/ FutexReturns(t) \/ InitialiserEnds(t)

Spec == Init /\ [][Next]_vars

\* Threads inside the library run on and initialisers end; a futex need not
\* return by itself.
FairSpec == Spec /\ \A t \in Thread :
                       /\ WF_vars(aborted = NoThread /\ LibraryStep(t))
                       /\ WF_vars(aborted = NoThread /\ InitialiserEnds(t))

-----------------------------------------------------------------------------
InAcquire == {"acquire", "store_id", "load_id", "set_waiting", "wait", "asleep"}

\* Types; the init byte never holds a waiting bit without the pending one.
TypeOK ==
    /\ guard_byte \in [Guard -> {UNSET, COMPLETE_BIT}]
    /\ init_byte \in [Guard -> {UNSET, COMPLETE_BIT, PENDING_BIT, WaitingBits}]
    /\ thread_id \in [Guard -> Nat]
    /\ pc \in [Thread -> InAcquire \cup {"run", "release", "abort", "wake", "ended"}]
    /\ at \in [Thread -> Guard \cup {NoGuard}]
    /\ last_val \in [Thread -> {UNSET, PENDING_BIT, WaitingBits}]
    /\ stack \in [Thread -> Seq(Guard)]
    /\ constructed \in [Guard -> Nat] /\ throws \in Nat
    /\ seen \in [Thread -> SUBSET Guard]
    /\ aborted \in Thread \cup {NoThread}

\* t has claimed g and not given it back.
Owns(t, g) == \/ \E i \in 1 .. Len(stack[t]) : stack[t][i] = g
              \/ pc[t] = "store_id" /\ at[t] = g

\* The process is ended for recursion only if the thread is inside that very
\* initialiser, although the byte and the thread id are read separately and an
\* id may belong to an initialiser that has meanwhile thrown.
NoFalseRecursion == aborted # NoThread => Owns(aborted, at[aborted])

(***************************************************************************)
(* The inductive invariant.  It is that of CxaGuard, at the points between *)
(* the single accesses to the init byte and to the thread id.              *)
(***************************************************************************)

\* The program counter says what the call has in its hands, and a waiter that
\* goes on with what it read has read a pending byte.
CallsAreSound ==
    \A t \in Thread :
        /\ pc[t] \in InAcquire => at[t] \in Guard
        /\ pc[t] \in {"release", "abort"} => stack[t] # <<>>
        /\ pc[t] \in {"load_id", "set_waiting"} => PENDING_BIT \subseteq last_val[t]

\* A guard is claimed once at a time, from the compare-exchange on.
ClaimsAreExclusive ==
    \A t, u \in Thread :
        /\ \A i \in 1 .. Len(stack[t]), j \in 1 .. Len(stack[u]) :
              stack[t][i] = stack[u][j] => t = u /\ i = j
        /\ pc[t] = "store_id" => \A j \in 1 .. Len(stack[u]) : stack[u][j] # at[t]
        /\ pc[t] = "store_id" /\ pc[u] = "store_id" /\ at[t] = at[u] => t = u

\* A guard is pending exactly while some thread has claimed it.
PendingMeansOwned ==
    \A g \in Guard : PENDING_BIT \subseteq init_byte[g] <=> \E t \in Thread : Owns(t, g)

\* The guard byte runs ahead of the init byte only between the two stores of
\* release, and only for the innermost initialiser.
GuardByteRunsAhead ==
    /\ \A g \in Guard :
          /\ guard_byte[g] # UNSET => init_byte[g] # UNSET
          /\ init_byte[g] = COMPLETE_BIT => guard_byte[g] # UNSET
    /\ \A t \in Thread :
          /\ pc[t] = "store_id" => guard_byte[at[t]] = UNSET
          /\ \A i \in 1 .. Len(stack[t]) :
                guard_byte[stack[t][i]] # UNSET <=> i = Len(stack[t]) /\ pc[t] = "release"

\* The guard byte is the record of construction, and "done" is its echo.
GuardByteRecordsConstruction ==
    /\ \A g \in Guard : constructed[g] = IF guard_byte[g] = UNSET THEN 0 ELSE 1
    /\ \A t \in Thread : \A g \in seen[t] : guard_byte[g] # UNSET

\* The id of an unclaimed guard is 0, and that of a claimed one its owner's,
\* except before it is stored and after abort has cleared it.  A thread about
\* to compare it with its own finds its own only if it is the owner.
IdsMatch ==
    /\ \A g \in Guard : init_byte[g] = UNSET => thread_id[g] = 0
    /\ \A t \in Thread :
          /\ pc[t] = "store_id" => thread_id[at[t]] = 0
          /\ \A i \in 1 .. Len(stack[t]) :
                thread_id[stack[t][i]] = IF i = Len(stack[t]) /\ pc[t] = "abort"
                                         THEN 0 ELSE ThreadId[t]
          /\ pc[t] = "load_id" /\ thread_id[at[t]] = ThreadId[t] => Owns(t, at[t])

\* Both bytes, the id and the call stacks agree between any two accesses, and
\* so recursion is never reported to a thread that waits for another.
FutexInv == /\ TypeOK
            /\ CallsAreSound
            /\ ClaimsAreExclusive
            /\ PendingMeansOwned
            /\ GuardByteRunsAhead
            /\ GuardByteRecordsConstruction
            /\ IdsMatch
            /\ NoFalseRecursion

\* No wakeup is lost: every acquire is answered unless recursion ends the
\* process, although a waiter sleeps only on the exact value of both bytes.
AcquireReturns ==
    \A t \in Thread : pc[t] \in InAcquire ~> pc[t] = "run" \/ aborted # NoThread

Owners(g) == {t \in Thread : Owns(t, g)}
Status(g) == IF guard_byte[g] # UNSET THEN "complete"
             ELSE IF Owners(g) = {} THEN "unset"
             ELSE CHOOSE t \in Owners(g) : TRUE

Abstract == INSTANCE OnceInit WITH status <- [g \in Guard |-> Status(g)]

\* The futex guards, too, begin, fail or finish one initialiser at a time and
\* tell nobody "done" before it is.
ImplementsOnceInit == Abstract!Spec
============================================================================
