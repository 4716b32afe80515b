-------------------------------- MODULE Sync --------------------------------
(***************************************************************************)
(* The objects of libc++ and libunwind that threads share, side by side:   *)
(* a behaviour is one of the object that the initial state names, and the  *)
(* variables of the others keep their initial values.                      *)
(***************************************************************************)
EXTENDS Integers, Sequences, FiniteSets

CONSTANTS Thread,
          n_readers,                 \* shared_mutex
          Flag, MaxThrows,           \* call_once
          Share, Expected, Phases,   \* barrier
          maker,                     \* shared_ptr: the thread that makes the object
          Waiter, Provider,          \* future: who waits, and who may set the promise
          promiser,                  \*         the provider that has it
          \* the FDE cache, used by Waiter
          image, imageFde, Section, Fdes, InitialSize, None

ASSUME SyncAssumption ==
    /\ IsFiniteSet(Thread)
    /\ n_readers \in Nat \ {0}
    /\ Flag # {} /\ MaxThrows \in Nat
    /\ Expected \in Nat \ {0} /\ Share \in [Thread -> 1 .. Expected]
    /\ Expected = Cardinality({x \in Thread \X (1 .. Expected) : x[2] <= Share[x[1]]})   \* the sum
    /\ Phases \in Nat /\ Phases > 2
    /\ maker \in Thread
    /\ IsFiniteSet(Waiter) /\ IsFiniteSet(Provider) /\ Waiter \cap Provider = {}
    /\ Waiter # {} /\ promiser \in Provider
    /\ image \notin Section /\ None \notin Section \cup {image}
    /\ \A s \in Section : Fdes[s] \in Seq({Fdes[s][i] : i \in DOMAIN Fdes[s]})
    /\ InitialSize \in Nat \ {0}

VARIABLES object,
          sm_entered, sm_readers, sm_timed, sm_pc,
          co_flag, co_pc, co_on, co_throws, co_seen,
          ba_expected, ba_adjustment, ba_phase, ba_tickets, ba_pc, ba_loc, ba_share,
          sc_shared_owners, sc_weak_owners, sc_disposed, sc_freed, sc_shared, sc_weak, sc_pc, sc_local,
          fu_kind, fu_constructed, fu_ready, fu_deferred, fu_exception, fu_owners, fu_freed, fu_pc,
          fu_op, fu_at_exit, fu_satisfied, fu_got,
          fd_buffer, fd_size, fd_generation, fd_readers, fd_registered, fd_pc, fd_loc

smVars == <<sm_entered, sm_readers, sm_timed, sm_pc>>
coVars == <<co_flag, co_pc, co_on, co_throws, co_seen>>
baVars == <<ba_expected, ba_adjustment, ba_phase, ba_tickets, ba_pc, ba_loc, ba_share>>
scVars == <<sc_shared_owners, sc_weak_owners, sc_disposed, sc_freed, sc_shared, sc_weak, sc_pc,
            sc_local>>
fuVars == <<fu_kind, fu_constructed, fu_ready, fu_deferred, fu_exception, fu_owners, fu_freed,
            fu_pc, fu_op, fu_at_exit, fu_satisfied, fu_got>>
fdVars == <<fd_buffer, fd_size, fd_generation, fd_readers, fd_registered, fd_pc, fd_loc>>

SM == INSTANCE SharedMutex WITH
        write_entered <- sm_entered, readers <- sm_readers, timed <- sm_timed, pc <- sm_pc
CO == INSTANCE CallOnce WITH
        flag <- co_flag, pc <- co_pc, on <- co_on, throws <- co_throws, seen <- co_seen
BA == INSTANCE Barrier WITH
        expected <- ba_expected, adjustment <- ba_adjustment, phase <- ba_phase, tickets <- ba_tickets,
        pc <- ba_pc, loc <- ba_loc, share <- ba_share
SC == INSTANCE SharedCount WITH owner <- maker,
        shared_owners <- sc_shared_owners, weak_owners <- sc_weak_owners, disposed <- sc_disposed,
        freed <- sc_freed, shared <- sc_shared, weak <- sc_weak, pc <- sc_pc, object_owners <- sc_local
FU == INSTANCE FutureState WITH owner <- promiser,
        kind <- fu_kind, constructed <- fu_constructed, ready <- fu_ready, deferred <- fu_deferred,
        exception <- fu_exception, owners <- fu_owners, freed <- fu_freed, pc <- fu_pc, op <- fu_op,
        at_exit <- fu_at_exit, satisfied <- fu_satisfied, got <- fu_got
FD == INSTANCE FdeCache WITH Thread <- Waiter,
        buffer <- fd_buffer, size <- fd_size, generation <- fd_generation, readers <- fd_readers,
        registered <- fd_registered, pc <- fd_pc, loc <- fd_loc

SyncInit == /\ object \in {"shared_mutex", "call_once", "barrier", "shared_count", "future", "fde_cache"}
            /\ SM!Init /\ CO!Init /\ BA!Init /\ SC!Init /\ FU!Init /\ FD!Init
            /\ object # "future" => fu_kind = "promise"

\* Only the object of the behaviour changes.
Others(o) == /\ UNCHANGED object
             /\ IF o = "shared_mutex" THEN TRUE ELSE UNCHANGED smVars
             /\ IF o = "call_once" THEN TRUE ELSE UNCHANGED coVars
             /\ IF o = "barrier" THEN TRUE ELSE UNCHANGED baVars
             /\ IF o = "shared_count" THEN TRUE ELSE UNCHANGED scVars
             /\ IF o = "future" THEN TRUE ELSE UNCHANGED fuVars
             /\ IF o = "fde_cache" THEN TRUE ELSE UNCHANGED fdVars

SharedMutexNext == object = "shared_mutex" /\ SM!Next /\ Others("shared_mutex")
CallOnceNext == object = "call_once" /\ CO!Next /\ Others("call_once")
BarrierNext == object = "barrier" /\ BA!Next /\ Others("barrier")
SharedCountNext == object = "shared_count" /\ SC!Next /\ Others("shared_count")
FutureNext == object = "future" /\ FU!Next /\ Others("future")
FdeCacheNext == object = "fde_cache" /\ FD!Next /\ Others("fde_cache")

SyncNext == \/ SharedMutexNext \/ CallOnceNext \/ BarrierNext
            \/ SharedCountNext \/ FutureNext \/ FdeCacheNext

syncVars == <<object, smVars, coVars, baVars, scVars, fuVars, fdVars>>

SyncStep(t) ==
    \/ object = "shared_mutex" /\ t \in Thread /\ SM!Step(t) /\ Others("shared_mutex")
    \/ object = "call_once" /\ t \in Thread /\ CO!Step(t) /\ Others("call_once")
    \/ object = "barrier" /\ t \in Thread /\ BA!Step(t) /\ Others("barrier")
    \/ object = "future" /\ FU!Step(t) /\ Others("future")

\* The scheduler runs every thread that is in a call.
SyncSpec == SyncInit /\ [][SyncNext]_syncVars /\ \A t \in Thread \cup Provider : WF_syncVars(SyncStep(t))

-----------------------------------------------------------------------------
\* What follows is stated, part by part, in the objects' modules.

\* The objects' words and counts say what the threads are doing: who holds the
\* shared_mutex, who runs a once_flag's function, how many pointers there are to
\* a shared object, and who refers to a future's state.
ObjectsAreSound == /\ SM!TypeOK /\ SM!SharedExclusion
                   /\ CO!TypeOK /\ CO!FlagsAgree
                   /\ SC!TypeOK /\ SC!CountsAreExact
                   /\ FU!TypeOK /\ FU!CallsAreSound /\ FU!OwnersAreExact

\* Nobody sleeps at a gate of the shared_mutex that is open, or on a once_flag
\* that is decided, unless somebody is about to wake it.
NoStrandedSleeper == SM!NoSleeperAtOpenGate /\ CO!NoStrandedOnceWaiter

\* call_once keeps the promise of OnceInit.
OnceSpec == CO!OnceSpec

\* A phase of the barrier is completed once, by the last of its arrivals.
PhasesAreOrderly == BA!TypeOK /\ BA!PhasesAreOrderly

\* The shared object and its control block end once, after their last pointer.
LifetimesEndOnce == SC!LifetimesEndOnce

\* A future has one result, and get returns it.
OneResult == FU!OneResult

\* A future's state is deleted after all use.
StateOutlivesUse == FU!StateOutlivesUse

\* A lookup for a registered frame succeeds, in a buffer that is in place.
LookupFindsRegistered == FD!LookupFindsRegistered

\* The FDE cache keeps what is registered, and the image's frame a few times.
CacheIsBounded == FD!TypeOK /\ FD!CacheIsBounded

\* Nobody waits for ever: a writer behind gate 1 gets the shared_mutex, those
\* before the gate are woken, call_once returns, phases end, futures get ready.
NobodyWaitsForever == /\ SM!EnteredWriterOwns /\ SM!Gate1Wakes
                      /\ CO!CallOnceReturns
                      /\ BA!PhaseEnds
                      /\ FU!WaiterReturns
=============================================================================
