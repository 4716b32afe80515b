------------------------------ MODULE Semaphore ------------------------------
(***************************************************************************)
(* std::counting_semaphore (libcxx/include/semaphore) over the global      *)
(* contention table: its counter is a ptrdiff_t, which is not of the       *)
(* platform's wait size.  Every access to the counter that changes it is a *)
(* read-modify-write, so no store stays behind in a buffer.                *)
(*                                                                         *)
(* A timed acquire reads a clock; elapsed[t] is what it last read, one of  *)
(* the instants in Clock.                                                  *)
(***************************************************************************)
EXTENDS Contention, Integers

CONSTANTS
    entry,         \* the table entry of the counter
    InitialCount,  \* permits at the start
    Updates,       \* arguments of release
    MaxReleased,   \* bound: permits released altogether
    RelTime,       \* the argument of try_acquire_for, not zero
    SpinTime,      \* the backoff spins until this much time has passed
    Clock,         \* durations that the clock can show
    Acquirer,      \* threads that acquire
    Releaser       \* threads that release

ASSUME SemaphoreAssumption ==
    /\ entry \in Entry
    /\ InitialCount \in Nat /\ MaxReleased \in Nat
    /\ Updates \subseteq Nat
    /\ RelTime \in Nat \ {0} /\ SpinTime \in Nat
    /\ Clock \subseteq Nat
    /\ Acquirer \cup Releaser = Thread
    /\ \E c \in Clock : c > RelTime

VARIABLES
    a,         \* the counter
    released,  \* history: permits given
    acquired,  \* history: permits taken
    pc,        \* pc[t]
    mode,      \* mode[t]: "acquire", "for" or "try", the call t is in, or "none"
    old,       \* old[t]: the counter as the call last saw it
    monitor,   \* monitor[t]: the platform state to sleep on
    elapsed    \* elapsed[t]: time since the call began, as last read

countVars == <<a, released, acquired>>
callVars == <<mode, old, monitor, elapsed>>
vars == <<contentionVars, countVars, pc, callVars>>

Init ==
    /\ ContentionInit
    /\ a = InitialCount /\ released = 0 /\ acquired = 0
    /\ pc = [t \in Thread |-> "idle"]
    /\ mode = [t \in Thread |-> "none"]
    /\ old = [t \in Thread |-> 0]
    /\ monitor = [t \in Thread |-> 0]
    /\ elapsed = [t \in Thread |-> 0]

Goto(t, l) == pc' = [pc EXCEPT ![t] = l]

\* The call is over and its locals are gone.
Return(t) ==
    /\ Goto(t, "idle")
    /\ mode' = [mode EXCEPT ![t] = "none"]
    /\ old' = [old EXCEPT ![t] = 0]
    /\ monitor' = [monitor EXCEPT ![t] = 0]
    /\ elapsed' = [elapsed EXCEPT ![t] = 0]

-----------------------------------------------------------------------------
(***************************************************************************)
(* release(n): fetch_add, and a notification if the counter was zero.      *)
(***************************************************************************)
MustNotifyAfterOne(o) == o = 1
MustNotify(o) == o = 0

Release(t, n) ==
    /\ pc[t] = "idle" /\ t \in Releaser
    /\ released + n <= MaxReleased
    /\ a' = a + n
    /\ released' = released + n
    /\ Goto(t, IF MustNotify(a) THEN "launder" ELSE "idle")
    /\ UNCHANGED <<contentionVars, acquired, callVars>>

NotifyGlobal(t) ==
    /\ pc[t] = "launder"
    /\ Launder(entry)
    /\ Goto(t, "count")
    /\ UNCHANGED <<waiter_count, asleep, countVars, callVars>>

ContentionNotify(t) ==
    /\ pc[t] = "count"
    /\ Goto(t, IF HasWaiters(entry) THEN "wake" ELSE "idle")
    /\ UNCHANGED <<contentionVars, countVars, callVars>>

PlatformWake(t) ==
    /\ pc[t] = "wake"
    /\ kal_task_wake(entry, FALSE)
    /\ Goto(t, "idle")
    /\ UNCHANGED <<waiter_count, platform_state, countVars, callVars>>

-----------------------------------------------------------------------------
(***************************************************************************)
(* acquire, try_acquire_for and try_acquire.                               *)
(***************************************************************************)
Acquire(t, m) ==
    /\ pc[t] = "idle" /\ t \in Acquirer
    /\ mode' = [mode EXCEPT ![t] = m]
    /\ Goto(t, "poll_load")
    /\ UNCHANGED <<contentionVars, countVars, old, monitor, elapsed>>

\* The relaxed load of the poll, and that of the backoff behind the monitor.
LoadCounter(t) ==
    /\ old' = [old EXCEPT ![t] = a]
    /\ \/ pc[t] = "poll_load" /\ Goto(t, "poll_try")
       \/ pc[t] = "backoff_load" /\ Goto(t, "backoff_try")
    /\ UNCHANGED <<contentionVars, countVars, mode, monitor, elapsed>>

\* __try_acquire_impl: a compare-exchange takes a permit ...
SwapsAlways(o) == TRUE
Swaps(o) == a = o

TryAcquireTakes(t) ==
    /\ pc[t] \in {"poll_try", "backoff_try"}
    /\ old[t] # 0 /\ Swaps(old[t])
    /\ a' = old[t] - 1
    /\ acquired' = acquired + 1
    /\ Return(t)
    /\ UNCHANGED <<contentionVars, released>>

\* ... or fails and brings back the counter ...
TryAcquireRetries(t) ==
    /\ pc[t] \in {"poll_try", "backoff_try"}
    /\ old[t] # 0 /\ ~Swaps(old[t])
    /\ old' = [old EXCEPT ![t] = a]
    /\ UNCHANGED <<contentionVars, countVars, pc, mode, monitor, elapsed>>

\* ... until that is zero.
TryAcquireFails(t) ==
    /\ old[t] = 0
    /\ \/ pc[t] = "poll_try" /\ mode[t] = "try" /\ Return(t)
       \/ pc[t] = "poll_try" /\ mode[t] # "try" /\ Goto(t, "sample") /\ UNCHANGED callVars
       \/ pc[t] = "backoff_try" /\ Goto(t, "add") /\ UNCHANGED callVars
    /\ UNCHANGED <<contentionVars, countVars>>

\* The poll loop reads the clock: time is up, or it is too early to sleep, or
\* the thread goes to sleep.  Without a limit only the last one matters.
NeverExpired(e) == FALSE
Expired(e) == RelTime < e

Sample(t) ==
    /\ pc[t] = "sample"
    /\ \/ mode[t] = "acquire" /\ Goto(t, "monitor") /\ UNCHANGED callVars
       \/ /\ mode[t] = "for"
          /\ \E e \in {c \in Clock : c >= elapsed[t]} :
                \/ Expired(e) /\ Return(t)
                \/ /\ ~Expired(e)
                   /\ Goto(t, IF e > SpinTime THEN "monitor" ELSE "poll_load")
                   /\ elapsed' = [elapsed EXCEPT ![t] = e]
                   /\ UNCHANGED <<mode, old, monitor>>
    /\ UNCHANGED <<contentionVars, countVars>>

\* What the timed backoff hands to kal_task_wait; zero is no timeout.
TimeoutNs(t) == RelTime - elapsed[t]

MonitorGlobal(t) ==
    /\ pc[t] = "monitor"
    /\ monitor' = [monitor EXCEPT ![t] = platform_state[entry]]
    /\ Goto(t, "backoff_load")
    /\ UNCHANGED <<contentionVars, countVars, mode, old, elapsed>>

ContentionWait(t) ==
    /\ pc[t] = "add"
    /\ AddWaiter(entry)
    /\ Goto(t, "platform_wait")
    /\ UNCHANGED <<platform_state, asleep, countVars, callVars>>

PlatformWait(t) ==
    /\ pc[t] = "platform_wait"
    /\ kal_task_wait(t, entry, platform_state[entry], monitor[t])
    /\ Goto(t, "sub")
    /\ UNCHANGED <<waiter_count, platform_state, countVars, callVars>>

\* The untimed wait has a timeout of its own.
WaitTimesOut(t) ==
    /\ asleep[t] # Awake
    /\ mode[t] = "for" => TimeoutNs(t) # 0
    /\ asleep' = [asleep EXCEPT ![t] = Awake]
    /\ elapsed' = IF mode[t] = "for" THEN [elapsed EXCEPT ![t] = RelTime] ELSE elapsed
    /\ UNCHANGED <<waiter_count, platform_state, countVars, pc, mode, old, monitor>>

ContentionWaitReturns(t) ==
    /\ pc[t] = "sub" /\ asleep[t] = Awake
    /\ SubWaiter(entry)
    /\ Goto(t, "poll_load")
    /\ UNCHANGED <<platform_state, asleep, countVars, callVars>>

Step(t) ==
    \/ NotifyGlobal(t) \/ ContentionNotify(t) \/ PlatformWake(t)
    \/ LoadCounter(t) \/ TryAcquireTakes(t) \/ TryAcquireRetries(t)
    \/ TryAcquireFails(t) \/ MonitorGlobal(t) \/ ContentionWait(t)
    \/ PlatformWait(t) \/ ContentionWaitReturns(t)

Next == \E t \in Thread :
            \/ Step(t) \/ Sample(t) \/ WaitTimesOut(t)
            \/ \E n \in Updates : Release(t, n)
            \/ \E m \in {"acquire", "for", "try"} : Acquire(t, m)

Spec == Init /\ [][Next]_vars

\* The scheduler runs every thread, a timed sleep ends, and the clock moves on:
\* a poll loop cannot read the same early instant for ever.
ClockMovesOn(t) == Sample(t) /\ pc'[t] # "poll_load"

FairSpec == Spec /\ \A t \in Thread :
                       /\ WF_vars(Step(t)) /\ WF_vars(WaitTimesOut(t))
                       /\ WF_vars(Sample(t)) /\ SF_vars(ClockMovesOn(t))

-----------------------------------------------------------------------------
InNotify == {"launder", "count", "wake"}
InWait == {"poll_load", "poll_try", "sample", "monitor", "backoff_load",
           "backoff_try", "add", "platform_wait", "sub"}

\* Types; the timeout of a sleeping thread is not negative, which a uint64_t
\* could not hold.
TypeOK ==
    /\ ContentionTypeOK(Entry)
    /\ a \in Nat /\ released \in 0 .. MaxReleased /\ acquired \in Nat
    /\ pc \in [Thread -> InNotify \cup InWait \cup {"idle"}]
    /\ mode \in [Thread -> {"none", "acquire", "for", "try"}]
    /\ old \in [Thread -> Nat] /\ monitor \in [Thread -> Nat]
    /\ elapsed \in [Thread -> Nat]
    /\ \A t \in Thread : asleep[t] # Awake => pc[t] = "sub" /\ mode[t] \in {"acquire", "for"}
    /\ \A t \in Thread : asleep[t] # Awake /\ mode[t] = "for" => TimeoutNs(t) >= 0

\* No permit is lost or taken twice, however the compare-exchanges interleave.
PermitsConserved == a = InitialCount + released - acquired

\* The call says what its program counter and its locals may be; a timed call
\* that goes on has not used up its time.
CallsAreSound ==
    \A t \in Thread :
        /\ pc[t] \in InWait => mode[t] # "none"
        /\ pc[t] \in InWait \ {"poll_load", "poll_try"} => mode[t] \in {"acquire", "for"}
        /\ elapsed[t] <= RelTime
        /\ monitor[t] <= platform_state[entry]
        /\ asleep[t] \in {entry, Awake}

\* The waiter count of the entry is the number of threads between its two
\* updates in __contention_wait.
Counted == {t \in Thread : pc[t] \in {"platform_wait", "sub"}}
CountIsExact == waiter_count[entry] = Cardinality(Counted)

\* A thread that is about to sleep has seen a counter of zero since it took its
\* monitor; if there are permits again, the releaser has yet to change the
\* platform state, or the state has changed and the thread will not sleep.
MonitorIsFresh ==
    \A t \in Thread :
        /\ \/ pc[t] \in {"add", "platform_wait"}
           \/ pc[t] = "backoff_try" /\ old[t] = 0
        /\ a > 0 /\ monitor[t] = platform_state[entry]
        => \E w \in Thread : pc[w] = "launder"

\* Sleepers are in a call that may sleep and are counted, permits are conserved,
\* and nobody goes to sleep on a permit that is not being announced.
SemaphoreInv == /\ TypeOK /\ PermitsConserved
                /\ CallsAreSound /\ CountIsExact /\ MonitorIsFresh

\* While a permit is to be had nobody sleeps, unless a thread that released one
\* is still on its way to wake all sleepers: release may stay silent when the
\* counter was not zero.
NoLostPermit ==
    a > 0 /\ (\E t \in Thread : asleep[t] # Awake)
        => \E w \in Thread : pc[w] \in InNotify

\* A timed acquire returns, with a permit or without.
TimedReturns == \A t \in Thread : []<>(pc[t] = "idle" \/ mode[t] # "for")

\* "Zero means 'no timeout' to openkal, so the default is stated rather than
\* passed through": a timed acquire never sleeps without a timeout.
NoUntimedSleep ==
    \A t \in Thread : asleep[t] # Awake /\ mode[t] = "for" => TimeoutNs(t) # 0
=============================================================================
