-------------------------- MODULE SemaphoreProofs --------------------------
(***************************************************************************)
(* Safety of the counting semaphore for every number of threads, permits   *)
(* and every clock: permits are conserved, the waiter count is exact, and  *)
(* nobody sleeps while there is a permit that no releaser is about to      *)
(* announce.                                                               *)
(***************************************************************************)
EXTENDS Semaphore, FiniteSetTheorems, TLAPS

\* What the two invariants of the runs say together; it is inductive.
PermitInv == SemaphoreInv /\ NoLostPermit

-----------------------------------------------------------------------------
\* The initial state satisfies the invariant.
LEMMA InitPermitInv == Init => PermitInv
<1> SUFFICES ASSUME Init PROVE PermitInv
  OBVIOUS
<1> USE SemaphoreAssumption DEF Init, ContentionInit
<1>1. TypeOK
  BY DEF TypeOK, ContentionTypeOK
<1>2. PermitsConserved /\ CallsAreSound /\ MonitorIsFresh /\ NoLostPermit
  BY DEF PermitsConserved, CallsAreSound, MonitorIsFresh, NoLostPermit, InWait
<1>3. CountIsExact
  <2>1. Counted = {}
    BY DEF Counted
  <2> QED
    BY <2>1, FS_EmptySet DEF CountIsExact
<1> QED
  BY <1>1, <1>2, <1>3 DEF PermitInv, SemaphoreInv

\* There are only so many threads to count.
LEMMA CountedFinite == IsFiniteSet(Counted) /\ Cardinality(Counted) \in Nat
  BY ContentionAssumption, FS_Subset, FS_CardinalityType DEF Counted

\* Whoever sleeps is counted.
LEMMA SleepersCounted ==
    ASSUME TypeOK, CountIsExact, NEW t \in Thread, asleep[t] # Awake
    PROVE  waiter_count[entry] # 0
<1>1. t \in Counted
  BY DEF TypeOK, Counted
<1>2. Cardinality(Counted) # 0
  BY <1>1, CountedFinite, FS_EmptySet
<1> QED
  BY <1>2 DEF CountIsExact

\* A step of a call that touches neither the counter nor the table, and does not
\* put itself to sleep on an old monitor, preserves the invariant.
LEMMA CallStep ==
    ASSUME PermitInv, TypeOK', CallsAreSound', UNCHANGED <<contentionVars, countVars>>,
           \A u \in Thread :
               /\ \A l \in {"launder", "count", "wake", "platform_wait", "sub"} :
                     pc'[u] = l <=> pc[u] = l
               /\ \/ pc'[u] \in {"add", "platform_wait"}
                  \/ pc'[u] = "backoff_try" /\ old'[u] = 0
                  => \/ a = 0
                     \/ /\ monitor'[u] = monitor[u]
                        /\ \/ pc[u] \in {"add", "platform_wait"}
                           \/ pc[u] = "backoff_try" /\ old[u] = 0
    PROVE  PermitInv'
<1> USE DEF PermitInv, SemaphoreInv, contentionVars, countVars
<1>1. CountIsExact'
  <2>1. Counted' = Counted
    BY DEF Counted
  <2> QED
    BY <2>1 DEF CountIsExact
<1>2. PermitsConserved'
  BY DEF PermitsConserved
<1>3. MonitorIsFresh'
  BY SemaphoreAssumption DEF MonitorIsFresh
<1>4. NoLostPermit'
  BY DEF NoLostPermit, InNotify
<1> QED
  BY <1>1, <1>2, <1>3, <1>4

\* The steps of acquire, try_acquire_for and try_acquire up to the monitor and
\* back, except the one that takes a permit.
LEMMA CallActions ==
    ASSUME PermitInv, NEW t \in Thread,
           \/ \E m \in {"acquire", "for", "try"} : Acquire(t, m)
           \/ LoadCounter(t) \/ TryAcquireRetries(t) \/ TryAcquireFails(t)
           \/ Sample(t) \/ MonitorGlobal(t)
    PROVE  PermitInv'
<1> DEFINE Quiet(u) ==
               /\ \A l \in {"launder", "count", "wake", "platform_wait", "sub"} :
                     pc'[u] = l <=> pc[u] = l
               /\ \/ pc'[u] \in {"add", "platform_wait"}
                  \/ pc'[u] = "backoff_try" /\ old'[u] = 0
                  => \/ a = 0
                     \/ /\ monitor'[u] = monitor[u]
                        /\ \/ pc[u] \in {"add", "platform_wait"}
                           \/ pc[u] = "backoff_try" /\ old[u] = 0
<1>0. ASSUME TypeOK', CallsAreSound', UNCHANGED <<contentionVars, countVars>>,
             \A u \in Thread : Quiet(u)
      PROVE  PermitInv'
  BY <1>0, CallStep
<1>1. TypeOK /\ CallsAreSound
  BY DEF PermitInv, SemaphoreInv
<1> USE <1>1, SemaphoreAssumption
    DEF TypeOK, ContentionTypeOK, CallsAreSound, InWait, InNotify, Goto, Return,
        contentionVars, countVars, callVars, TimeoutNs
<1>2. ASSUME NEW m \in {"acquire", "for", "try"}, Acquire(t, m) PROVE PermitInv'
  <2> USE <1>2 DEF Acquire
  <2>1. TypeOK' /\ CallsAreSound'
    OBVIOUS
  <2>2. UNCHANGED <<contentionVars, countVars>> /\ \A u \in Thread : Quiet(u)
    OBVIOUS
  <2> QED
    BY <1>0, <2>1, <2>2
<1>3. ASSUME LoadCounter(t) PROVE PermitInv'
  <2> USE <1>3 DEF LoadCounter
  <2>1. TypeOK' /\ CallsAreSound'
    OBVIOUS
  <2>2. UNCHANGED <<contentionVars, countVars>> /\ \A u \in Thread : Quiet(u)
    OBVIOUS
  <2> QED
    BY <1>0, <2>1, <2>2
<1>4. ASSUME TryAcquireRetries(t) PROVE PermitInv'
  <2> USE <1>4 DEF TryAcquireRetries
  <2>1. TypeOK' /\ CallsAreSound'
    OBVIOUS
  <2>2. UNCHANGED <<contentionVars, countVars>> /\ \A u \in Thread : Quiet(u)
    OBVIOUS
  <2> QED
    BY <1>0, <2>1, <2>2
<1>5. ASSUME TryAcquireFails(t) PROVE PermitInv'
  <2> USE <1>5 DEF TryAcquireFails
  <2>1. TypeOK' /\ CallsAreSound'
    OBVIOUS
  <2>2. UNCHANGED <<contentionVars, countVars>> /\ \A u \in Thread : Quiet(u)
    OBVIOUS
  <2> QED
    BY <1>0, <2>1, <2>2
<1>6. ASSUME Sample(t) PROVE PermitInv'
  <2> USE <1>6 DEF Sample, Expired
  <2>1. TypeOK' /\ CallsAreSound'
    OBVIOUS
  <2>2. UNCHANGED <<contentionVars, countVars>> /\ \A u \in Thread : Quiet(u)
    OBVIOUS
  <2> QED
    BY <1>0, <2>1, <2>2
<1>7. ASSUME MonitorGlobal(t) PROVE PermitInv'
  <2> USE <1>7 DEF MonitorGlobal
  <2>1. TypeOK' /\ CallsAreSound'
    OBVIOUS
  <2>2. UNCHANGED <<contentionVars, countVars>> /\ \A u \in Thread : Quiet(u)
    OBVIOUS
  <2> QED
    BY <1>0, <2>1, <2>2
<1> QED
  BY <1>2, <1>3, <1>4, <1>5, <1>6, <1>7

-----------------------------------------------------------------------------
\* fetch_add: the release that finds zero is the one that announces.
LEMMA ReleasePreserves ==
    ASSUME PermitInv, NEW t \in Thread, NEW n \in Updates, Release(t, n)
    PROVE  PermitInv'
<1> USE SemaphoreAssumption DEF PermitInv, SemaphoreInv
<1>1. /\ pc[t] = "idle" /\ a' = a + n /\ released' = released + n /\ n \in Nat
      /\ released' <= MaxReleased /\ acquired' = acquired /\ a \in Nat
      /\ pc' = [pc EXCEPT ![t] = IF a = 0 THEN "launder" ELSE "idle"]
      /\ UNCHANGED <<waiter_count, platform_state, asleep, mode, old, monitor, elapsed>>
  BY DEF Release, Goto, MustNotify, contentionVars, callVars, TypeOK
<1>2. TypeOK'
  BY <1>1 DEF TypeOK, ContentionTypeOK, InNotify, InWait, TimeoutNs
<1>3. /\ \A u \in Thread \ {t} : pc'[u] = pc[u]
      /\ pc'[t] = IF a = 0 THEN "launder" ELSE "idle"
  BY <1>1 DEF TypeOK
<1>4. CallsAreSound'
  BY <1>1, <1>3 DEF CallsAreSound, InWait
<1>5. PermitsConserved'
  BY <1>1 DEF PermitsConserved, TypeOK
<1>6. CountIsExact'
  <2>1. Counted' = Counted
    BY <1>1, <1>3 DEF Counted
  <2> QED
    BY <1>1, <2>1 DEF CountIsExact
<1>7. CASE a = 0
  BY <1>1, <1>2, <1>3, <1>4, <1>5, <1>6, <1>7 DEF MonitorIsFresh, NoLostPermit, InNotify
<1>8. CASE a # 0
  <2>1. a > 0 /\ pc' = pc
    BY <1>1, <1>8 DEF TypeOK
  <2> QED
    BY <1>1, <1>2, <1>4, <1>5, <1>6, <2>1 DEF MonitorIsFresh, NoLostPermit
<1> QED
  BY <1>7, <1>8

\* A changed platform state keeps everybody who monitors it from sleeping.
LEMMA NotifyPreserves ==
    ASSUME PermitInv, NEW t \in Thread, NotifyGlobal(t)
    PROVE  PermitInv'
<1> USE SemaphoreAssumption DEF PermitInv, SemaphoreInv
<1>1. /\ pc[t] = "launder"
      /\ platform_state' = [platform_state EXCEPT ![entry] = @ + 1]
      /\ pc' = [pc EXCEPT ![t] = "count"]
      /\ UNCHANGED <<waiter_count, asleep, a, released, acquired, mode, old, monitor, elapsed>>
  BY DEF NotifyGlobal, Launder, Goto, countVars, callVars
<1>2. TypeOK'
  BY <1>1 DEF TypeOK, ContentionTypeOK, InNotify, InWait, TimeoutNs
<1>3. /\ \A u \in Thread \ {t} : pc'[u] = pc[u]
      /\ pc'[t] = "count"
      /\ platform_state'[entry] = platform_state[entry] + 1
      /\ platform_state[entry] \in Nat
  BY <1>1 DEF TypeOK, ContentionTypeOK
<1>4. \A u \in Thread : monitor[u] \in Nat /\ monitor[u] <= platform_state[entry]
  BY DEF CallsAreSound, TypeOK
<1>5. CallsAreSound'
  BY <1>1, <1>3, <1>4 DEF CallsAreSound, InWait
<1>6. PermitsConserved'
  BY <1>1 DEF PermitsConserved
<1>7. CountIsExact'
  <2>1. Counted' = Counted
    BY <1>1, <1>3 DEF Counted
  <2> QED
    BY <1>1, <2>1 DEF CountIsExact
<1>8. MonitorIsFresh'
  BY <1>1, <1>3, <1>4 DEF MonitorIsFresh
<1>9. NoLostPermit'
  BY <1>3 DEF NoLostPermit, InNotify
<1> QED
  BY <1>2, <1>5, <1>6, <1>7, <1>8, <1>9

\* A count of zero means that nobody sleeps.
LEMMA CountPreserves ==
    ASSUME PermitInv, NEW t \in Thread, ContentionNotify(t)
    PROVE  PermitInv'
<1> USE SemaphoreAssumption DEF PermitInv, SemaphoreInv
<1>1. /\ pc[t] = "count"
      /\ pc' = [pc EXCEPT ![t] = IF waiter_count[entry] # 0 THEN "wake" ELSE "idle"]
      /\ UNCHANGED <<waiter_count, platform_state, asleep, a, released, acquired, mode, old,
                     monitor, elapsed>>
  BY DEF ContentionNotify, HasWaiters, Goto, contentionVars, countVars, callVars
<1>2. TypeOK'
  BY <1>1 DEF TypeOK, ContentionTypeOK, InNotify, InWait, TimeoutNs
<1>3. /\ \A u \in Thread \ {t} : pc'[u] = pc[u]
      /\ pc'[t] = IF waiter_count[entry] # 0 THEN "wake" ELSE "idle"
  BY <1>1 DEF TypeOK
<1>4. CallsAreSound'
  BY <1>1, <1>3 DEF CallsAreSound, InWait
<1>5. PermitsConserved'
  BY <1>1 DEF PermitsConserved
<1>6. CountIsExact'
  <2>1. Counted' = Counted
    BY <1>1, <1>3 DEF Counted
  <2> QED
    BY <1>1, <2>1 DEF CountIsExact
<1>7. MonitorIsFresh'
  <2>1. \A u \in Thread : /\ pc[u] = "launder" => pc'[u] = "launder"
                          /\ pc'[u] \in {"add", "platform_wait", "backoff_try"} => pc'[u] = pc[u]
    BY <1>1, <1>3
  <2> QED
    BY <1>1, <2>1 DEF MonitorIsFresh
<1>8. NoLostPermit'
  <2>1. (\E u \in Thread : asleep[u] # Awake) => waiter_count[entry] # 0
    BY SleepersCounted
  <2> QED
    BY <1>1, <1>3, <2>1 DEF NoLostPermit, InNotify
<1> QED
  BY <1>2, <1>4, <1>5, <1>6, <1>7, <1>8

\* The wakeup reaches all sleepers: they sleep on one word.
LEMMA WakePreserves ==
    ASSUME PermitInv, NEW t \in Thread, PlatformWake(t)
    PROVE  PermitInv'
<1> USE SemaphoreAssumption DEF PermitInv, SemaphoreInv
<1>1. /\ pc[t] = "wake"
      /\ asleep' = [u \in Thread |-> IF asleep[u] = entry THEN Awake ELSE asleep[u]]
      /\ pc' = [pc EXCEPT ![t] = "idle"]
      /\ UNCHANGED <<waiter_count, platform_state, a, released, acquired, mode, old, monitor,
                     elapsed>>
  BY DEF PlatformWake, kal_task_wake, Goto, countVars, callVars
<1>2. \A u \in Thread : asleep'[u] = Awake
  BY <1>1 DEF CallsAreSound
<1>3. TypeOK'
  BY <1>1, <1>2 DEF TypeOK, ContentionTypeOK, InNotify, InWait
<1>4. /\ \A u \in Thread \ {t} : pc'[u] = pc[u]
      /\ pc'[t] = "idle"
  BY <1>1 DEF TypeOK
<1>5. CallsAreSound'
  BY <1>1, <1>2, <1>4 DEF CallsAreSound, InWait
<1>6. PermitsConserved'
  BY <1>1 DEF PermitsConserved
<1>7. CountIsExact'
  <2>1. Counted' = Counted
    BY <1>1, <1>4 DEF Counted
  <2> QED
    BY <1>1, <2>1 DEF CountIsExact
<1>8. MonitorIsFresh'
  <2>1. \A u \in Thread : /\ pc[u] = "launder" => pc'[u] = "launder"
                          /\ pc'[u] \in {"add", "platform_wait", "backoff_try"} => pc'[u] = pc[u]
    BY <1>1, <1>4
  <2> QED
    BY <1>1, <2>1 DEF MonitorIsFresh
<1>9. NoLostPermit'
  BY <1>2 DEF NoLostPermit
<1> QED
  BY <1>3, <1>5, <1>6, <1>7, <1>8, <1>9

\* A permit is taken by a compare-exchange on the value last seen.
LEMMA TakePreserves ==
    ASSUME PermitInv, NEW t \in Thread, TryAcquireTakes(t)
    PROVE  PermitInv'
<1> USE SemaphoreAssumption DEF PermitInv, SemaphoreInv
<1>1. /\ pc[t] \in {"poll_try", "backoff_try"} /\ a = old[t] /\ a # 0
      /\ a' = a - 1 /\ acquired' = acquired + 1 /\ released' = released
      /\ pc' = [pc EXCEPT ![t] = "idle"]
      /\ mode' = [mode EXCEPT ![t] = "none"] /\ old' = [old EXCEPT ![t] = 0]
      /\ monitor' = [monitor EXCEPT ![t] = 0] /\ elapsed' = [elapsed EXCEPT ![t] = 0]
      /\ UNCHANGED <<waiter_count, platform_state, asleep>>
  BY DEF TryAcquireTakes, Swaps, Return, Goto, contentionVars
<1>2. a' \in Nat /\ a > 0
  BY <1>1 DEF TypeOK
<1>3. TypeOK'
  BY <1>1, <1>2 DEF TypeOK, ContentionTypeOK, InNotify, InWait, TimeoutNs
<1>4. /\ \A u \in Thread \ {t} : /\ pc'[u] = pc[u] /\ mode'[u] = mode[u] /\ old'[u] = old[u]
                                /\ monitor'[u] = monitor[u] /\ elapsed'[u] = elapsed[u]
      /\ pc'[t] = "idle" /\ monitor'[t] = 0 /\ elapsed'[t] = 0
  BY <1>1 DEF TypeOK
<1>5. CallsAreSound'
  <2>1. platform_state[entry] \in Nat
    BY DEF TypeOK, ContentionTypeOK
  <2> QED
    BY <1>1, <1>4, <2>1 DEF CallsAreSound, InWait
<1>6. PermitsConserved'
  BY <1>1 DEF PermitsConserved, TypeOK
<1>7. CountIsExact'
  <2>1. Counted' = Counted
    BY <1>1, <1>4 DEF Counted
  <2> QED
    BY <1>1, <2>1 DEF CountIsExact
<1>8. \A u \in Thread : pc[u] \in InNotify => pc'[u] = pc[u]
  BY <1>1, <1>4 DEF InNotify
<1>9. MonitorIsFresh'
  <2>1. \A u \in Thread : pc'[u] \in {"add", "platform_wait", "backoff_try"} =>
              pc'[u] = pc[u] /\ old'[u] = old[u] /\ monitor'[u] = monitor[u]
    BY <1>4
  <2> QED
    BY <1>1, <1>2, <1>8, <2>1 DEF MonitorIsFresh, InNotify
<1>10. NoLostPermit'
  BY <1>1, <1>2, <1>8 DEF NoLostPermit
<1> QED
  BY <1>3, <1>5, <1>6, <1>7, <1>9, <1>10

\* __contention_wait counts the thread ...
LEMMA AddPreserves ==
    ASSUME PermitInv, NEW t \in Thread, ContentionWait(t)
    PROVE  PermitInv'
<1> USE SemaphoreAssumption DEF PermitInv, SemaphoreInv
<1>1. /\ pc[t] = "add"
      /\ waiter_count' = [waiter_count EXCEPT ![entry] = @ + 1]
      /\ pc' = [pc EXCEPT ![t] = "platform_wait"]
      /\ UNCHANGED <<platform_state, asleep, a, released, acquired, mode, old, monitor, elapsed>>
  BY DEF ContentionWait, AddWaiter, Goto, countVars, callVars
<1>2. TypeOK'
  BY <1>1 DEF TypeOK, ContentionTypeOK, InNotify, InWait, TimeoutNs
<1>3. /\ \A u \in Thread \ {t} : pc'[u] = pc[u]
      /\ pc'[t] = "platform_wait"
  BY <1>1 DEF TypeOK
<1>4. CallsAreSound'
  BY <1>1, <1>3 DEF CallsAreSound, InWait
<1>5. PermitsConserved'
  BY <1>1 DEF PermitsConserved
<1>6. CountIsExact'
  <2>1. Counted' = Counted \cup {t} /\ t \notin Counted
    BY <1>1, <1>3 DEF Counted
  <2>2. Cardinality(Counted \cup {t}) = Cardinality(Counted) + 1
    BY <2>1, CountedFinite, FS_AddElement
  <2>3. waiter_count'[entry] = waiter_count[entry] + 1
    BY <1>1 DEF TypeOK, ContentionTypeOK
  <2> QED
    BY <2>1, <2>2, <2>3 DEF CountIsExact
<1>7. MonitorIsFresh'
  BY <1>1, <1>3 DEF MonitorIsFresh
<1>8. NoLostPermit'
  BY <1>1, <1>3 DEF NoLostPermit, InNotify
<1> QED
  BY <1>2, <1>4, <1>5, <1>6, <1>7, <1>8

\* ... and when the wait has returned counts it no more.
LEMMA SubPreserves ==
    ASSUME PermitInv, NEW t \in Thread, ContentionWaitReturns(t)
    PROVE  PermitInv'
<1> USE SemaphoreAssumption DEF PermitInv, SemaphoreInv
<1>1. /\ pc[t] = "sub" /\ asleep[t] = Awake
      /\ waiter_count' = [waiter_count EXCEPT ![entry] = @ - 1]
      /\ pc' = [pc EXCEPT ![t] = "poll_load"]
      /\ UNCHANGED <<platform_state, asleep, a, released, acquired, mode, old, monitor, elapsed>>
  BY DEF ContentionWaitReturns, SubWaiter, Goto, countVars, callVars
<1>2. /\ \A u \in Thread \ {t} : pc'[u] = pc[u]
      /\ pc'[t] = "poll_load"
  BY <1>1 DEF TypeOK
<1>3. CountIsExact' /\ waiter_count'[entry] \in Nat
  <2>1. Counted' = Counted \ {t} /\ t \in Counted
    BY <1>1, <1>2 DEF Counted
  <2>2. Cardinality(Counted \ {t}) = Cardinality(Counted) - 1
    BY <2>1, CountedFinite, FS_RemoveElement
  <2>3. waiter_count'[entry] = waiter_count[entry] - 1
    BY <1>1 DEF TypeOK, ContentionTypeOK
  <2>4. Cardinality(Counted \ {t}) \in Nat
    BY CountedFinite, FS_RemoveElement, FS_CardinalityType
  <2> QED
    BY <2>1, <2>2, <2>3, <2>4 DEF CountIsExact
<1>4. TypeOK'
  <2>1. waiter_count' \in [Entry -> Nat]
    BY <1>1, <1>3 DEF TypeOK, ContentionTypeOK
  <2> QED
    BY <1>1, <2>1 DEF TypeOK, ContentionTypeOK, InNotify, InWait, TimeoutNs
<1>5. CallsAreSound'
  BY <1>1, <1>2 DEF CallsAreSound, InWait
<1>6. PermitsConserved'
  BY <1>1 DEF PermitsConserved
<1>7. MonitorIsFresh'
  BY <1>1, <1>2 DEF MonitorIsFresh
<1>8. NoLostPermit'
  BY <1>1, <1>2 DEF NoLostPermit, InNotify
<1> QED
  BY <1>3, <1>4, <1>5, <1>6, <1>7, <1>8

\* kal_task_wait puts the thread to sleep only if its monitor is current.
LEMMA WaitPreserves ==
    ASSUME PermitInv, NEW t \in Thread, PlatformWait(t)
    PROVE  PermitInv'
<1> USE SemaphoreAssumption DEF PermitInv, SemaphoreInv
<1>1. /\ pc[t] = "platform_wait"
      /\ asleep' = [asleep EXCEPT ![t] =
                        IF platform_state[entry] = monitor[t] THEN entry ELSE Awake]
      /\ pc' = [pc EXCEPT ![t] = "sub"]
      /\ UNCHANGED <<waiter_count, platform_state, a, released, acquired, mode, old, monitor,
                     elapsed>>
  BY DEF PlatformWait, kal_task_wait, Goto, countVars, callVars
<1>2. /\ \A u \in Thread \ {t} : pc'[u] = pc[u] /\ asleep'[u] = asleep[u]
      /\ pc'[t] = "sub"
      /\ asleep'[t] = IF platform_state[entry] = monitor[t] THEN entry ELSE Awake
  BY <1>1 DEF TypeOK, ContentionTypeOK
<1>3. CallsAreSound'
  BY <1>1, <1>2 DEF CallsAreSound, InWait
<1>4. TypeOK'
  <2>1. mode[t] \in {"acquire", "for"} /\ RelTime - elapsed[t] >= 0
    BY <1>1 DEF CallsAreSound, InWait, TypeOK
  <2>2. \A u \in Thread : asleep'[u] # Awake =>
           /\ pc'[u] = "sub" /\ mode'[u] \in {"acquire", "for"}
           /\ mode'[u] = "for" => TimeoutNs(u)' >= 0
    BY <1>1, <1>2, <2>1 DEF TypeOK, TimeoutNs
  <2>3. pc' \in [Thread -> InNotify \cup InWait \cup {"idle"}] /\ asleep' \in [Thread -> Entry \cup {Awake}]
    BY <1>1 DEF TypeOK, ContentionTypeOK, InNotify, InWait
  <2> QED
    BY <1>1, <2>2, <2>3 DEF TypeOK, ContentionTypeOK
<1>5. PermitsConserved'
  BY <1>1 DEF PermitsConserved
<1>6. CountIsExact'
  <2>1. Counted' = Counted
    BY <1>1, <1>2 DEF Counted
  <2> QED
    BY <1>1, <2>1 DEF CountIsExact
<1>7. MonitorIsFresh'
  BY <1>1, <1>2 DEF MonitorIsFresh
<1>8. NoLostPermit'
  <2>1. \A u \in Thread : pc[u] \in InNotify => pc'[u] = pc[u]
    BY <1>1, <1>2 DEF InNotify
  <2>2. a > 0 /\ asleep'[t] # Awake => \E w \in Thread : pc[w] = "launder"
    BY <1>1, <1>2 DEF MonitorIsFresh
  <2>3. a > 0 /\ (\E u \in Thread \ {t} : asleep'[u] # Awake) =>
            \E w \in Thread : pc[w] \in InNotify
    BY <1>2 DEF NoLostPermit
  <2> QED
    BY <1>1, <2>1, <2>2, <2>3 DEF NoLostPermit, InNotify
<1> QED
  BY <1>3, <1>4, <1>5, <1>6, <1>7, <1>8

\* A timeout wakes one thread and changes nothing for the others.
LEMMA TimeoutPreserves ==
    ASSUME PermitInv, NEW t \in Thread, WaitTimesOut(t)
    PROVE  PermitInv'
<1> USE SemaphoreAssumption DEF PermitInv, SemaphoreInv
<1>1. /\ asleep' = [asleep EXCEPT ![t] = Awake]
      /\ elapsed' = IF mode[t] = "for" THEN [elapsed EXCEPT ![t] = RelTime] ELSE elapsed
      /\ UNCHANGED <<waiter_count, platform_state, a, released, acquired, pc, mode, old, monitor>>
  BY DEF WaitTimesOut, countVars
<1>2. /\ \A u \in Thread \ {t} : elapsed'[u] = elapsed[u] /\ asleep'[u] = asleep[u]
      /\ elapsed'[t] \in {elapsed[t], RelTime}
      /\ asleep'[t] = Awake
  BY <1>1 DEF TypeOK, ContentionTypeOK
<1>3. CallsAreSound'
  BY <1>1, <1>2 DEF CallsAreSound, InWait
<1>4. TypeOK'
  BY <1>1, <1>2 DEF TypeOK, ContentionTypeOK, TimeoutNs
<1>5. PermitsConserved' /\ MonitorIsFresh'
  BY <1>1 DEF PermitsConserved, MonitorIsFresh
<1>6. CountIsExact'
  BY <1>1 DEF CountIsExact, Counted
<1>7. NoLostPermit'
  BY <1>1, <1>2 DEF NoLostPermit
<1> QED
  BY <1>3, <1>4, <1>5, <1>6, <1>7

\* The invariant is inductive.
LEMMA NextPermitInv == PermitInv /\ [Next]_vars => PermitInv'
<1> SUFFICES ASSUME PermitInv, [Next]_vars PROVE PermitInv'
  OBVIOUS
<1>1. CASE UNCHANGED vars
  <2>1. /\ UNCHANGED <<waiter_count, platform_state, asleep, a, released, acquired, pc, mode,
                       old, monitor, elapsed>>
        /\ UNCHANGED <<contentionVars, countVars>>
    BY <1>1 DEF vars, contentionVars, countVars, callVars
  <2>2. TypeOK' /\ CallsAreSound'
    BY <2>1 DEF PermitInv, SemaphoreInv, TypeOK, ContentionTypeOK, TimeoutNs, CallsAreSound
  <2> QED
    BY <2>1, <2>2, CallStep
<1>2. CASE Next
  <2>1. PICK t \in Thread :
           \/ Step(t) \/ Sample(t) \/ WaitTimesOut(t)
           \/ \E n \in Updates : Release(t, n)
           \/ \E m \in {"acquire", "for", "try"} : Acquire(t, m)
    BY <1>2 DEF Next
  <2> QED
    BY <2>1, CallActions, ReleasePreserves, NotifyPreserves, CountPreserves, WakePreserves,
       TakePreserves, AddPreserves, SubPreserves, WaitPreserves, TimeoutPreserves
    DEF Step
<1> QED
  BY <1>1, <1>2

\* Permits are conserved, timeouts never negative, and the waiter count of the
\* entry exact, however acquires, releases and timeouts interleave.
THEOREM SemaphoreInvariant == Spec => []SemaphoreInv
<1>1. PermitInv => SemaphoreInv
  BY DEF PermitInv
<1> QED
  BY <1>1, InitPermitInv, NextPermitInv, PTL DEF Spec

\* While a permit is to be had nobody sleeps whom no releaser is about to wake,
\* although release is silent unless the counter was zero.
THEOREM PermitsAreAnnounced == Spec => []NoLostPermit
<1>1. PermitInv => NoLostPermit
  BY DEF PermitInv
<1> QED
  BY <1>1, InitPermitInv, NextPermitInv, PTL DEF Spec
============================================================================
