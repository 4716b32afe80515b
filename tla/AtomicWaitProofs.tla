-------------------------- MODULE AtomicWaitProofs --------------------------
(***************************************************************************)
(* Safety of atomic wait and notify for every number of threads, atomics   *)
(* and table entries: the waiter counts are exact, and no change of a      *)
(* value goes unannounced to a thread that sleeps on it.                   *)
(***************************************************************************)
EXTENDS AtomicWait, FiniteSetTheorems, TLAPS

-----------------------------------------------------------------------------
\* The initial state satisfies the invariant.
LEMMA InitWaitInv == Init => WaitInv
<1> SUFFICES ASSUME Init PROVE WaitInv
  OBVIOUS
<1> USE AtomicWaitAssumption DEF Init, ContentionInit
<1>1. TypeOK
  BY DEF TypeOK, ContentionTypeOK
<1>2. CallsAreSound /\ BuffersAreAhead /\ MonitorIsFresh /\ ChangesAreAnnounced
  BY DEF CallsAreSound, BuffersAreAhead, MonitorIsFresh, ChangesAreAnnounced
<1>3. CountIsExact
  <2>1. \A e \in Entry : Counted(e) = {}
    BY DEF Counted
  <2> QED
    BY <2>1, FS_EmptySet DEF CountIsExact
<1> QED
  BY <1>1, <1>2, <1>3 DEF WaitInv

\* There are only so many threads to count.
LEMMA CountedFinite ==
    ASSUME NEW e
    PROVE  IsFiniteSet(Counted(e)) /\ Cardinality(Counted(e)) \in Nat
  BY ContentionAssumption, FS_Subset, FS_CardinalityType DEF Counted

\* Whoever sleeps is counted.
LEMMA SleepersCounted ==
    ASSUME TypeOK, CallsAreSound, CountIsExact, NEW t \in Thread, asleep[t] # Awake
    PROVE  /\ pc[t] = "sub" /\ atom[t] \in Atom /\ EntryOf[atom[t]] \in Entry
           /\ waiter_count[EntryOf[atom[t]]] # 0
<1>1. pc[t] = "sub" /\ atom[t] \in Atom /\ EntryOf[atom[t]] \in Entry
  BY AtomicWaitAssumption DEF TypeOK, CallsAreSound
<1>2. t \in Counted(EntryOf[atom[t]])
  BY <1>1 DEF Counted
<1>3. Cardinality(Counted(EntryOf[atom[t]])) # 0
  BY <1>2, CountedFinite, FS_EmptySet
<1> QED
  BY <1>1, <1>3 DEF CountIsExact

\* A step that leaves the table, the values, the buffers and the sleepers alone,
\* and neither joins nor leaves the counted or the notifying threads, preserves
\* the invariant if it does not go on to sleep on a changed value.
LEMMA CallStep ==
    ASSUME WaitInv, TypeOK', CallsAreSound',
           UNCHANGED <<contentionVars, value, buffer>>,
           \A u \in Thread :
               /\ \A l \in {"launder", "count", "wake", "platform_wait", "sub"} :
                     /\ pc'[u] = l <=> pc[u] = l
                     /\ pc[u] = l => atom'[u] = atom[u] /\ old'[u] = old[u]
               /\ pc'[u] \in {"add", "platform_wait"} =>
                     \/ atom'[u] \in Native
                     \/ value[atom'[u]] = old'[u]
                     \/ /\ pc[u] = pc'[u] /\ atom'[u] = atom[u] /\ old'[u] = old[u]
                        /\ monitor'[u] = monitor[u]
    PROVE  WaitInv'
<1> USE DEF WaitInv, contentionVars
<1>1. CountIsExact'
  <2>1. \A e \in Entry : Counted(e)' = Counted(e)
    BY DEF Counted
  <2> QED
    BY <2>1 DEF CountIsExact
<1>2. BuffersAreAhead'
  BY DEF BuffersAreAhead
<1>3. MonitorIsFresh'
  BY DEF MonitorIsFresh
<1>4. ChangesAreAnnounced'
  <2>1. \A u \in Thread : pc[u] \in InNotify =>
           pc'[u] \in InNotify /\ atom'[u] = atom[u]
    BY DEF InNotify
  <2>2. \A x : Announced(x) => Announced(x)'
    BY <2>1 DEF Announced
  <2>3. \A u \in Thread : asleep[u] # Awake => atom'[u] = atom[u] /\ old'[u] = old[u]
    BY DEF TypeOK
  <2> QED
    BY <2>2, <2>3 DEF ChangesAreAnnounced, Reliable
<1> QED
  BY <1>1, <1>2, <1>3, <1>4

\* A waiter sees memory, and not its own buffer, in an atomic that uses the table.
LEMMA LoadsFromMemory ==
    ASSUME BuffersAreAhead, NEW t \in Thread, pc[t] # "launder", atom[t] \notin Native
    PROVE  Load(t, atom[t]) = value[atom[t]]
  BY DEF BuffersAreAhead, Load

\* The steps of wait before the waiter is counted.
LEMMA CallActions ==
    ASSUME WaitInv, NEW t \in Thread,
           \/ \E x \in Atom, v \in Value : Wait(t, x, v)
           \/ Poll(t) \/ MonitorGlobal(t) \/ BackoffLoad(t)
    PROVE  WaitInv'
<1> DEFINE Quiet(u) ==
               /\ \A l \in {"launder", "count", "wake", "platform_wait", "sub"} :
                     /\ pc'[u] = l <=> pc[u] = l
                     /\ pc[u] = l => atom'[u] = atom[u] /\ old'[u] = old[u]
               /\ pc'[u] \in {"add", "platform_wait"} =>
                     \/ atom'[u] \in Native
                     \/ value[atom'[u]] = old'[u]
                     \/ /\ pc[u] = pc'[u] /\ atom'[u] = atom[u] /\ old'[u] = old[u]
                        /\ monitor'[u] = monitor[u]
<1>0. ASSUME TypeOK', CallsAreSound', UNCHANGED <<contentionVars, value, buffer>>,
             \A u \in Thread : Quiet(u)
      PROVE  WaitInv'
  BY <1>0, CallStep
<1>1. TypeOK /\ CallsAreSound /\ BuffersAreAhead
  BY DEF WaitInv
<1> USE <1>1, AtomicWaitAssumption
    DEF TypeOK, ContentionTypeOK, CallsAreSound, InWait, InNotify, Goto, GotoIf, Return,
        contentionVars, waitVars
<1>2. ASSUME NEW x \in Atom, NEW v \in Value, Wait(t, x, v) PROVE WaitInv'
  <2> USE <1>2 DEF Wait
  <2>1. TypeOK'
    OBVIOUS
  <2>3. CallsAreSound'
    OBVIOUS
  <2>2. UNCHANGED <<contentionVars, value, buffer>> /\ \A u \in Thread : Quiet(u)
    OBVIOUS
  <2> QED
    BY <1>0, <2>1, <2>2, <2>3
<1>3. ASSUME Poll(t) PROVE WaitInv'
  <2> USE <1>3 DEF Poll
  <2>1. TypeOK'
    <3>1. CASE Goto(t, "backoff")
      BY <3>1
    <3>2. CASE Return(t)
      BY <3>2
    <3> QED
      BY <3>1, <3>2
  <2>3. CallsAreSound'
    OBVIOUS
  <2>2. UNCHANGED <<contentionVars, value, buffer>> /\ \A u \in Thread : Quiet(u)
    OBVIOUS
  <2> QED
    BY <1>0, <2>1, <2>2, <2>3
<1>4. ASSUME MonitorGlobal(t) PROVE WaitInv'
  <2> USE <1>4 DEF MonitorGlobal
  <2>1. TypeOK' /\ CallsAreSound'
    OBVIOUS
  <2>2. UNCHANGED <<contentionVars, value, buffer>> /\ \A u \in Thread : Quiet(u)
    OBVIOUS
  <2> QED
    BY <1>0, <2>1, <2>2
<1>5. ASSUME BackoffLoad(t) PROVE WaitInv'
  <2> USE <1>5 DEF BackoffLoad
  <2>1. TypeOK' /\ CallsAreSound'
    <3>1. TypeOK'
      <4>1. CASE Goto(t, "add")
        BY <4>1
      <4>2. CASE Return(t)
        BY <4>2
      <4> QED
        BY <4>1, <4>2
    <3>2. CallsAreSound'
      OBVIOUS
    <3> QED
      BY <3>1, <3>2
  <2>2. UNCHANGED <<contentionVars, value, buffer>> /\ \A u \in Thread : Quiet(u)
    BY LoadsFromMemory
  <2> QED
    BY <1>0, <2>1, <2>2
<1> QED
  BY <1>2, <1>3, <1>4, <1>5

-----------------------------------------------------------------------------
\* A step after which every notifier still is one, for the same atomic, keeps the
\* announcements that were being made.
LEMMA StillAnnounced ==
    ASSUME \A u \in Thread : pc[u] \in InNotify => pc'[u] \in InNotify /\ atom'[u] = atom[u],
           NEW x, Announced(x)
    PROVE  Announced(x)'
  BY DEF Announced

\* __contention_wait counts the thread ...
LEMMA AddPreserves ==
    ASSUME WaitInv, NEW t \in Thread, ContentionWait(t)
    PROVE  WaitInv'
<1> USE AtomicWaitAssumption DEF WaitInv
<1>1. /\ pc[t] = "add" /\ atom[t] \in Atom /\ EntryOf[atom[t]] \in Entry
      /\ waiter_count' = [waiter_count EXCEPT ![EntryOf[atom[t]]] = @ + 1]
      /\ pc' = [pc EXCEPT ![t] = "platform_wait"]
      /\ UNCHANGED <<platform_state, asleep, value, buffer, atom, old, monitor, stores>>
  BY DEF ContentionWait, AddWaiter, Goto, waitVars, CallsAreSound
<1>2. /\ \A u \in Thread \ {t} : pc'[u] = pc[u]
      /\ pc'[t] = "platform_wait"
  BY <1>1 DEF TypeOK
<1>3. TypeOK'
  BY <1>1 DEF TypeOK, ContentionTypeOK, InNotify, InWait
<1>4. CallsAreSound'
  BY <1>1, <1>2 DEF CallsAreSound
<1>5. CountIsExact'
  <2> PICK f \in Entry : f = EntryOf[atom[t]]
    BY <1>1
  <2>1. Counted(f)' = Counted(f) \cup {t} /\ t \notin Counted(f)
    BY <1>1, <1>2 DEF Counted
  <2>2. \A e \in Entry \ {f} : Counted(e)' = Counted(e)
    BY <1>1, <1>2 DEF Counted
  <2>3. Cardinality(Counted(f) \cup {t}) = Cardinality(Counted(f)) + 1
    BY <2>1, CountedFinite, FS_AddElement
  <2>4. /\ waiter_count'[f] = waiter_count[f] + 1
        /\ \A e \in Entry \ {f} : waiter_count'[e] = waiter_count[e]
    BY <1>1 DEF TypeOK, ContentionTypeOK
  <2> QED
    BY <2>1, <2>2, <2>3, <2>4 DEF CountIsExact
<1>6. BuffersAreAhead'
  BY <1>1, <1>2 DEF BuffersAreAhead
<1>7. MonitorIsFresh'
  BY <1>1, <1>2 DEF MonitorIsFresh
<1>8. ChangesAreAnnounced'
  <2>1. \A u \in Thread : pc[u] \in InNotify => pc'[u] \in InNotify /\ atom'[u] = atom[u]
    BY <1>1, <1>2 DEF InNotify
  <2> QED
    BY <1>1, <2>1, StillAnnounced DEF ChangesAreAnnounced, Reliable
<1> QED
  BY <1>3, <1>4, <1>5, <1>6, <1>7, <1>8

\* ... and when the wait has returned counts it no more.
LEMMA SubPreserves ==
    ASSUME WaitInv, NEW t \in Thread, ContentionWaitReturns(t)
    PROVE  WaitInv'
<1> USE AtomicWaitAssumption DEF WaitInv
<1>1. /\ pc[t] = "sub" /\ atom[t] \in Atom /\ EntryOf[atom[t]] \in Entry /\ asleep[t] = Awake
      /\ waiter_count' = [waiter_count EXCEPT ![EntryOf[atom[t]]] = @ - 1]
      /\ pc' = [pc EXCEPT ![t] = "poll"]
      /\ UNCHANGED <<platform_state, asleep, value, buffer, atom, old, monitor, stores>>
  BY DEF ContentionWaitReturns, SubWaiter, Goto, waitVars, CallsAreSound
<1>2. /\ \A u \in Thread \ {t} : pc'[u] = pc[u]
      /\ pc'[t] = "poll"
  BY <1>1 DEF TypeOK
<1> PICK f \in Entry : f = EntryOf[atom[t]]
  BY <1>1
<1>3. CountIsExact' /\ waiter_count'[f] \in Nat
  <2>1. Counted(f)' = Counted(f) \ {t} /\ t \in Counted(f)
    BY <1>1, <1>2 DEF Counted
  <2>2. \A e \in Entry \ {f} : Counted(e)' = Counted(e)
    BY <1>1, <1>2 DEF Counted
  <2>3. /\ Cardinality(Counted(f) \ {t}) = Cardinality(Counted(f)) - 1
        /\ Cardinality(Counted(f) \ {t}) \in Nat
    <3> PICK S : S = Counted(f)
      OBVIOUS
    <3>1. IsFiniteSet(S) /\ t \in S
      BY <2>1, CountedFinite
    <3>2. IsFiniteSet(S \ {t}) /\ Cardinality(S \ {t}) = Cardinality(S) - 1
      BY <3>1, FS_RemoveElement
    <3> QED
      BY <3>2, FS_CardinalityType
  <2>4. /\ waiter_count'[f] = waiter_count[f] - 1
        /\ \A e \in Entry \ {f} : waiter_count'[e] = waiter_count[e]
    BY <1>1 DEF TypeOK, ContentionTypeOK
  <2>5. waiter_count'[f] = Cardinality(Counted(f)') /\ waiter_count'[f] \in Nat
    <3>1. waiter_count[f] = Cardinality(Counted(f))
      BY DEF CountIsExact
    <3> QED
      BY <2>1, <2>3, <2>4, <3>1
  <2>6. \A e \in Entry \ {f} : waiter_count'[e] = Cardinality(Counted(e)')
    BY <2>2, <2>4 DEF CountIsExact
  <2> QED
    BY <2>5, <2>6 DEF CountIsExact
<1>4. TypeOK'
  <2>1. waiter_count' \in [Entry -> Nat]
    BY <1>1, <1>3 DEF TypeOK, ContentionTypeOK
  <2> QED
    BY <1>1, <2>1 DEF TypeOK, ContentionTypeOK, InNotify, InWait
<1>5. CallsAreSound'
  BY <1>1, <1>2 DEF CallsAreSound
<1>6. BuffersAreAhead'
  BY <1>1, <1>2 DEF BuffersAreAhead
<1>7. MonitorIsFresh'
  BY <1>1, <1>2 DEF MonitorIsFresh
<1>8. ChangesAreAnnounced'
  <2>1. \A u \in Thread : pc[u] \in InNotify => pc'[u] \in InNotify /\ atom'[u] = atom[u]
    BY <1>1, <1>2 DEF InNotify
  <2> QED
    BY <1>1, <2>1, StillAnnounced DEF ChangesAreAnnounced, Reliable
<1> QED
  BY <1>3, <1>4, <1>5, <1>6, <1>7, <1>8

\* kal_task_wait puts the thread to sleep only on what it last saw.
LEMMA WaitPreserves ==
    ASSUME WaitInv, NEW t \in Thread, PlatformWait(t)
    PROVE  WaitInv'
<1> USE AtomicWaitAssumption DEF WaitInv
<1> DEFINE Sleeps == IF atom[t] \in Native THEN value[atom[t]] = old[t]
                     ELSE platform_state[EntryOf[atom[t]]] = monitor[t]
<1>1. /\ pc[t] = "platform_wait" /\ atom[t] \in Atom
      /\ asleep' = [asleep EXCEPT ![t] = IF Sleeps THEN WordOf(atom[t]) ELSE Awake]
      /\ pc' = [pc EXCEPT ![t] = "sub"]
      /\ UNCHANGED <<waiter_count, platform_state, value, buffer, atom, old, monitor, stores>>
  BY DEF PlatformWait, kal_task_wait, Goto, waitVars, CallsAreSound, WordOf
<1>2. /\ \A u \in Thread \ {t} : pc'[u] = pc[u] /\ asleep'[u] = asleep[u]
      /\ pc'[t] = "sub" /\ asleep'[t] = IF Sleeps THEN WordOf(atom[t]) ELSE Awake
  BY <1>1 DEF TypeOK, ContentionTypeOK
<1>3. WordOf(atom[t]) \in Word
  BY <1>1 DEF WordOf, Word
<1>4. TypeOK'
  BY <1>1, <1>2, <1>3 DEF TypeOK, ContentionTypeOK, InNotify, InWait
<1>5. CallsAreSound'
  BY <1>1, <1>2 DEF CallsAreSound
<1>6. CountIsExact'
  <2>1. \A e \in Entry : Counted(e)' = Counted(e)
    BY <1>1, <1>2 DEF Counted
  <2> QED
    BY <1>1, <2>1 DEF CountIsExact
<1>7. BuffersAreAhead'
  BY <1>1, <1>2 DEF BuffersAreAhead
<1>8. MonitorIsFresh'
  BY <1>1, <1>2 DEF MonitorIsFresh
<1>9. ChangesAreAnnounced'
  <2>1. \A u \in Thread : pc[u] \in InNotify => pc'[u] \in InNotify /\ atom'[u] = atom[u]
    BY <1>1, <1>2 DEF InNotify
  <2>2. Sleeps /\ value[atom[t]] # old[t] => Announced(atom[t])
    BY <1>1 DEF MonitorIsFresh, Announced, InNotify
  <2>3. \A u \in Thread : asleep'[u] # Awake /\ value[atom[u]] # old[u] /\ Reliable(atom[u])
                             => Announced(atom[u])
    BY <1>2, <2>2 DEF ChangesAreAnnounced
  <2> HIDE DEF Sleeps
  <2> QED
    BY <1>1, <2>1, <2>3, StillAnnounced DEF ChangesAreAnnounced, Reliable
<1> QED
  BY <1>4, <1>5, <1>6, <1>7, <1>8, <1>9

\* A timeout wakes one thread and changes nothing for the others.
LEMMA TimeoutPreserves ==
    ASSUME WaitInv, NEW t \in Thread, WaitTimesOut(t)
    PROVE  WaitInv'
<1> USE AtomicWaitAssumption DEF WaitInv
<1>1. /\ asleep' = [asleep EXCEPT ![t] = Awake]
      /\ UNCHANGED <<waiter_count, platform_state, value, buffer, pc, atom, old, monitor, stores>>
  BY DEF WaitTimesOut, waitVars
<1>2. asleep'[t] = Awake /\ \A u \in Thread \ {t} : asleep'[u] = asleep[u]
  BY <1>1 DEF TypeOK, ContentionTypeOK
<1>3. TypeOK'
  BY <1>1 DEF TypeOK, ContentionTypeOK
<1>4. CallsAreSound' /\ BuffersAreAhead' /\ MonitorIsFresh'
  BY <1>1 DEF CallsAreSound, BuffersAreAhead, MonitorIsFresh
<1>5. CountIsExact'
  <2>1. \A e \in Entry : Counted(e)' = Counted(e)
    BY <1>1 DEF Counted
  <2> QED
    BY <1>1, <2>1 DEF CountIsExact
<1>6. ChangesAreAnnounced'
  <2>1. \A u \in Thread : pc[u] \in InNotify => pc'[u] \in InNotify /\ atom'[u] = atom[u]
    BY <1>1
  <2> QED
    BY <1>1, <1>2, <2>1, StillAnnounced DEF ChangesAreAnnounced, Reliable
<1> QED
  BY <1>3, <1>4, <1>5, <1>6

\* Whoever changes a value is a notifier from then on.
LEMMA StorePreserves ==
    ASSUME WaitInv, NEW t \in Thread, NEW x \in Atom, NEW v \in Value, NEW o \in Orders[x],
           Store(t, x, v, o)
    PROVE  WaitInv'
<1> USE AtomicWaitAssumption DEF WaitInv
<1>1. /\ pc[t] = "idle" /\ buffer[t] = NoStore
      /\ stores' = [stores EXCEPT ![t] = @ + 1] /\ stores[t] < MaxStores
      /\ atom' = [atom EXCEPT ![t] = x]
      /\ pc' = [pc EXCEPT ![t] = IF x \in Native THEN "count" ELSE "launder"]
      /\ UNCHANGED <<waiter_count, platform_state, asleep, old, monitor>>
  BY DEF Store, contentionVars, waitVars
<1>2. \/ value' = [value EXCEPT ![x] = v] /\ UNCHANGED buffer
      \/ /\ buffer' = [buffer EXCEPT ![t] = [atom |-> x, value |-> v]] /\ UNCHANGED value
         /\ Orders[x] # {"seq_cst"}
  BY DEF Store
<1>3. /\ \A u \in Thread \ {t} : pc'[u] = pc[u] /\ atom'[u] = atom[u] /\ buffer'[u] = buffer[u]
      /\ pc'[t] = IF x \in Native THEN "count" ELSE "launder"
      /\ atom'[t] = x /\ buffer'[t] \in {NoStore, [atom |-> x, value |-> v]}
      /\ \A y \in Atom \ {x} : value'[y] = value[y]
  BY <1>1, <1>2 DEF TypeOK
<1>4. \A u \in Thread : /\ asleep[u] # Awake => u # t /\ atom[u] \in Atom /\ pc[u] = "sub"
                        /\ pc[u] # "idle" => u # t
  BY <1>1, SleepersCounted
<1>5. TypeOK'
  <2>1. value' \in [Atom -> Value]
    BY <1>2 DEF TypeOK
  <2>2. buffer' \in [Thread -> [atom : Atom, value : Value] \cup {NoStore}]
    BY <1>2 DEF TypeOK
  <2>3. pc' \in [Thread -> InWait \cup InNotify \cup {"idle"}]
    BY <1>1 DEF TypeOK, InNotify
  <2>4. atom' \in [Thread -> Atom \cup {NoAtom}] /\ stores' \in [Thread -> 0 .. MaxStores]
    BY <1>1 DEF TypeOK
  <2>5. \A u \in Thread : asleep'[u] # Awake => pc'[u] = "sub" /\ asleep'[u] = WordOf(atom'[u])
    BY <1>1, <1>3, <1>4 DEF TypeOK
  <2> QED
    BY <1>1, <2>1, <2>2, <2>3, <2>4, <2>5 DEF TypeOK, ContentionTypeOK
<1>6. CallsAreSound'
  BY <1>1, <1>3 DEF CallsAreSound
<1>7. CountIsExact'
  <2>1. \A e \in Entry : Counted(e)' = Counted(e)
    BY <1>1, <1>3 DEF Counted
  <2> QED
    BY <1>1, <2>1 DEF CountIsExact
<1>8. BuffersAreAhead'
  <2>1. buffer'[t] # NoStore => buffer'[t].atom = x /\ Orders[x] # {"seq_cst"}
    BY <1>1, <1>2, <1>3
  <2>2. x \notin Native => pc'[t] = "launder" /\ atom'[t] = x
    BY <1>3
  <2>3. ASSUME NEW u \in Thread \ {t}, buffer'[u] # NoStore
        PROVE  /\ Orders[buffer'[u].atom] # {"seq_cst"}
               /\ buffer'[u].atom \notin Native => pc'[u] = "launder" /\ atom'[u] = buffer'[u].atom
    BY <1>3, <2>3 DEF BuffersAreAhead
  <2> QED
    BY <2>1, <2>2, <2>3 DEF BuffersAreAhead
<1>9. MonitorIsFresh'
  <2> SUFFICES ASSUME NEW u \in Thread, pc'[u] \in {"add", "platform_wait"},
                      atom'[u] \notin Native, value'[atom'[u]] # old'[u],
                      monitor'[u] = platform_state'[EntryOf[atom'[u]]]
               PROVE  \E w \in Thread : pc'[w] = "launder" /\ EntryOf[atom'[w]] = EntryOf[atom'[u]]
    BY DEF MonitorIsFresh
  <2>1. u # t /\ pc[u] = pc'[u] /\ atom'[u] = atom[u] /\ atom[u] \in Atom
    BY <1>3 DEF CallsAreSound
  <2>2. CASE atom[u] = x
    BY <1>3, <2>1, <2>2
  <2>3. CASE atom[u] # x
    <3>1. PICK w \in Thread : pc[w] = "launder" /\ EntryOf[atom[w]] = EntryOf[atom[u]]
      BY <1>1, <1>3, <2>1, <2>3 DEF MonitorIsFresh
    <3> QED
      BY <1>1, <1>3, <2>1, <3>1
  <2> QED
    BY <2>2, <2>3
<1>10. ChangesAreAnnounced'
  <2>1. \A u \in Thread : pc[u] \in InNotify => pc'[u] \in InNotify /\ atom'[u] = atom[u]
    BY <1>1, <1>3 DEF InNotify
  <2>2. Announced(x)'
    BY <1>3 DEF Announced, InNotify
  <2>3. \A u \in Thread : asleep[u] # Awake => atom'[u] = atom[u] /\ atom[u] \in Atom
    BY <1>3, <1>4
  <2> QED
    BY <1>1, <1>3, <2>1, <2>2, <2>3, StillAnnounced DEF ChangesAreAnnounced, Reliable
<1> QED
  BY <1>5, <1>6, <1>7, <1>8, <1>9, <1>10

\* A buffered store reaches memory while its thread is still a notifier, unless
\* it is one to a native atomic in another order than seq_cst.
LEMMA DrainPreserves ==
    ASSUME WaitInv, NEW t \in Thread, Drain(t)
    PROVE  WaitInv'
<1> USE AtomicWaitAssumption DEF WaitInv
<1>1. /\ buffer[t] # NoStore
      /\ value' = [value EXCEPT ![buffer[t].atom] = buffer[t].value]
      /\ buffer' = [buffer EXCEPT ![t] = NoStore]
      /\ UNCHANGED <<waiter_count, platform_state, asleep, pc, atom, old, monitor, stores>>
  BY DEF Drain, contentionVars, waitVars
<1>2. buffer[t].atom \in Atom /\ buffer[t].value \in Value
  BY <1>1 DEF TypeOK
<1> PICK x \in Atom : x = buffer[t].atom
  BY <1>2
<1>3. \A y \in Atom \ {x} : value'[y] = value[y]
  BY <1>1 DEF TypeOK
<1>4. /\ Orders[x] # {"seq_cst"}
      /\ x \notin Native => pc[t] = "launder" /\ atom[t] = x
  BY <1>1 DEF BuffersAreAhead
<1>5. TypeOK'
  BY <1>1, <1>2 DEF TypeOK, ContentionTypeOK
<1>6. CallsAreSound' /\ BuffersAreAhead'
  BY <1>1 DEF CallsAreSound, BuffersAreAhead, TypeOK
<1>7. CountIsExact'
  <2>1. \A e \in Entry : Counted(e)' = Counted(e)
    BY <1>1 DEF Counted
  <2> QED
    BY <1>1, <2>1 DEF CountIsExact
<1>8. MonitorIsFresh'
  <2>1. \A u \in Thread : pc[u] \in {"add", "platform_wait"} => atom[u] \in Atom
    BY DEF CallsAreSound
  <2> QED
    BY <1>1, <1>3, <1>4, <2>1 DEF MonitorIsFresh
<1>9. ChangesAreAnnounced'
  <2>1. \A u \in Thread : pc[u] \in InNotify => pc'[u] \in InNotify /\ atom'[u] = atom[u]
    BY <1>1
  <2>2. x \notin Native => Announced(x)
    BY <1>4 DEF Announced, InNotify
  <2>3. \A u \in Thread : asleep[u] # Awake => atom[u] \in Atom
    BY SleepersCounted
  <2>4. \A u \in Thread : asleep[u] # Awake /\ value'[atom[u]] # old[u] /\ Reliable(atom[u])
                             => Announced(atom[u])
    BY <1>3, <1>4, <2>2, <2>3 DEF ChangesAreAnnounced, Reliable
  <2> QED
    BY <1>1, <2>1, <2>4, StillAnnounced DEF ChangesAreAnnounced, Reliable
<1> QED
  BY <1>5, <1>6, <1>7, <1>8, <1>9

\* A changed platform state keeps everybody who monitors it from sleeping.
LEMMA NotifyPreserves ==
    ASSUME WaitInv, NEW t \in Thread, NotifyGlobal(t)
    PROVE  WaitInv'
<1> USE AtomicWaitAssumption DEF WaitInv
<1>1. /\ pc[t] = "launder" /\ buffer[t] = NoStore /\ atom[t] \in Atom /\ EntryOf[atom[t]] \in Entry
      /\ platform_state' = [platform_state EXCEPT ![EntryOf[atom[t]]] = @ + 1]
      /\ pc' = [pc EXCEPT ![t] = "count"]
      /\ UNCHANGED <<waiter_count, asleep, value, buffer, atom, old, monitor, stores>>
  BY DEF NotifyGlobal, Launder, Goto, waitVars, CallsAreSound
<1> PICK f \in Entry : f = EntryOf[atom[t]]
  BY <1>1
<1>2. /\ \A u \in Thread \ {t} : pc'[u] = pc[u]
      /\ pc'[t] = "count"
      /\ platform_state'[f] = platform_state[f] + 1
      /\ \A e \in Entry \ {f} : platform_state'[e] = platform_state[e]
      /\ \A e \in Entry : platform_state[e] \in Nat
  BY <1>1 DEF TypeOK, ContentionTypeOK
<1>3. TypeOK'
  BY <1>1 DEF TypeOK, ContentionTypeOK, InNotify, InWait
<1>4. \A u \in Thread : pc[u] \in {"load", "add", "platform_wait", "sub"} /\ atom[u] \notin Native =>
         /\ EntryOf[atom[u]] \in Entry /\ monitor[u] \in Nat
         /\ monitor[u] <= platform_state[EntryOf[atom[u]]]
  BY DEF CallsAreSound, TypeOK
<1>5. CallsAreSound'
  <2>1. \A u \in Thread :
           pc'[u] \in {"load", "add", "platform_wait", "sub"} /\ atom[u] \notin Native =>
               monitor[u] <= platform_state'[EntryOf[atom[u]]]
    BY <1>2, <1>4
  <2> QED
    BY <1>1, <1>2, <2>1 DEF CallsAreSound
<1>6. CountIsExact'
  <2>1. \A e \in Entry : Counted(e)' = Counted(e)
    BY <1>1, <1>2 DEF Counted
  <2> QED
    BY <1>1, <2>1 DEF CountIsExact
<1>7. BuffersAreAhead'
  BY <1>1, <1>2 DEF BuffersAreAhead
<1>8. MonitorIsFresh'
  <2> SUFFICES ASSUME NEW u \in Thread, pc'[u] \in {"add", "platform_wait"},
                      atom'[u] \notin Native, value'[atom'[u]] # old'[u],
                      monitor'[u] = platform_state'[EntryOf[atom'[u]]]
               PROVE  \E w \in Thread : pc'[w] = "launder" /\ EntryOf[atom'[w]] = EntryOf[atom'[u]]
    BY DEF MonitorIsFresh
  <2>1. pc[u] = pc'[u] /\ EntryOf[atom[u]] \in Entry /\ EntryOf[atom[u]] # f
    BY <1>1, <1>2, <1>4
  <2>2. PICK w \in Thread : pc[w] = "launder" /\ EntryOf[atom[w]] = EntryOf[atom[u]]
    BY <1>1, <1>2, <2>1 DEF MonitorIsFresh
  <2> QED
    BY <1>1, <1>2, <2>1, <2>2
<1>9. ChangesAreAnnounced'
  <2>1. \A u \in Thread : pc[u] \in InNotify => pc'[u] \in InNotify /\ atom'[u] = atom[u]
    BY <1>1, <1>2 DEF InNotify
  <2> QED
    BY <1>1, <2>1, StillAnnounced DEF ChangesAreAnnounced, Reliable
<1> QED
  BY <1>3, <1>5, <1>6, <1>7, <1>8, <1>9

\* Announcements that are not a thread's own survive the end of its call.
LEMMA OthersAnnounce ==
    ASSUME NEW t \in Thread,
           \A u \in Thread \ {t} : pc'[u] = pc[u] /\ atom'[u] = atom[u],
           NEW x, Announced(x),
           ~(IF x \in Native THEN atom[t] = x ELSE EntryOf[atom[t]] = EntryOf[x])
    PROVE  Announced(x)'
  BY DEF Announced

\* A notifier leaves without waking anybody only if its entry counts nobody.
LEMMA CountPreserves ==
    ASSUME WaitInv, NEW t \in Thread, ContentionNotify(t)
    PROVE  WaitInv'
<1> USE AtomicWaitAssumption DEF WaitInv
<1>1. /\ pc[t] = "count" /\ atom[t] \in Atom
      /\ UNCHANGED <<waiter_count, platform_state, asleep, value, buffer, stores>>
  BY DEF ContentionNotify, contentionVars, CallsAreSound
<1>2. \/ /\ waiter_count[EntryOf[atom[t]]] # 0
         /\ pc' = [pc EXCEPT ![t] = "wake"] /\ UNCHANGED <<atom, old, monitor>>
      \/ /\ waiter_count[EntryOf[atom[t]]] = 0
         /\ pc' = [pc EXCEPT ![t] = "idle"]
         /\ atom' = [atom EXCEPT ![t] = NoAtom]
         /\ old' = [old EXCEPT ![t] = Initial]
         /\ monitor' = [monitor EXCEPT ![t] = 0]
  BY DEF ContentionNotify, GotoIf, Goto, Return, HasWaiters, waitVars
<1>3. /\ \A u \in Thread \ {t} : /\ pc'[u] = pc[u] /\ atom'[u] = atom[u]
                                /\ old'[u] = old[u] /\ monitor'[u] = monitor[u]
      /\ pc'[t] \in {"wake", "idle"} /\ (pc'[t] = "wake" => atom'[t] = atom[t])
      /\ pc'[t] = "idle" => waiter_count[EntryOf[atom[t]]] = 0
  BY <1>2 DEF TypeOK
<1>4. \A u \in Thread : asleep[u] # Awake => /\ u # t /\ atom[u] \in Atom
                                             /\ waiter_count[EntryOf[atom[u]]] # 0
  BY <1>1, SleepersCounted
<1>5. TypeOK'
  <2>1. /\ pc' \in [Thread -> InWait \cup InNotify \cup {"idle"}]
        /\ atom' \in [Thread -> Atom \cup {NoAtom}]
        /\ old' \in [Thread -> Value] /\ monitor' \in [Thread -> Nat]
    BY <1>2 DEF TypeOK, InNotify
  <2>2. \A u \in Thread : asleep'[u] # Awake => pc'[u] = "sub" /\ asleep'[u] = WordOf(atom'[u])
    BY <1>1, <1>3, <1>4 DEF TypeOK
  <2> QED
    BY <1>1, <2>1, <2>2 DEF TypeOK, ContentionTypeOK
<1>6. CallsAreSound'
  BY <1>1, <1>3 DEF CallsAreSound
<1>7. CountIsExact'
  <2>1. \A e \in Entry : Counted(e)' = Counted(e)
    BY <1>1, <1>3 DEF Counted
  <2> QED
    BY <1>1, <2>1 DEF CountIsExact
<1>8. BuffersAreAhead'
  BY <1>1, <1>3 DEF BuffersAreAhead
<1>9. MonitorIsFresh'
  <2> SUFFICES ASSUME NEW u \in Thread, pc'[u] \in {"add", "platform_wait"},
                      atom'[u] \notin Native, value'[atom'[u]] # old'[u],
                      monitor'[u] = platform_state'[EntryOf[atom'[u]]]
               PROVE  \E w \in Thread : pc'[w] = "launder" /\ EntryOf[atom'[w]] = EntryOf[atom'[u]]
    BY DEF MonitorIsFresh
  <2>1. u # t
    BY <1>3
  <2>2. PICK w \in Thread : pc[w] = "launder" /\ EntryOf[atom[w]] = EntryOf[atom[u]]
    BY <1>1, <1>3, <2>1 DEF MonitorIsFresh
  <2> QED
    BY <1>1, <1>3, <2>1, <2>2
<1>10. ChangesAreAnnounced'
  <2> SUFFICES ASSUME NEW u \in Thread, asleep[u] # Awake, value[atom[u]] # old[u],
                      Reliable(atom[u])
               PROVE  Announced(atom[u])'
    BY <1>1, <1>3, <1>4 DEF ChangesAreAnnounced, Reliable
  <2>1. Announced(atom[u]) /\ atom'[u] = atom[u]
    BY <1>3, <1>4 DEF ChangesAreAnnounced
  <2>2. CASE pc'[t] = "wake"
    <3>1. \A w \in Thread : pc[w] \in InNotify => pc'[w] \in InNotify /\ atom'[w] = atom[w]
      BY <1>3, <2>2 DEF InNotify
    <3> QED
      BY <2>1, <3>1, StillAnnounced
  <2>3. CASE pc'[t] = "idle"
    <3>1. EntryOf[atom[t]] # EntryOf[atom[u]]
      BY <1>3, <1>4, <2>3
    <3>2. \A w \in Thread \ {t} : pc'[w] = pc[w] /\ atom'[w] = atom[w]
      BY <1>3
    <3> QED
      BY <2>1, <3>1, <3>2, OthersAnnounce
  <2> QED
    BY <1>3, <2>2, <2>3
<1> QED
  BY <1>5, <1>6, <1>7, <1>8, <1>9, <1>10

\* A wakeup reaches every thread that its notifier had announced a change to:
\* notify_one is taken for notify_all on the table, whose words are shared.
LEMMA WakePreserves ==
    ASSUME WaitInv, NEW t \in Thread, PlatformWake(t)
    PROVE  WaitInv'
<1> USE AtomicWaitAssumption DEF WaitInv
<1>1. /\ pc[t] = "wake" /\ atom[t] \in Atom
      /\ pc' = [pc EXCEPT ![t] = "idle"]
      /\ atom' = [atom EXCEPT ![t] = NoAtom]
      /\ old' = [old EXCEPT ![t] = Initial]
      /\ monitor' = [monitor EXCEPT ![t] = 0]
      /\ UNCHANGED <<waiter_count, platform_state, value, buffer, stores>>
  BY DEF PlatformWake, Return, CallsAreSound
<1>2. PICK kind \in Kinds[atom[t]] : kal_task_wake(WordOf(atom[t]), WakesOne(atom[t], kind))
  BY DEF PlatformWake
<1>3. /\ asleep' \in [Thread -> Word \cup {Awake}]
      /\ \A u \in Thread : asleep'[u] \in {asleep[u], Awake}
      /\ ~WakesOne(atom[t], kind) =>
             \A u \in Thread : asleep[u] = WordOf(atom[t]) => asleep'[u] = Awake
  BY <1>2 DEF kal_task_wake, TypeOK, ContentionTypeOK
<1>4. /\ \A u \in Thread \ {t} : /\ pc'[u] = pc[u] /\ atom'[u] = atom[u]
                                /\ old'[u] = old[u] /\ monitor'[u] = monitor[u]
      /\ pc'[t] = "idle"
  BY <1>1 DEF TypeOK
<1>5. \A u \in Thread : asleep'[u] # Awake => /\ u # t /\ atom[u] \in Atom
                                              /\ asleep'[u] = asleep[u] /\ asleep[u] # Awake
                                              /\ asleep[u] = WordOf(atom[u])
  BY <1>1, <1>3, SleepersCounted DEF TypeOK
<1>6. TypeOK'
  <2>1. /\ pc' \in [Thread -> InWait \cup InNotify \cup {"idle"}]
        /\ atom' \in [Thread -> Atom \cup {NoAtom}]
        /\ old' \in [Thread -> Value] /\ monitor' \in [Thread -> Nat]
    BY <1>1 DEF TypeOK
  <2>2. \A u \in Thread : asleep'[u] # Awake => pc'[u] = "sub" /\ asleep'[u] = WordOf(atom'[u])
    BY <1>4, <1>5 DEF TypeOK
  <2> QED
    BY <1>1, <1>3, <2>1, <2>2 DEF TypeOK, ContentionTypeOK
<1>7. CallsAreSound'
  BY <1>1, <1>4 DEF CallsAreSound
<1>8. CountIsExact'
  <2>1. \A e \in Entry : Counted(e)' = Counted(e)
    BY <1>1, <1>4 DEF Counted
  <2> QED
    BY <1>1, <2>1 DEF CountIsExact
<1>9. BuffersAreAhead'
  BY <1>1, <1>4 DEF BuffersAreAhead
<1>10. MonitorIsFresh'
  <2> SUFFICES ASSUME NEW u \in Thread, pc'[u] \in {"add", "platform_wait"},
                      atom'[u] \notin Native, value'[atom'[u]] # old'[u],
                      monitor'[u] = platform_state'[EntryOf[atom'[u]]]
               PROVE  \E w \in Thread : pc'[w] = "launder" /\ EntryOf[atom'[w]] = EntryOf[atom'[u]]
    BY DEF MonitorIsFresh
  <2>1. u # t
    BY <1>4
  <2>2. PICK w \in Thread : pc[w] = "launder" /\ EntryOf[atom[w]] = EntryOf[atom[u]]
    BY <1>1, <1>4, <2>1 DEF MonitorIsFresh
  <2> QED
    BY <1>1, <1>4, <2>1, <2>2
<1>11. ChangesAreAnnounced'
  <2> SUFFICES ASSUME NEW u \in Thread, asleep'[u] # Awake, value[atom[u]] # old[u],
                      Reliable(atom[u])
               PROVE  Announced(atom[u])'
    BY <1>1, <1>4, <1>5 DEF ChangesAreAnnounced, Reliable
  <2>1. Announced(atom[u]) /\ u # t /\ atom[u] \in Atom
    BY <1>5 DEF ChangesAreAnnounced
  <2>2. ~(IF atom[u] \in Native THEN atom[t] = atom[u]
          ELSE EntryOf[atom[t]] = EntryOf[atom[u]])
    <3>1. ASSUME atom[u] \in Native, atom[t] = atom[u] PROVE FALSE
      <4>1. kind = "all"
        BY <3>1 DEF Reliable
      <4>2. ~WakesOne(atom[t], kind) /\ asleep[u] = WordOf(atom[t])
        BY <1>5, <3>1, <4>1 DEF WakesOne
      <4> QED
        BY <1>3, <4>2
    <3>2. ASSUME atom[u] \notin Native, EntryOf[atom[t]] = EntryOf[atom[u]] PROVE FALSE
      <4>1. atom[t] \notin Native
        BY <1>1, <2>1, <3>2
      <4>2. ~WakesOne(atom[t], kind) /\ asleep[u] = WordOf(atom[t])
        BY <1>5, <3>2, <4>1 DEF WakesOne, WordOf
      <4> QED
        BY <1>3, <4>2
    <3> QED
      BY <3>1, <3>2
  <2>3. \A w \in Thread \ {t} : pc'[w] = pc[w] /\ atom'[w] = atom[w]
    BY <1>4
  <2> QED
    BY <2>1, <2>2, <2>3, OthersAnnounce
<1> QED
  BY <1>6, <1>7, <1>8, <1>9, <1>10, <1>11

\* The invariant is inductive.
LEMMA NextWaitInv == WaitInv /\ [Next]_vars => WaitInv'
<1> SUFFICES ASSUME WaitInv, [Next]_vars PROVE WaitInv'
  OBVIOUS
<1>1. CASE UNCHANGED vars
  <2>1. /\ UNCHANGED <<waiter_count, platform_state, asleep, pc, atom, old, monitor, stores>>
        /\ UNCHANGED <<contentionVars, value, buffer>>
    BY <1>1 DEF vars, contentionVars, waitVars
  <2>2. TypeOK' /\ CallsAreSound'
    BY <2>1 DEF WaitInv, TypeOK, ContentionTypeOK, CallsAreSound
  <2> QED
    BY <2>1, <2>2, CallStep
<1>2. CASE Next
  <2>1. PICK t \in Thread :
            \/ Step(t) \/ Drain(t) \/ WaitTimesOut(t)
            \/ \E x \in Atom, v \in Value :
                  \/ Wait(t, x, v)
                  \/ \E o \in Orders[x] : Store(t, x, v, o)
    BY <1>2 DEF Next
  <2> QED
    BY <2>1, CallActions, AddPreserves, SubPreserves, WaitPreserves, TimeoutPreserves,
       StorePreserves, DrainPreserves, NotifyPreserves, CountPreserves, WakePreserves
    DEF Step
<1> QED
  BY <1>1, <1>2

\* The waiter counts are exact and every sleeper sleeps on its atomic's own word,
\* whatever hashes to the same entry and however stores are buffered.
THEOREM WaitInvariant == Spec => []WaitInv
  BY InitWaitInv, NextWaitInv, PTL DEF Spec

\* No thread sleeps on a value that memory no longer holds unless somebody is on
\* the way to wake it: for every atomic that uses the table, and for native ones
\* stored to in seq_cst order and notified with notify_all.
THEOREM WakeupsAreNotLost == Spec => []NoLostWakeup
<1>1. WaitInv => NoLostWakeup
  BY DEF WaitInv, ChangesAreAnnounced, Announced, NoLostWakeup
<1> QED
  BY <1>1, WaitInvariant, PTL
=============================================================================
