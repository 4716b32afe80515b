----------------------------- MODULE SyncProofs -----------------------------
(***************************************************************************)
(* Safety of the objects of Sync for every number of threads, flags,       *)
(* pointers, waiters, providers and sections.  ObjectsAreSound and         *)
(* OneResult are inductive together; what is said of lifetimes and of the  *)
(* future's state follows from them, and call_once implements OnceInit.    *)
(* CacheInv is the inductive invariant of the FDE cache, BarrierInv that   *)
(* of the barrier.                                                         *)
(***************************************************************************)
EXTENDS Sync, FiniteSetTheorems, SequenceTheorems, WellFoundedInduction, TLAPS

-----------------------------------------------------------------------------
\* The objects' modules count with the same operator.
LEMMA Counting ==
    ASSUME NEW S
    PROVE  /\ SM!Cardinality(S) = Cardinality(S)
           /\ SC!Cardinality(S) = Cardinality(S)
           /\ FU!Cardinality(S) = Cardinality(S)
  BY DEF Cardinality, SM!Cardinality, SC!Cardinality, FU!Cardinality

\* Sets of threads are finite, so that they can be counted.
LEMMA ThreadSets ==
    ASSUME NEW S \in SUBSET Thread
    PROVE  /\ IsFiniteSet(S) /\ Cardinality(S) \in Nat
           /\ Cardinality(S) = 0 <=> S = {}
           /\ Cardinality(S) = 1 <=> \E x : S = {x}
<1>1. IsFiniteSet(S)
  BY SyncAssumption, FS_Subset
<1> QED
  BY <1>1, FS_CardinalityType, FS_EmptySet, FS_Singleton

\* One thread more, one less.
LEMMA OneMore ==
    ASSUME NEW S \in SUBSET Thread, NEW x
    PROVE  /\ x \notin S => Cardinality(S \cup {x}) = Cardinality(S) + 1
           /\ x \in S => Cardinality(S \ {x}) = Cardinality(S) - 1
  BY ThreadSets, FS_AddElement, FS_RemoveElement

-----------------------------------------------------------------------------
\* The word of the shared_mutex and the sets that it stands for: at most one
\* writer behind gate 1, and the readers.
Behind == SM!In({"owns", "drain", "wait2"})
Sharing == SM!In({"shares"})
Owning == SM!In({"owns"})

WordAgrees == /\ IF sm_entered THEN \E x : Behind = {x} ELSE Behind = {}
              /\ sm_readers = Cardinality(Sharing)
              /\ Owning # {} => Sharing = {}

\* SharedExclusion without the counting of writers.
LEMMA WordMeans == (SM!SharedExclusion <=> WordAgrees) /\ (SM!SharedExclusion' <=> WordAgrees')
<1>1. Behind \in SUBSET Thread /\ Behind' \in SUBSET Thread
  BY DEF Behind, SM!In
<1>2. /\ Cardinality(Behind) = 1 <=> \E x : Behind = {x}
      /\ Cardinality(Behind) = 0 <=> Behind = {}
      /\ Cardinality(Behind') = 1 <=> \E x : Behind' = {x}
      /\ Cardinality(Behind') = 0 <=> Behind' = {}
  BY <1>1, ThreadSets
<1>3. /\ SM!Cardinality(Behind) = Cardinality(Behind)
      /\ SM!Cardinality(Behind') = Cardinality(Behind')
      /\ SM!Cardinality(Sharing) = Cardinality(Sharing)
      /\ SM!Cardinality(Sharing') = Cardinality(Sharing')
  BY Counting
<1>4. SM!SharedExclusion <=> WordAgrees
  BY <1>2, <1>3 DEF SM!SharedExclusion, WordAgrees, Behind, Sharing, Owning
<1>5. SM!SharedExclusion' <=> WordAgrees'
  BY <1>2, <1>3 DEF SM!SharedExclusion, WordAgrees, Behind, Sharing, Owning
<1> QED
  BY <1>4, <1>5

LEMMA SharedMutexStep ==
    ASSUME SM!TypeOK, SM!SharedExclusion, SM!Next
    PROVE  SM!TypeOK' /\ SM!SharedExclusion'
<1>0. /\ WordAgrees /\ IF sm_entered THEN \E x : Behind = {x} ELSE Behind = {}
      /\ sm_readers = Cardinality(Sharing)
      /\ Owning # {} => Sharing = {}
      /\ IsFiniteSet(Sharing) /\ Cardinality(Sharing) \in Nat
      /\ sm_readers = 0 <=> Sharing = {}
  <2>1. IsFiniteSet(Sharing) /\ Cardinality(Sharing) \in Nat /\ (Cardinality(Sharing) = 0 <=> Sharing = {})
    BY ThreadSets DEF Sharing, SM!In
  <2> QED
    BY <2>1, WordMeans DEF WordAgrees
<1> SUFFICES ASSUME NEW t \in Thread,
                    \/ SM!Step(t)
                    \/ SM!Call(t) \/ SM!try_lock(t) \/ (sm_pc[t] = "idle" /\ SM!LockSharedEnters(t))
                    \/ SM!Spurious(t) \/ SM!TimesOut(t)
             PROVE  SM!TypeOK' /\ SM!SharedExclusion'
  BY DEF SM!Next
<1>T. /\ sm_entered \in BOOLEAN /\ sm_readers \in 0 .. n_readers /\ n_readers \in Nat \ {0}
      /\ sm_timed \subseteq Thread /\ sm_pc \in [Thread -> SM!Places]
  BY SyncAssumption DEF SM!TypeOK
<1> DEFINE Result == SM!TypeOK' /\ SM!SharedExclusion'
\* Nobody passes a gate.
<1>1. ASSUME \/ SM!Call(t) \/ SM!LockWaits(t) \/ SM!LockSharedWaits(t) \/ SM!Spurious(t)
             \/ SM!NotifyAll(t) \/ SM!NotifyOne(t)
             \/ SM!TimesOut(t) /\ sm_pc[t] # "wait2"
      PROVE  Result
  <2>1. SM!TypeOK'
    <3>1. CASE SM!Call(t)
      BY <1>T, <3>1 DEF SM!TypeOK, SM!Places, SM!Call, SM!CallLock, SM!CallLockShared, SM!Goto
    <3>2. CASE SM!LockWaits(t) \/ SM!LockSharedWaits(t) \/ SM!Spurious(t)
      BY <1>T, <3>2 DEF SM!TypeOK, SM!Places, SM!LockWaits, SM!LockSharedWaits, SM!Spurious, SM!Goto,
                        SM!Asleep, SM!AtGate1, SM!Woken
    <3>3. CASE SM!NotifyAll(t) \/ (SM!TimesOut(t) /\ sm_pc[t] # "wait2")
      BY <1>T, <3>3 DEF SM!TypeOK, SM!Places, SM!NotifyAll, SM!TimesOut, SM!PcAfterNotifyAll, SM!Goto,
                        SM!AtGate1, SM!Woken
    <3>4. CASE SM!NotifyOne(t)
      BY <1>T, <3>4 DEF SM!TypeOK, SM!Places, SM!NotifyOne, SM!Goto, SM!AtGate1, SM!Woken
    <3> QED
      BY <1>1, <3>1, <3>2, <3>3, <3>4
  <2>2. UNCHANGED <<sm_entered, sm_readers>>
    BY <1>1 DEF SM!Call, SM!CallLock, SM!CallLockShared, SM!LockWaits, SM!LockSharedWaits,
                SM!Spurious, SM!NotifyAll, SM!NotifyOne, SM!TimesOut
  <2>3. \A u \in Thread : /\ sm_pc'[u] \in {"owns", "drain", "wait2"} <=>
                                 sm_pc[u] \in {"owns", "drain", "wait2"}
                          /\ sm_pc'[u] = "shares" <=> sm_pc[u] = "shares"
                          /\ sm_pc'[u] = "owns" => sm_pc[u] = "owns"
    <3>1. CASE SM!Call(t)
      BY <1>T, <3>1 DEF SM!Call, SM!CallLock, SM!CallLockShared, SM!Goto
    <3>2. CASE SM!LockWaits(t) \/ SM!LockSharedWaits(t) \/ SM!Spurious(t)
      BY <1>T, <3>2 DEF SM!LockWaits, SM!LockSharedWaits, SM!Spurious, SM!Goto,
                        SM!Asleep, SM!AtGate1, SM!Woken
    <3>3. CASE SM!NotifyAll(t) \/ (SM!TimesOut(t) /\ sm_pc[t] # "wait2")
      BY <1>T, <3>3 DEF SM!NotifyAll, SM!TimesOut, SM!PcAfterNotifyAll, SM!Goto,
                        SM!AtGate1, SM!Woken
    <3>4. CASE SM!NotifyOne(t)
      BY <1>T, <3>4 DEF SM!NotifyOne, SM!Goto, SM!AtGate1, SM!Woken
    <3> QED
      BY <1>1, <3>1, <3>2, <3>3, <3>4
  <2>4. UNCHANGED <<Behind, Sharing>> /\ Owning' \subseteq Owning
    BY <2>3 DEF Behind, Sharing, Owning, SM!In
  <2> QED
    BY <2>1, <2>2, <2>4, <1>0, WordMeans DEF WordAgrees
\* A writer enters.
<1>2. ASSUME SM!LockEnters(t) \/ SM!try_lock(t) PROVE Result
  <2>1. /\ ~sm_entered /\ sm_entered' = TRUE /\ sm_readers' = sm_readers /\ sm_timed' = sm_timed
        /\ sm_pc[t] \in {"lock", "idle"}
        /\ sm_pc' = [sm_pc EXCEPT ![t] = IF sm_readers = 0 THEN "owns" ELSE "wait2"]
    BY <1>2 DEF SM!LockEnters, SM!try_lock, SM!Goto
  <2>2. SM!TypeOK'
    BY <1>T, <2>1 DEF SM!TypeOK, SM!Places
  <2>3. /\ Behind = {} /\ Behind' = {t}
        /\ Sharing' = Sharing
        /\ Owning' # {} => sm_readers = 0
    <3>1. Behind = {}
      BY <1>0, <2>1
    <3> QED
      BY <1>T, <2>1, <3>1 DEF Behind, Sharing, Owning, SM!In
  <2> QED
    BY <1>0, <2>1, <2>2, <2>3, WordMeans DEF WordAgrees
<1>3. ASSUME SM!LockDrains(t) PROVE Result
  <2>1. /\ UNCHANGED <<sm_entered, sm_readers, sm_timed>> /\ sm_pc[t] = "drain"
        /\ sm_pc' = [sm_pc EXCEPT ![t] = IF sm_readers = 0 THEN "owns" ELSE "wait2"]
    BY <1>3 DEF SM!LockDrains, SM!Goto
  <2>2. SM!TypeOK'
    BY <1>T, <2>1 DEF SM!TypeOK, SM!Places
  <2>3. Behind' = Behind /\ Sharing' = Sharing /\ (sm_readers # 0 => Owning' = Owning)
    BY <1>T, <2>1 DEF Behind, Sharing, Owning, SM!In
  <2> QED
    BY <1>0, <2>1, <2>2, <2>3, WordMeans DEF WordAgrees
\* The writer leaves, or gives up.
<1>4. ASSUME SM!unlock(t) \/ (SM!TimesOut(t) /\ sm_pc[t] = "wait2") PROVE Result
  <2>1. /\ sm_pc[t] \in {"owns", "wait2"} /\ sm_entered' = FALSE
        /\ sm_readers' = IF sm_pc[t] = "owns" THEN 0 ELSE sm_readers
        /\ sm_timed' = sm_timed
        /\ sm_pc' \in [Thread -> SM!Places]
        /\ sm_pc'[t] \in {"notify1_all", "idle"}
        /\ \A u \in Thread \ {t} :
              \/ sm_pc'[u] = sm_pc[u]
              \/ sm_pc[u] \in SM!AtGate1 /\ sm_pc'[u] \in {"lock", "lock_shared"}
    <3>1. CASE SM!unlock(t)
      BY <1>T, <3>1 DEF SM!unlock, SM!Goto, SM!NotifiesAfterUnlock, SM!Places
    <3>2. CASE SM!TimesOut(t) /\ sm_pc[t] = "wait2"
      BY <1>T, <3>2 DEF SM!TimesOut, SM!PcAfterGivingUp, SM!PcAfterNotifyAll, SM!AtGate1, SM!Woken,
                        SM!Places
    <3> QED
      BY <1>4, <3>1, <3>2
  <2>2. SM!TypeOK'
    <3>1. sm_readers' \in 0 .. n_readers
      BY <1>T, <2>1
    <3> QED
      BY <1>T, <2>1, <3>1 DEF SM!TypeOK
  <2>3. Behind = {t}
    <3>1. t \in Behind
      BY <2>1 DEF Behind, SM!In
    <3> QED
      BY <1>0, <3>1
  <2>4. /\ Behind' = {} /\ Owning' = {}
        /\ Sharing' = Sharing
    BY <2>1, <2>3 DEF Behind, Sharing, Owning, SM!In, SM!AtGate1
  <2>5. sm_pc[t] = "owns" => Sharing = {}
    BY <1>0 DEF Owning, SM!In
  <2> QED
    BY <1>0, <2>1, <2>2, <2>4, <2>5, WordMeans DEF WordAgrees
\* A reader enters.
<1>5. ASSUME SM!LockSharedEnters(t) PROVE Result
  <2>1. /\ ~sm_entered /\ sm_readers # n_readers /\ sm_pc[t] \in {"lock_shared", "idle"}
        /\ sm_readers' = sm_readers + 1 /\ UNCHANGED <<sm_entered, sm_timed>>
        /\ sm_pc' = [sm_pc EXCEPT ![t] = "shares"]
    BY <1>5 DEF SM!LockSharedEnters, SM!SharedMayEnter, SM!Goto
  <2>2. SM!TypeOK'
    BY <1>T, <2>1 DEF SM!TypeOK, SM!Places
  <2>3. Behind' = Behind /\ Sharing' = Sharing \cup {t} /\ t \notin Sharing /\ Owning' = Owning
    BY <1>T, <2>1 DEF Behind, Sharing, Owning, SM!In
  <2>4. Owning = {}
    BY <1>0, <2>1 DEF Behind, Owning, SM!In
  <2>5. sm_readers' = Cardinality(Sharing')
    BY <1>0, <2>1, <2>3, FS_AddElement
  <2> QED
    BY <1>0, <2>1, <2>2, <2>3, <2>4, <2>5, WordMeans DEF WordAgrees
\* A reader leaves.
<1>6. ASSUME SM!unlock_shared(t) PROVE Result
  <2>1. /\ sm_pc[t] = "shares" /\ t \in Sharing
        /\ sm_readers' = sm_readers - 1 /\ UNCHANGED <<sm_entered, sm_timed>>
        /\ sm_pc' = [sm_pc EXCEPT ![t] = sm_pc'[t]]
        /\ sm_pc'[t] \in {"idle", "notify1_one", "notify2_one"}
    BY <1>6, <1>T DEF SM!unlock_shared, SM!Goto, SM!NotifiesAfterUnlockShared, Sharing, SM!In
  <2>2. Cardinality(Sharing) # 0
    BY <1>0, <2>1, FS_EmptySet
  <2>3. SM!TypeOK'
    BY <1>0, <1>T, <2>1, <2>2 DEF SM!TypeOK, SM!Places
  <2>4. Behind' = Behind /\ Sharing' = Sharing \ {t} /\ Owning' = Owning
    BY <1>T, <2>1 DEF Behind, Sharing, Owning, SM!In
  <2>5. sm_readers' = Cardinality(Sharing')
    BY <1>0, <2>1, <2>4, FS_RemoveElement
  <2> QED
    BY <1>0, <2>1, <2>3, <2>4, <2>5, WordMeans DEF WordAgrees
<1> QED
  BY <1>1, <1>2, <1>3, <1>4, <1>5, <1>6 DEF SM!Step

-----------------------------------------------------------------------------
\* NoSleeperAtOpenGate, thread by thread.
Gate2Attended ==
    \A u \in Thread : sm_pc[u] = "wait2" /\ sm_readers = 0 =>
        \E w \in Thread : sm_pc[w] = "notify2_one"

Gate1Attended ==
    ~sm_entered /\ sm_readers # n_readers =>
        \A u, v \in Thread : sm_pc[u] \in SM!AtGate1 /\ sm_pc[v] \in SM!AtGate1 =>
            \/ \E w \in Thread : sm_pc[w] = "notify1_all"
            \/ u = v /\ \E w \in Thread : sm_pc[w] = "notify1_one"

LEMMA OnlyOne ==
    ASSUME NEW S
    PROVE  (\E x : S = {x}) <=> S # {} /\ \A u, v \in S : u = v
<1>1. ASSUME S # {}, \A u, v \in S : u = v PROVE \E x : S = {x}
  <2> PICK x \in S : TRUE
    BY <1>1
  <2> S = {x}
    BY <1>1
  <2> QED
    OBVIOUS
<1>2. (\E x : S = {x}) => S # {} /\ \A u, v \in S : u = v
  OBVIOUS
<1> QED
  BY <1>1, <1>2

LEMMA GatesMean ==
    /\ SM!NoSleeperAtOpenGate <=> Gate1Attended /\ Gate2Attended
    /\ SM!NoSleeperAtOpenGate' <=> Gate1Attended' /\ Gate2Attended'
<1> DEFINE G == SM!In(SM!AtGate1)
<1>1. /\ G = {u \in Thread : sm_pc[u] \in SM!AtGate1}
      /\ G' = {u \in Thread : sm_pc'[u] \in SM!AtGate1}
  BY DEF SM!In, SM!AtGate1
<1>2. /\ SM!Cardinality(G) = 1 <=> \E x : G = {x}
      /\ SM!Cardinality(G') = 1 <=> \E x : G' = {x}
  <2>1. G \in SUBSET Thread /\ G' \in SUBSET Thread
    BY <1>1
  <2>2. /\ Cardinality(G) = 1 <=> \E x : G = {x}
        /\ Cardinality(G') = 1 <=> \E x : G' = {x}
    BY <2>1, ThreadSets
  <2>3. SM!Cardinality(G) = Cardinality(G) /\ SM!Cardinality(G') = Cardinality(G')
    BY Counting
  <2> QED
    BY <2>2, <2>3
<1> HIDE DEF G
<1>3. /\ (\E x : G = {x}) <=> G # {} /\ \A u, v \in G : u = v
      /\ (\E x : G' = {x}) <=> G' # {} /\ \A u, v \in G' : u = v
  BY OnlyOne
<1>4. SM!NoSleeperAtOpenGate <=>
          /\ SM!In({"wait2"}) # {} /\ sm_readers = 0 => SM!In({"notify2_one"}) # {}
          /\ G # {} /\ ~sm_entered /\ sm_readers # n_readers =>
                 \/ SM!In({"notify1_all"}) # {}
                 \/ (\E x : G = {x}) /\ SM!In({"notify1_one"}) # {}
  BY <1>2 DEF SM!NoSleeperAtOpenGate, G
<1>5. SM!NoSleeperAtOpenGate' <=>
          /\ SM!In({"wait2"})' # {} /\ sm_readers' = 0 => SM!In({"notify2_one"})' # {}
          /\ G' # {} /\ ~sm_entered' /\ sm_readers' # n_readers =>
                 \/ SM!In({"notify1_all"})' # {}
                 \/ (\E x : G' = {x}) /\ SM!In({"notify1_one"})' # {}
  BY <1>2 DEF SM!NoSleeperAtOpenGate, G
<1>6. SM!NoSleeperAtOpenGate <=> Gate1Attended /\ Gate2Attended
  BY <1>1, <1>3, <1>4 DEF SM!In, Gate1Attended, Gate2Attended
<1>7. SM!NoSleeperAtOpenGate' <=> Gate1Attended' /\ Gate2Attended'
  BY <1>1, <1>3, <1>5 DEF SM!In, Gate1Attended, Gate2Attended
<1> QED
  BY <1>6, <1>7

\* With at most one thread more than the word can count, at most one waits for
\* a reader to leave.
LEMMA OneAtTheLimit ==
    ASSUME Cardinality(Thread) <= n_readers + 1, SM!TypeOK, SM!SharedExclusion,
           sm_readers = n_readers
    PROVE  \A u, v \in Thread : sm_pc[u] \in SM!AtGate1 /\ sm_pc[v] \in SM!AtGate1 => u = v
<1> SUFFICES ASSUME NEW u \in Thread, NEW v \in Thread, u # v,
                    sm_pc[u] \in SM!AtGate1, sm_pc[v] \in SM!AtGate1
             PROVE  FALSE
  OBVIOUS
<1>1. sm_readers = Cardinality(Sharing) /\ n_readers \in Nat
  BY WordMeans, SyncAssumption DEF WordAgrees
<1>2. Sharing \in SUBSET Thread /\ u \notin Sharing /\ v \notin Sharing
  BY DEF Sharing, SM!In, SM!AtGate1
<1>3. Cardinality((Sharing \cup {u}) \cup {v}) = Cardinality(Sharing) + 2
  <2>1. IsFiniteSet(Sharing) /\ Cardinality(Sharing) \in Nat
    BY <1>2, ThreadSets
  <2> PICK S : S = Sharing \cup {u}
    OBVIOUS
  <2>2. IsFiniteSet(S) /\ Cardinality(S) = Cardinality(Sharing) + 1
    BY <1>2, <2>1, FS_AddElement
  <2>3. v \notin S
    BY <1>2
  <2>4. Cardinality(S \cup {v}) = Cardinality(S) + 1
    BY <2>2, <2>3, FS_AddElement
  <2> QED
    BY <2>1, <2>2, <2>4
<1>4. Cardinality((Sharing \cup {u}) \cup {v}) <= Cardinality(Thread) /\ Cardinality(Thread) \in Nat
  <2> PICK S : S = (Sharing \cup {u}) \cup {v}
    OBVIOUS
  <2>1. S \in SUBSET Thread /\ IsFiniteSet(Thread)
    BY <1>2, SyncAssumption
  <2>2. Cardinality(S) <= Cardinality(Thread) /\ Cardinality(Thread) \in Nat
    BY <2>1, FS_Subset, FS_CardinalityType
  <2> QED
    BY <2>2
<1> QED
  BY <1>1, <1>3, <1>4

LEMMA GatesStep ==
    ASSUME Cardinality(Thread) <= n_readers + 1, SM!TypeOK, SM!SharedExclusion,
           SM!NoSleeperAtOpenGate, SM!Next
    PROVE  SM!NoSleeperAtOpenGate'
<1>0. Gate1Attended /\ Gate2Attended
  BY GatesMean
<1> SUFFICES Gate1Attended' /\ Gate2Attended'
  BY GatesMean
<1>L. sm_readers = n_readers =>
         \A u, v \in Thread : sm_pc[u] \in SM!AtGate1 /\ sm_pc[v] \in SM!AtGate1 => u = v
  BY OneAtTheLimit
<1>W. /\ \A u \in Thread : sm_pc[u] \in {"owns", "drain", "wait2"} => sm_entered
      /\ \A u, v \in Thread : (sm_pc[u] \in {"owns", "drain", "wait2"} /\
                                  sm_pc[v] \in {"owns", "drain", "wait2"}) => u = v
  <2>1. IF sm_entered THEN \E x : Behind = {x} ELSE Behind = {}
    BY WordMeans DEF WordAgrees
  <2>2. \A u \in Thread : sm_pc[u] \in {"owns", "drain", "wait2"} => u \in Behind
    BY DEF Behind, SM!In
  <2> QED
    BY <2>1, <2>2
<1>T. /\ sm_entered \in BOOLEAN /\ sm_readers \in 0 .. n_readers /\ n_readers \in Nat \ {0}
      /\ sm_pc \in [Thread -> SM!Places]
  BY SyncAssumption DEF SM!TypeOK
<1> PICK t \in Thread : \/ SM!Step(t)
                        \/ SM!Call(t) \/ SM!try_lock(t)
                        \/ (sm_pc[t] = "idle" /\ SM!LockSharedEnters(t))
                        \/ SM!Spurious(t) \/ SM!TimesOut(t)
  BY DEF SM!Next
<1> DEFINE Attended == Gate1Attended' /\ Gate2Attended'
<1> USE DEF SM!AtGate1
\* Nobody comes to an open gate, and nobody who will notify goes away.
<1>1. ASSUME SM!Call(t) \/ SM!LockWaits(t) \/ SM!LockSharedWaits(t) \/ SM!LockSharedEnters(t)
      PROVE  Attended
  <2>1. CASE SM!LockWaits(t) \/ SM!LockSharedWaits(t)
    BY <1>0, <1>T, <2>1 DEF SM!LockWaits, SM!LockSharedWaits, SM!SharedMayEnter, SM!Goto,
                            Gate1Attended, Gate2Attended
  <2>2. CASE SM!Call(t)
    BY <1>0, <1>T, <2>2 DEF SM!Call, SM!CallLock, SM!CallLockShared, SM!Goto,
                            Gate1Attended, Gate2Attended
  <2>3. CASE SM!LockSharedEnters(t)
    BY <1>0, <1>T, <1>W, <2>3 DEF SM!LockSharedEnters, SM!SharedMayEnter, SM!Goto,
                                  Gate1Attended, Gate2Attended
  <2> QED
    BY <1>1, <2>1, <2>2, <2>3
<1>2. ASSUME SM!LockEnters(t) \/ SM!try_lock(t) \/ SM!LockDrains(t)
      PROVE  Attended
  BY <1>0, <1>T, <1>W, <1>2 DEF SM!LockEnters, SM!try_lock, SM!LockDrains, SM!Goto,
                                Gate1Attended, Gate2Attended
<1>3. ASSUME SM!unlock(t)
      PROVE  Attended
  BY <1>0, <1>T, <1>W, <1>3 DEF SM!unlock, SM!NotifiesAfterUnlock, SM!Goto,
                                Gate1Attended, Gate2Attended
<1>4. ASSUME SM!unlock_shared(t)
      PROVE  Attended
  <2>1. /\ sm_pc[t] = "shares" /\ sm_readers' = sm_readers - 1 /\ sm_entered' = sm_entered
        /\ \A u \in Thread \ {t} : sm_pc'[u] = sm_pc[u]
        /\ sm_entered /\ sm_readers - 1 = 0 => sm_pc'[t] = "notify2_one"
        /\ ~sm_entered /\ sm_readers = n_readers => sm_pc'[t] = "notify1_one"
        /\ sm_pc'[t] \in {"idle", "notify1_one", "notify2_one"}
    BY <1>T, <1>4 DEF SM!unlock_shared, SM!NotifiesAfterUnlockShared, SM!Goto
  <2>2. Gate2Attended'
    BY <1>W, <2>1 DEF Gate2Attended
  <2>3. Gate1Attended'
    BY <1>0, <1>L, <2>1 DEF Gate1Attended
  <2> QED
    BY <2>2, <2>3
<1>5. ASSUME SM!NotifyAll(t)
      PROVE  Attended
  BY <1>0, <1>T, <1>5 DEF SM!NotifyAll, SM!PcAfterNotifyAll, SM!Woken,
                          Gate1Attended, Gate2Attended
<1>6. ASSUME SM!NotifyOne(t)
      PROVE  Attended
  <2>1. UNCHANGED <<sm_entered, sm_readers>>
    BY <1>6 DEF SM!NotifyOne
  <2>2. CASE sm_pc[t] = "notify1_one"
    <3>1. CASE sm_pc' = [sm_pc EXCEPT ![t] = "idle"] /\ \A u \in Thread : sm_pc[u] \notin SM!AtGate1
      BY <1>0, <1>T, <2>1, <2>2, <3>1 DEF Gate1Attended, Gate2Attended
    <3>2. ASSUME NEW u \in Thread, sm_pc[u] \in SM!AtGate1,
                 sm_pc' = [sm_pc EXCEPT ![t] = "idle", ![u] = SM!Woken(@)]
          PROVE  Attended
      <4>1. /\ sm_pc'[u] \in {"lock", "lock_shared"} /\ sm_pc'[t] = "idle" /\ u # t
            /\ \A v \in Thread \ {t, u} : sm_pc'[v] = sm_pc[v]
        BY <1>T, <2>2, <3>2 DEF SM!Woken
      <4>2. Gate2Attended'
        BY <1>0, <2>1, <2>2, <3>2, <4>1 DEF Gate2Attended
      <4>3. \A v \in Thread : sm_pc'[v] \in SM!AtGate1 => sm_pc[v] \in SM!AtGate1 /\ v # u
        BY <4>1
      <4>4. \A w \in Thread : sm_pc[w] = "notify1_all" => sm_pc'[w] = "notify1_all"
        BY <2>2, <3>2, <4>1
      <4>5. Gate1Attended'
        BY <1>0, <2>1, <3>2, <4>3, <4>4 DEF Gate1Attended
      <4> QED
        BY <4>2, <4>5
    <3> QED
      BY <1>6, <2>2, <3>1, <3>2 DEF SM!NotifyOne, SM!Goto
  <2>3. CASE sm_pc[t] = "notify2_one"
    <3>1. CASE sm_pc' = [sm_pc EXCEPT ![t] = "idle"] /\ \A u \in Thread : sm_pc[u] # "wait2"
      BY <1>0, <1>T, <2>1, <2>3, <3>1 DEF Gate1Attended, Gate2Attended
    <3>2. ASSUME NEW u \in Thread, sm_pc[u] = "wait2",
                 sm_pc' = [sm_pc EXCEPT ![t] = "idle", ![u] = SM!Woken(@)]
          PROVE  Attended
      <4>1. /\ sm_pc'[u] = "drain" /\ sm_pc'[t] = "idle" /\ u # t
            /\ \A v \in Thread \ {t, u} : sm_pc'[v] = sm_pc[v]
        BY <1>T, <2>3, <3>2 DEF SM!Woken
      <4> QED
        BY <1>0, <1>W, <2>1, <2>3, <3>2, <4>1 DEF Gate1Attended, Gate2Attended
    <3> QED
      BY <1>6, <2>3, <3>1, <3>2 DEF SM!NotifyOne, SM!Goto
  <2> QED
    BY <1>6, <2>2, <2>3 DEF SM!NotifyOne
<1>7. ASSUME SM!Spurious(t)
      PROVE  Attended
  <2>1. /\ UNCHANGED <<sm_entered, sm_readers>> /\ sm_pc[t] \in {"wait1", "waitS", "wait2"}
        /\ sm_pc'[t] \in {"lock", "lock_shared", "drain"}
        /\ \A u \in Thread \ {t} : sm_pc'[u] = sm_pc[u]
    BY <1>T, <1>7 DEF SM!Spurious, SM!Asleep, SM!Woken, SM!Goto
  <2> QED
    BY <1>0, <2>1 DEF Gate1Attended, Gate2Attended
<1>8. ASSUME SM!TimesOut(t)
      PROVE  Attended
  <2>1. CASE sm_pc[t] = "wait2"
    BY <1>T, <1>W, <1>8, <2>1 DEF SM!TimesOut, SM!PcAfterGivingUp, SM!PcAfterNotifyAll, SM!Woken,
                                  Gate1Attended, Gate2Attended
  <2>2. CASE sm_pc[t] # "wait2"
    BY <1>0, <1>T, <1>8, <2>2 DEF SM!TimesOut, SM!SharedMayEnter, SM!Goto,
                                  Gate1Attended, Gate2Attended
  <2> QED
    BY <2>1, <2>2
<1> QED
  BY <1>1, <1>2, <1>3, <1>4, <1>5, <1>6, <1>7, <1>8 DEF SM!Step
-----------------------------------------------------------------------------
\* One step of call_once keeps flags, running functions and answers in agreement.
LEMMA CallOnceStep ==
    ASSUME CO!TypeOK, CO!FlagsAgree, CO!Next
    PROVE  CO!TypeOK' /\ CO!FlagsAgree'
<1>1. /\ \A f \in Flag : co_flag[f] = "Pending" <=> \E t \in Thread : co_pc[t] = "func" /\ co_on[t] = f
      /\ \A t, u \in Thread : co_pc[t] = "func" /\ co_pc[u] = "func" /\ co_on[t] = co_on[u] => t = u
      /\ \A t \in Thread : co_pc[t] = "broadcast" => co_flag[co_on[t]] = "Complete"
      /\ \A t \in Thread : \A f \in co_seen[t] : co_flag[f] = "Complete"
  BY DEF CO!FlagsAgree, CO!Running
<1> SUFFICES /\ CO!TypeOK'
             /\ \A f \in Flag :
                   co_flag'[f] = "Pending" <=> \E t \in Thread : co_pc'[t] = "func" /\ co_on'[t] = f
             /\ \A t, u \in Thread :
                   co_pc'[t] = "func" /\ co_pc'[u] = "func" /\ co_on'[t] = co_on'[u] => t = u
             /\ \A t \in Thread : co_pc'[t] = "broadcast" => co_flag'[co_on'[t]] = "Complete"
             /\ \A t \in Thread : \A f \in co_seen'[t] : co_flag'[f] = "Complete"
  BY DEF CO!FlagsAgree, CO!Running
<1>0. Flag # {} /\ MaxThrows \in Nat
  BY SyncAssumption
<1> USE <1>0 DEF CO!TypeOK
\* Steps that run no function and end none.
<1>2. ASSUME NEW t \in Thread,
             \/ \E f \in Flag : CO!CallOnce(t, f)
             \/ CO!EnterWaits(t) \/ CO!EnterReturns(t) \/ CO!Broadcast(t) \/ CO!Spurious(t)
      PROVE  /\ CO!TypeOK' /\ co_flag' = co_flag
             /\ \A u \in Thread : /\ co_pc'[u] = "func" <=> co_pc[u] = "func"
                                  /\ co_pc'[u] = "broadcast" => co_pc[u] = "broadcast"
                                  /\ co_pc'[u] \in {"func", "broadcast"} => co_on'[u] = co_on[u]
                                  /\ \A f \in co_seen'[u] : f \in co_seen[u] \/ co_flag[f] = "Complete"
  <2>1. ASSUME NEW f \in Flag, CO!CallOnce(t, f)
        PROVE  /\ CO!TypeOK' /\ co_flag' = co_flag
               /\ \A u \in Thread : /\ co_pc'[u] = "func" <=> co_pc[u] = "func"
                                    /\ co_pc'[u] = "broadcast" => co_pc[u] = "broadcast"
                                    /\ co_pc'[u] \in {"func", "broadcast"} => co_on'[u] = co_on[u]
                                    /\ \A h \in co_seen'[u] : h \in co_seen[u] \/ co_flag[h] = "Complete"
    BY <2>1 DEF CO!CallOnce, CO!CallReturns, CO!Goto
  <2>2. CASE CO!EnterWaits(t) \/ CO!Spurious(t)
    BY <2>2 DEF CO!EnterWaits, CO!Spurious, CO!Goto
  <2>3. CASE CO!EnterReturns(t)
    BY <2>3 DEF CO!EnterReturns, CO!CallReturns, CO!Goto, CO!MustWait
  <2>4. CASE CO!Broadcast(t)
    BY <1>1, <2>4 DEF CO!Broadcast
  <2> QED
    BY <1>2, <2>1, <2>2, <2>3, <2>4
<1>3. ASSUME NEW t \in Thread, CO!EnterRuns(t)
      PROVE  /\ CO!TypeOK' /\ co_on' = co_on /\ co_seen' = co_seen
             /\ co_flag[co_on[t]] = "Unset" /\ co_flag'[co_on[t]] = "Pending"
             /\ \A f \in Flag \ {co_on[t]} : co_flag'[f] = co_flag[f]
             /\ co_pc'[t] = "func" /\ \A u \in Thread \ {t} : co_pc'[u] = co_pc[u]
  BY <1>3 DEF CO!EnterRuns, CO!Set, CO!Goto
<1>4. ASSUME NEW t \in Thread, CO!FuncReturns(t) \/ CO!FuncThrows(t)
      PROVE  /\ CO!TypeOK' /\ co_on' = co_on /\ co_seen' = co_seen
             /\ co_pc[t] = "func" /\ co_pc'[t] \in {"broadcast", "broadcast_throw"}
             /\ co_flag'[co_on[t]] = IF co_pc'[t] = "broadcast" THEN "Complete" ELSE "Unset"
             /\ \A f \in Flag \ {co_on[t]} : co_flag'[f] = co_flag[f]
             /\ \A u \in Thread \ {t} : co_pc'[u] = co_pc[u]
  BY <1>4 DEF CO!FuncReturns, CO!FuncThrows, CO!Set, CO!Goto, CO!AfterThrow
<1>5. \A t \in Thread : co_on[t] \in Flag /\ co_seen[t] \subseteq Flag
  OBVIOUS
<1> PICK t \in Thread : CO!Step(t) \/ CO!Spurious(t) \/ \E f \in Flag : CO!CallOnce(t, f)
  BY DEF CO!Next
<1>6. CASE CO!EnterRuns(t)
  BY <1>1, <1>3, <1>5, <1>6
<1>7. CASE CO!FuncReturns(t) \/ CO!FuncThrows(t)
  BY <1>1, <1>4, <1>5, <1>7
<1>8. CASE \/ \E f \in Flag : CO!CallOnce(t, f)
           \/ CO!EnterWaits(t) \/ CO!EnterReturns(t) \/ CO!Broadcast(t) \/ CO!Spurious(t)
  BY <1>1, <1>2, <1>8
<1> QED
  BY <1>6, <1>7, <1>8 DEF CO!Step

\* Whoever decides a flag stays about to wake the sleepers until it has done so.
LEMMA OnceWaiterStep ==
    ASSUME CO!TypeOK, CO!NoStrandedOnceWaiter, CO!Next
    PROVE  CO!NoStrandedOnceWaiter'
<1> PICK t \in Thread : CO!Step(t) \/ CO!Spurious(t) \/ \E f \in Flag : CO!CallOnce(t, f)
  BY DEF CO!Next
<1> USE DEF CO!TypeOK, CO!NoStrandedOnceWaiter
<1>1. ASSUME NEW f \in Flag, CO!CallOnce(t, f) PROVE CO!NoStrandedOnceWaiter'
  BY <1>1 DEF CO!CallOnce, CO!CallReturns, CO!Goto
<1>2. CASE CO!EnterWaits(t)
  BY <1>2 DEF CO!EnterWaits, CO!MustWait, CO!Goto
<1>3. CASE CO!EnterReturns(t) \/ CO!Spurious(t)
  BY <1>3 DEF CO!EnterReturns, CO!CallReturns, CO!Spurious, CO!Goto
<1>4. CASE CO!EnterRuns(t)
  BY <1>4 DEF CO!EnterRuns, CO!Set, CO!Goto
<1>5. CASE CO!FuncReturns(t) \/ CO!FuncThrows(t)
  BY <1>5 DEF CO!FuncReturns, CO!FuncThrows, CO!Set, CO!Goto, CO!AfterThrow
<1>6. CASE CO!Broadcast(t)
  BY <1>6 DEF CO!Broadcast
<1> QED
  BY <1>1, <1>2, <1>3, <1>4, <1>5, <1>6 DEF CO!Step

-----------------------------------------------------------------------------
\* What OnceInit sees of a flag, before and after a step.
LEMMA StatusFacts ==
    ASSUME NEW f
    PROVE  /\ co_flag[f] = "Unset" => CO!Status(f) = "unset"
           /\ co_flag[f] = "Complete" => CO!Status(f) = "complete"
           /\ \A t : co_flag[f] = "Pending" /\ CO!Running(f) = {t} => CO!Status(f) = t
<1>1. ASSUME NEW t, co_flag[f] = "Pending", CO!Running(f) = {t}
      PROVE  CO!Status(f) = t
  <2>1. CO!Status(f) = CHOOSE u \in {t} : TRUE
    BY <1>1 DEF CO!Status
  <2> QED
    BY <2>1
<1> QED
  BY <1>1 DEF CO!Status

LEMMA StatusFactsNext ==
    ASSUME NEW f
    PROVE  /\ co_flag'[f] = "Unset" => CO!Status(f)' = "unset"
           /\ co_flag'[f] = "Complete" => CO!Status(f)' = "complete"
           /\ \A t : co_flag'[f] = "Pending" /\ CO!Running(f)' = {t} => CO!Status(f)' = t
<1>1. ASSUME NEW t, co_flag'[f] = "Pending", CO!Running(f)' = {t}
      PROVE  CO!Status(f)' = t
  <2>1. CO!Status(f)' = CHOOSE u \in {t} : TRUE
    BY <1>1 DEF CO!Status
  <2> QED
    BY <2>1
<1> QED
  BY <1>1 DEF CO!Status

LEMMA StatusFramed ==
    ASSUME NEW f, co_flag'[f] = co_flag[f], CO!Running(f)' = CO!Running(f)
    PROVE  CO!Status(f)' = CO!Status(f)
<1>1. PICK S : S = CO!Running(f) /\ S = CO!Running(f)'
  OBVIOUS
<1>2. CO!Status(f) = IF co_flag[f] = "Unset" THEN "unset"
                     ELSE IF co_flag[f] = "Complete" THEN "complete" ELSE CHOOSE t \in S : TRUE
  BY <1>1 DEF CO!Status
<1>3. CO!Status(f)' = IF co_flag'[f] = "Unset" THEN "unset"
                      ELSE IF co_flag'[f] = "Complete" THEN "complete" ELSE CHOOSE t \in S : TRUE
  BY <1>1 DEF CO!Status
<1> QED
  BY <1>2, <1>3

\* Every step of call_once begins, ends or observes an initialisation of OnceInit,
\* or is not seen there.
LEMMA OnceSimulates ==
    ASSUME CO!TypeOK, CO!FlagsAgree, CO!TypeOK', CO!FlagsAgree', [CO!Next]_CO!vars
    PROVE  [CO!Once!Next]_CO!Once!vars
<1> DEFINE status == [f \in Flag |-> CO!Status(f)]
<1>1. ASSUME UNCHANGED <<co_flag, co_seen>>,
             \A u \in Thread : /\ co_pc'[u] = "func" <=> co_pc[u] = "func"
                               /\ co_pc'[u] = "func" => co_on'[u] = co_on[u]
      PROVE  UNCHANGED CO!Once!vars
  <2>1. \A f \in Flag : CO!Running(f)' = CO!Running(f)
    BY <1>1 DEF CO!Running
  <2>2. \A f \in Flag : CO!Status(f)' = CO!Status(f)
    BY <1>1, <2>1, StatusFramed
  <2> QED
    BY <1>1, <2>2 DEF CO!Once!vars
<1>2. ASSUME NEW t \in Thread, NEW f \in Flag, co_flag' = co_flag, co_flag[f] = "Complete",
             co_seen' = [co_seen EXCEPT ![t] = @ \cup {f}],
             \A u \in Thread : /\ co_pc'[u] = "func" <=> co_pc[u] = "func"
                               /\ co_pc'[u] = "func" => co_on'[u] = co_on[u]
      PROVE  CO!Once!Next
  <2>1. \A h \in Flag : CO!Running(h)' = CO!Running(h)
    BY <1>2 DEF CO!Running
  <2>2. \A h \in Flag : CO!Status(h)' = CO!Status(h)
    BY <1>2, <2>1, StatusFramed
  <2>3. status' = status /\ status[f] = "complete"
    BY <1>2, <2>2, StatusFacts
  <2> QED
    BY <1>2, <2>3 DEF CO!Once!Next, CO!Once!Observe
<1>3. ASSUME NEW t \in Thread, CO!EnterRuns(t)
      PROVE  CO!Once!Next
  <2> PICK f \in Flag : f = co_on[t]
    BY DEF CO!TypeOK
  <2>1. /\ co_flag[f] = "Unset" /\ co_flag'[f] = "Pending" /\ co_seen' = co_seen /\ co_on' = co_on
        /\ \A h \in Flag \ {f} : co_flag'[h] = co_flag[h]
        /\ co_pc[t] = "enter" /\ co_pc'[t] = "func" /\ \A u \in Thread \ {t} : co_pc'[u] = co_pc[u]
    BY <1>3 DEF CO!EnterRuns, CO!Set, CO!Goto, CO!TypeOK
  <2>2. CO!Running(f)' = {t}
    <3>1. CO!Running(f) = {}
      BY <2>1 DEF CO!FlagsAgree
    <3> QED
      BY <2>1, <3>1 DEF CO!Running
  <2>3. CO!Status(f) = "unset" /\ CO!Status(f)' = t
    BY <2>1, <2>2, StatusFacts, StatusFactsNext
  <2>4. \A h \in Flag \ {f} : CO!Running(h)' = CO!Running(h)
    BY <2>1 DEF CO!Running
  <2>5. \A h \in Flag \ {f} : CO!Status(h)' = CO!Status(h)
    BY <2>1, <2>4, StatusFramed
  <2>6. status' = [status EXCEPT ![f] = t] /\ status[f] = "unset"
    BY <2>3, <2>5
  <2> QED
    BY <2>1, <2>6 DEF CO!Once!Next, CO!Once!Begin
<1>4. ASSUME NEW t \in Thread, CO!FuncReturns(t) \/ CO!FuncThrows(t)
      PROVE  CO!Once!Next
  <2> PICK f \in Flag : f = co_on[t]
    BY DEF CO!TypeOK
  <2>1. /\ co_flag'[f] \in {"Unset", "Complete"} /\ co_seen' = co_seen /\ co_on' = co_on
        /\ \A h \in Flag \ {f} : co_flag'[h] = co_flag[h]
        /\ co_pc[t] = "func" /\ co_pc'[t] # "func" /\ \A u \in Thread \ {t} : co_pc'[u] = co_pc[u]
    BY <1>4 DEF CO!FuncReturns, CO!FuncThrows, CO!Set, CO!Goto, CO!TypeOK, CO!AfterThrow
  <2>2. CO!Running(f) = {t} /\ co_flag[f] = "Pending"
    <3>1. t \in CO!Running(f)
      BY <2>1 DEF CO!Running
    <3>2. \A u \in CO!Running(f) : u = t
      BY <2>1 DEF CO!Running, CO!FlagsAgree
    <3>3. co_flag[f] = "Pending"
      BY <3>1 DEF CO!FlagsAgree
    <3> QED
      BY <3>1, <3>2, <3>3
  <2>3. CO!Status(f) = t
    BY <2>2, StatusFacts
  <2>4. \A h \in Flag \ {f} : CO!Running(h)' = CO!Running(h)
    BY <2>1 DEF CO!Running
  <2>5. \A h \in Flag \ {f} : CO!Status(h)' = CO!Status(h)
    BY <2>1, <2>4, StatusFramed
  <2>6. CASE co_flag'[f] = "Complete"
    <3>1. CO!Status(f)' = "complete"
      BY <2>6, StatusFactsNext
    <3>2. status' = [status EXCEPT ![f] = "complete"] /\ status[f] = t
      BY <2>3, <2>5, <3>1
    <3> QED
      BY <2>1, <3>2 DEF CO!Once!Next, CO!Once!Finish
  <2>7. CASE co_flag'[f] = "Unset"
    <3>1. CO!Status(f)' = "unset"
      BY <2>7, StatusFactsNext
    <3>2. status' = [status EXCEPT ![f] = "unset"] /\ status[f] = t
      BY <2>3, <2>5, <3>1
    <3> QED
      BY <2>1, <3>2 DEF CO!Once!Next, CO!Once!Fail
  <2> QED
    BY <2>1, <2>6, <2>7
<1>5. ASSUME NEW t \in Thread, NEW f \in Flag, CO!CallOnce(t, f)
      PROVE  [CO!Once!Next]_CO!Once!vars
  <2>1. \A u \in Thread : /\ co_pc'[u] = "func" <=> co_pc[u] = "func"
                          /\ co_pc'[u] = "func" => co_on'[u] = co_on[u]
    BY <1>5 DEF CO!CallOnce, CO!CallReturns, CO!Goto, CO!TypeOK
  <2>2. CASE co_flag[f] = "Complete"
    BY <1>2, <1>5, <2>1, <2>2 DEF CO!CallOnce, CO!CallReturns
  <2>3. CASE co_flag[f] # "Complete"
    BY <1>1, <1>5, <2>1, <2>3 DEF CO!CallOnce
  <2> QED
    BY <2>2, <2>3
<1>6. ASSUME NEW t \in Thread, CO!EnterReturns(t)
      PROVE  CO!Once!Next
  <2>1. /\ co_on[t] \in Flag /\ co_flag' = co_flag
        /\ \A u \in Thread : /\ co_pc'[u] = "func" <=> co_pc[u] = "func"
                             /\ co_pc'[u] = "func" => co_on'[u] = co_on[u]
    BY <1>6 DEF CO!EnterReturns, CO!CallReturns, CO!Goto, CO!TypeOK
  <2>2. co_flag[co_on[t]] = "Complete"
    BY <1>6, <2>1 DEF CO!EnterReturns, CO!MustWait, CO!TypeOK
  <2> QED
    BY <1>2, <1>6, <2>1, <2>2 DEF CO!EnterReturns, CO!CallReturns
<1>7. ASSUME NEW t \in Thread, CO!Broadcast(t)
      PROVE  [CO!Once!Next]_CO!Once!vars
  <2>1. /\ co_on[t] \in Flag /\ co_flag' = co_flag
        /\ \A u \in Thread : /\ co_pc'[u] = "func" <=> co_pc[u] = "func"
                             /\ co_pc'[u] = "func" => co_on'[u] = co_on[u]
    BY <1>7 DEF CO!Broadcast, CO!TypeOK
  <2>2. CASE co_pc[t] = "broadcast"
    <3>1. co_flag[co_on[t]] = "Complete"
      BY <2>2 DEF CO!FlagsAgree
    <3> QED
      BY <1>2, <1>7, <2>1, <2>2, <3>1 DEF CO!Broadcast
  <2>3. CASE co_pc[t] # "broadcast"
    BY <1>1, <1>7, <2>1, <2>3 DEF CO!Broadcast
  <2> QED
    BY <2>2, <2>3
<1>8. ASSUME NEW t \in Thread, CO!EnterWaits(t) \/ CO!Spurious(t)
      PROVE  UNCHANGED CO!Once!vars
  <2>1. /\ UNCHANGED <<co_flag, co_seen>>
        /\ \A u \in Thread : /\ co_pc'[u] = "func" <=> co_pc[u] = "func"
                             /\ co_pc'[u] = "func" => co_on'[u] = co_on[u]
    BY <1>8 DEF CO!EnterWaits, CO!Spurious, CO!Goto, CO!TypeOK
  <2> QED
    BY <1>1, <2>1
<1>9. CASE UNCHANGED CO!vars
  BY <1>1, <1>9 DEF CO!vars
<1> QED
  BY <1>3, <1>4, <1>5, <1>6, <1>7, <1>8, <1>9 DEF CO!Next, CO!Step
-----------------------------------------------------------------------------
\* Where the threads are that are on their way to end the object or its block.
Disposing == SC!At("on_zero_shared")
Freeing == SC!At("on_zero_shared_weak")
Locking == SC!At("lock")

\* CountsAreExact, over these sets.
BlockFor(shared, weak, releasing, freeing, freed, weak_owners) ==
    IF shared = {} /\ weak = {} /\ releasing = {}
    THEN \/ freed = 1 /\ freeing = {}
         \/ freed = 0 /\ \E t \in Thread : freeing = {t}
    ELSE /\ freed = 0 /\ freeing = {}
         /\ weak_owners = Cardinality(weak) + Cardinality(releasing) - IF shared = {} THEN 1 ELSE 0

ObjectFor(shared, disposing, disposed) ==
    IF shared = {}
    THEN \/ disposed = 1 /\ disposing = {}
         \/ disposed = 0 /\ \E t \in Thread : disposing = {t}
    ELSE disposed = 0 /\ disposing = {}

CountsAgree ==
    /\ sc_shared_owners = Cardinality(sc_shared) - 1
    /\ BlockFor(sc_shared, sc_weak, SC!Releasing, Freeing, sc_freed, sc_weak_owners)
    /\ ObjectFor(sc_shared, Disposing, sc_disposed)
    /\ Locking \subseteq sc_weak \ sc_shared

LEMMA CountsMean == (SC!CountsAreExact <=> CountsAgree) /\ (SC!CountsAreExact' <=> CountsAgree')
<1>1. /\ SC!Cardinality(sc_shared) = Cardinality(sc_shared)
      /\ SC!Cardinality(sc_shared') = Cardinality(sc_shared')
      /\ SC!Cardinality(sc_weak) = Cardinality(sc_weak)
      /\ SC!Cardinality(sc_weak') = Cardinality(sc_weak')
      /\ SC!Cardinality(SC!Releasing) = Cardinality(SC!Releasing)
      /\ SC!Cardinality(SC!Releasing') = Cardinality(SC!Releasing')
  BY Counting
<1> USE DEF BlockFor, ObjectFor, Disposing, Freeing, Locking
<1>2. SC!CountsAreExact <=> CountsAgree
  BY <1>1 DEF SC!CountsAreExact, CountsAgree
<1>3. SC!CountsAreExact' <=> CountsAgree'
  BY <1>1 DEF SC!CountsAreExact, CountsAgree
<1> QED
  BY <1>2, <1>3

LEMMA SharedCountStep ==
    ASSUME SC!TypeOK, SC!CountsAreExact, SC!Next
    PROVE  SC!TypeOK' /\ SC!CountsAreExact'
<1> PICK R : R = SC!Releasing
  OBVIOUS
<1>0. /\ sc_shared_owners = Cardinality(sc_shared) - 1
      /\ BlockFor(sc_shared, sc_weak, R, Freeing, sc_freed, sc_weak_owners)
      /\ ObjectFor(sc_shared, Disposing, sc_disposed)
      /\ Locking \subseteq sc_weak \ sc_shared
  BY CountsMean DEF CountsAgree
<1> SUFFICES SC!TypeOK' /\ CountsAgree'
  BY CountsMean
<1>T. /\ sc_shared_owners \in Int /\ sc_weak_owners \in Int
      /\ sc_shared \in SUBSET Thread /\ sc_weak \in SUBSET Thread
      /\ sc_disposed \in Nat /\ sc_freed \in Nat /\ sc_local \in [Thread -> Int]
      /\ sc_pc \in [Thread -> {"idle", "on_zero_shared", "release_weak", "decrement",
                               "on_zero_shared_weak", "lock"}]
  BY DEF SC!TypeOK
<1>R. R = {u \in Thread : sc_pc[u] \in {"on_zero_shared", "release_weak", "decrement"}}
  BY DEF SC!Releasing, SC!At
<1>C. /\ R \in SUBSET Thread
      /\ \A S \in SUBSET Thread : Cardinality(S) \in Nat /\ (Cardinality(S) = 0 <=> S = {})
  BY <1>R, ThreadSets
<1>Q. ASSUME sc_pc' = sc_pc
      PROVE  SC!Releasing' = R /\ Disposing' = Disposing /\ Freeing' = Freeing /\ Locking' = Locking
  BY <1>Q, <1>R DEF SC!Releasing, SC!At, Disposing, Freeing, Locking
<1>S. \A u \in Thread : /\ u \in Disposing <=> sc_pc[u] = "on_zero_shared"
                        /\ u \in Freeing <=> sc_pc[u] = "on_zero_shared_weak"
                        /\ u \in Locking <=> sc_pc[u] = "lock"
                        /\ u \in R <=> sc_pc[u] \in {"on_zero_shared", "release_weak", "decrement"}
  BY <1>R DEF SC!At, Disposing, Freeing, Locking
<1> DEFINE Result == SC!TypeOK' /\ CountsAgree'
<1>1. ASSUME NEW t \in Thread, NEW u \in Thread, SC!AddShared(t, u) PROVE Result
  <2>1. /\ sc_pc[u] = "idle" /\ t \in sc_shared /\ u \notin sc_shared
        /\ sc_shared_owners' = sc_shared_owners + 1 /\ sc_shared' = sc_shared \cup {u}
        /\ UNCHANGED <<sc_weak_owners, sc_disposed, sc_freed, sc_weak, sc_pc, sc_local>>
    BY <1>1 DEF SC!AddShared
  <2>2. SC!TypeOK'
    BY <1>T, <2>1 DEF SC!TypeOK
  <2>3. Cardinality(sc_shared') = Cardinality(sc_shared) + 1
    BY <1>T, <2>1, OneMore
  <2>4. sc_shared # {} /\ sc_shared' # {} /\ u \notin Locking
    BY <1>S, <2>1
  <2> QED
    BY <1>0, <1>T, <1>C, <1>Q, <2>1, <2>2, <2>3, <2>4 DEF CountsAgree, BlockFor, ObjectFor
<1>2. ASSUME NEW t \in Thread, NEW u \in Thread, SC!AddWeak(t, u) PROVE Result
  <2>1. /\ t \in sc_shared \cup sc_weak /\ u \notin sc_weak
        /\ sc_weak_owners' = sc_weak_owners + 1 /\ sc_weak' = sc_weak \cup {u}
        /\ UNCHANGED <<sc_shared_owners, sc_disposed, sc_freed, sc_shared, sc_pc, sc_local>>
    BY <1>2 DEF SC!AddWeak
  <2>2. SC!TypeOK'
    BY <1>T, <2>1 DEF SC!TypeOK
  <2>3. Cardinality(sc_weak') = Cardinality(sc_weak) + 1
    BY <1>T, <2>1, OneMore
  <2>4. ~(sc_shared = {} /\ sc_weak = {} /\ R = {}) /\ sc_weak' # {}
    BY <2>1
  <2> QED
    BY <1>0, <1>T, <1>C, <1>Q, <2>1, <2>2, <2>3, <2>4 DEF CountsAgree, BlockFor, ObjectFor
<1>3. ASSUME NEW t \in Thread, SC!ReleaseShared(t) PROVE Result
  <2>1. /\ sc_pc[t] = "idle" /\ t \in sc_shared
        /\ sc_shared_owners' = sc_shared_owners - 1 /\ sc_shared' = sc_shared \ {t}
        /\ sc_pc' = [sc_pc EXCEPT ![t] = IF sc_shared_owners' = -1 THEN "on_zero_shared" ELSE "idle"]
        /\ UNCHANGED <<sc_weak_owners, sc_disposed, sc_freed, sc_weak, sc_local>>
    BY <1>3 DEF SC!ReleaseShared, SC!Goto
  <2>2. SC!TypeOK'
    BY <1>T, <2>1 DEF SC!TypeOK
  <2>3. /\ Cardinality(sc_shared') = Cardinality(sc_shared) - 1
        /\ sc_shared_owners' = Cardinality(sc_shared') - 1
        /\ sc_shared' = {} <=> sc_shared_owners' = -1
    <3>1. Cardinality(sc_shared') = Cardinality(sc_shared) - 1 /\ sc_shared' \in SUBSET Thread
      BY <1>T, <2>1, OneMore
    <3> QED
      BY <1>0, <1>C, <2>1, <3>1
  <2>4. /\ sc_shared # {} /\ t \notin R /\ t \notin Disposing /\ t \notin Freeing /\ t \notin Locking
        /\ Disposing = {} /\ sc_disposed = 0
    BY <1>0, <1>S, <2>1 DEF ObjectFor
  <2>5. CASE sc_shared' = {}
    <3>1. /\ SC!Releasing' = R \cup {t} /\ Disposing' = {t}
          /\ Freeing' = Freeing /\ Locking' = Locking
      BY <1>T, <1>R, <2>1, <2>3, <2>4, <2>5 DEF SC!Releasing, SC!At, Disposing, Freeing, Locking
    <3>2. Cardinality(SC!Releasing') = Cardinality(R) + 1
      BY <1>C, <2>4, <3>1, OneMore
    <3> QED
      BY <1>0, <1>T, <1>C, <2>1, <2>2, <2>3, <2>4, <2>5, <3>1, <3>2
      DEF CountsAgree, BlockFor, ObjectFor
  <2>6. CASE sc_shared' # {}
    <3>1. SC!Releasing' = R /\ Disposing' = {} /\ Freeing' = Freeing /\ Locking' = Locking
      BY <1>T, <1>R, <2>1, <2>3, <2>4, <2>6 DEF SC!Releasing, SC!At, Disposing, Freeing, Locking
    <3> QED
      BY <1>0, <1>T, <1>C, <2>1, <2>2, <2>3, <2>4, <2>6, <3>1 DEF CountsAgree, BlockFor, ObjectFor
  <2> QED
    BY <2>5, <2>6
<1>4. ASSUME NEW t \in Thread, SC!OnZeroShared(t) PROVE Result
  <2>1. /\ sc_pc[t] = "on_zero_shared" /\ sc_disposed' = sc_disposed + 1
        /\ sc_pc' = [sc_pc EXCEPT ![t] = "release_weak"]
        /\ UNCHANGED <<sc_shared_owners, sc_weak_owners, sc_freed, sc_shared, sc_weak, sc_local>>
    BY <1>4 DEF SC!OnZeroShared, SC!Goto, SC!AfterDispose, SC!counts
  <2>2. SC!TypeOK'
    BY <1>T, <2>1 DEF SC!TypeOK
  <2>3. t \in R /\ t \in Disposing /\ t \notin Freeing /\ t \notin Locking
    BY <1>S, <2>1
  <2>4. sc_shared = {} /\ sc_disposed = 0 /\ Disposing = {t}
    BY <1>0, <2>3 DEF ObjectFor
  <2>5. SC!Releasing' = R /\ Disposing' = {} /\ Freeing' = Freeing /\ Locking' = Locking
    BY <1>T, <1>R, <2>1, <2>3, <2>4 DEF SC!Releasing, SC!At, Disposing, Freeing, Locking
  <2> QED
    BY <1>0, <1>T, <2>1, <2>2, <2>4, <2>5 DEF CountsAgree, BlockFor, ObjectFor
<1>5. ASSUME NEW t \in Thread, SC!CallReleaseWeak(t) PROVE Result
  <2>1. /\ sc_pc[t] = "idle" /\ t \in sc_weak /\ sc_weak' = sc_weak \ {t}
        /\ sc_pc' = [sc_pc EXCEPT ![t] = "release_weak"]
        /\ UNCHANGED <<sc_shared_owners, sc_weak_owners, sc_disposed, sc_freed, sc_shared, sc_local>>
    BY <1>5 DEF SC!CallReleaseWeak, SC!Goto, SC!counts
  <2>2. SC!TypeOK'
    BY <1>T, <2>1 DEF SC!TypeOK
  <2>3. t \notin R /\ t \notin Disposing /\ t \notin Freeing /\ t \notin Locking /\ sc_weak # {}
    BY <1>S, <2>1
  <2>4. /\ SC!Releasing' = R \cup {t} /\ Disposing' = Disposing
        /\ Freeing' = Freeing /\ Locking' = Locking
    BY <1>T, <1>R, <2>1, <2>3 DEF SC!Releasing, SC!At, Disposing, Freeing, Locking
  <2>5. /\ Cardinality(SC!Releasing') = Cardinality(R) + 1
        /\ Cardinality(sc_weak') = Cardinality(sc_weak) - 1
    BY <1>T, <1>C, <2>1, <2>3, <2>4, OneMore
  <2>6. /\ sc_freed = 0 /\ Freeing = {}
        /\ sc_weak_owners = Cardinality(sc_weak) + Cardinality(R) - IF sc_shared = {} THEN 1 ELSE 0
    BY <1>0, <2>3 DEF BlockFor
  <2>7. sc_weak_owners' = Cardinality(sc_weak') + Cardinality(SC!Releasing')
                              - IF sc_shared = {} THEN 1 ELSE 0
    <3>1. Cardinality(R) \in Nat /\ Cardinality(sc_weak) \in Nat
      BY <1>T, <1>C
    <3> QED
      BY <2>1, <2>5, <2>6, <3>1
  <2>8. SC!Releasing' # {}
    BY <2>4
  <2> QED
    BY <1>0, <2>1, <2>2, <2>3, <2>4, <2>6, <2>7, <2>8 DEF CountsAgree, BlockFor, ObjectFor
\* The last one knows that it is: nobody else has a pointer or is on the way.
<1>A. ASSUME NEW t \in R, sc_weak_owners = 0
      PROVE  sc_shared = {} /\ sc_weak = {} /\ R = {t}
  <2>1. 0 = Cardinality(sc_weak) + Cardinality(R) - IF sc_shared = {} THEN 1 ELSE 0
    BY <1>0, <1>A DEF BlockFor
  <2>2. Cardinality(R) \in Nat \ {0} /\ Cardinality(sc_weak) \in Nat
    BY <1>T, <1>C
  <2>3. sc_shared = {} /\ Cardinality(sc_weak) = 0 /\ Cardinality(R) = 1
    BY <2>1, <2>2
  <2>4. \E x : R = {x}
    BY <1>C, <2>3, ThreadSets
  <2> QED
    BY <1>C, <1>T, <2>3, <2>4
<1>6. ASSUME NEW t \in Thread, SC!ReleaseWeakLoad(t) PROVE Result
  <2>1. /\ sc_pc[t] = "release_weak"
        /\ sc_pc' = [sc_pc EXCEPT ![t] = IF sc_weak_owners = 0 THEN "on_zero_shared_weak" ELSE "decrement"]
        /\ UNCHANGED <<sc_shared_owners, sc_weak_owners, sc_disposed, sc_freed, sc_shared, sc_weak,
                       sc_local>>
    BY <1>6 DEF SC!ReleaseWeakLoad, SC!SeesLast, SC!Goto, SC!counts
  <2>2. SC!TypeOK'
    BY <1>T, <2>1 DEF SC!TypeOK
  <2>3. t \in R /\ t \notin Disposing /\ t \notin Freeing /\ t \notin Locking
    BY <1>S, <2>1
  <2>4. CASE sc_weak_owners = 0
    <3>1. sc_shared = {} /\ sc_weak = {} /\ R = {t}
      BY <1>A, <2>3, <2>4
    <3>2. Freeing = {} /\ sc_freed = 0
      BY <1>0, <3>1 DEF BlockFor
    <3>3. /\ SC!Releasing' = {} /\ Disposing' = Disposing
          /\ Freeing' = {t} /\ Locking' = Locking
      BY <1>T, <1>R, <2>1, <2>3, <2>4, <3>1, <3>2 DEF SC!Releasing, SC!At, Disposing, Freeing, Locking
    <3> QED
      BY <1>0, <2>1, <2>2, <3>1, <3>2, <3>3 DEF CountsAgree, BlockFor, ObjectFor
  <2>5. CASE sc_weak_owners # 0
    <3>1. SC!Releasing' = R /\ Disposing' = Disposing /\ Freeing' = Freeing /\ Locking' = Locking
      BY <1>T, <1>R, <2>1, <2>3, <2>5 DEF SC!Releasing, SC!At, Disposing, Freeing, Locking
    <3> QED
      BY <1>0, <2>1, <2>2, <3>1 DEF CountsAgree
  <2> QED
    BY <2>4, <2>5
<1>7. ASSUME NEW t \in Thread, SC!ReleaseWeakDecrement(t) PROVE Result
  <2>1. /\ sc_pc[t] = "decrement" /\ sc_weak_owners' = sc_weak_owners - 1
        /\ sc_pc' = [sc_pc EXCEPT ![t] = IF sc_weak_owners' = -1 THEN "on_zero_shared_weak" ELSE "idle"]
        /\ UNCHANGED <<sc_shared_owners, sc_disposed, sc_freed, sc_shared, sc_weak, sc_local>>
    BY <1>7 DEF SC!ReleaseWeakDecrement, SC!Goto
  <2>2. SC!TypeOK'
    BY <1>T, <2>1 DEF SC!TypeOK
  <2>3. t \in R /\ t \notin Disposing /\ t \notin Freeing /\ t \notin Locking
    BY <1>S, <2>1
  <2>4. CASE sc_weak_owners = 0
    <3>1. sc_shared = {} /\ sc_weak = {} /\ R = {t}
      BY <1>A, <2>3, <2>4
    <3>2. Freeing = {} /\ sc_freed = 0
      BY <1>0, <3>1 DEF BlockFor
    <3>3. /\ SC!Releasing' = {} /\ Disposing' = Disposing
          /\ Freeing' = {t} /\ Locking' = Locking
      BY <1>T, <1>R, <2>1, <2>3, <2>4, <3>1, <3>2 DEF SC!Releasing, SC!At, Disposing, Freeing, Locking
    <3> QED
      BY <1>0, <2>1, <2>2, <3>1, <3>2, <3>3 DEF CountsAgree, BlockFor, ObjectFor
  <2>5. CASE sc_weak_owners # 0
    <3>1. sc_weak_owners' # -1
      BY <1>T, <2>1, <2>5
    <3>2. SC!Releasing' = R \ {t} /\ Disposing' = Disposing /\ Freeing' = Freeing /\ Locking' = Locking
      BY <1>T, <1>R, <2>1, <2>3, <3>1 DEF SC!Releasing, SC!At, Disposing, Freeing, Locking
    <3>3. Cardinality(SC!Releasing') = Cardinality(R) - 1 /\ SC!Releasing' \in SUBSET Thread
      BY <1>C, <2>3, <3>2, OneMore
    <3>4. /\ sc_freed = 0 /\ Freeing = {}
          /\ sc_weak_owners = Cardinality(sc_weak) + Cardinality(R) - IF sc_shared = {} THEN 1 ELSE 0
      BY <1>0, <2>3 DEF BlockFor
    <3>5. sc_weak_owners' = Cardinality(sc_weak) + Cardinality(SC!Releasing')
                                - IF sc_shared = {} THEN 1 ELSE 0
      BY <1>T, <1>C, <2>1, <3>3, <3>4
    <3>6. ~(sc_shared = {} /\ sc_weak = {} /\ SC!Releasing' = {})
      BY <1>T, <1>C, <3>1, <3>3, <3>5
    <3> QED
      BY <1>0, <2>1, <2>2, <3>2, <3>4, <3>5, <3>6 DEF CountsAgree, BlockFor, ObjectFor
  <2> QED
    BY <2>4, <2>5
<1>8. ASSUME NEW t \in Thread, SC!OnZeroSharedWeak(t) PROVE Result
  <2>1. /\ sc_pc[t] = "on_zero_shared_weak" /\ sc_freed' = sc_freed + 1
        /\ sc_pc' = [sc_pc EXCEPT ![t] = "idle"]
        /\ UNCHANGED <<sc_shared_owners, sc_weak_owners, sc_disposed, sc_shared, sc_weak, sc_local>>
    BY <1>8 DEF SC!OnZeroSharedWeak, SC!Goto, SC!counts
  <2>2. SC!TypeOK'
    BY <1>T, <2>1 DEF SC!TypeOK
  <2>3. t \notin R /\ t \notin Disposing /\ t \in Freeing /\ t \notin Locking
    BY <1>S, <2>1
  <2>4. sc_shared = {} /\ sc_weak = {} /\ R = {} /\ sc_freed = 0 /\ Freeing = {t}
    BY <1>0, <2>3 DEF BlockFor
  <2>5. SC!Releasing' = {} /\ Disposing' = Disposing /\ Freeing' = {} /\ Locking' = Locking
    BY <1>T, <1>R, <2>1, <2>3, <2>4 DEF SC!Releasing, SC!At, Disposing, Freeing, Locking
  <2> QED
    BY <1>0, <2>1, <2>2, <2>4, <2>5 DEF CountsAgree, BlockFor, ObjectFor
<1>9. ASSUME NEW t \in Thread, SC!LockLoad(t) PROVE Result
  <2>1. /\ sc_pc[t] = "idle" /\ t \in sc_weak /\ t \notin sc_shared
        /\ sc_local' = [sc_local EXCEPT ![t] = sc_shared_owners]
        /\ sc_pc' = [sc_pc EXCEPT ![t] = "lock"]
        /\ UNCHANGED <<sc_shared_owners, sc_weak_owners, sc_disposed, sc_freed, sc_shared, sc_weak>>
    BY <1>9 DEF SC!LockLoad, SC!Goto, SC!counts
  <2>2. SC!TypeOK'
    BY <1>T, <2>1 DEF SC!TypeOK
  <2>3. t \notin R /\ t \notin Disposing /\ t \notin Freeing
    BY <1>S, <2>1
  <2>4. /\ SC!Releasing' = R /\ Disposing' = Disposing /\ Freeing' = Freeing
        /\ Locking' = Locking \cup {t}
    BY <1>T, <1>R, <2>1, <2>3 DEF SC!Releasing, SC!At, Disposing, Freeing, Locking
  <2> QED
    BY <1>0, <2>1, <2>2, <2>4 DEF CountsAgree
<1>10. ASSUME NEW t \in Thread, SC!Lock(t) PROVE Result
  <2>1. /\ sc_pc[t] = "lock"
        /\ UNCHANGED <<sc_weak_owners, sc_disposed, sc_freed, sc_weak>>
    BY <1>10 DEF SC!Lock
  <2>2. t \notin R /\ t \notin Disposing /\ t \notin Freeing /\ t \in Locking
    BY <1>S, <2>1
  <2>3. CASE /\ sc_pc' = [sc_pc EXCEPT ![t] = "idle"] /\ sc_local' = [sc_local EXCEPT ![t] = 0]
             /\ UNCHANGED <<sc_shared_owners, sc_shared>>
    <3>1. SC!TypeOK'
      BY <1>T, <2>1, <2>3 DEF SC!TypeOK
    <3>2. /\ SC!Releasing' = R /\ Disposing' = Disposing /\ Freeing' = Freeing
          /\ Locking' = Locking \ {t}
      BY <1>T, <1>R, <2>2, <2>3 DEF SC!Releasing, SC!At, Disposing, Freeing, Locking
    <3> QED
      BY <1>0, <2>1, <2>3, <3>1, <3>2 DEF CountsAgree
  <2>4. CASE /\ sc_local[t] # -1 /\ sc_shared_owners = sc_local[t]
             /\ sc_shared_owners' = sc_local[t] + 1 /\ sc_shared' = sc_shared \cup {t}
             /\ sc_pc' = [sc_pc EXCEPT ![t] = "idle"] /\ sc_local' = [sc_local EXCEPT ![t] = 0]
    <3>1. SC!TypeOK'
      BY <1>T, <2>1, <2>4 DEF SC!TypeOK
    <3>2. /\ SC!Releasing' = R /\ Disposing' = Disposing /\ Freeing' = Freeing
          /\ Locking' = Locking \ {t}
      BY <1>T, <1>R, <2>2, <2>4 DEF SC!Releasing, SC!At, Disposing, Freeing, Locking
    <3>3. sc_shared # {} /\ sc_shared' # {} /\ t \notin sc_shared
      BY <1>0, <1>T, <1>C, <2>2, <2>4
    <3>4. Cardinality(sc_shared') = Cardinality(sc_shared) + 1
      BY <1>T, <2>4, <3>3, OneMore
    <3>5. sc_shared_owners' = Cardinality(sc_shared') - 1
      BY <1>0, <1>T, <1>C, <2>4, <3>4
    <3> QED
      BY <1>0, <2>1, <2>4, <3>1, <3>2, <3>3, <3>5 DEF CountsAgree, BlockFor, ObjectFor
  <2>5. CASE /\ sc_local' = [sc_local EXCEPT ![t] = sc_shared_owners]
             /\ UNCHANGED <<sc_shared_owners, sc_shared, sc_pc>>
    <3>1. SC!TypeOK'
      BY <1>T, <2>1, <2>5 DEF SC!TypeOK
    <3> QED
      BY <1>0, <1>Q, <2>1, <2>5, <3>1 DEF CountsAgree
  <2> QED
    BY <1>10, <2>3, <2>4, <2>5 DEF SC!Lock, SC!Swaps, SC!Goto
<1> QED
  BY <1>1, <1>2, <1>3, <1>4, <1>5, <1>6, <1>7, <1>8, <1>9, <1>10 DEF SC!Next, SC!Step

LEMMA CountsSuffice ==
    ASSUME SC!TypeOK, SC!CountsAreExact
    PROVE  SC!LifetimesEndOnce
<1>1. /\ BlockFor(sc_shared, sc_weak, SC!Releasing, Freeing, sc_freed, sc_weak_owners)
      /\ ObjectFor(sc_shared, Disposing, sc_disposed)
      /\ Locking \subseteq sc_weak \ sc_shared
  BY CountsMean DEF CountsAgree
<1>2. \A u \in Thread :
         /\ u \in Disposing <=> sc_pc[u] = "on_zero_shared"
         /\ u \in Freeing <=> sc_pc[u] = "on_zero_shared_weak"
         /\ u \in Locking <=> sc_pc[u] = "lock"
         /\ u \in SC!Releasing <=> sc_pc[u] \in {"on_zero_shared", "release_weak", "decrement"}
         /\ \/ sc_pc[u] = "idle" \/ u \in SC!Releasing \/ u \in Freeing \/ u \in Locking
  BY DEF SC!At, SC!Releasing, Disposing, Freeing, Locking, SC!TypeOK
<1>3. SC!ObjectDisposedOnce
  BY <1>1, <1>2 DEF SC!ObjectDisposedOnce, ObjectFor
<1>4. SC!BlockFreedOnce
  <2>1. sc_freed <= 1
    BY <1>1 DEF BlockFor
  <2>2. ASSUME NEW t \in Thread, sc_pc[t] = "on_zero_shared_weak" \/ sc_freed = 1
        PROVE  sc_shared = {} /\ sc_weak = {} /\ \A u \in Thread \ {t} : sc_pc[u] = "idle"
    <3>1. /\ sc_shared = {} /\ sc_weak = {} /\ SC!Releasing = {}
          /\ Freeing = {} \/ Freeing = {t}
      BY <1>1, <1>2, <2>2 DEF BlockFor
    <3> QED
      BY <1>1, <1>2, <3>1
  <2> QED
    BY <2>1, <2>2 DEF SC!BlockFreedOnce
<1>5. SC!NothingLeaks
  <2> SUFFICES ASSUME sc_shared = {}, sc_weak = {}, \A t \in Thread : sc_pc[t] = "idle"
               PROVE  sc_disposed = 1 /\ sc_freed = 1
    BY DEF SC!NothingLeaks
  <2>1. Disposing = {} /\ Freeing = {} /\ SC!Releasing = {}
    BY DEF SC!At, SC!Releasing, Disposing, Freeing
  <2> QED
    BY <1>1, <2>1 DEF BlockFor, ObjectFor
<1> QED
  BY <1>3, <1>4, <1>5 DEF SC!LifetimesEndOnce
-----------------------------------------------------------------------------
\* t goes on to l; the others stay, or are woken to look again.
Moved(t, l) ==
    /\ fu_pc'[t] = l
    /\ \A u \in FU!AllThreads \ {t} :
           fu_pc'[u] = fu_pc[u] \/ (fu_pc[u] = "sleep" /\ fu_pc'[u] = "look")

Places == {"idle", "look", "sleep", "execute", "read", "delete",
           "break", "release", "done", "exit_release", "exited"}

LEMMA Moving ==
    ASSUME FU!TypeOK, NEW t \in FU!AllThreads, NEW l \in Places,
           FU!Goto(t, l) \/ FU!GotoAndNotify(t, l)
    PROVE  fu_pc' \in [FU!AllThreads -> Places] /\ Moved(t, l)
<1>1. fu_pc \in [FU!AllThreads -> Places]
  BY DEF FU!TypeOK, Places
<1>2. CASE FU!Goto(t, l)
  BY <1>1, <1>2 DEF FU!Goto, Moved
<1>3. CASE FU!GotoAndNotify(t, l)
  <2>1. fu_pc' = [u \in FU!AllThreads |->
                      IF u = t THEN l ELSE IF fu_pc[u] = "sleep" THEN "look" ELSE fu_pc[u]]
    BY <1>3 DEF FU!GotoAndNotify
  <2>2. fu_pc' \in [FU!AllThreads -> Places]
    BY <1>1, <2>1 DEF Places
  <2>3. Moved(t, l)
    BY <1>1, <2>1 DEF Moved
  <2> QED
    BY <2>2, <2>3
<1> QED
  BY <1>2, <1>3

\* What a store does to the result.
LEMMA Storing ==
    ASSUME FU!TypeOK, NEW r \in {"value", "thrown", "broken_promise"}, FU!Store(r)
    PROVE  /\ FU!has_value' /\ FU!Result' = r
           /\ fu_constructed' \in BOOLEAN /\ fu_exception' \in {"none", "thrown", "broken_promise"}
           /\ fu_satisfied' = fu_satisfied + 1 /\ fu_satisfied' \in Nat
<1>1. fu_satisfied \in Nat
  BY DEF FU!TypeOK
<1>2. /\ fu_constructed' \in BOOLEAN
      /\ fu_constructed' <=> r = "value"
      /\ fu_exception' = IF r = "value" THEN "none" ELSE r
      /\ fu_satisfied' = fu_satisfied + 1
  BY DEF FU!Store
<1>3. CASE r = "value"
  BY <1>1, <1>2, <1>3 DEF FU!has_value, FU!Result
<1>4. CASE r # "value"
  BY <1>1, <1>2, <1>4 DEF FU!has_value, FU!Result
<1> QED
  BY <1>3, <1>4

LEMMA NotStoring ==
    ASSUME UNCHANGED <<fu_constructed, fu_exception, fu_satisfied>>
    PROVE  (FU!has_value' <=> FU!has_value) /\ FU!Result' = FU!Result
  BY DEF FU!has_value, FU!Result

LEMMA ResultMeans ==
    ASSUME FU!TypeOK
    PROVE  /\ FU!Result \in {"value", "thrown", "broken_promise", "nothing"}
           /\ FU!has_value <=> FU!Result # "nothing"
  BY DEF FU!TypeOK, FU!has_value, FU!Result

\* A step of one thread leaves what is said of the others as it is.
LEMMA WaitersFramed ==
    ASSUME FU!TypeOK, NEW t, NEW l, Moved(t, l), UNCHANGED <<fu_kind>>,
           fu_ready => fu_ready', FU!has_value => FU!has_value',
           NEW w \in Waiter \ {t}, fu_op'[w] = fu_op[w], FU!WaiterIsSound(w)
    PROVE  FU!WaiterIsSound(w)'
<1>1. fu_pc'[w] = fu_pc[w] \/ (fu_pc[w] = "sleep" /\ fu_pc'[w] = "look")
  BY DEF Moved, FU!AllThreads
<1> QED
  BY <1>1 DEF FU!WaiterIsSound

LEMMA ProvidersFramed ==
    ASSUME FU!TypeOK, NEW t, NEW l, Moved(t, l), UNCHANGED <<fu_kind>>,
           fu_at_exit \subseteq fu_at_exit',
           fu_kind # "async" \/ t = promiser \/ UNCHANGED fu_ready,
           NEW p \in Provider \ {t}, FU!ProviderIsSound(p)
    PROVE  FU!ProviderIsSound(p)'
<1>1. fu_pc'[p] = fu_pc[p]
  BY DEF Moved, FU!AllThreads, FU!ProviderIsSound
<1> QED
  BY <1>1 DEF FU!ProviderIsSound

LEMMA DecidesFramed ==
    ASSUME FU!TypeOK, NEW t \in FU!AllThreads, NEW l, Moved(t, l), FU!OneDecides,
           UNCHANGED <<fu_kind, fu_constructed, fu_exception, fu_deferred, fu_at_exit, fu_satisfied>>,
           l \notin {"execute", "break"}
    PROVE  FU!OneDecides'
<1>1. FU!has_value' <=> FU!has_value
  BY NotStoring
<1>2. \A u \in FU!AllThreads : fu_pc'[u] \in {"execute", "break"} => fu_pc[u] = fu_pc'[u]
  BY DEF Moved
<1> QED
  BY <1>1, <1>2 DEF FU!OneDecides, FU!AllThreads

LEMMA GotFramed ==
    ASSUME FU!TypeOK, FU!OneResult, UNCHANGED fu_got,
           UNCHANGED <<fu_constructed, fu_exception, fu_satisfied>> \/ ~FU!has_value
    PROVE  FU!GotResult'
<1>1. \A w \in Waiter : fu_got[w] \in {"none", FU!Result} \ {"nothing"}
  BY DEF FU!OneResult, FU!GotResult
<1>2. CASE ~FU!has_value
  BY <1>1, <1>2, ResultMeans DEF FU!GotResult
<1>3. CASE UNCHANGED <<fu_constructed, fu_exception, fu_satisfied>>
  BY <1>1, <1>3, NotStoring DEF FU!GotResult
<1> QED
  BY <1>2, <1>3

LEMMA FutureStep ==
    ASSUME FU!TypeOK, FU!CallsAreSound, FU!OneResult, FU!Next
    PROVE  FU!TypeOK' /\ FU!CallsAreSound' /\ FU!OneResult'
<1> USE DEF FU!AllThreads
<1>A. /\ promiser \in Provider /\ Waiter \cap Provider = {}
      /\ \A w \in Waiter : w \notin Provider /\ w # promiser
  BY SyncAssumption
<1>T. /\ fu_constructed \in BOOLEAN /\ fu_ready \in BOOLEAN
      /\ fu_deferred \in BOOLEAN /\ fu_freed \in BOOLEAN
      /\ fu_exception \in {"none", "thrown", "broken_promise"}
      /\ fu_kind \in {"promise", "deferred", "async"}
      /\ fu_owners \in Int /\ fu_satisfied \in Nat
      /\ fu_op \in [Waiter -> {"none", "wait", "for", "get", "zero"}]
      /\ fu_pc \in [FU!AllThreads -> Places]
      /\ fu_at_exit \subseteq Provider
      /\ fu_got \in [Waiter -> {"none", "value", "thrown", "broken_promise"}]
  BY DEF FU!TypeOK, Places
<1>I. ASSUME fu_constructed' \in BOOLEAN, fu_ready' \in BOOLEAN,
             fu_deferred' \in BOOLEAN, fu_freed' \in BOOLEAN,
             fu_exception' \in {"none", "thrown", "broken_promise"},
             fu_kind' \in {"promise", "deferred", "async"},
             fu_owners' \in Int, fu_satisfied' \in Nat,
             fu_op' \in [Waiter -> {"none", "wait", "for", "get", "zero"}],
             fu_pc' \in [FU!AllThreads -> Places],
             fu_at_exit' \subseteq Provider,
             fu_got' \in [Waiter -> {"none", "value", "thrown", "broken_promise"}]
      PROVE  FU!TypeOK'
  BY <1>I DEF FU!TypeOK, Places
<1>W. \A w \in Waiter : FU!WaiterIsSound(w)
  BY DEF FU!CallsAreSound
<1>P. \A p \in Provider : FU!ProviderIsSound(p)
  BY DEF FU!CallsAreSound
<1>D. FU!OneDecides
  BY DEF FU!CallsAreSound
<1>S. FU!SatisfiedOnce /\ FU!GotResult
  BY DEF FU!OneResult
<1>Q. fu_satisfied = (IF FU!has_value THEN 1 ELSE 0) /\ (fu_ready => fu_satisfied = 1)
  BY <1>S DEF FU!SatisfiedOnce
<1> DEFINE Gotten == [Waiter -> {"none", "value", "thrown", "broken_promise"}]
<1> DEFINE Sound == FU!TypeOK' /\ FU!CallsAreSound' /\ FU!OneResult'
\* A store where there was no result.
<1>B. ASSUME NEW t \in FU!AllThreads, NEW l \in Places, NEW r \in {"value", "thrown", "broken_promise"},
             FU!Store(r), ~FU!has_value, FU!GotoAndNotify(t, l) \/ (UNCHANGED fu_pc /\ fu_pc[t] = l),
             fu_ready' \in BOOLEAN, fu_ready => fu_ready', fu_deferred' = fu_deferred,
             UNCHANGED <<fu_kind, fu_freed, fu_op, fu_got>>,
             fu_owners' \in Int, fu_at_exit' \subseteq Provider, fu_at_exit \subseteq fu_at_exit',
             fu_kind = "promise" \/ UNCHANGED fu_at_exit,
             fu_kind # "async" \/ t = promiser,
             ~fu_deferred,
             \A u \in FU!AllThreads \ {t} : fu_pc[u] \notin {"execute", "break"},
             l \notin {"execute", "break"},
             t \in Waiter => FU!WaiterIsSound(t)',
             t \in Provider => FU!ProviderIsSound(t)'
      PROVE  Sound
  <2>1. fu_pc' \in [FU!AllThreads -> Places] /\ Moved(t, l)
    BY <1>B, <1>T, Moving DEF Moved
  <2>2. /\ FU!has_value' /\ fu_constructed' \in BOOLEAN
        /\ fu_exception' \in {"none", "thrown", "broken_promise"}
        /\ fu_satisfied' = fu_satisfied + 1 /\ fu_satisfied' \in Nat
    BY <1>B, Storing
  <2>3. FU!TypeOK'
    BY <1>B, <1>I, <1>T, <2>1, <2>2
  <2>4. ASSUME NEW w \in Waiter \ {t} PROVE FU!WaiterIsSound(w)'
    BY <1>B, <1>W, <2>1, <2>2, <2>4, WaitersFramed
  <2>5. ASSUME NEW p \in Provider \ {t} PROVE FU!ProviderIsSound(p)'
    BY <1>B, <1>P, <2>1, <2>5, ProvidersFramed
  <2>6. FU!OneDecides'
    <3>1. \A u \in FU!AllThreads : fu_pc'[u] \notin {"execute", "break"}
      BY <1>B, <2>1 DEF Moved
    <3>2. fu_at_exit' # {} => fu_kind' = "promise"
      BY <1>B, <1>D DEF FU!OneDecides
    <3> QED
      BY <1>B, <2>2, <3>1, <3>2 DEF FU!OneDecides
  <2>7. FU!SatisfiedOnce'
    BY <1>B, <1>Q, <2>2 DEF FU!SatisfiedOnce
  <2>8. FU!GotResult'
    BY <1>B, GotFramed
  <2> QED
    BY <1>B, <2>3, <2>4, <2>5, <2>6, <2>7, <2>8 DEF FU!CallsAreSound, FU!OneResult
\* A step that stores nothing.
<1>N. ASSUME NEW t \in FU!AllThreads, NEW l \in Places,
             FU!Goto(t, l) \/ FU!GotoAndNotify(t, l),
             UNCHANGED <<fu_kind, fu_constructed, fu_exception, fu_satisfied, fu_at_exit>>,
             UNCHANGED fu_got \/ (fu_got' \in Gotten /\ FU!GotResult'),
             fu_ready' = fu_ready \/ (fu_ready' = TRUE /\ FU!has_value /\ fu_kind = "promise"),
             fu_freed' \in BOOLEAN, fu_owners' \in Int,
             fu_op' \in [Waiter -> {"none", "wait", "for", "get", "zero"}],
             \A w \in Waiter \ {t} : fu_op'[w] = fu_op[w],
             fu_deferred' \in BOOLEAN,
             FU!OneDecides' \/ (UNCHANGED fu_deferred /\ l \notin {"execute", "break"}),
             t \in Waiter => FU!WaiterIsSound(t)',
             t \in Provider => FU!ProviderIsSound(t)'
      PROVE  Sound
  <2>1. fu_pc' \in [FU!AllThreads -> Places] /\ Moved(t, l)
    BY <1>N, <1>T, Moving
  <2>2. FU!has_value' <=> FU!has_value
    BY <1>N, NotStoring
  <2>3. FU!TypeOK'
    BY <1>N, <1>I, <1>T, <2>1
  <2>4. ASSUME NEW w \in Waiter \ {t} PROVE FU!WaiterIsSound(w)'
    BY <1>N, <1>W, <2>1, <2>2, <2>4, WaitersFramed
  <2>5. ASSUME NEW p \in Provider \ {t} PROVE FU!ProviderIsSound(p)'
    BY <1>N, <1>P, <2>1, <2>5, ProvidersFramed
  <2>6. FU!OneDecides'
    BY <1>N, <1>D, <2>1, DecidesFramed
  <2>7. FU!SatisfiedOnce'
    BY <1>N, <1>Q, <2>2 DEF FU!SatisfiedOnce
  <2>8. FU!GotResult'
    BY <1>N, GotFramed
  <2> QED
    BY <1>N, <2>3, <2>4, <2>5, <2>6, <2>7, <2>8 DEF FU!CallsAreSound, FU!OneResult
\* Before the promise is destroyed nobody but its owner may have to break it.
<1>E. ASSUME fu_kind = "promise"
      PROVE  /\ ~fu_deferred
             /\ \A u \in FU!AllThreads : fu_pc[u] # "execute"
             /\ \A u \in FU!AllThreads : fu_pc[u] = "break" => u = promiser
  BY <1>E, <1>W, <1>P, <1>D DEF FU!OneDecides, FU!WaiterIsSound, FU!ProviderIsSound
<1>1. ASSUME NEW p \in Provider, NEW r \in {"value", "thrown"}, FU!Set(p, r) PROVE Sound
  <2>1. /\ fu_kind = "promise" /\ fu_pc[promiser] = "idle" /\ fu_pc[p] = "idle" /\ ~FU!has_value
        /\ FU!Store(r) /\ fu_ready' = TRUE /\ FU!GotoAndNotify(p, "idle")
        /\ UNCHANGED <<fu_kind, fu_deferred, fu_owners, fu_freed, fu_op, fu_at_exit, fu_got>>
    BY <1>1 DEF FU!Set, FU!PromiseIsAlive
  <2>2. Moved(p, "idle")
    BY <2>1, Moving DEF Places
  <2>3. FU!ProviderIsSound(p)'
    BY <2>1, <2>2 DEF FU!ProviderIsSound, Moved
  <2>4. \A u \in FU!AllThreads \ {p} : fu_pc[u] \notin {"execute", "break"}
    BY <1>E, <2>1
  <2> QED
    BY <1>A, <1>B, <1>E, <1>T, <2>1, <2>3, <2>4 DEF Places
<1>2. ASSUME NEW p \in Provider, NEW r \in {"value", "thrown"}, FU!SetAtThreadExit(p, r) PROVE Sound
  <2>1. /\ fu_kind = "promise" /\ fu_pc[promiser] = "idle" /\ fu_pc[p] = "idle" /\ ~FU!has_value
        /\ FU!Store(r) /\ fu_at_exit' = fu_at_exit \cup {p} /\ fu_owners' = fu_owners + 1
        /\ UNCHANGED <<fu_kind, fu_ready, fu_deferred, fu_freed, fu_pc, fu_op, fu_got>>
    BY <1>2 DEF FU!SetAtThreadExit, FU!PromiseIsAlive, FU!MaySetAtExit
  <2>2. FU!ProviderIsSound(p)'
    BY <2>1 DEF FU!ProviderIsSound
  <2>3. \A u \in FU!AllThreads \ {p} : fu_pc[u] \notin {"execute", "break"}
    BY <1>E, <2>1
  <2>4. fu_owners' \in Int /\ fu_at_exit' \subseteq Provider
    BY <1>T, <2>1
  <2> QED
    BY <1>A, <1>B, <1>E, <1>T, <2>1, <2>2, <2>3, <2>4 DEF Places
<1>3. ASSUME FU!DestroyPromise PROVE Sound
  <2>1. /\ fu_kind = "promise" /\ fu_pc[promiser] = "idle"
        /\ UNCHANGED <<fu_kind, fu_constructed, fu_ready, fu_deferred, fu_exception, fu_owners, fu_freed,
                       fu_op, fu_at_exit, fu_satisfied, fu_got>>
    BY <1>3 DEF FU!DestroyPromise, FU!PromiseIsAlive, FU!bits
  <2>2. PICK l \in {"break", "release"} : FU!Goto(promiser, l) /\ (l = "break" => ~FU!has_value)
    BY <1>3 DEF FU!DestroyPromise, FU!MustBreak
  <2>3. l \in Places
    BY DEF Places
  <2>4. Moved(promiser, l)
    BY <1>A, <2>2, <2>3, Moving
  <2>5. FU!ProviderIsSound(promiser)'
    BY <2>1, <2>4 DEF FU!ProviderIsSound, Moved
  <2>6. CASE l = "release"
    BY <1>A, <1>N, <1>T, <2>1, <2>2, <2>3, <2>5, <2>6
  <2>7. CASE l = "break"
    <3>1. ~FU!has_value'
      BY <2>1, <2>2, <2>7, NotStoring
    <3>2. \A u \in FU!AllThreads : fu_pc'[u] # "execute"
      BY <1>E, <2>1, <2>4, <2>7 DEF Moved
    <3>3. FU!OneDecides'
      BY <1>D, <1>E, <2>1, <2>2, <2>7, <3>1, <3>2 DEF FU!OneDecides
    <3> QED
      BY <1>A, <1>N, <1>T, <2>1, <2>2, <2>3, <2>5, <3>3
  <2> QED
    BY <2>6, <2>7
<1>4. ASSUME FU!BreakPromise PROVE Sound
  <2>1. /\ fu_pc[promiser] = "break" /\ FU!Store("broken_promise") /\ fu_ready' = TRUE
        /\ FU!GotoAndNotify(promiser, "release")
        /\ UNCHANGED <<fu_kind, fu_deferred, fu_owners, fu_freed, fu_op, fu_at_exit, fu_got>>
    BY <1>4 DEF FU!BreakPromise
  <2>2. Moved(promiser, "release")
    BY <1>A, <2>1, Moving DEF Places
  <2>3. fu_kind = "promise" /\ ~FU!has_value
    BY <1>A, <1>D, <1>P, <1>T, <2>1 DEF FU!ProviderIsSound, FU!OneDecides
  <2>4. FU!ProviderIsSound(promiser)'
    BY <2>1, <2>2, <2>3 DEF FU!ProviderIsSound, Moved
  <2>5. \A u \in FU!AllThreads \ {promiser} : fu_pc[u] \notin {"execute", "break"}
    BY <1>E, <2>3
  <2>6. /\ fu_ready' \in BOOLEAN /\ (fu_ready => fu_ready') /\ fu_owners' \in Int
        /\ fu_at_exit' \subseteq Provider /\ fu_at_exit \subseteq fu_at_exit'
    BY <1>T, <2>1
  <2>7. "release" \in Places /\ promiser \in FU!AllThreads /\ promiser \notin Waiter /\ ~fu_deferred
    BY <1>A, <1>E, <2>3 DEF Places
  <2> QED
    BY <1>B, <2>1, <2>3, <2>4, <2>5, <2>6, <2>7
<1>5. ASSUME NEW p \in Provider, FU!ThreadExit(p) PROVE Sound
  <2>1. /\ fu_kind = "promise"
        /\ UNCHANGED <<fu_kind, fu_constructed, fu_deferred, fu_exception, fu_owners, fu_freed, fu_op,
                       fu_at_exit, fu_satisfied, fu_got>>
    BY <1>5 DEF FU!ThreadExit
  <2>2. CASE p \in fu_at_exit /\ fu_ready' = TRUE /\ FU!GotoAndNotify(p, "exit_release")
    <3>1. Moved(p, "exit_release")
      BY <2>2, Moving DEF Places
    <3>2. FU!ProviderIsSound(p)'
      BY <2>1, <2>2, <3>1 DEF FU!ProviderIsSound, Moved
    <3>3. FU!has_value
      BY <1>D, <2>2 DEF FU!OneDecides
    <3> QED
      BY <1>A, <1>N, <1>T, <2>1, <2>2, <3>2, <3>3 DEF Places
  <2>3. CASE FU!Goto(p, "exited") /\ UNCHANGED fu_ready
    <3>1. Moved(p, "exited")
      BY <2>3, Moving DEF Places
    <3>2. FU!ProviderIsSound(p)'
      BY <2>1, <2>3, <3>1 DEF FU!ProviderIsSound, Moved
    <3> QED
      BY <1>A, <1>N, <1>T, <2>1, <2>3, <3>2 DEF Places
  <2> QED
    BY <1>5, <2>2, <2>3 DEF FU!ThreadExit
<1>6. ASSUME NEW p \in Provider, FU!ProviderReleases(p) PROVE Sound
  <2>1. /\ fu_owners' = fu_owners - 1 /\ fu_freed' = (fu_freed \/ fu_owners' = -1)
        /\ UNCHANGED <<fu_kind, fu_constructed, fu_ready, fu_deferred, fu_exception, fu_op, fu_at_exit,
                       fu_satisfied, fu_got>>
    BY <1>6 DEF FU!ProviderReleases, FU!bits
  <2>2. fu_kind = "promise"
    BY <1>6, <1>P, <1>T DEF FU!ProviderReleases, FU!ProviderIsSound
  <2>3. PICK l \in {"done", "exited"} : FU!Goto(p, l) /\ (l = "done" => p = promiser)
    BY <1>6, <1>P DEF FU!ProviderReleases, FU!ProviderIsSound
  <2>4. l \in Places
    BY DEF Places
  <2>5. Moved(p, l)
    BY <2>3, <2>4, Moving
  <2>6. FU!ProviderIsSound(p)'
    BY <2>1, <2>2, <2>3, <2>5 DEF FU!ProviderIsSound, Moved
  <2>7. fu_owners' \in Int /\ fu_freed' \in BOOLEAN
    BY <1>T, <2>1
  <2> QED
    BY <1>A, <1>N, <1>T, <2>1, <2>3, <2>4, <2>6, <2>7
<1>7. ASSUME NEW w \in Waiter, NEW o \in {"wait", "for", "get"}, FU!Call(w, o) PROVE Sound
  <2>1. /\ fu_pc[w] = "idle" /\ fu_op' = [fu_op EXCEPT ![w] = o] /\ FU!Goto(w, "look")
        /\ UNCHANGED <<fu_kind, fu_constructed, fu_ready, fu_deferred, fu_exception, fu_owners, fu_freed,
                       fu_at_exit, fu_satisfied, fu_got>>
    BY <1>7 DEF FU!Call, FU!bits
  <2>2. Moved(w, "look")
    BY <2>1, Moving DEF Places
  <2>3. /\ fu_op' \in [Waiter -> {"none", "wait", "for", "get", "zero"}] /\ fu_op'[w] = o
        /\ \A v \in Waiter \ {w} : fu_op'[v] = fu_op[v]
    BY <1>T, <2>1
  <2>4. FU!WaiterIsSound(w)'
    BY <2>2, <2>3 DEF FU!WaiterIsSound, Moved
  <2> QED
    BY <1>A, <1>N, <1>T, <2>1, <2>3, <2>4 DEF Places
\* What follows the wait.
<1>F. ASSUME NEW w \in Waiter
      PROVE  /\ FU!AfterWait(w) \in {"read", "delete", "idle"} /\ FU!AfterWait(w) \in Places
             /\ FU!AfterWait(w) = "delete" <=> fu_op[w] = "zero"
  BY DEF FU!AfterWait, Places
<1>8. ASSUME NEW w \in Waiter, FU!Look(w) PROVE Sound
  <2>1. /\ fu_pc[w] = "look"
        /\ UNCHANGED <<fu_kind, fu_constructed, fu_ready, fu_exception, fu_owners, fu_freed, fu_op,
                       fu_at_exit, fu_satisfied, fu_got>>
    BY <1>8 DEF FU!Look
  <2>2. FU!WaiterIsSound(w)
    BY <1>W
  <2>3. CASE fu_ready /\ FU!Goto(w, FU!AfterWait(w)) /\ UNCHANGED fu_deferred
    <3>1. PICK l \in {"read", "delete", "idle"} : l = FU!AfterWait(w) /\ FU!Goto(w, l) /\ l \in Places
      BY <1>F, <2>3
    <3>2. Moved(w, l)
      BY <3>1, Moving
    <3>3. FU!has_value'
      BY <1>Q, <2>1, <2>3, NotStoring
    <3>4. FU!WaiterIsSound(w)'
      BY <1>F, <2>1, <2>2, <2>3, <3>1, <3>2, <3>3 DEF FU!WaiterIsSound, Moved
    <3> QED
      BY <1>A, <1>N, <1>T, <2>1, <2>3, <3>1, <3>4
  <2>4. CASE ~fu_ready /\ fu_deferred /\ fu_op[w] = "for" /\ FU!Goto(w, "idle") /\ UNCHANGED fu_deferred
    <3>1. Moved(w, "idle")
      BY <2>4, Moving DEF Places
    <3>2. FU!WaiterIsSound(w)'
      BY <2>1, <2>2, <2>4, <3>1 DEF FU!WaiterIsSound, Moved
    <3> QED
      BY <1>A, <1>N, <1>T, <2>1, <2>4, <3>2 DEF Places
  <2>5. CASE ~fu_ready /\ fu_deferred /\ fu_op[w] # "for" /\ fu_deferred' = FALSE /\ FU!Goto(w, "execute")
    <3>1. Moved(w, "execute")
      BY <2>5, Moving DEF Places
    <3>2. /\ fu_kind = "deferred" /\ ~FU!has_value /\ ~FU!has_value' /\ fu_at_exit = {}
          /\ \A u \in FU!AllThreads : fu_pc[u] \notin {"execute", "break"}
      BY <1>D, <2>1, <2>5, NotStoring DEF FU!OneDecides
    <3>3. fu_op[w] \in {"wait", "get"}
      BY <1>T, <2>1, <2>2, <2>5, <3>2 DEF FU!WaiterIsSound
    <3>4. FU!WaiterIsSound(w)'
      BY <2>1, <2>2, <3>1, <3>2, <3>3 DEF FU!WaiterIsSound, Moved
    <3>5. FU!OneDecides'
      BY <2>1, <2>5, <3>1, <3>2 DEF FU!OneDecides, Moved
    <3> QED
      BY <1>A, <1>N, <1>T, <2>1, <2>5, <3>4, <3>5 DEF Places
  <2>6. CASE ~fu_ready /\ ~fu_deferred /\ FU!Goto(w, "sleep") /\ UNCHANGED fu_deferred
    <3>1. Moved(w, "sleep")
      BY <2>6, Moving DEF Places
    <3>2. FU!WaiterIsSound(w)'
      BY <2>1, <2>2, <3>1 DEF FU!WaiterIsSound, Moved
    <3> QED
      BY <1>A, <1>N, <1>T, <2>1, <2>6, <3>2 DEF Places
  <2> QED
    BY <1>8, <2>3, <2>4, <2>5, <2>6 DEF FU!Look, FU!DeferredAfterClaim
<1>9. ASSUME NEW w \in Waiter, FU!TimesOut(w) PROVE Sound
  <2>1. /\ fu_pc[w] = "sleep"
        /\ UNCHANGED <<fu_kind, fu_constructed, fu_ready, fu_deferred, fu_exception, fu_owners, fu_freed,
                       fu_op, fu_at_exit, fu_satisfied, fu_got>>
    BY <1>9 DEF FU!TimesOut, FU!bits
  <2>2. PICK l \in {"idle", "look"} : FU!Goto(w, l) /\ (l = "idle" => fu_op[w] = "for")
    BY <1>9 DEF FU!TimesOut
  <2>3. l \in Places
    BY DEF Places
  <2>4. Moved(w, l)
    BY <2>2, <2>3, Moving
  <2>5. FU!WaiterIsSound(w)'
    BY <1>W, <2>1, <2>2, <2>4 DEF FU!WaiterIsSound, Moved
  <2> QED
    BY <1>A, <1>N, <1>T, <2>1, <2>2, <2>3, <2>5
<1>10. ASSUME NEW t \in FU!AllThreads, NEW r \in {"value", "thrown"}, FU!Execute(t, r) PROVE Sound
  <2>1. /\ fu_pc[t] = "execute" /\ FU!Store(r) /\ fu_ready' = TRUE
        /\ FU!GotoAndNotify(t, IF t \in Waiter THEN FU!AfterWait(t) ELSE "exited")
        /\ UNCHANGED <<fu_kind, fu_deferred, fu_owners, fu_freed, fu_op, fu_at_exit, fu_got>>
    BY <1>10 DEF FU!Execute
  <2>2. /\ ~FU!has_value /\ ~fu_deferred
        /\ \A u \in FU!AllThreads \ {t} : fu_pc[u] # "execute"
    BY <1>D, <2>1 DEF FU!OneDecides
  <2>3. FU!has_value'
    BY <2>1, Storing
  <2>4. \A u \in FU!AllThreads : fu_pc[u] # "break"
    BY <1>A, <1>W, <1>P, <1>T, <2>1 DEF FU!WaiterIsSound, FU!ProviderIsSound
  <2>5. CASE t \in Waiter
    <3>1. PICK l \in {"read", "idle"} : FU!GotoAndNotify(t, l) /\ l \in Places
      BY <1>F, <1>W, <2>1, <2>5 DEF FU!WaiterIsSound
    <3>2. Moved(t, l)
      BY <3>1, Moving
    <3>3. fu_kind = "deferred" /\ fu_op[t] \in {"wait", "get"}
      BY <1>W, <2>1, <2>5 DEF FU!WaiterIsSound
    <3>4. FU!WaiterIsSound(t)'
      BY <2>1, <2>3, <3>2, <3>3 DEF FU!WaiterIsSound, Moved
    <3>5. /\ fu_ready' \in BOOLEAN /\ (fu_ready => fu_ready') /\ fu_owners' \in Int
          /\ fu_at_exit' \subseteq Provider /\ fu_at_exit \subseteq fu_at_exit'
      BY <1>T, <2>1
    <3>6. t \notin Provider /\ fu_kind # "async" /\ l \notin {"execute", "break"}
      BY <1>A, <2>5, <3>3
    <3>7. /\ FU!Store(r) /\ fu_deferred' = fu_deferred
          /\ UNCHANGED <<fu_kind, fu_freed, fu_op, fu_got>> /\ UNCHANGED fu_at_exit
      BY <2>1
    <3> QED
      BY <1>B, <2>2, <2>4, <3>1, <3>4, <3>5, <3>6, <3>7
  <2>6. CASE t \notin Waiter
    <3>1. FU!GotoAndNotify(t, "exited") /\ Moved(t, "exited")
      BY <2>1, <2>6, Moving DEF Places
    <3>2. t = promiser /\ fu_kind = "async"
      BY <1>P, <1>T, <2>1, <2>6 DEF FU!ProviderIsSound
    <3>3. FU!ProviderIsSound(t)'
      BY <2>1, <3>1, <3>2 DEF FU!ProviderIsSound, Moved
    <3>4. /\ fu_ready' \in BOOLEAN /\ (fu_ready => fu_ready') /\ fu_owners' \in Int
          /\ fu_at_exit' \subseteq Provider /\ fu_at_exit \subseteq fu_at_exit'
      BY <1>T, <2>1
    <3>5. /\ FU!Store(r) /\ fu_deferred' = fu_deferred /\ "exited" \in Places
          /\ UNCHANGED <<fu_kind, fu_freed, fu_op, fu_got>> /\ UNCHANGED fu_at_exit
      BY <2>1 DEF Places
    <3> QED
      BY <1>B, <2>2, <2>4, <2>6, <3>1, <3>2, <3>3, <3>4, <3>5
  <2> QED
    BY <2>5, <2>6
<1>11. ASSUME NEW w \in Waiter, FU!Read(w) PROVE Sound
  <2>1. /\ fu_pc[w] = "read" /\ fu_got' = [fu_got EXCEPT ![w] = FU!Result] /\ FU!Goto(w, "idle")
        /\ UNCHANGED <<fu_kind, fu_constructed, fu_ready, fu_deferred, fu_exception, fu_owners, fu_freed,
                       fu_op, fu_at_exit, fu_satisfied>>
    BY <1>11 DEF FU!Read, FU!bits
  <2>2. Moved(w, "idle")
    BY <2>1, Moving DEF Places
  <2>3. FU!has_value /\ fu_op[w] # "zero"
    BY <1>W, <2>1 DEF FU!WaiterIsSound
  <2>4. FU!Result' = FU!Result /\ FU!Result \in {"value", "thrown", "broken_promise"}
    BY <2>1, <2>3, NotStoring, ResultMeans
  <2>5. FU!WaiterIsSound(w)'
    BY <2>1, <2>2, <2>3 DEF FU!WaiterIsSound, Moved
  <2>6. fu_got' \in Gotten
    BY <1>T, <2>1, <2>4
  <2>7. FU!GotResult'
    BY <1>S, <1>T, <2>1, <2>4 DEF FU!GotResult
  <2> QED
    BY <1>A, <1>N, <1>T, <2>1, <2>5, <2>6, <2>7 DEF Places
<1>12. ASSUME NEW w \in Waiter, FU!WaiterReleases(w) PROVE Sound
  <2>1. /\ fu_pc[w] = "idle" /\ fu_owners' = fu_owners - 1 /\ fu_op' = [fu_op EXCEPT ![w] = "zero"]
        /\ UNCHANGED <<fu_kind, fu_constructed, fu_ready, fu_deferred, fu_exception, fu_freed, fu_at_exit,
                       fu_satisfied, fu_got>>
    BY <1>12 DEF FU!WaiterReleases, FU!bits
  <2>2. PICK l \in {"exited", "look", "delete"} :
           /\ FU!Goto(w, l)
           /\ l = "look" => fu_kind = "async"
           /\ l = "delete" => fu_kind # "async"
    BY <1>12 DEF FU!WaiterReleases, FU!ZeroWaits
  <2>3. l \in Places
    BY DEF Places
  <2>4. Moved(w, l)
    BY <2>2, <2>3, Moving
  <2>5. /\ fu_op' \in [Waiter -> {"none", "wait", "for", "get", "zero"}] /\ fu_op'[w] = "zero"
        /\ \A v \in Waiter \ {w} : fu_op'[v] = fu_op[v]
    BY <1>T, <2>1
  <2>6. FU!WaiterIsSound(w)'
    BY <2>1, <2>2, <2>4, <2>5 DEF FU!WaiterIsSound, Moved
  <2>7. fu_owners' \in Int
    BY <1>T, <2>1
  <2> QED
    BY <1>A, <1>N, <1>T, <2>1, <2>2, <2>3, <2>5, <2>6, <2>7
<1>13. ASSUME NEW w \in Waiter, FU!Delete(w) PROVE Sound
  <2>1. /\ fu_pc[w] = "delete" /\ fu_freed' = TRUE /\ FU!Goto(w, "exited")
        /\ UNCHANGED <<fu_kind, fu_constructed, fu_ready, fu_deferred, fu_exception, fu_owners, fu_op,
                       fu_at_exit, fu_satisfied, fu_got>>
    BY <1>13 DEF FU!Delete, FU!bits
  <2>2. Moved(w, "exited")
    BY <2>1, Moving DEF Places
  <2>3. FU!WaiterIsSound(w)'
    BY <1>W, <2>1, <2>2 DEF FU!WaiterIsSound, Moved
  <2> QED
    BY <1>A, <1>N, <1>T, <2>1, <2>3 DEF Places
<1> HIDE DEF FU!AllThreads
<1> QED
  BY <1>1, <1>2, <1>3, <1>4, <1>5, <1>6, <1>7, <1>8, <1>9, <1>10, <1>11, <1>12, <1>13
  DEF FU!Next, FU!Step, FU!Call
-----------------------------------------------------------------------------
\* Sets of waiters and of providers can be counted.
LEMMA Countable ==
    ASSUME NEW S, S \subseteq Waiter \/ S \subseteq Provider
    PROVE  /\ IsFiniteSet(S) /\ Cardinality(S) \in Nat
           /\ Cardinality(S) = 0 <=> S = {}
           /\ \A x : /\ x \notin S => Cardinality(S \cup {x}) = Cardinality(S) + 1
                     /\ x \in S => Cardinality(S \ {x}) = Cardinality(S) - 1
<1>1. IsFiniteSet(S)
  BY SyncAssumption, FS_Subset
<1> QED
  BY <1>1, FS_CardinalityType, FS_EmptySet, FS_AddElement, FS_RemoveElement

\* OwnersAreExact, over the sets of those that refer to the state.
Counted(owners, futures, exiting, promise) ==
    owners = Cardinality(futures) + Cardinality(exiting) - IF promise THEN 0 ELSE 1

Ending ==
    IF fu_owners = -1
    THEN \/ fu_freed /\ (fu_kind = "async" => fu_ready) /\ \A w \in Waiter : fu_pc[w] = "exited"
         \/ ~fu_freed /\ \E w \in Waiter : /\ fu_pc[w] # "exited"
                                           /\ \A v \in Waiter \ {w} : fu_pc[v] = "exited"
    ELSE ~fu_freed /\ \A w \in Waiter : fu_op[w] = "zero" => fu_pc[w] = "exited"

LEMMA OwnersMean ==
    /\ FU!OwnersAreExact <=> Counted(fu_owners, FU!Futures, FU!Exiting, FU!PromiseRefers) /\ Ending
    /\ FU!OwnersAreExact' <=> Counted(fu_owners', FU!Futures', FU!Exiting', FU!PromiseRefers') /\ Ending'
<1>1. /\ FU!Cardinality(FU!Futures) = Cardinality(FU!Futures)
      /\ FU!Cardinality(FU!Futures') = Cardinality(FU!Futures')
      /\ FU!Cardinality(FU!Exiting) = Cardinality(FU!Exiting)
      /\ FU!Cardinality(FU!Exiting') = Cardinality(FU!Exiting')
  BY Counting
<1>2. FU!OwnersAreExact <=> Counted(fu_owners, FU!Futures, FU!Exiting, FU!PromiseRefers) /\ Ending
  BY <1>1 DEF FU!OwnersAreExact, Counted, Ending
<1>3. FU!OwnersAreExact' <=> Counted(fu_owners', FU!Futures', FU!Exiting', FU!PromiseRefers') /\ Ending'
  BY <1>1 DEF FU!OwnersAreExact, Counted, Ending
<1> QED
  BY <1>2, <1>3

\* Those who refer to the state, after a step of t.
LEMMA Referring ==
    ASSUME FU!TypeOK, FU!CallsAreSound, NEW t, NEW l, Moved(t, l), UNCHANGED fu_kind
    PROVE  /\ \A p \in fu_at_exit \ {t} : fu_pc'[p] = fu_pc[p]
           /\ t # promiser => (FU!PromiseRefers' <=> FU!PromiseRefers)
           /\ \A w \in Waiter \ {t} : fu_pc'[w] = "exited" <=> fu_pc[w] = "exited"
<1>1. \A p \in Provider \ {t} : fu_pc'[p] = fu_pc[p]
  BY DEF Moved, FU!CallsAreSound, FU!ProviderIsSound, FU!AllThreads
<1>2. fu_at_exit \subseteq Provider
  BY DEF FU!TypeOK
<1>3. t # promiser => (FU!PromiseRefers' <=> FU!PromiseRefers)
  BY <1>1, SyncAssumption DEF FU!PromiseRefers
<1>4. \A w \in Waiter \ {t} : fu_pc'[w] = "exited" <=> fu_pc[w] = "exited"
  BY DEF Moved, FU!AllThreads
<1> QED
  BY <1>1, <1>2, <1>3, <1>4

ReferringPlaces == {"idle", "break", "release"}

LEMMA OwnersFramed ==
    ASSUME FU!TypeOK, FU!CallsAreSound, FU!OwnersAreExact,
           NEW t \in FU!AllThreads, NEW l, Moved(t, l),
           UNCHANGED <<fu_owners, fu_freed, fu_kind, fu_at_exit>>, fu_ready => fu_ready',
           \A w \in Waiter : fu_op'[w] = "zero" <=> fu_op[w] = "zero",
           fu_pc[t] # "exited", l = "exited" => t \in Provider \ fu_at_exit,
           t = promiser /\ fu_kind = "promise" =>
               (fu_pc[t] \in ReferringPlaces <=> l \in ReferringPlaces)
    PROVE  FU!OwnersAreExact'
<1>1. FU!Futures' = FU!Futures
  BY DEF FU!Futures
<1>2. FU!Exiting' = FU!Exiting
  <2>1. \A p \in fu_at_exit : fu_pc'[p] # "exited" <=> fu_pc[p] # "exited"
    BY Referring DEF Moved
  <2> QED
    BY <2>1 DEF FU!Exiting
<1>3. FU!PromiseRefers' <=> FU!PromiseRefers
  <2>1. CASE t = promiser
    BY <2>1 DEF FU!PromiseRefers, Moved, ReferringPlaces
  <2> QED
    BY <2>1, Referring
<1>4. \A w \in Waiter : fu_pc'[w] = "exited" <=> fu_pc[w] = "exited"
  BY Referring, SyncAssumption DEF Moved
<1>5. Counted(fu_owners, FU!Futures, FU!Exiting, FU!PromiseRefers) /\ Ending
  BY OwnersMean
<1>6. Ending'
  BY <1>4, <1>5 DEF Ending
<1>7. Counted(fu_owners', FU!Futures', FU!Exiting', FU!PromiseRefers')
  BY <1>1, <1>2, <1>3, <1>5 DEF Counted
<1> QED
  BY <1>6, <1>7, OwnersMean
\* No reference is left when the count is -1.
LEMMA NobodyRefers ==
    ASSUME FU!TypeOK, FU!OwnersAreExact
    PROVE  /\ fu_owners >= -1
           /\ fu_owners = -1 => FU!Futures = {} /\ FU!Exiting = {} /\ ~FU!PromiseRefers
           /\ fu_owners = 0 /\ FU!PromiseRefers => FU!Futures = {} /\ FU!Exiting = {}
           /\ fu_owners = 0 /\ FU!Exiting # {} => FU!Futures = {}
<1>1. Counted(fu_owners, FU!Futures, FU!Exiting, FU!PromiseRefers)
  BY OwnersMean
<1>2. FU!Futures \subseteq Waiter /\ FU!Exiting \subseteq Provider
  BY DEF FU!Futures, FU!Exiting, FU!TypeOK
<1>3. /\ Cardinality(FU!Futures) \in Nat /\ (Cardinality(FU!Futures) = 0 <=> FU!Futures = {})
      /\ Cardinality(FU!Exiting) \in Nat /\ (Cardinality(FU!Exiting) = 0 <=> FU!Exiting = {})
  BY <1>2, Countable
<1> QED
  BY <1>1, <1>3 DEF Counted

LEMMA FutureOwnersStep ==
    ASSUME FU!TypeOK, FU!CallsAreSound, FU!OneResult, FU!OwnersAreExact, FU!Next
    PROVE  FU!OwnersAreExact'
<1> USE DEF FU!AllThreads
<1>A. /\ promiser \in Provider /\ Waiter \cap Provider = {}
      /\ \A w \in Waiter : w \notin Provider /\ w # promiser
  BY SyncAssumption
<1>T. /\ fu_kind \in {"promise", "deferred", "async"} /\ fu_owners \in Int
      /\ fu_at_exit \subseteq Provider /\ fu_freed \in BOOLEAN /\ fu_ready \in BOOLEAN
      /\ fu_op \in [Waiter -> {"none", "wait", "for", "get", "zero"}]
  BY DEF FU!TypeOK
<1>W. \A w \in Waiter : FU!WaiterIsSound(w)
  BY DEF FU!CallsAreSound
<1>P. \A p \in Provider : FU!ProviderIsSound(p)
  BY DEF FU!CallsAreSound
<1>D. FU!OneDecides
  BY DEF FU!CallsAreSound
<1>O. Counted(fu_owners, FU!Futures, FU!Exiting, FU!PromiseRefers) /\ Ending
  BY OwnersMean
<1>S. FU!Futures \subseteq Waiter /\ FU!Exiting \subseteq Provider
  BY <1>T DEF FU!Futures, FU!Exiting
<1>C. /\ Cardinality(FU!Futures) \in Nat /\ Cardinality(FU!Exiting) \in Nat
      /\ \A x : /\ x \in FU!Futures => Cardinality(FU!Futures \ {x}) = Cardinality(FU!Futures) - 1
                /\ x \in FU!Exiting => Cardinality(FU!Exiting \ {x}) = Cardinality(FU!Exiting) - 1
                /\ x \notin FU!Exiting => Cardinality(FU!Exiting \cup {x}) = Cardinality(FU!Exiting) + 1
  BY <1>S, Countable
<1> DEFINE Goal == FU!OwnersAreExact'
<1>1. ASSUME NEW p \in Provider, NEW r \in {"value", "thrown"}, FU!Set(p, r) PROVE Goal
  <2>1. /\ fu_pc[p] = "idle" /\ fu_ready' = TRUE /\ FU!GotoAndNotify(p, "idle")
        /\ UNCHANGED <<fu_kind, fu_owners, fu_freed, fu_op, fu_at_exit>>
    BY <1>1 DEF FU!Set
  <2>2. Moved(p, "idle")
    BY <2>1, Moving DEF Places
  <2> QED
    BY <2>1, <2>2, OwnersFramed
<1>2. ASSUME NEW p \in Provider, NEW r \in {"value", "thrown"}, FU!SetAtThreadExit(p, r) PROVE Goal
  <2>1. /\ fu_kind = "promise" /\ fu_pc[promiser] = "idle" /\ fu_pc[p] = "idle" /\ ~FU!has_value
        /\ fu_at_exit' = fu_at_exit \cup {p} /\ fu_owners' = fu_owners + 1
        /\ UNCHANGED <<fu_kind, fu_ready, fu_freed, fu_pc, fu_op>>
    BY <1>2 DEF FU!SetAtThreadExit, FU!PromiseIsAlive, FU!MaySetAtExit
  <2>2. fu_at_exit = {} /\ FU!Exiting = {}
    BY <1>D, <2>1 DEF FU!OneDecides, FU!Exiting
  <2>3. /\ FU!Exiting' = FU!Exiting \cup {p} /\ FU!Futures' = FU!Futures
        /\ FU!PromiseRefers /\ FU!PromiseRefers'
    BY <2>1, <2>2 DEF FU!Exiting, FU!Futures, FU!PromiseRefers
  <2>4. Counted(fu_owners', FU!Futures', FU!Exiting', FU!PromiseRefers')
    <3>1. /\ Cardinality(FU!Exiting') = Cardinality(FU!Exiting) + 1
          /\ Cardinality(FU!Futures') = Cardinality(FU!Futures)
      BY <1>C, <2>2, <2>3
    <3> QED
      BY <1>C, <1>O, <1>T, <2>1, <2>3, <3>1 DEF Counted
  <2>5. fu_owners # -1 /\ fu_owners' # -1
    BY <1>T, <2>1, <2>3, NobodyRefers
  <2>6. Ending'
    BY <1>O, <2>1, <2>5 DEF Ending
  <2> QED
    BY <2>4, <2>6, OwnersMean
<1>3. ASSUME FU!DestroyPromise PROVE Goal
  <2>1. /\ fu_kind = "promise" /\ fu_pc[promiser] = "idle"
        /\ UNCHANGED <<fu_kind, fu_ready, fu_owners, fu_freed, fu_op, fu_at_exit>>
    BY <1>3 DEF FU!DestroyPromise, FU!PromiseIsAlive, FU!bits
  <2>2. PICK l \in {"break", "release"} : FU!Goto(promiser, l)
    BY <1>3 DEF FU!DestroyPromise
  <2>3. Moved(promiser, l)
    BY <1>A, <2>2, Moving DEF Places
  <2> QED
    BY <1>A, <2>1, <2>3, OwnersFramed DEF ReferringPlaces
<1>4. ASSUME FU!BreakPromise PROVE Goal
  <2>1. /\ fu_pc[promiser] = "break" /\ fu_ready' = TRUE /\ FU!GotoAndNotify(promiser, "release")
        /\ UNCHANGED <<fu_kind, fu_owners, fu_freed, fu_op, fu_at_exit>>
    BY <1>4 DEF FU!BreakPromise
  <2>2. Moved(promiser, "release")
    BY <1>A, <2>1, Moving DEF Places
  <2> QED
    BY <1>A, <2>1, <2>2, OwnersFramed DEF ReferringPlaces
<1>5. ASSUME NEW p \in Provider, FU!ThreadExit(p) PROVE Goal
  <2>1. /\ fu_pc[p] = (IF p = promiser THEN "done" ELSE "idle")
        /\ UNCHANGED <<fu_kind, fu_owners, fu_freed, fu_op, fu_at_exit>>
    BY <1>5 DEF FU!ThreadExit
  <2>2. PICK l \in {"exit_release", "exited"} :
           /\ FU!GotoAndNotify(p, l) \/ FU!Goto(p, l)
           /\ l = "exited" => p \notin fu_at_exit
           /\ fu_ready => fu_ready'
    BY <1>5 DEF FU!ThreadExit
  <2>3. Moved(p, l)
    BY <2>2, Moving DEF Places
  <2> QED
    BY <2>1, <2>2, <2>3, OwnersFramed DEF ReferringPlaces
<1>6. ASSUME NEW p \in Provider, FU!ProviderReleases(p) PROVE Goal
  <2>1. /\ fu_pc[p] \in {"release", "exit_release"}
        /\ fu_owners' = fu_owners - 1
        /\ fu_freed' <=> fu_freed \/ fu_owners' = -1
        /\ FU!Goto(p, IF fu_pc[p] = "release" THEN "done" ELSE "exited")
        /\ UNCHANGED <<fu_kind, fu_ready, fu_op, fu_at_exit>>
    BY <1>6 DEF FU!ProviderReleases, FU!bits
  <2>2. fu_kind = "promise"
    BY <1>P, <1>T, <2>1 DEF FU!ProviderIsSound
  <2>3. FU!Futures' = FU!Futures
    BY <2>1 DEF FU!Futures
  <2>4. /\ Counted(fu_owners', FU!Futures', FU!Exiting', FU!PromiseRefers')
        /\ fu_owners # -1
        /\ fu_owners = 0 => FU!Futures = {}
        /\ \A w \in Waiter : fu_pc'[w] = "exited" <=> fu_pc[w] = "exited"
    <3>1. CASE fu_pc[p] = "release"
      <4>1. p = promiser /\ Moved(p, "done")
        BY <1>P, <2>1, <3>1, Moving DEF FU!ProviderIsSound, Places
      <4>2. /\ \A u \in fu_at_exit \ {p} : fu_pc'[u] = fu_pc[u]
            /\ \A w \in Waiter : fu_pc'[w] = "exited" <=> fu_pc[w] = "exited"
        BY <1>A, <2>1, <4>1, Referring
      <4>3. FU!Exiting' = FU!Exiting /\ FU!PromiseRefers /\ ~FU!PromiseRefers'
        BY <2>1, <2>2, <3>1, <4>1, <4>2 DEF FU!Exiting, FU!PromiseRefers, Moved
      <4> QED
        BY <1>C, <1>O, <1>T, <2>1, <2>3, <4>2, <4>3, NobodyRefers DEF Counted
    <3>2. CASE fu_pc[p] = "exit_release"
      <4>1. p \in fu_at_exit /\ Moved(p, "exited")
        BY <1>P, <2>1, <3>2, Moving DEF FU!ProviderIsSound, Places
      <4>2. /\ \A u \in fu_at_exit \ {p} : fu_pc'[u] = fu_pc[u]
            /\ p # promiser => (FU!PromiseRefers' <=> FU!PromiseRefers)
            /\ \A w \in Waiter : fu_pc'[w] = "exited" <=> fu_pc[w] = "exited"
        BY <1>A, <2>1, <4>1, Referring
      <4>3. FU!Exiting' = FU!Exiting \ {p} /\ p \in FU!Exiting
        BY <2>1, <3>2, <4>1, <4>2 DEF FU!Exiting, Moved
      <4>4. FU!PromiseRefers' <=> FU!PromiseRefers
        BY <3>2, <4>1, <4>2 DEF FU!PromiseRefers, Moved
      <4>5. /\ Cardinality(FU!Exiting') = Cardinality(FU!Exiting) - 1
            /\ Cardinality(FU!Futures') = Cardinality(FU!Futures)
        BY <1>C, <2>3, <4>3
      <4>6. Counted(fu_owners', FU!Futures', FU!Exiting', FU!PromiseRefers')
        BY <1>C, <1>O, <1>T, <2>1, <4>4, <4>5 DEF Counted
      <4> QED
        BY <4>2, <4>3, <4>6, NobodyRefers
    <3> QED
      BY <2>1, <3>1, <3>2
  <2>5. ~fu_freed /\ \A w \in Waiter : fu_op[w] = "zero" => fu_pc[w] = "exited"
    BY <1>O, <2>4 DEF Ending
  <2>6. CASE fu_owners' = -1
    <3>1. \A w \in Waiter : fu_op[w] = "zero"
      BY <1>T, <2>1, <2>4, <2>6 DEF FU!Futures
    <3> QED
      BY <2>1, <2>2, <2>4, <2>5, <2>6, <3>1, OwnersMean DEF Ending
  <2>7. CASE fu_owners' # -1
    <3>1. Ending'
      BY <2>1, <2>4, <2>5, <2>7 DEF Ending
    <3> QED
      BY <2>4, <3>1, OwnersMean
  <2> QED
    BY <2>6, <2>7
<1>7. ASSUME NEW w \in Waiter, NEW o \in {"wait", "for", "get"}, FU!Call(w, o) PROVE Goal
  <2>1. /\ fu_pc[w] = "idle" /\ fu_op' = [fu_op EXCEPT ![w] = o] /\ FU!Goto(w, "look")
        /\ UNCHANGED <<fu_kind, fu_ready, fu_owners, fu_freed, fu_at_exit>>
    BY <1>7 DEF FU!Call, FU!bits
  <2>2. Moved(w, "look")
    BY <2>1, Moving DEF Places
  <2>3. \A v \in Waiter : fu_op'[v] = "zero" <=> fu_op[v] = "zero"
    BY <1>T, <1>W, <2>1 DEF FU!WaiterIsSound
  <2> QED
    BY <1>A, <2>1, <2>2, <2>3, OwnersFramed
<1>8. ASSUME NEW w \in Waiter, FU!Look(w) PROVE Goal
  <2>1. /\ fu_pc[w] = "look"
        /\ UNCHANGED <<fu_kind, fu_ready, fu_owners, fu_freed, fu_op, fu_at_exit>>
    BY <1>8 DEF FU!Look
  <2>2. PICK l \in {"read", "delete", "idle", "execute", "sleep"} : FU!Goto(w, l)
    BY <1>8 DEF FU!Look, FU!AfterWait
  <2>3. Moved(w, l)
    BY <2>2, Moving DEF Places
  <2> QED
    BY <1>A, <2>1, <2>3, OwnersFramed
<1>9. ASSUME NEW w \in Waiter, FU!TimesOut(w) PROVE Goal
  <2>1. /\ fu_pc[w] = "sleep"
        /\ UNCHANGED <<fu_kind, fu_ready, fu_owners, fu_freed, fu_op, fu_at_exit>>
    BY <1>9 DEF FU!TimesOut, FU!bits
  <2>2. PICK l \in {"idle", "look"} : FU!Goto(w, l)
    BY <1>9 DEF FU!TimesOut
  <2>3. Moved(w, l)
    BY <2>2, Moving DEF Places
  <2> QED
    BY <1>A, <2>1, <2>3, OwnersFramed
<1>10. ASSUME NEW t \in FU!AllThreads, NEW r \in {"value", "thrown"}, FU!Execute(t, r) PROVE Goal
  <2>1. /\ fu_pc[t] = "execute" /\ fu_ready' = TRUE
        /\ FU!GotoAndNotify(t, IF t \in Waiter THEN FU!AfterWait(t) ELSE "exited")
        /\ UNCHANGED <<fu_kind, fu_owners, fu_freed, fu_op, fu_at_exit>>
    BY <1>10 DEF FU!Execute
  <2>2. CASE t \in Waiter
    <3>1. PICK l \in {"read", "delete", "idle"} : FU!GotoAndNotify(t, l)
      BY <2>1, <2>2 DEF FU!AfterWait
    <3>2. Moved(t, l)
      BY <3>1, Moving DEF Places
    <3> QED
      BY <1>A, <2>1, <2>2, <3>2, OwnersFramed
  <2>3. CASE t \notin Waiter
    <3>1. Moved(t, "exited")
      BY <2>1, <2>3, Moving DEF Places
    <3>2. fu_kind = "async" /\ t \in Provider \ fu_at_exit
      BY <1>D, <1>P, <1>T, <2>1, <2>3 DEF FU!ProviderIsSound, FU!OneDecides
    <3> QED
      BY <2>1, <3>1, <3>2, OwnersFramed
  <2> QED
    BY <2>2, <2>3
<1>11. ASSUME NEW w \in Waiter, FU!Read(w) PROVE Goal
  <2>1. /\ fu_pc[w] = "read" /\ FU!Goto(w, "idle")
        /\ UNCHANGED <<fu_kind, fu_ready, fu_owners, fu_freed, fu_op, fu_at_exit>>
    BY <1>11 DEF FU!Read, FU!bits
  <2>2. Moved(w, "idle")
    BY <2>1, Moving DEF Places
  <2> QED
    BY <1>A, <2>1, <2>2, OwnersFramed
<1>12. ASSUME NEW w \in Waiter, FU!WaiterReleases(w) PROVE Goal
  <2>1. /\ fu_pc[w] = "idle" /\ fu_owners' = fu_owners - 1 /\ fu_op' = [fu_op EXCEPT ![w] = "zero"]
        /\ UNCHANGED <<fu_kind, fu_ready, fu_freed, fu_at_exit>>
    BY <1>12 DEF FU!WaiterReleases, FU!bits
  <2>2. PICK l \in {"exited", "look", "delete"} :
           FU!Goto(w, l) /\ (l = "exited" <=> fu_owners' # -1)
    BY <1>12 DEF FU!WaiterReleases
  <2>3. Moved(w, l)
    BY <2>2, Moving DEF Places
  <2>4. /\ \A u \in fu_at_exit : fu_pc'[u] = fu_pc[u]
        /\ FU!PromiseRefers' <=> FU!PromiseRefers
        /\ \A v \in Waiter \ {w} : fu_pc'[v] = "exited" <=> fu_pc[v] = "exited"
    BY <1>A, <1>T, <2>1, <2>3, Referring
  <2>5. fu_op[w] # "zero"
    BY <1>W, <2>1 DEF FU!WaiterIsSound
  <2>6. w \in FU!Futures /\ FU!Futures' = FU!Futures \ {w} /\ FU!Exiting' = FU!Exiting
    BY <1>T, <2>1, <2>4, <2>5 DEF FU!Futures, FU!Exiting
  <2>7. Counted(fu_owners', FU!Futures', FU!Exiting', FU!PromiseRefers')
    <3>1. /\ Cardinality(FU!Futures') = Cardinality(FU!Futures) - 1
          /\ Cardinality(FU!Exiting') = Cardinality(FU!Exiting)
      BY <1>C, <2>6
    <3> QED
      BY <1>C, <1>O, <1>T, <2>1, <2>4, <3>1 DEF Counted
  <2>8. fu_owners # -1
    BY <2>6, NobodyRefers
  <2>9. ~fu_freed /\ \A v \in Waiter : fu_op[v] = "zero" => fu_pc[v] = "exited"
    BY <1>O, <2>8 DEF Ending
  <2>10. CASE fu_owners' # -1
    <3>1. \A v \in Waiter : fu_op'[v] = "zero" => fu_pc'[v] = "exited"
      BY <1>T, <2>1, <2>2, <2>3, <2>4, <2>9, <2>10 DEF Moved
    <3>2. Ending'
      BY <2>1, <2>9, <2>10, <3>1 DEF Ending
    <3> QED
      BY <2>7, <3>2, OwnersMean
  <2>11. CASE fu_owners' = -1
    <3>1. FU!Futures \ {w} = {}
      <4>1. FU!Futures' \subseteq Waiter
        BY DEF FU!Futures
      <4>2. Cardinality(FU!Futures') \in Nat /\ (Cardinality(FU!Futures') = 0 <=> FU!Futures' = {})
        BY <4>1, Countable
      <4> QED
        BY <1>C, <2>4, <2>6, <2>7, <2>11, <4>2 DEF Counted
    <3>2. \A v \in Waiter \ {w} : fu_pc'[v] = "exited"
      BY <1>T, <2>4, <2>9, <3>1 DEF FU!Futures
    <3>3. fu_pc'[w] # "exited" /\ ~fu_freed'
      BY <2>1, <2>2, <2>3, <2>9, <2>11 DEF Moved
    <3>4. Ending'
      BY <2>11, <3>2, <3>3 DEF Ending
    <3> QED
      BY <2>7, <3>4, OwnersMean
  <2> QED
    BY <2>10, <2>11
<1>13. ASSUME NEW w \in Waiter, FU!Delete(w) PROVE Goal
  <2>1. /\ fu_pc[w] = "delete" /\ fu_freed' = TRUE /\ FU!Goto(w, "exited")
        /\ UNCHANGED <<fu_kind, fu_ready, fu_owners, fu_op, fu_at_exit>>
    BY <1>13 DEF FU!Delete, FU!bits
  <2>2. Moved(w, "exited")
    BY <2>1, Moving DEF Places
  <2>3. /\ \A u \in fu_at_exit : fu_pc'[u] = fu_pc[u]
        /\ FU!PromiseRefers' <=> FU!PromiseRefers
        /\ \A v \in Waiter \ {w} : fu_pc'[v] = "exited" <=> fu_pc[v] = "exited"
    BY <1>A, <1>T, <2>1, <2>2, Referring
  <2>4. fu_op[w] = "zero" /\ (fu_kind = "async" => fu_ready)
    BY <1>W, <2>1 DEF FU!WaiterIsSound
  <2>5. FU!Futures' = FU!Futures /\ FU!Exiting' = FU!Exiting
    BY <2>1, <2>3 DEF FU!Futures, FU!Exiting
  <2>6. Counted(fu_owners', FU!Futures', FU!Exiting', FU!PromiseRefers')
    BY <1>O, <2>1, <2>3, <2>5 DEF Counted
  <2>7. fu_owners = -1 /\ \A v \in Waiter \ {w} : fu_pc[v] = "exited"
    BY <1>O, <2>1, <2>4 DEF Ending
  <2>8. \A v \in Waiter : fu_pc'[v] = "exited"
    BY <2>2, <2>3, <2>7 DEF Moved
  <2>9. Ending'
    BY <2>1, <2>4, <2>7, <2>8 DEF Ending
  <2> QED
    BY <2>6, <2>9, OwnersMean
<1> HIDE DEF FU!AllThreads
<1> QED
  BY <1>1, <1>2, <1>3, <1>4, <1>5, <1>6, <1>7, <1>8, <1>9, <1>10, <1>11, <1>12, <1>13
  DEF FU!Next, FU!Step, FU!Call

\* Whoever may still use the state refers to it.
LEMMA OwnersSuffice ==
    ASSUME FU!TypeOK, FU!CallsAreSound, FU!OwnersAreExact
    PROVE  FU!StateOutlivesUse
<1>1. Ending
  BY OwnersMean
<1>2. ASSUME fu_freed
      PROVE  \A t \in FU!AllThreads :
                 \/ fu_pc[t] = "exited"
                 \/ t \in Provider /\ fu_pc[t] \in {"idle", "done"} /\ t \notin fu_at_exit
                    /\ ~FU!PromiseIsAlive
  <2>1. /\ fu_owners = -1 /\ (fu_kind = "async" => fu_ready)
        /\ \A w \in Waiter : fu_pc[w] = "exited"
    BY <1>1, <1>2 DEF Ending
  <2>2. FU!Exiting = {} /\ ~FU!PromiseRefers
    BY <2>1, NobodyRefers
  <2>3. ~FU!PromiseIsAlive
    BY <2>2 DEF FU!PromiseIsAlive, FU!PromiseRefers
  <2>4. \A p \in Provider : fu_pc[p] # "exited" => p \notin fu_at_exit
    BY <2>2 DEF FU!Exiting
  <2>5. ASSUME NEW p \in Provider PROVE fu_pc[p] \in {"exited", "idle", "done"}
    <3>1. FU!ProviderIsSound(p) /\ fu_kind \in {"promise", "deferred", "async"}
      BY DEF FU!CallsAreSound, FU!TypeOK
    <3>2. p = promiser /\ fu_kind = "promise" => fu_pc[p] \notin {"break", "release"}
      BY <2>2 DEF FU!PromiseRefers
    <3> QED
      BY <2>1, <2>4, <3>1, <3>2 DEF FU!ProviderIsSound
  <2> QED
    BY <2>1, <2>3, <2>4, <2>5 DEF FU!AllThreads
<1>3. ASSUME fu_owners = -1, \A t \in FU!AllThreads : fu_pc[t] = "exited" PROVE fu_freed
  BY <1>1, <1>3 DEF Ending, FU!AllThreads
<1> QED
  BY <1>2, <1>3 DEF FU!StateOutlivesUse
-----------------------------------------------------------------------------
\* A step is one of the behaviour's object, and stutters on the others.
LEMMA ObjectSteps ==
    ASSUME [SyncNext]_syncVars
    PROVE  /\ [SM!Next]_SM!vars /\ [CO!Next]_CO!vars
           /\ [SC!Next]_SC!vars /\ [FU!Next]_FU!vars
<1> USE DEF Others, smVars, coVars, scVars, fuVars,
            SM!vars, CO!vars, SC!vars, SC!counts, FU!vars, FU!bits
<1>1. CASE SharedMutexNext
  BY <1>1 DEF SharedMutexNext
<1>2. CASE CallOnceNext
  BY <1>2 DEF CallOnceNext
<1>3. CASE BarrierNext
  BY <1>3 DEF BarrierNext
<1>4. CASE SharedCountNext
  BY <1>4 DEF SharedCountNext
<1>5. CASE FutureNext
  BY <1>5 DEF FutureNext
<1>6. CASE FdeCacheNext
  BY <1>6 DEF FdeCacheNext
<1>7. CASE UNCHANGED syncVars
  BY <1>7 DEF syncVars
<1> QED
  BY <1>1, <1>2, <1>3, <1>4, <1>5, <1>6, <1>7 DEF SyncNext

LEMMA SharedMutexInit == SM!Init => SM!TypeOK /\ SM!SharedExclusion /\ SM!NoSleeperAtOpenGate
<1> SUFFICES ASSUME SM!Init PROVE SM!TypeOK /\ SM!SharedExclusion /\ SM!NoSleeperAtOpenGate
  OBVIOUS
<1>1. SM!TypeOK
  <2>1. 0 \in 0 .. n_readers
    BY SyncAssumption
  <2>2. sm_pc \in [Thread -> SM!Places]
    BY DEF SM!Init, SM!Places
  <2> QED
    BY <2>1, <2>2 DEF SM!Init, SM!TypeOK
<1>2. Behind = {} /\ Sharing = {} /\ Owning = {} /\ SM!In(SM!AtGate1) = {} /\ SM!In({"wait2"}) = {}
  BY DEF SM!Init, Behind, Sharing, Owning, SM!In, SM!AtGate1
<1>3. WordAgrees
  BY <1>2, FS_EmptySet DEF WordAgrees, SM!Init
<1>4. SM!NoSleeperAtOpenGate
  BY <1>2 DEF SM!NoSleeperAtOpenGate
<1> QED
  BY <1>1, <1>3, <1>4, WordMeans

LEMMA CallOnceInit == CO!Init => CO!TypeOK /\ CO!FlagsAgree /\ CO!NoStrandedOnceWaiter /\ CO!Once!Init
<1> SUFFICES ASSUME CO!Init
             PROVE  CO!TypeOK /\ CO!FlagsAgree /\ CO!NoStrandedOnceWaiter /\ CO!Once!Init
  OBVIOUS
<1>1. (CHOOSE f \in Flag : TRUE) \in Flag
  BY SyncAssumption
<1>2. CO!TypeOK
  BY <1>1, SyncAssumption DEF CO!Init, CO!TypeOK
<1>3. \A f \in Flag : CO!Running(f) = {}
  BY DEF CO!Init, CO!Running
<1>4. CO!FlagsAgree /\ CO!NoStrandedOnceWaiter
  BY <1>3 DEF CO!Init, CO!FlagsAgree, CO!NoStrandedOnceWaiter
<1>5. \A f \in Flag : CO!Status(f) = "unset"
  BY DEF CO!Init, CO!Status
<1>6. CO!Once!Init
  BY <1>5 DEF CO!Init, CO!Once!Init
<1> QED
  BY <1>2, <1>4, <1>6

LEMMA SharedCountInit == SC!Init => SC!TypeOK /\ SC!CountsAreExact
<1> SUFFICES ASSUME SC!Init PROVE SC!TypeOK /\ SC!CountsAreExact
  OBVIOUS
<1>1. SC!TypeOK
  BY SyncAssumption DEF SC!Init, SC!TypeOK
<1>2. SC!Releasing = {} /\ Disposing = {} /\ Freeing = {} /\ Locking = {}
  BY DEF SC!Init, SC!Releasing, SC!At, Disposing, Freeing, Locking
<1>3. Cardinality({maker}) = 1 /\ Cardinality({}) = 0
  BY FS_EmptySet, FS_Singleton
<1>4. CountsAgree
  BY <1>2, <1>3 DEF SC!Init, CountsAgree, BlockFor, ObjectFor
<1> QED
  BY <1>1, <1>4, CountsMean

LEMMA FutureInit == FU!Init => FU!TypeOK /\ FU!CallsAreSound /\ FU!OneResult /\ FU!OwnersAreExact
<1> SUFFICES ASSUME FU!Init
             PROVE  FU!TypeOK /\ FU!CallsAreSound /\ FU!OneResult /\ FU!OwnersAreExact
  OBVIOUS
<1>1. Cardinality(Waiter) \in Nat \ {0} /\ Cardinality({}) = 0
  BY Countable, SyncAssumption, FS_EmptySet
<1>2. fu_owners = Cardinality(Waiter) - IF fu_kind = "promise" THEN 0 ELSE 1
  BY Counting DEF FU!Init
<1>3. FU!TypeOK
  <2>1. fu_owners \in Int
    BY <1>1, <1>2
  <2>2. /\ fu_pc \in [FU!AllThreads -> Places]
        /\ fu_op \in [Waiter -> {"none", "wait", "for", "get", "zero"}]
        /\ fu_got \in [Waiter -> {"none", "value", "thrown", "broken_promise"}]
    BY DEF FU!Init, Places
  <2>3. fu_deferred \in BOOLEAN
    BY DEF FU!Init
  <2> QED
    BY <2>1, <2>2, <2>3 DEF FU!Init, FU!TypeOK, Places
<1>4. ~FU!has_value
  BY DEF FU!Init, FU!has_value
<1>5. /\ \A w \in Waiter : fu_pc[w] = "idle" /\ fu_op[w] = "none" /\ fu_got[w] = "none"
      /\ \A p \in Provider : fu_pc[p] = IF fu_kind = "async" /\ p = promiser THEN "execute" ELSE "idle"
  BY SyncAssumption DEF FU!Init, FU!AllThreads
<1>6. FU!CallsAreSound
  <2>1. \A w \in Waiter : FU!WaiterIsSound(w)
    BY <1>5 DEF FU!WaiterIsSound
  <2>2. \A p \in Provider : FU!ProviderIsSound(p)
    BY <1>5 DEF FU!ProviderIsSound, FU!Init
  <2>3. FU!OneDecides
    BY <1>4, <1>5 DEF FU!OneDecides, FU!Init, FU!AllThreads
  <2> QED
    BY <2>1, <2>2, <2>3 DEF FU!CallsAreSound
<1>7. FU!OneResult
  BY <1>4, <1>5 DEF FU!OneResult, FU!SatisfiedOnce, FU!GotResult, FU!Init
<1>8. /\ FU!Futures = Waiter /\ FU!Exiting = {}
      /\ FU!PromiseRefers <=> fu_kind = "promise"
  BY <1>5, SyncAssumption DEF FU!Futures, FU!Exiting, FU!PromiseRefers, FU!Init
<1>9. Counted(fu_owners, FU!Futures, FU!Exiting, FU!PromiseRefers)
  BY <1>1, <1>8, <1>2 DEF Counted
<1>10. fu_owners # -1
  BY <1>1, <1>2
<1>11. Ending
  BY <1>5, <1>10 DEF Ending, FU!Init
<1> QED
  BY <1>3, <1>6, <1>7, <1>9, <1>11, OwnersMean

\* ObjectsAreSound is inductive with OneResult: that a future that is ready has
\* a result is what a waiter that reads relies on.
LEMMA SoundStep ==
    ASSUME ObjectsAreSound, OneResult, [SyncNext]_syncVars
    PROVE  ObjectsAreSound' /\ OneResult'
<1>1. /\ SM!TypeOK /\ SM!SharedExclusion /\ CO!TypeOK /\ CO!FlagsAgree /\ SC!TypeOK /\ SC!CountsAreExact
      /\ FU!TypeOK /\ FU!CallsAreSound /\ FU!OwnersAreExact /\ FU!OneResult
  BY DEF ObjectsAreSound, OneResult
<1>2. SM!TypeOK' /\ SM!SharedExclusion'
  <2>1. CASE UNCHANGED SM!vars
    BY <1>1, <2>1 DEF SM!vars, SM!TypeOK, SM!SharedExclusion, SM!In
  <2> QED
    BY <1>1, <2>1, ObjectSteps, SharedMutexStep
<1>3. CO!TypeOK' /\ CO!FlagsAgree'
  <2>1. CASE UNCHANGED CO!vars
    BY <1>1, <2>1 DEF CO!vars, CO!TypeOK, CO!FlagsAgree, CO!Running
  <2> QED
    BY <1>1, <2>1, ObjectSteps, CallOnceStep
<1>4. SC!TypeOK' /\ SC!CountsAreExact'
  <2>1. CASE UNCHANGED SC!vars
    BY <1>1, <2>1 DEF SC!vars, SC!counts, SC!TypeOK, SC!CountsAreExact, SC!Releasing, SC!At
  <2> QED
    BY <1>1, <2>1, ObjectSteps, SharedCountStep
<1>5. FU!TypeOK' /\ FU!CallsAreSound' /\ FU!OneResult' /\ FU!OwnersAreExact'
  <2>1. CASE UNCHANGED FU!vars
    <3> USE DEF FU!vars, FU!bits
    <3>1. FU!TypeOK' /\ FU!OneResult'
      BY <1>1, <2>1 DEF FU!TypeOK, FU!OneResult, FU!SatisfiedOnce, FU!GotResult, FU!has_value, FU!Result
    <3>2. FU!CallsAreSound'
      BY <1>1, <2>1 DEF FU!CallsAreSound, FU!WaiterIsSound, FU!ProviderIsSound, FU!OneDecides, FU!has_value
    <3>3. FU!OwnersAreExact'
      BY <1>1, <2>1 DEF FU!OwnersAreExact, FU!Futures, FU!Exiting, FU!PromiseRefers
    <3> QED
      BY <3>1, <3>2, <3>3
  <2> QED
    BY <1>1, <2>1, ObjectSteps, FutureStep, FutureOwnersStep
<1> QED
  BY <1>2, <1>3, <1>4, <1>5 DEF ObjectsAreSound, OneResult

LEMMA SoundAlways == SyncSpec => [](ObjectsAreSound /\ OneResult)
<1>1. SyncInit => ObjectsAreSound /\ OneResult
  BY SharedMutexInit, CallOnceInit, SharedCountInit, FutureInit
  DEF SyncInit, ObjectsAreSound, OneResult
<1>2. (ObjectsAreSound /\ OneResult) /\ [SyncNext]_syncVars => (ObjectsAreSound /\ OneResult)'
  BY SoundStep
<1> QED
  BY <1>1, <1>2, PTL DEF SyncSpec

\* The words and counts of shared_mutex, call_once, shared_ptr and future always
\* say what the threads are doing: a writer is alone, a once_flag has one thread
\* that runs its function, and every pointer and reference is counted once.
THEOREM SyncInvariant == SyncSpec => []ObjectsAreSound
  BY SoundAlways, PTL

\* A future's state is given one result, by whichever of the providers, the
\* execution of the function and ~promise comes first, and get returns it.
THEOREM FutureHasOneResult == SyncSpec => []OneResult
  BY SoundAlways, PTL

\* The object of a shared_ptr is destroyed once and its block is freed once,
\* after the last pointer, whatever weak_ptr::lock and releases race.
THEOREM SharedObjectEndsOnce == SyncSpec => []LifetimesEndOnce
<1>1. ObjectsAreSound => LifetimesEndOnce
  BY CountsSuffice DEF ObjectsAreSound, LifetimesEndOnce
<1> QED
  BY <1>1, SoundAlways, PTL

\* The shared state of a future is deleted only when no future, promise, exiting
\* thread or asynchronous function will use it, and then it is.
THEOREM FutureStateOutlivesUse == SyncSpec => []StateOutlivesUse
<1>1. ObjectsAreSound => StateOutlivesUse
  BY OwnersSuffice DEF ObjectsAreSound, StateOutlivesUse
<1> QED
  BY <1>1, SoundAlways, PTL

\* With no more threads than the word of the shared_mutex can count and one that
\* waits, nobody sleeps at an open gate, and nobody sleeps on a once_flag that is
\* decided, unless a notification is on its way.
THEOREM SleepersAreNotStranded ==
    ASSUME Cardinality(Thread) <= n_readers + 1
    PROVE  SyncSpec => []NoStrandedSleeper
<1>1. SyncInit => NoStrandedSleeper
  BY SharedMutexInit, CallOnceInit DEF SyncInit, NoStrandedSleeper
<1>2. ASSUME ObjectsAreSound, NoStrandedSleeper, [SyncNext]_syncVars PROVE NoStrandedSleeper'
  <2>1. /\ SM!TypeOK /\ SM!SharedExclusion /\ SM!NoSleeperAtOpenGate
        /\ CO!TypeOK /\ CO!NoStrandedOnceWaiter
    BY <1>2 DEF ObjectsAreSound, NoStrandedSleeper
  <2>2. SM!NoSleeperAtOpenGate'
    <3>1. CASE UNCHANGED SM!vars
      BY <2>1, <3>1 DEF SM!vars, SM!NoSleeperAtOpenGate, SM!In
    <3> QED
      BY <1>2, <2>1, <3>1, ObjectSteps, GatesStep
  <2>3. CO!NoStrandedOnceWaiter'
    <3>1. CASE UNCHANGED CO!vars
      BY <2>1, <3>1 DEF CO!vars, CO!NoStrandedOnceWaiter
    <3> QED
      BY <1>2, <2>1, <3>1, ObjectSteps, OnceWaiterStep
  <2> QED
    BY <2>2, <2>3 DEF NoStrandedSleeper
<1>3. ObjectsAreSound /\ NoStrandedSleeper /\ [SyncNext]_syncVars => NoStrandedSleeper'
  BY <1>2
<1> QED
  BY <1>1, <1>3, SoundAlways, PTL DEF SyncSpec

\* call_once implements OnceInit, as the guards of static locals do: one thread
\* at a time runs the function, again only after it threw, and a call returns
\* only once it has returned.
THEOREM CallOnceImplementsOnceInit == SyncSpec => OnceSpec
<1>1. SyncInit => CO!Once!Init
  BY CallOnceInit DEF SyncInit
<1>2. ASSUME ObjectsAreSound, ObjectsAreSound', [SyncNext]_syncVars
      PROVE  [CO!Once!Next]_CO!Once!vars
  BY <1>2, ObjectSteps, OnceSimulates DEF ObjectsAreSound
<1>3. ObjectsAreSound /\ ObjectsAreSound' /\ [SyncNext]_syncVars => [CO!Once!Next]_CO!Once!vars
  BY <1>2
<1> QED
  BY <1>1, <1>3, SoundAlways, PTL DEF SyncSpec, OnceSpec, CO!OnceSpec, CO!Once!Spec

-----------------------------------------------------------------------------
(***************************************************************************)
(* The FDE cache: buffer, registrations and what threads are looking for   *)
(* or adding agree.  A reader finds what it looks for because writers keep *)
(* out while it looks; CacheInv says where in the buffer it can be.        *)
(***************************************************************************)
\* The entries of group m, and whether f is among them.
EntriesOf(b, m) == {i \in 1 .. Len(b) : b[i].mh = m}
Holds(b, m, f) == \E i \in 1 .. Len(b) : b[i].mh = m /\ b[i].fde = f

\* The first n descriptions of section s are in the buffer, one entry each.
Stored(b, s, n) == /\ Cardinality(EntriesOf(b, s)) = n
                   /\ \A i \in 1 .. n : Holds(b, s, Fdes[s][i])

\* What a lookup has passed does not match, and what it looks for is in the image
\* or registered.
ScanOK(b, r, l, g) ==
    /\ l.generation = g /\ l.at \in 1 .. Len(b) + 1
    /\ \A j \in 1 .. Len(b) : j < l.at => ~((l.mh = b[j].mh \/ l.mh = None) /\ l.fde = b[j].fde)
    /\ \/ l.mh = image /\ l.fde = imageFde
       \/ l.mh = None /\ \E s \in r : \E i \in 1 .. Len(Fdes[s]) : l.fde = Fdes[s][i]

\* What a registration has yet to add is what is missing in the buffer.
AddOK(b, r, l) ==
    \/ l.mh = image /\ l.todo \in {<<imageFde>>, <<>>}
    \/ /\ l.mh \in Section \ r
       /\ Len(l.todo) <= Len(Fdes[l.mh])
       /\ Stored(b, l.mh, Len(Fdes[l.mh]) - Len(l.todo))
       /\ \A i \in 1 .. Len(l.todo) :
              l.todo[i] = Fdes[l.mh][Len(Fdes[l.mh]) - Len(l.todo) + i]

\* Threads that missed the image's frame and have not added it yet.
Missing == {t \in Waiter : fd_pc[t] = "add" /\ fd_loc[t].mh = image /\ fd_loc[t].todo # <<>>}

CallOK(t) ==
    /\ fd_pc[t] # "missed"
    /\ fd_pc[t] = "scan" <=> t \in fd_readers
    /\ fd_pc[t] = "idle" => fd_loc[t].mh = None
    /\ fd_pc[t] = "scan" => ScanOK(fd_buffer, fd_registered, fd_loc[t], fd_generation)
    /\ fd_pc[t] = "add" => AddOK(fd_buffer, fd_registered, fd_loc[t])
CallsOK == \A t \in Waiter : CallOK(t)

OneAdder == \A t, u \in Waiter : fd_loc[t].mh = fd_loc[u].mh /\ fd_loc[t].mh \in Section => t = u

BufferOK ==
    /\ Len(fd_buffer) <= fd_size
    /\ \A i \in 1 .. Len(fd_buffer) : fd_buffer[i].mh = image => fd_buffer[i].fde = imageFde
    /\ \A s \in fd_registered : Stored(fd_buffer, s, Len(Fdes[s]))
    /\ \A s \in Section \ fd_registered :
           (\A t \in Waiter : fd_loc[t].mh # s) => EntriesOf(fd_buffer, s) = {}
    /\ Cardinality(EntriesOf(fd_buffer, image)) + Cardinality(Missing) <= Cardinality(Waiter)

CacheInv == FD!TypeOK /\ CallsOK /\ OneAdder /\ BufferOK

-----------------------------------------------------------------------------
\* A set of numbers without a least element is empty.
LEMMA NoLeast ==
    ASSUME NEW T \in SUBSET Nat, 0 \notin T, \A n \in Nat : n + 1 \in T => n \in T
    PROVE  T = {}
<1>1. SUFFICES ASSUME T # {} PROVE FALSE
  OBVIOUS
<1> DEFINE R == {ss \in Nat \X Nat : ss[1] < ss[2]}
<1>2. R = OpToRel(<, Nat)
  BY DEF OpToRel
<1>3. IsWellFoundedOn(R, Nat)
  BY <1>2, NatLessThanWellFounded
<1>4. \A m, n \in Nat : <<m, n>> \in R <=> m < n
  OBVIOUS
<1> HIDE DEF R
<1>5. PICK x \in T : \A y \in T : ~(<<y, x>> \in R)
  BY <1>1, <1>3, WFMin
<1>6. x \in Nat /\ x # 0
  OBVIOUS
<1>7. x - 1 \in Nat /\ (x - 1) + 1 = x /\ x - 1 < x
  BY <1>6
<1>8. x - 1 \in T
  BY <1>7
<1> QED
  BY <1>4, <1>5, <1>6, <1>7, <1>8

\* The loop of removeAllIn: what it has kept when it has passed i entries.
Pass(k, b, s, i) == IF b[i].mh # s THEN Append(k, b[i]) ELSE k
Passes(k, b, s, n) == /\ k \in [0 .. n -> Seq(FD!Entry)] /\ k[0] = <<>>
                      /\ \A i \in 1 .. n : k[i] = Pass(k[i - 1], b, s, i)

LEMMA PassesExist ==
    ASSUME NEW b \in Seq(FD!Entry), NEW s
    PROVE  \E k : Passes(k, b, s, Len(b))
<1> DEFINE T == {n \in Nat : n <= Len(b) /\ ~ \E k : Passes(k, b, s, n)}
<1>1. 0 \notin T
  <2>1. Passes([i \in 0 .. 0 |-> <<>>], b, s, 0)
    BY DEF Passes
  <2> QED
    BY <2>1
<1>2. ASSUME NEW n \in Nat, n + 1 \in T PROVE n \in T
  <2>1. SUFFICES ASSUME NEW k, Passes(k, b, s, n) PROVE \E h : Passes(h, b, s, n + 1)
    BY <1>2
  <2> DEFINE h == [i \in 0 .. n + 1 |-> IF i = n + 1 THEN Pass(k[n], b, s, n + 1) ELSE k[i]]
  <2>2. k[n] \in Seq(FD!Entry) /\ b[n + 1] \in FD!Entry
    BY <1>2, <2>1 DEF Passes
  <2>3. Pass(k[n], b, s, n + 1) \in Seq(FD!Entry)
    BY <2>2 DEF Pass
  <2>4. h \in [0 .. n + 1 -> Seq(FD!Entry)] /\ h[0] = <<>>
    BY <2>1, <2>3 DEF Passes
  <2>5. ASSUME NEW i \in 1 .. n + 1 PROVE h[i] = Pass(h[i - 1], b, s, i)
    <3>1. CASE i = n + 1
      BY <3>1
    <3>2. CASE i # n + 1
      <4>1. i \in 1 .. n /\ i - 1 \in 0 .. n /\ i - 1 # n + 1 /\ i \in 0 .. n + 1 /\ i - 1 \in 0 .. n + 1
        BY <3>2
      <4>2. h[i] = k[i] /\ h[i - 1] = k[i - 1]
        BY <3>2, <4>1
      <4> QED
        BY <2>1, <4>1, <4>2 DEF Passes
    <3> QED
      BY <3>1, <3>2
  <2> HIDE DEF h
  <2>6. Passes(h, b, s, n + 1)
    BY <2>4, <2>5 DEF Passes
  <2> QED
    BY <2>6
<1> HIDE DEF T
<1>3. T \in SUBSET Nat
  BY DEF T
<1>4. T = {}
  BY <1>1, <1>2, <1>3, NoLeast
<1>5. Len(b) \in Nat /\ Len(b) <= Len(b)
  OBVIOUS
<1>6. Len(b) \notin T
  BY <1>4
<1> QED
  BY <1>5, <1>6, Zenon DEF T

LEMMA CompactedIs ==
    ASSUME NEW b \in Seq(FD!Entry), NEW s
    PROVE  \E k : Passes(k, b, s, Len(b)) /\ FD!Compacted(b, s) = k[Len(b)]
<1> DEFINE Eq(k) == k = [i \in 0 .. Len(b) |->
                            IF i = 0 THEN <<>>
                            ELSE IF b[i].mh # s THEN Append(k[i - 1], b[i]) ELSE k[i - 1]]
<1>1. Len(b) \in Nat
  OBVIOUS
<1>2. ASSUME NEW k, Passes(k, b, s, Len(b)) PROVE Eq(k)
  <2>1. k \in [0 .. Len(b) -> Seq(FD!Entry)] /\ k[0] = <<>>
    BY <1>2 DEF Passes
  <2>2. ASSUME NEW i \in 0 .. Len(b)
        PROVE  k[i] = IF i = 0 THEN <<>>
                      ELSE IF b[i].mh # s THEN Append(k[i - 1], b[i]) ELSE k[i - 1]
    <3>1. i # 0 => i \in 1 .. Len(b)
      BY <1>1
    <3>2. i # 0 => k[i] = Pass(k[i - 1], b, s, i)
      BY <1>2, <3>1 DEF Passes
    <3> QED
      BY <2>1, <3>2 DEF Pass
  <2> QED
    BY <2>1, <2>2
<1>3. PICK k : Eq(k)
  BY <1>2, PassesExist
<1>4. PICK g : Eq(g) /\ FD!Compacted(b, s) = g[Len(b)]
  BY <1>3 DEF FD!Compacted
<1>5. g[0] = <<>> /\ \A i \in 1 .. Len(b) : g[i] = Pass(g[i - 1], b, s, i)
  <2>1. \A i \in 0 .. Len(b) :
            g[i] = IF i = 0 THEN <<>>
                   ELSE IF b[i].mh # s THEN Append(g[i - 1], b[i]) ELSE g[i - 1]
    BY <1>4
  <2>2. 0 \in 0 .. Len(b)
    BY <1>1
  <2>3. \A i \in 1 .. Len(b) : i \in 0 .. Len(b) /\ i # 0
    BY <1>1
  <2>4. g[0] = <<>>
    BY <2>1, <2>2
  <2> HIDE DEF Eq
  <2> QED
    BY <2>1, <2>3, <2>4 DEF Pass
<1> HIDE DEF Eq
<1>6. \A i \in 0 .. Len(b) : g[i] \in Seq(FD!Entry)
  <2> DEFINE T == {n \in Nat : n <= Len(b) /\ g[n] \notin Seq(FD!Entry)}
  <2>1. 0 \notin T
    BY <1>5, EmptySeq
  <2>2. ASSUME NEW n \in Nat, n + 1 \in T PROVE n \in T
    <3>1. n + 1 \in 1 .. Len(b) /\ (n + 1) - 1 = n /\ b[n + 1] \in FD!Entry
      BY <2>2
    <3>2. g[n + 1] = Pass(g[n], b, s, n + 1)
      BY <1>5, <3>1
    <3>3. g[n] \in Seq(FD!Entry) => g[n + 1] \in Seq(FD!Entry)
      BY <3>1, <3>2, AppendProperties DEF Pass
    <3> QED
      BY <2>2, <3>3
  <2> HIDE DEF T
  <2>3. T \in SUBSET Nat
    BY DEF T
  <2>4. T = {}
    BY <2>1, <2>2, <2>3, NoLeast
  <2> QED
    BY <1>1, <2>4 DEF T
<1>7. DOMAIN g = 0 .. Len(b) /\ g = [i \in DOMAIN g |-> g[i]]
  BY <1>4 DEF Eq
<1>8. g \in [0 .. Len(b) -> Seq(FD!Entry)]
  BY <1>6, <1>7
<1>9. Passes(g, b, s, Len(b))
  BY <1>5, <1>8 DEF Passes
<1> QED
  BY <1>4, <1>9

\* Counting entries.
LEMMA EntriesFinite ==
    ASSUME NEW b \in Seq(FD!Entry), NEW m
    PROVE  /\ IsFiniteSet(EntriesOf(b, m)) /\ Cardinality(EntriesOf(b, m)) \in Nat
           /\ Cardinality(EntriesOf(b, m)) = 0 <=> EntriesOf(b, m) = {}
<1>1. IsFiniteSet(1 .. Len(b))
  BY FS_Interval
<1>2. EntriesOf(b, m) \subseteq 1 .. Len(b)
  BY DEF EntriesOf
<1>3. IsFiniteSet(EntriesOf(b, m))
  BY <1>1, <1>2, FS_Subset
<1> QED
  BY <1>3, FS_CardinalityType, FS_EmptySet

Added(b, e, c) ==
    /\ c \in Seq(FD!Entry) /\ Len(c) = Len(b) + 1
    /\ \A i \in 1 .. Len(b) : c[i] = b[i]
    /\ c[Len(b) + 1] = e
    /\ \A m, f : Holds(b, m, f) => Holds(c, m, f)
    /\ Holds(c, e.mh, e.fde)
    /\ \A m : m # e.mh => EntriesOf(c, m) = EntriesOf(b, m)
    /\ Cardinality(EntriesOf(c, e.mh)) = Cardinality(EntriesOf(b, e.mh)) + 1

LEMMA AppendEntry ==
    ASSUME NEW b \in Seq(FD!Entry), NEW e \in FD!Entry
    PROVE  Added(b, e, Append(b, e))
<1>0. PICK c : c = Append(b, e)
  OBVIOUS
<1>1. /\ c \in Seq(FD!Entry) /\ Len(c) = Len(b) + 1 /\ Len(b) \in Nat
      /\ \A i \in 1 .. Len(b) : c[i] = b[i]
      /\ c[Len(b) + 1] = e
  BY <1>0, AppendProperties, LenProperties
<1>2. \A i \in 1 .. Len(c) : i \in 1 .. Len(b) \/ i = Len(b) + 1
  BY <1>1
<1>3. \A i \in 1 .. Len(b) : i \in 1 .. Len(c)
  BY <1>1
<1>4. Len(b) + 1 \in 1 .. Len(c) /\ Len(b) + 1 \notin 1 .. Len(b)
  BY <1>1
<1>5. \A m, f : Holds(b, m, f) => Holds(c, m, f)
  BY <1>1, <1>3 DEF Holds
<1>6. Holds(c, e.mh, e.fde)
  BY <1>1, <1>4 DEF Holds
<1>7. ASSUME NEW m, m # e.mh PROVE EntriesOf(c, m) = EntriesOf(b, m)
  BY <1>1, <1>2, <1>3, <1>7 DEF EntriesOf
<1>8. EntriesOf(c, e.mh) = EntriesOf(b, e.mh) \cup {Len(b) + 1}
  BY <1>1, <1>2, <1>3, <1>4 DEF EntriesOf
<1>9. Len(b) + 1 \notin EntriesOf(b, e.mh)
  BY <1>4 DEF EntriesOf
<1>10. Cardinality(EntriesOf(c, e.mh)) = Cardinality(EntriesOf(b, e.mh)) + 1
  BY <1>8, <1>9, EntriesFinite, FS_AddElement
<1>11. Added(b, e, c)
  BY <1>1, <1>5, <1>6, <1>7, <1>10 DEF Added
<1> QED
  BY <1>0, <1>11

\* What the loop has kept of the first n entries.
Upto(b, m, n) == {i \in 1 .. n : b[i].mh = m}
KeptOK(k, b, s, n) ==
    /\ k \in Seq(FD!Entry) /\ Len(k) <= n /\ EntriesOf(k, s) = {}
    /\ \A m : m # s => Cardinality(EntriesOf(k, m)) = Cardinality(Upto(b, m, n))
    /\ \A i \in 1 .. n : b[i].mh # s => Holds(k, b[i].mh, b[i].fde)
    /\ \A i \in 1 .. Len(k) : \E j \in 1 .. n : k[i] = b[j]

LEMMA UptoNext ==
    ASSUME NEW b, NEW n \in Nat, NEW m
    PROVE  /\ IsFiniteSet(Upto(b, m, n)) /\ Cardinality(Upto(b, m, n)) \in Nat
           /\ Cardinality(Upto(b, m, n + 1)) = IF b[n + 1].mh = m THEN Cardinality(Upto(b, m, n)) + 1
                                                ELSE Cardinality(Upto(b, m, n))
<1>1. IsFiniteSet(1 .. n)
  BY FS_Interval
<1>2. IsFiniteSet(Upto(b, m, n))
  BY <1>1, FS_Subset DEF Upto
<1>3. Cardinality(Upto(b, m, n)) \in Nat
  BY <1>2, FS_CardinalityType
<1>4. CASE b[n + 1].mh = m
  <2>1. Upto(b, m, n + 1) = Upto(b, m, n) \cup {n + 1} /\ n + 1 \notin Upto(b, m, n)
    BY <1>4 DEF Upto
  <2> QED
    BY <1>2, <1>3, <1>4, <2>1, FS_AddElement
<1>5. CASE b[n + 1].mh # m
  <2>1. Upto(b, m, n + 1) = Upto(b, m, n)
    BY <1>5 DEF Upto
  <2> QED
    BY <1>2, <1>3, <1>5, <2>1
<1> QED
  BY <1>4, <1>5

LEMMA KeptNext ==
    ASSUME NEW b \in Seq(FD!Entry), NEW s, NEW n \in Nat, n + 1 <= Len(b), NEW k, KeptOK(k, b, s, n)
    PROVE  KeptOK(Pass(k, b, s, n + 1), b, s, n + 1)
<1>1. b[n + 1] \in FD!Entry /\ n + 1 \in 1 .. n + 1
  BY LenProperties
<1>2. \A i \in 1 .. n + 1 : i \in 1 .. n \/ i = n + 1
  OBVIOUS
<1>3. \A i \in 1 .. n : i \in 1 .. n + 1
  OBVIOUS
<1>4. k \in Seq(FD!Entry) /\ Len(k) \in Nat /\ Len(k) <= n
  BY LenProperties DEF KeptOK
<1>5. CASE b[n + 1].mh = s
  <2>1. Pass(k, b, s, n + 1) = k
    BY <1>5 DEF Pass
  <2>2. \A m : m # s => Cardinality(EntriesOf(k, m)) = Cardinality(Upto(b, m, n + 1))
    BY <1>5, UptoNext DEF KeptOK
  <2>3. Len(k) <= n + 1
    BY <1>4
  <2>4. \A i \in 1 .. n + 1 : b[i].mh # s => Holds(k, b[i].mh, b[i].fde)
    BY <1>2, <1>5 DEF KeptOK
  <2>5. \A i \in 1 .. Len(k) : \E j \in 1 .. n + 1 : k[i] = b[j]
    BY <1>3 DEF KeptOK
  <2>6. KeptOK(k, b, s, n + 1)
    BY <2>2, <2>3, <2>4, <2>5 DEF KeptOK
  <2> QED
    BY <2>1, <2>6
<1>6. CASE b[n + 1].mh # s
  <2>1. PICK e \in FD!Entry : e = b[n + 1]
    BY <1>1
  <2>2. PICK c : c = Append(k, e)
    OBVIOUS
  <2>3. Pass(k, b, s, n + 1) = c
    BY <1>6, <2>1, <2>2 DEF Pass
  <2>4. /\ c \in Seq(FD!Entry) /\ Len(c) = Len(k) + 1
        /\ \A i \in 1 .. Len(k) : c[i] = k[i]
        /\ c[Len(k) + 1] = e
        /\ \A m, f : Holds(k, m, f) => Holds(c, m, f)
        /\ Holds(c, e.mh, e.fde)
        /\ \A m : m # e.mh => EntriesOf(c, m) = EntriesOf(k, m)
        /\ Cardinality(EntriesOf(c, e.mh)) = Cardinality(EntriesOf(k, e.mh)) + 1
    <3>1. Added(k, e, c)
      BY <1>4, <2>2, AppendEntry
    <3> QED
      BY <3>1 DEF Added
  <2>5. EntriesOf(c, s) = {}
    <3>1. e.mh # s /\ EntriesOf(k, s) = {}
      BY <1>6, <2>1 DEF KeptOK
    <3> QED
      BY <2>4, <3>1
  <2>6. ASSUME NEW m, m # s PROVE Cardinality(EntriesOf(c, m)) = Cardinality(Upto(b, m, n + 1))
    <3>1. Cardinality(EntriesOf(k, m)) = Cardinality(Upto(b, m, n))
      BY <2>6 DEF KeptOK
    <3>2. CASE m = e.mh
      <4>1. Cardinality(Upto(b, m, n + 1)) = Cardinality(Upto(b, m, n)) + 1
        BY <2>1, <3>2, UptoNext
      <4> QED
        BY <2>4, <3>1, <3>2, <4>1
    <3>3. CASE m # e.mh
      <4>1. Cardinality(Upto(b, m, n + 1)) = Cardinality(Upto(b, m, n))
        BY <2>1, <3>3, UptoNext
      <4> QED
        BY <2>4, <3>1, <3>3, <4>1
    <3> QED
      BY <3>2, <3>3
  <2>7. \A i \in 1 .. n + 1 : b[i].mh # s => Holds(c, b[i].mh, b[i].fde)
    BY <1>2, <2>1, <2>4 DEF KeptOK
  <2>8. ASSUME NEW i \in 1 .. Len(c) PROVE \E j \in 1 .. n + 1 : c[i] = b[j]
    <3>1. i \in 1 .. Len(k) \/ i = Len(k) + 1
      BY <1>4, <2>4
    <3> QED
      BY <1>1, <1>3, <2>1, <2>4, <3>1 DEF KeptOK
  <2>9. Len(c) <= n + 1
    BY <1>4, <2>4
  <2>10. KeptOK(c, b, s, n + 1)
    BY <2>4, <2>5, <2>6, <2>7, <2>8, <2>9 DEF KeptOK
  <2> QED
    BY <2>3, <2>10
<1> QED
  BY <1>5, <1>6

LEMMA CompactedFacts ==
    ASSUME NEW b \in Seq(FD!Entry), NEW s
    PROVE  KeptOK(FD!Compacted(b, s), b, s, Len(b))
<1>1. PICK k : Passes(k, b, s, Len(b)) /\ FD!Compacted(b, s) = k[Len(b)]
  BY CompactedIs
<1> DEFINE T == {n \in Nat : n <= Len(b) /\ ~KeptOK(k[n], b, s, n)}
<1>2. Len(b) \in Nat
  BY LenProperties
<1>3. 0 \notin T
  <2>1. k[0] = <<>>
    BY <1>1 DEF Passes
  <2>2. <<>> \in Seq(FD!Entry) /\ Len(<<>>) = 0 /\ 1 .. 0 = {}
    BY EmptySeq
  <2>3. \A m : EntriesOf(<<>>, m) = {} /\ Upto(b, m, 0) = {}
    BY <2>2 DEF EntriesOf, Upto
  <2>4. PICK z : z = <<>>
    OBVIOUS
  <2>5. \A i \in 1 .. 0 : FALSE
    BY <2>2
  <2>6. z \in Seq(FD!Entry) /\ Len(z) = 0
    BY <2>2, <2>4
  <2>7. \A m : EntriesOf(z, m) = Upto(b, m, 0) /\ EntriesOf(z, s) = {}
    BY <2>3, <2>4
  <2>8. KeptOK(z, b, s, 0)
    BY <2>5, <2>6, <2>7 DEF KeptOK
  <2> QED
    BY <2>1, <2>4, <2>8
<1>4. ASSUME NEW n \in Nat, n + 1 \in T PROVE n \in T
  <2>1. n + 1 \in 1 .. Len(b) /\ (n + 1) - 1 = n /\ n + 1 <= Len(b) /\ n <= Len(b)
    BY <1>2, <1>4
  <2>2. k[n + 1] = Pass(k[n], b, s, n + 1)
    BY <1>1, <2>1 DEF Passes
  <2>3. KeptOK(k[n], b, s, n) => KeptOK(k[n + 1], b, s, n + 1)
    BY <2>1, <2>2, KeptNext
  <2> QED
    BY <1>4, <2>1, <2>3
<1> HIDE DEF T
<1>5. T \in SUBSET Nat
  BY DEF T
<1>6. T = {}
  BY <1>3, <1>4, <1>5, NoLeast
<1>7. Len(b) \notin T /\ Len(b) <= Len(b)
  BY <1>2, <1>6
<1>8. KeptOK(k[Len(b)], b, s, Len(b))
  BY <1>2, <1>7, Zenon DEF T
<1> QED
  BY <1>1, <1>8

-----------------------------------------------------------------------------
Locals == [mh : Section \cup {image, None}, fde : FD!Fde \cup {None},
           at : Nat, generation : Nat, todo : Seq(FD!Fde)]

LEMMA CacheConstants ==
    /\ image \notin Section /\ None \notin Section /\ None # image /\ imageFde \in FD!Fde
    /\ FD!NoLocals \in Locals /\ FD!NoLocals.mh = None
    /\ \A s \in Section : /\ Fdes[s] \in Seq(FD!Fde) /\ Len(Fdes[s]) \in Nat
                           /\ DOMAIN Fdes[s] = 1 .. Len(Fdes[s])
                           /\ \A i \in 1 .. Len(Fdes[s]) : Fdes[s][i] \in FD!Fde
<1>1. /\ image \notin Section /\ None \notin Section /\ None # image /\ imageFde \in FD!Fde
  BY SyncAssumption DEF FD!Fde
<1>2. FD!NoLocals \in Locals /\ FD!NoLocals.mh = None
  BY DEF FD!NoLocals, Locals
<1>3. ASSUME NEW s \in Section
      PROVE  /\ Fdes[s] \in Seq(FD!Fde) /\ Len(Fdes[s]) \in Nat
             /\ DOMAIN Fdes[s] = 1 .. Len(Fdes[s])
             /\ \A i \in 1 .. Len(Fdes[s]) : Fdes[s][i] \in FD!Fde
  <2>1. PICK q : q = Fdes[s]
    OBVIOUS
  <2>2. q \in Seq({q[i] : i \in DOMAIN q})
    BY <2>1, SyncAssumption
  <2>3. Len(q) \in Nat /\ DOMAIN q = 1 .. Len(q) /\ q \in [1 .. Len(q) -> {q[i] : i \in DOMAIN q}]
    BY <2>2, LenProperties
  <2>4. \A i \in 1 .. Len(q) : q[i] \in FD!Fde
    BY <2>1, <2>3 DEF FD!Fde
  <2>5. q \in Seq(FD!Fde)
    BY <2>2, <2>3, <2>4
  <2> QED
    BY <2>1, <2>3, <2>4, <2>5
<1> QED
  BY <1>1, <1>2, <1>3

\* The locals of a lookup and of an addition.
Sought(m, f, g) == [FD!NoLocals EXCEPT !.mh = m, !.fde = f, !.at = 1, !.generation = g]
ToAdd(m, q) == [FD!NoLocals EXCEPT !.mh = m, !.todo = q]

LEMMA LocalsFacts ==
    /\ \A m \in Section \cup {image, None}, f \in FD!Fde, g \in Nat :
          /\ Sought(m, f, g) \in Locals
          /\ Sought(m, f, g).mh = m /\ Sought(m, f, g).fde = f /\ Sought(m, f, g).at = 1
          /\ Sought(m, f, g).generation = g
    /\ \A m \in Section \cup {image, None}, q \in Seq(FD!Fde) :
          ToAdd(m, q) \in Locals /\ ToAdd(m, q).mh = m /\ ToAdd(m, q).todo = q
<1>1. /\ FD!NoLocals.mh = None /\ FD!NoLocals \in Locals
  BY CacheConstants
<1>2. ASSUME NEW m \in Section \cup {image, None}, NEW f \in FD!Fde, NEW g \in Nat
      PROVE  /\ Sought(m, f, g) \in Locals
             /\ Sought(m, f, g).mh = m /\ Sought(m, f, g).fde = f /\ Sought(m, f, g).at = 1
             /\ Sought(m, f, g).generation = g
  <2>1. PICK o \in Locals : o = FD!NoLocals
    BY <1>1
  <2> DEFINE p == [[[[o EXCEPT !.mh = m] EXCEPT !.fde = f] EXCEPT !.at = 1] EXCEPT !.generation = g]
  <2>2. Sought(m, f, g) = p
    BY <2>1 DEF Sought
  <2>3. /\ p \in Locals /\ p.mh = m /\ p.fde = f /\ p.at = 1 /\ p.generation = g
    BY DEF Locals
  <2> QED
    BY <2>2, <2>3
<1>3. ASSUME NEW m \in Section \cup {image, None}, NEW q \in Seq(FD!Fde)
      PROVE  ToAdd(m, q) \in Locals /\ ToAdd(m, q).mh = m /\ ToAdd(m, q).todo = q
  <2>1. PICK o \in Locals : o = FD!NoLocals
    BY <1>1
  <2> DEFINE p == [[o EXCEPT !.mh = m] EXCEPT !.todo = q]
  <2>2. ToAdd(m, q) = p
    BY <2>1 DEF ToAdd
  <2>3. p \in Locals /\ p.mh = m /\ p.todo = q
    BY DEF Locals
  <2> QED
    BY <2>2, <2>3
<1> QED
  BY <1>2, <1>3

Advanced(o) == [o EXCEPT !.at = o.at + 1]

LEMMA AdvancedFacts ==
    ASSUME NEW o \in Locals
    PROVE  /\ Advanced(o) \in Locals /\ Advanced(o).mh = o.mh /\ Advanced(o).fde = o.fde
           /\ Advanced(o).at = o.at + 1 /\ Advanced(o).generation = o.generation
BY DEF Locals, Advanced

\* A step of one thread that leaves buffer and registrations alone.
LEMMA LocalsStep ==
    ASSUME CacheInv, NEW t \in Waiter, NEW l \in Locals, NEW p \in {"idle", "scan", "add"},
           UNCHANGED <<fd_buffer, fd_size, fd_generation, fd_registered>>,
           fd_pc' = [fd_pc EXCEPT ![t] = p], fd_loc' = [fd_loc EXCEPT ![t] = l],
           fd_readers' = IF p = "scan" THEN fd_readers \cup {t} ELSE fd_readers \ {t},
           CallOK(t)',
           l.mh \in Section => \A u \in Waiter : fd_loc[u].mh # l.mh,
           fd_loc[t].mh \notin Section,
           Cardinality(EntriesOf(fd_buffer, image)) + Cardinality(Missing') <= Cardinality(Waiter)
    PROVE  CacheInv'
<1>1. /\ fd_pc \in [Waiter -> {"idle", "scan", "add", "missed"}] /\ fd_loc \in [Waiter -> Locals]
      /\ fd_readers \subseteq Waiter
  BY DEF CacheInv, FD!TypeOK, Locals
<1>2. /\ fd_pc'[t] = p /\ fd_loc'[t] = l
      /\ \A u \in Waiter : u # t => fd_pc'[u] = fd_pc[u] /\ fd_loc'[u] = fd_loc[u]
      /\ \A u \in Waiter : u # t => (u \in fd_readers' <=> u \in fd_readers)
  BY <1>1
<1>3. FD!TypeOK'
  <2>1. fd_pc' \in [Waiter -> {"idle", "scan", "add", "missed"}] /\ fd_loc' \in [Waiter -> Locals]
        /\ fd_readers' \subseteq Waiter
    BY <1>1
  <2> QED
    BY <2>1 DEF CacheInv, FD!TypeOK, Locals
<1>4. CallsOK'
  <2>1. ASSUME NEW u \in Waiter, u # t PROVE CallOK(u)'
    BY <1>2, <2>1 DEF CacheInv, CallsOK, CallOK
  <2> QED
    BY <2>1 DEF CallsOK
<1>5. OneAdder'
  BY <1>2 DEF OneAdder, CacheInv
<1>6. ASSUME NEW s \in Section, \A u \in Waiter : fd_loc'[u].mh # s
      PROVE  \A u \in Waiter : fd_loc[u].mh # s
  BY <1>2, <1>6
<1>7. BufferOK'
  BY <1>6 DEF BufferOK, CacheInv
<1> QED
  BY <1>3, <1>4, <1>5, <1>7 DEF CacheInv

LEMMA MissingFacts ==
    /\ IsFiniteSet(Missing) /\ Cardinality(Missing) \in Nat /\ Cardinality(Missing) <= Cardinality(Waiter)
    /\ IsFiniteSet(Missing') /\ Cardinality(Missing') \in Nat /\ Cardinality(Missing') <= Cardinality(Waiter)
    /\ Cardinality(Waiter) \in Nat
<1>1. IsFiniteSet(Waiter)
  BY SyncAssumption
<1>2. Missing \subseteq Waiter /\ Missing' \subseteq Waiter
  BY DEF Missing
<1> QED
  BY <1>1, <1>2, FS_Subset, FS_CardinalityType

\* What the invariant says of a thread.
LEMMA CallFacts ==
    ASSUME CacheInv, NEW t \in Waiter
    PROVE  /\ fd_buffer \in Seq(FD!Entry) /\ Len(fd_buffer) \in Nat /\ fd_generation \in Nat
           /\ fd_pc \in [Waiter -> {"idle", "scan", "add", "missed"}] /\ fd_loc \in [Waiter -> Locals]
           /\ fd_loc[t] \in Locals /\ CallOK(t) /\ fd_registered \subseteq Section
           /\ fd_loc[t].mh \in Section => fd_pc[t] = "add"
           /\ Cardinality(EntriesOf(fd_buffer, image)) + Cardinality(Missing) <= Cardinality(Waiter)
           /\ Cardinality(EntriesOf(fd_buffer, image)) \in Nat
<1>1. /\ fd_buffer \in Seq(FD!Entry) /\ fd_generation \in Nat
      /\ fd_pc \in [Waiter -> {"idle", "scan", "add", "missed"}] /\ fd_loc \in [Waiter -> Locals]
      /\ CallOK(t) /\ fd_registered \subseteq Section
  BY DEF CacheInv, FD!TypeOK, Locals, CallsOK
<1>2. Len(fd_buffer) \in Nat /\ fd_loc[t] \in Locals /\ fd_pc[t] \in {"idle", "scan", "add", "missed"}
  BY <1>1, LenProperties
<1>3. fd_loc[t].mh \in Section => fd_pc[t] = "add"
  BY <1>1, <1>2, CacheConstants DEF CallOK, ScanOK
<1>4. /\ Cardinality(EntriesOf(fd_buffer, image)) + Cardinality(Missing) <= Cardinality(Waiter)
      /\ Cardinality(EntriesOf(fd_buffer, image)) \in Nat
  BY <1>1, EntriesFinite DEF CacheInv, BufferOK
<1> QED
  BY <1>1, <1>2, <1>3, <1>4

LEMMA StepFindStart ==
    ASSUME CacheInv, NEW t \in Waiter, NEW m, NEW f, FD!FindStart(t, m, f),
           \/ m = image /\ f = imageFde
           \/ m = None /\ \E s \in fd_registered : \E i \in 1 .. Len(Fdes[s]) : f = Fdes[s][i]
    PROVE  CacheInv'
<1>1. /\ fd_buffer \in Seq(FD!Entry) /\ Len(fd_buffer) \in Nat /\ fd_generation \in Nat
      /\ fd_pc \in [Waiter -> {"idle", "scan", "add", "missed"}] /\ fd_loc \in [Waiter -> Locals]
      /\ CallOK(t) /\ fd_registered \subseteq Section
      /\ Cardinality(EntriesOf(fd_buffer, image)) + Cardinality(Missing) <= Cardinality(Waiter)
  BY CallFacts
<1>2. f \in FD!Fde /\ m \in Section \cup {image, None} /\ m \notin Section
  BY <1>1, CacheConstants
<1>3. PICK l \in Locals : /\ l = Sought(m, f, fd_generation) /\ l.mh = m /\ l.fde = f /\ l.at = 1
                          /\ l.generation = fd_generation
  BY <1>1, <1>2, LocalsFacts
<1>4. /\ fd_pc[t] = "idle" /\ fd_readers' = fd_readers \cup {t}
      /\ fd_pc' = [fd_pc EXCEPT ![t] = "scan"] /\ fd_loc' = [fd_loc EXCEPT ![t] = l]
      /\ UNCHANGED <<fd_buffer, fd_size, fd_generation, fd_registered>>
  BY <1>3 DEF FD!FindStart, FD!Goto, Sought
<1>5. /\ fd_pc'[t] = "scan" /\ fd_loc'[t] = l
      /\ \A u \in Waiter : u # t => fd_pc'[u] = fd_pc[u] /\ fd_loc'[u] = fd_loc[u]
  BY <1>1, <1>4
<1>6. ScanOK(fd_buffer, fd_registered, l, fd_generation)
  BY <1>1, <1>3 DEF ScanOK
<1>7. CallOK(t)'
  BY <1>4, <1>5, <1>6 DEF CallOK
<1>8. Missing' = Missing
  BY <1>4, <1>5 DEF Missing
<1>9. fd_loc[t].mh \notin Section
  BY <1>1, <1>4, CacheConstants DEF CallOK
<1> QED
  BY <1>1, <1>2, <1>3, <1>4, <1>7, <1>8, <1>9, LocalsStep

LEMMA StepFindNext ==
    ASSUME CacheInv, NEW t \in Waiter, FD!FindNext(t)
    PROVE  CacheInv'
<1>1. /\ fd_buffer \in Seq(FD!Entry) /\ Len(fd_buffer) \in Nat /\ fd_generation \in Nat
      /\ fd_pc \in [Waiter -> {"idle", "scan", "add", "missed"}] /\ fd_loc \in [Waiter -> Locals]
      /\ fd_loc[t] \in Locals /\ CallOK(t) /\ fd_registered \subseteq Section
      /\ fd_loc[t].mh \in Section => fd_pc[t] = "add"
      /\ Cardinality(EntriesOf(fd_buffer, image)) + Cardinality(Missing) <= Cardinality(Waiter)
  BY CallFacts
<1>2. PICK l : l = Advanced(fd_loc[t])
  OBVIOUS
<1>3. /\ l \in Locals /\ l.mh = fd_loc[t].mh /\ l.fde = fd_loc[t].fde /\ l.at = fd_loc[t].at + 1
      /\ l.generation = fd_loc[t].generation
  BY <1>1, <1>2, AdvancedFacts
<1>4. /\ fd_pc[t] = "scan" /\ fd_loc[t].at <= Len(fd_buffer)
      /\ ~FD!Matches(t, fd_buffer[fd_loc[t].at])
      /\ fd_loc' = [fd_loc EXCEPT ![t] = l]
      /\ UNCHANGED <<fd_buffer, fd_size, fd_generation, fd_readers, fd_registered, fd_pc>>
  BY <1>2 DEF FD!FindNext, Advanced
<1>5. ScanOK(fd_buffer, fd_registered, fd_loc[t], fd_generation) /\ t \in fd_readers
  BY <1>1, <1>4 DEF CallOK
<1>6. PICK a \in Nat : a = fd_loc[t].at /\ a \in 1 .. Len(fd_buffer)
  BY <1>1, <1>4, <1>5 DEF Locals, ScanOK
<1>7. \A j \in 1 .. Len(fd_buffer) : j < a + 1 => j < a \/ j = a
  BY <1>1, <1>6
<1>8. a + 1 \in 1 .. Len(fd_buffer) + 1
  BY <1>1, <1>6
<1>9. ScanOK(fd_buffer, fd_registered, l, fd_generation)
  <2>1. l.generation = fd_generation /\ l.at \in 1 .. Len(fd_buffer) + 1
    BY <1>3, <1>5, <1>6, <1>8 DEF ScanOK
  <2>2. ASSUME NEW j \in 1 .. Len(fd_buffer), j < l.at
        PROVE  ~((l.mh = fd_buffer[j].mh \/ l.mh = None) /\ l.fde = fd_buffer[j].fde)
    <3>1. CASE j < a
      BY <1>3, <1>5, <1>6, <3>1 DEF ScanOK
    <3>2. CASE j = a
      BY <1>3, <1>4, <1>6, <3>2 DEF FD!Matches
    <3> QED
      BY <1>3, <1>6, <1>7, <2>2, <3>1, <3>2
  <2>3. \/ l.mh = image /\ l.fde = imageFde
        \/ l.mh = None /\ \E s \in fd_registered : \E i \in 1 .. Len(Fdes[s]) : l.fde = Fdes[s][i]
    BY <1>3, <1>5 DEF ScanOK
  <2> QED
    BY <2>1, <2>2, <2>3 DEF ScanOK
<1>10. /\ fd_pc'[t] = "scan" /\ fd_loc'[t] = l
       /\ \A u \in Waiter : u # t => fd_pc'[u] = fd_pc[u] /\ fd_loc'[u] = fd_loc[u]
  BY <1>1, <1>4
<1>11. CallOK(t)'
  BY <1>4, <1>5, <1>9, <1>10 DEF CallOK
<1>12. Missing' = Missing
  BY <1>4, <1>10 DEF Missing
<1>13. fd_pc' = [fd_pc EXCEPT ![t] = "scan"] /\ fd_readers' = fd_readers \cup {t}
  BY <1>1, <1>4, <1>5
<1>14. l.mh \notin Section /\ fd_loc[t].mh \notin Section
  BY <1>1, <1>3, <1>4
<1> QED
  BY <1>1, <1>3, <1>4, <1>11, <1>12, <1>13, <1>14, LocalsStep

LEMMA StepFindHit ==
    ASSUME CacheInv, NEW t \in Waiter, FD!FindHit(t)
    PROVE  CacheInv'
<1>1. /\ fd_pc \in [Waiter -> {"idle", "scan", "add", "missed"}] /\ fd_loc \in [Waiter -> Locals]
      /\ fd_loc[t].mh \in Section => fd_pc[t] = "add"
      /\ Cardinality(EntriesOf(fd_buffer, image)) + Cardinality(Missing) <= Cardinality(Waiter)
  BY CallFacts
<1>2. PICK l \in Locals : l = FD!NoLocals /\ l.mh = None
  BY CacheConstants
<1>3. /\ fd_pc[t] = "scan" /\ fd_readers' = fd_readers \ {t}
      /\ fd_pc' = [fd_pc EXCEPT ![t] = "idle"] /\ fd_loc' = [fd_loc EXCEPT ![t] = l]
      /\ UNCHANGED <<fd_buffer, fd_size, fd_generation, fd_registered>>
  BY <1>2 DEF FD!FindHit, FD!Done, FD!Goto
<1>4. /\ fd_pc'[t] = "idle" /\ fd_loc'[t] = l
      /\ \A u \in Waiter : u # t => fd_pc'[u] = fd_pc[u] /\ fd_loc'[u] = fd_loc[u]
  BY <1>1, <1>3
<1>5. CallOK(t)'
  BY <1>2, <1>3, <1>4 DEF CallOK
<1>6. Missing' = Missing
  BY <1>3, <1>4 DEF Missing
<1>7. l.mh \notin Section /\ fd_loc[t].mh \notin Section
  BY <1>1, <1>2, <1>3, CacheConstants
<1> QED
  BY <1>1, <1>3, <1>5, <1>6, <1>7, LocalsStep

LEMMA StepFindMiss ==
    ASSUME CacheInv, NEW t \in Waiter, FD!FindMiss(t)
    PROVE  CacheInv'
<1>1. /\ fd_buffer \in Seq(FD!Entry) /\ Len(fd_buffer) \in Nat
      /\ fd_pc \in [Waiter -> {"idle", "scan", "add", "missed"}] /\ fd_loc \in [Waiter -> Locals]
      /\ fd_loc[t] \in Locals /\ CallOK(t)
      /\ fd_loc[t].mh \in Section => fd_pc[t] = "add"
  BY CallFacts
<1>2. fd_pc[t] = "scan" /\ fd_loc[t].at > Len(fd_buffer)
  BY DEF FD!FindMiss
<1>3. ScanOK(fd_buffer, fd_registered, fd_loc[t], fd_generation) /\ fd_loc[t].at \in Nat
  BY <1>1, <1>2 DEF CallOK, Locals
<1>4. ASSUME NEW j \in 1 .. Len(fd_buffer)
      PROVE  ~((fd_loc[t].mh = fd_buffer[j].mh \/ fd_loc[t].mh = None) /\ fd_loc[t].fde = fd_buffer[j].fde)
  <2>1. j < fd_loc[t].at
    BY <1>1, <1>2, <1>3
  <2> QED
    BY <1>3, <2>1 DEF ScanOK
<1>5. fd_loc[t].mh = image /\ fd_loc[t].fde = imageFde
  <2>1. ASSUME fd_loc[t].mh = None, NEW s \in fd_registered, NEW i \in 1 .. Len(Fdes[s]),
               fd_loc[t].fde = Fdes[s][i]
        PROVE  FALSE
    <3>1. Holds(fd_buffer, s, Fdes[s][i])
      BY DEF CacheInv, BufferOK, Stored
    <3> QED
      BY <1>4, <2>1, <3>1 DEF Holds
  <2> QED
    BY <1>3, <2>1 DEF ScanOK
<1>6. EntriesOf(fd_buffer, image) = {}
  <2>1. ASSUME NEW j \in 1 .. Len(fd_buffer), fd_buffer[j].mh = image PROVE FALSE
    <3>1. fd_buffer[j].fde = imageFde
      BY <2>1 DEF CacheInv, BufferOK
    <3> QED
      BY <1>4, <1>5, <2>1, <3>1
  <2> QED
    BY <2>1 DEF EntriesOf
<1>7. PICK l \in Locals : l = ToAdd(image, <<imageFde>>) /\ l.mh = image /\ l.todo = <<imageFde>>
  <2>0. \A S : imageFde \in S => <<imageFde>> \in Seq(S)
    OBVIOUS
  <2>1. PICK q \in Seq(FD!Fde) : q = <<imageFde>>
    BY <2>0, CacheConstants
  <2>2. ToAdd(image, q) \in Locals /\ ToAdd(image, q).mh = image /\ ToAdd(image, q).todo = q
    BY LocalsFacts
  <2> QED
    BY <2>1, <2>2
<1>8. /\ fd_readers' = fd_readers \ {t}
      /\ fd_pc' = [fd_pc EXCEPT ![t] = "add"] /\ fd_loc' = [fd_loc EXCEPT ![t] = l]
      /\ UNCHANGED <<fd_buffer, fd_size, fd_generation, fd_registered>>
  BY <1>5, <1>7 DEF FD!FindMiss, FD!Goto, ToAdd
<1>9. fd_pc'[t] = "add" /\ fd_loc'[t] = l
  BY <1>1, <1>8
<1>10. AddOK(fd_buffer, fd_registered, l)
  BY <1>7 DEF AddOK
<1>11. CallOK(t)'
  BY <1>8, <1>9, <1>10 DEF CallOK
<1>12. Cardinality(EntriesOf(fd_buffer, image)) + Cardinality(Missing') <= Cardinality(Waiter)
  <2>1. Cardinality(EntriesOf(fd_buffer, image)) = 0
    BY <1>1, <1>6, EntriesFinite
  <2> QED
    BY <2>1, MissingFacts
<1>13. l.mh \notin Section /\ fd_loc[t].mh \notin Section
  BY <1>5, <1>7, CacheConstants
<1> QED
  BY <1>8, <1>11, <1>12, <1>13, LocalsStep

LEMMA StepRegisterStart ==
    ASSUME CacheInv, NEW t \in Waiter, NEW s \in Section, FD!RegisterStart(t, s)
    PROVE  CacheInv'
<1>1. /\ fd_buffer \in Seq(FD!Entry) /\ Len(fd_buffer) \in Nat
      /\ fd_pc \in [Waiter -> {"idle", "scan", "add", "missed"}] /\ fd_loc \in [Waiter -> Locals]
      /\ CallOK(t)
      /\ Cardinality(EntriesOf(fd_buffer, image)) + Cardinality(Missing) <= Cardinality(Waiter)
  BY CallFacts
<1>2. PICK l \in Locals : l = ToAdd(s, Fdes[s]) /\ l.mh = s /\ l.todo = Fdes[s]
  BY CacheConstants, LocalsFacts
<1>3. /\ fd_pc[t] = "idle" /\ s \notin fd_registered /\ \A u \in Waiter : fd_loc[u].mh # s
      /\ fd_pc' = [fd_pc EXCEPT ![t] = "add"] /\ fd_loc' = [fd_loc EXCEPT ![t] = l]
      /\ UNCHANGED <<fd_buffer, fd_size, fd_generation, fd_readers, fd_registered>>
  BY <1>2 DEF FD!RegisterStart, FD!Goto, ToAdd
<1>4. t \notin fd_readers /\ fd_loc[t].mh = None
  BY <1>1, <1>3 DEF CallOK
<1>5. /\ fd_pc'[t] = "add" /\ fd_loc'[t] = l
      /\ \A u \in Waiter : u # t => fd_pc'[u] = fd_pc[u] /\ fd_loc'[u] = fd_loc[u]
  BY <1>1, <1>3
<1>6. Stored(fd_buffer, s, 0)
  <2>1. EntriesOf(fd_buffer, s) = {}
    BY <1>3 DEF CacheInv, BufferOK
  <2>2. Cardinality(EntriesOf(fd_buffer, s)) = 0
    BY <1>1, <2>1, EntriesFinite
  <2> QED
    BY <2>2 DEF Stored
<1>7. AddOK(fd_buffer, fd_registered, l)
  <2>0. PICK q : q = Fdes[s]
    OBVIOUS
  <2>1. PICK n \in Nat : n = Len(q)
    BY <2>0, CacheConstants
  <2>2. n - n = 0 /\ n <= n /\ \A i \in 1 .. n : 0 + i = i
    OBVIOUS
  <2>3. Stored(fd_buffer, s, n - n)
    BY <1>6, <2>2
  <2>4. \A i \in 1 .. n : q[i] = q[n - n + i]
    BY <2>2
  <2> QED
    BY <1>2, <1>3, <2>0, <2>1, <2>2, <2>3, <2>4 DEF AddOK
<1>8. CallOK(t)'
  BY <1>3, <1>4, <1>5, <1>7 DEF CallOK
<1>9. Missing' = Missing
  <2>1. s # image
    BY CacheConstants
  <2> QED
    BY <1>2, <1>3, <1>5, <2>1 DEF Missing
<1>10. fd_readers' = fd_readers \ {t} /\ fd_loc[t].mh \notin Section
  BY <1>3, <1>4, CacheConstants
<1> QED
  BY <1>1, <1>2, <1>3, <1>8, <1>9, <1>10, LocalsStep

\* A writer is alone: nobody is looking up a frame.
LEMMA WriterAlone ==
    ASSUME CacheInv, FD!MayWrite
    PROVE  \A u \in Waiter : fd_pc[u] # "scan" /\ u \notin fd_readers
BY DEF CacheInv, CallsOK, CallOK, FD!MayWrite

\* Entries of m are as they were.
LEMMA StoredSame ==
    ASSUME NEW b, NEW c, NEW m, NEW n,
           Cardinality(EntriesOf(c, m)) = Cardinality(EntriesOf(b, m)),
           \A f : Holds(b, m, f) => Holds(c, m, f), Stored(b, m, n)
    PROVE  Stored(c, m, n)
BY DEF Stored

LEMMA AddSame ==
    ASSUME NEW b, NEW c, NEW r, NEW q, NEW l, AddOK(b, r, l),
           l.mh \in Section => /\ l.mh \notin q
                               /\ Cardinality(EntriesOf(c, l.mh)) = Cardinality(EntriesOf(b, l.mh))
                               /\ \A f : Holds(b, l.mh, f) => Holds(c, l.mh, f)
    PROVE  AddOK(c, q, l)
<1>1. CASE l.mh = image /\ l.todo \in {<<imageFde>>, <<>>}
  BY <1>1 DEF AddOK
<1>2. CASE ~(l.mh = image /\ l.todo \in {<<imageFde>>, <<>>})
  <2>1. l.mh \in Section /\ Stored(b, l.mh, Len(Fdes[l.mh]) - Len(l.todo))
    BY <1>2 DEF AddOK
  <2>2. Stored(c, l.mh, Len(Fdes[l.mh]) - Len(l.todo))
    BY <2>1, StoredSame
  <2> QED
    BY <1>2, <2>1, <2>2 DEF AddOK
<1> QED
  BY <1>1, <1>2

LEMMA StepDeregister ==
    ASSUME CacheInv, NEW t \in Waiter, NEW s \in Section, FD!Deregister(t, s)
    PROVE  CacheInv'
<1>1. /\ s \in fd_registered /\ FD!MayWrite
      /\ fd_buffer' = FD!Compacted(fd_buffer, s) /\ fd_registered' = fd_registered \ {s}
      /\ UNCHANGED <<fd_size, fd_generation, fd_readers, fd_pc, fd_loc>>
  BY DEF FD!Deregister, FD!EntriesNotIn
<1>2. fd_buffer \in Seq(FD!Entry) /\ Len(fd_buffer) \in Nat /\ fd_registered \subseteq Section
  BY CallFacts
<1>3. PICK b \in Seq(FD!Entry) : b = fd_buffer
  BY <1>2
<1>4. PICK c : c = fd_buffer'
  OBVIOUS
<1>5. KeptOK(c, b, s, Len(b))
  BY <1>1, <1>3, <1>4, CompactedFacts
<1>6. \A m : Upto(b, m, Len(b)) = EntriesOf(b, m)
  BY DEF Upto, EntriesOf
<1>7. ASSUME NEW m, m # s
      PROVE  /\ Cardinality(EntriesOf(c, m)) = Cardinality(EntriesOf(b, m))
             /\ \A f : Holds(b, m, f) => Holds(c, m, f)
  <2>1. Cardinality(EntriesOf(c, m)) = Cardinality(EntriesOf(b, m))
    BY <1>5, <1>6, <1>7 DEF KeptOK
  <2>2. ASSUME NEW f, Holds(b, m, f) PROVE Holds(c, m, f)
    <3>1. PICK i \in 1 .. Len(b) : b[i].mh = m /\ b[i].fde = f
      BY <2>2 DEF Holds
    <3> QED
      BY <1>5, <1>7, <3>1 DEF KeptOK
  <2> QED
    BY <2>1, <2>2
<1>8. /\ c \in Seq(FD!Entry) /\ Len(c) <= Len(b) /\ Len(c) \in Nat /\ EntriesOf(c, s) = {}
      /\ \A i \in 1 .. Len(c) : \E j \in 1 .. Len(b) : c[i] = b[j]
  BY <1>5, LenProperties DEF KeptOK
<1>9. FD!TypeOK'
  BY <1>1, <1>4, <1>8 DEF CacheInv, FD!TypeOK
<1>10. ASSUME NEW u \in Waiter PROVE CallOK(u)'
  <2>1. CallOK(u) /\ fd_pc[u] # "scan" /\ u \notin fd_readers
    BY <1>1, WriterAlone DEF CacheInv, CallsOK
  <2>2. ASSUME fd_pc[u] = "add" PROVE AddOK(c, fd_registered', fd_loc[u])
    <3>1. AddOK(b, fd_registered, fd_loc[u])
      BY <1>3, <2>1, <2>2 DEF CallOK
    <3>2. fd_loc[u].mh \in Section => fd_loc[u].mh \notin fd_registered
      BY <3>1, CacheConstants DEF AddOK
    <3>3. fd_loc[u].mh \in Section => fd_loc[u].mh # s /\ fd_loc[u].mh \notin fd_registered'
      BY <1>1, <3>2
    <3> QED
      BY <1>7, <3>1, <3>3, AddSame
  <2> QED
    BY <1>1, <1>4, <2>1, <2>2 DEF CallOK
<1>11. OneAdder'
  <2>1. OneAdder /\ fd_loc' = fd_loc
    BY <1>1 DEF CacheInv
  <2> QED
    BY <2>1 DEF OneAdder
<1>12. Len(c) <= fd_size
  <2>1. Len(b) <= fd_size
    BY <1>3 DEF CacheInv, BufferOK
  <2>2. fd_size \in Nat /\ Len(b) \in Nat
    BY <1>2, <1>3, LenProperties DEF CacheInv, FD!TypeOK
  <2> QED
    BY <1>8, <2>1, <2>2
<1>13. \A i \in 1 .. Len(c) : c[i].mh = image => c[i].fde = imageFde
  <2>1. \A j \in 1 .. Len(b) : b[j].mh = image => b[j].fde = imageFde
    BY <1>3 DEF CacheInv, BufferOK
  <2>2. \A i \in 1 .. Len(c) : \E j \in 1 .. Len(b) : c[i] = b[j]
    BY <1>8
  <2> QED
    BY <2>1, <2>2
<1>14. ASSUME NEW v \in fd_registered' PROVE Stored(c, v, Len(Fdes[v]))
  <2>1. v # s /\ Stored(b, v, Len(Fdes[v]))
    BY <1>1, <1>3 DEF CacheInv, BufferOK
  <2> QED
    BY <1>7, <2>1, StoredSame
<1>15. ASSUME NEW v \in Section \ fd_registered', \A u \in Waiter : fd_loc[u].mh # v
       PROVE  EntriesOf(c, v) = {}
  <2>1. CASE v = s
    BY <1>8, <2>1
  <2>2. CASE v # s
    <3>1. EntriesOf(b, v) = {}
      BY <1>1, <1>3, <1>15, <2>2 DEF CacheInv, BufferOK
    <3>2. Cardinality(EntriesOf(c, v)) = 0
      BY <1>7, <2>2, <3>1, EntriesFinite
    <3> QED
      BY <1>8, <3>2, EntriesFinite
  <2> QED
    BY <2>1, <2>2
<1>16. Cardinality(EntriesOf(c, image)) + Cardinality(Missing') <= Cardinality(Waiter)
  <2>1. Missing' = Missing /\ image # s
    BY <1>1, CacheConstants DEF Missing
  <2>2. Cardinality(EntriesOf(c, image)) = Cardinality(EntriesOf(b, image))
    BY <1>7, <2>1
  <2> QED
    BY <1>3, <2>1, <2>2 DEF CacheInv, BufferOK
<1>17. BufferOK'
  BY <1>1, <1>4, <1>12, <1>13, <1>14, <1>15, <1>16 DEF BufferOK
<1> QED
  BY <1>9, <1>10, <1>11, <1>17 DEF CacheInv, CallsOK

LEMMA StepAddReturns ==
    ASSUME CacheInv, NEW t \in Waiter, FD!AddReturns(t)
    PROVE  CacheInv'
<1>1. /\ fd_buffer \in Seq(FD!Entry) /\ Len(fd_buffer) \in Nat
      /\ fd_pc \in [Waiter -> {"idle", "scan", "add", "missed"}] /\ fd_loc \in [Waiter -> Locals]
      /\ fd_loc[t] \in Locals /\ CallOK(t) /\ fd_registered \subseteq Section
      /\ Cardinality(EntriesOf(fd_buffer, image)) + Cardinality(Missing) <= Cardinality(Waiter)
  BY CallFacts
<1>2. PICK l \in Locals : l = FD!NoLocals /\ l.mh = None
  BY CacheConstants
<1>3. PICK s : s = fd_loc[t].mh
  OBVIOUS
<1>4. /\ fd_pc[t] = "add" /\ fd_loc[t].todo = <<>>
      /\ fd_registered' = fd_registered \cup ({s} \ {image})
      /\ fd_pc' = [fd_pc EXCEPT ![t] = "idle"] /\ fd_loc' = [fd_loc EXCEPT ![t] = l]
      /\ UNCHANGED <<fd_buffer, fd_size, fd_generation, fd_readers>>
  BY <1>2, <1>3 DEF FD!AddReturns, FD!Done, FD!Goto
<1>5. /\ fd_pc'[t] = "idle" /\ fd_loc'[t] = l
      /\ \A u \in Waiter : u # t => fd_pc'[u] = fd_pc[u] /\ fd_loc'[u] = fd_loc[u]
  BY <1>1, <1>4
<1>6. AddOK(fd_buffer, fd_registered, fd_loc[t]) /\ t \notin fd_readers
  BY <1>1, <1>4 DEF CallOK
<1>7. CallOK(t)'
  BY <1>2, <1>4, <1>5, <1>6 DEF CallOK
<1>8. Missing' = Missing
  BY <1>4, <1>5 DEF Missing
<1>9. CASE s = image
  <2>1. fd_registered' = fd_registered /\ fd_readers' = fd_readers \ {t}
    BY <1>4, <1>6, <1>9
  <2>2. l.mh \notin Section /\ fd_loc[t].mh \notin Section
    BY <1>2, <1>3, <1>9, CacheConstants
  <2> QED
    BY <1>1, <1>4, <1>7, <1>8, <2>1, <2>2, LocalsStep
<1>10. CASE s # image
  <2>1. s \in Section \ fd_registered /\ fd_registered' = fd_registered \cup {s}
    BY <1>3, <1>4, <1>6, <1>10 DEF AddOK
  <2>2. Stored(fd_buffer, s, Len(Fdes[s]))
    <3>1. Stored(fd_buffer, s, Len(Fdes[s]) - Len(fd_loc[t].todo))
      BY <1>3, <1>6, <1>10 DEF AddOK
    <3>2. Len(fd_loc[t].todo) = 0 /\ Len(Fdes[s]) \in Nat
      BY <1>4, <2>1, CacheConstants
    <3>3. Len(Fdes[s]) - Len(fd_loc[t].todo) = Len(Fdes[s])
      BY <3>2
    <3> QED
      BY <3>1, <3>3
  <2>3. FD!TypeOK'
    <3>1. fd_pc' \in [Waiter -> {"idle", "scan", "add", "missed"}] /\ fd_loc' \in [Waiter -> Locals]
          /\ fd_registered' \subseteq Section
      BY <1>1, <1>4, <2>1
    <3> QED
      BY <1>4, <3>1 DEF CacheInv, FD!TypeOK, Locals
  <2>4. ASSUME NEW u \in Waiter, u # t PROVE CallOK(u)'
    <3>1. CallOK(u) /\ (fd_loc[u].mh \in Section => fd_loc[u].mh # s)
      BY <1>3, <2>1, <2>4 DEF CacheInv, CallsOK, OneAdder
    <3>2. ASSUME fd_pc[u] = "add" PROVE AddOK(fd_buffer, fd_registered', fd_loc[u])
      <4>1. AddOK(fd_buffer, fd_registered, fd_loc[u])
        BY <3>1, <3>2 DEF CallOK
      <4> QED
        BY <2>1, <3>1, <4>1 DEF AddOK
    <3>3. ASSUME fd_pc[u] = "scan"
          PROVE  ScanOK(fd_buffer, fd_registered', fd_loc[u], fd_generation)
      <4>1. ScanOK(fd_buffer, fd_registered, fd_loc[u], fd_generation)
        BY <3>1, <3>3 DEF CallOK
      <4> QED
        BY <2>1, <4>1 DEF ScanOK
    <3> QED
      BY <1>4, <1>5, <2>4, <3>1, <3>2, <3>3 DEF CallOK
  <2>5. OneAdder'
    BY <1>2, <1>5, CacheConstants DEF OneAdder, CacheInv
  <2>6. ASSUME NEW v \in Section \ fd_registered', \A u \in Waiter : fd_loc'[u].mh # v
        PROVE  EntriesOf(fd_buffer, v) = {}
    <3>1. \A u \in Waiter : fd_loc[u].mh # v
      BY <1>3, <1>5, <2>1, <2>6
    <3> QED
      BY <2>1, <2>6, <3>1 DEF CacheInv, BufferOK
  <2>7. \A v \in fd_registered' : Stored(fd_buffer, v, Len(Fdes[v]))
    BY <2>1, <2>2 DEF CacheInv, BufferOK
  <2>8. BufferOK'
    BY <1>4, <1>8, <2>6, <2>7 DEF CacheInv, BufferOK
  <2> QED
    BY <1>7, <2>3, <2>4, <2>5, <2>8 DEF CacheInv, CallsOK
<1> QED
  BY <1>9, <1>10

\* The locals when the first of what is to add has been added.
Rest(o) == [o EXCEPT !.todo = Tail(o.todo)]

LEMMA RestFacts ==
    ASSUME NEW o \in Locals, o.todo # <<>>
    PROVE  /\ Rest(o) \in Locals /\ Rest(o).mh = o.mh /\ Rest(o).todo = Tail(o.todo)
           /\ Head(o.todo) \in FD!Fde /\ Len(o.todo) \in Nat \ {0}
           /\ Len(Rest(o).todo) = Len(o.todo) - 1
           /\ \A i \in 1 .. Len(o.todo) - 1 : Rest(o).todo[i] = o.todo[i + 1]
           /\ Head(o.todo) = o.todo[1]
<1>1. PICK q \in Seq(FD!Fde) : q = o.todo
  BY DEF Locals
<1>2. /\ Head(q) \in FD!Fde /\ Tail(q) \in Seq(FD!Fde) /\ Len(Tail(q)) = Len(q) - 1
      /\ \A i \in 1 .. Len(Tail(q)) : Tail(q)[i] = q[i + 1]
  BY <1>1, HeadTailProperties
<1>3. Head(q) = q[1] /\ Len(q) \in Nat \ {0}
  BY <1>1, EmptySeq
<1>4. Rest(o) \in Locals /\ Rest(o).mh = o.mh /\ Rest(o).todo = Tail(q)
  BY <1>1, <1>2 DEF Locals, Rest
<1> QED
  BY <1>1, <1>2, <1>3, <1>4

EntryOf(o) == [mh |-> o.mh, fde |-> Head(o.todo)]

LEMMA StepAdd ==
    ASSUME CacheInv, NEW t \in Waiter, FD!Add(t)
    PROVE  CacheInv'
<1>1. /\ fd_buffer \in Seq(FD!Entry) /\ Len(fd_buffer) \in Nat
      /\ fd_pc \in [Waiter -> {"idle", "scan", "add", "missed"}] /\ fd_loc \in [Waiter -> Locals]
      /\ fd_loc[t] \in Locals /\ CallOK(t) /\ fd_registered \subseteq Section
      /\ Cardinality(EntriesOf(fd_buffer, image)) + Cardinality(Missing) <= Cardinality(Waiter)
      /\ Cardinality(EntriesOf(fd_buffer, image)) \in Nat
  BY CallFacts
<1>2. PICK b \in Seq(FD!Entry), o \in Locals : b = fd_buffer /\ o = fd_loc[t]
  BY <1>1
<1>3. PICK c : c = fd_buffer'
  OBVIOUS
<1>4. PICK l : l = Rest(o)
  OBVIOUS
<1>5. /\ fd_pc[t] = "add" /\ o.todo # <<>> /\ FD!MayWrite
      /\ fd_size' = (IF FD!IsFull THEN fd_size * 4 ELSE fd_size)
      /\ fd_generation' = (IF FD!IsFull THEN fd_generation + 1 ELSE fd_generation)
      /\ c = Append(b, EntryOf(o))
      /\ fd_loc' = [fd_loc EXCEPT ![t] = l]
      /\ UNCHANGED <<fd_readers, fd_registered, fd_pc>>
  BY <1>2, <1>3, <1>4 DEF FD!Add, Rest, EntryOf
<1>6. /\ l \in Locals /\ l.mh = o.mh /\ Head(o.todo) \in FD!Fde /\ Len(o.todo) \in Nat \ {0}
      /\ Len(l.todo) = Len(o.todo) - 1
      /\ \A i \in 1 .. Len(o.todo) - 1 : l.todo[i] = o.todo[i + 1]
      /\ Head(o.todo) = o.todo[1]
  BY <1>4, <1>5, RestFacts
<1>7. AddOK(b, fd_registered, o) /\ t \notin fd_readers
  BY <1>1, <1>2, <1>5 DEF CallOK
<1>8. o.mh \in Section \cup {image}
  BY <1>7 DEF AddOK
<1>9. PICK e \in FD!Entry : e = EntryOf(o) /\ e.mh = o.mh /\ e.fde = Head(o.todo)
  <2>1. PICK m \in Section \cup {image}, f \in FD!Fde : m = o.mh /\ f = Head(o.todo)
    BY <1>6, <1>8
  <2>2. EntryOf(o) = [mh |-> m, fde |-> f]
    BY <2>1 DEF EntryOf
  <2>3. PICK e : e = [mh |-> m, fde |-> f]
    OBVIOUS
  <2>4. e \in FD!Entry /\ e.mh = m /\ e.fde = f
    BY <2>3 DEF FD!Entry
  <2> QED
    BY <2>1, <2>2, <2>3, <2>4
<1>10. Added(b, e, c)
  BY <1>5, <1>9, AppendEntry
<1>11. /\ fd_loc'[t] = l /\ \A u \in Waiter : u # t => fd_loc'[u] = fd_loc[u]
  BY <1>1, <1>5
<1>12. \A m : m # o.mh => /\ EntriesOf(c, m) = EntriesOf(b, m)
                          /\ Cardinality(EntriesOf(c, m)) = Cardinality(EntriesOf(b, m))
  BY <1>9, <1>10 DEF Added
<1>13. \A m, f : Holds(b, m, f) => Holds(c, m, f)
  BY <1>10 DEF Added
<1>14. FD!TypeOK'
  <2>1. fd_loc' \in [Waiter -> Locals] /\ c \in Seq(FD!Entry)
    BY <1>1, <1>5, <1>6, <1>10 DEF Added
  <2>2. fd_size \in Nat \ {0} /\ fd_generation \in Nat
    BY DEF CacheInv, FD!TypeOK
  <2>3. fd_size' \in Nat \ {0} /\ fd_generation' \in Nat
    BY <1>5, <2>2
  <2> QED
    BY <1>3, <1>5, <2>1, <2>3 DEF CacheInv, FD!TypeOK, Locals
<1>15. AddOK(c, fd_registered, l)
  <2>1. CASE o.mh = image
    <3>1. o.todo = <<imageFde>>
      BY <1>5, <1>7, <2>1, CacheConstants DEF AddOK
    <3>2. Tail(<<imageFde>>) = <<>>
      OBVIOUS
    <3>3. l.todo = <<>>
      BY <1>4, <1>5, <3>1, <3>2, RestFacts
    <3> QED
      BY <1>6, <2>1, <3>3 DEF AddOK
  <2>2. CASE o.mh # image
    <3>1. PICK s \in Section \ fd_registered : s = o.mh
      BY <1>7, <2>2 DEF AddOK
    <3>2. PICK q : q = Fdes[s]
      OBVIOUS
    <3>3. PICK n \in Nat, k \in Nat : n = Len(q) /\ k = Len(o.todo)
      BY <1>6, <3>2, CacheConstants
    <3>4. /\ k <= n /\ Stored(b, s, n - k) /\ \A i \in 1 .. k : o.todo[i] = q[n - k + i]
      BY <1>7, <2>2, <3>1, <3>2, <3>3 DEF AddOK
    <3>5. k # 0 /\ k - 1 <= n /\ n - (k - 1) = (n - k) + 1 /\ (n - k) + 1 \in Nat /\ 1 \in 1 .. k
      BY <1>6, <3>3, <3>4
    <3>6. Holds(c, s, q[(n - k) + 1])
      <4>1. e.mh = s /\ e.fde = q[(n - k) + 1]
        BY <1>6, <1>9, <3>1, <3>4, <3>5
      <4> QED
        BY <1>10, <4>1 DEF Added
    <3>7. Cardinality(EntriesOf(c, s)) = (n - k) + 1
      BY <1>9, <1>10, <3>1, <3>4 DEF Added, Stored
    <3>8. \A i \in 1 .. (n - k) + 1 : i \in 1 .. n - k \/ i = (n - k) + 1
      BY <3>4
    <3>9. Stored(c, s, n - (k - 1))
      BY <1>13, <3>2, <3>4, <3>5, <3>6, <3>7, <3>8 DEF Stored
    <3>10. ASSUME NEW i \in 1 .. k - 1 PROVE l.todo[i] = q[n - (k - 1) + i]
      <4>1. i + 1 \in 1 .. k /\ n - k + (i + 1) = n - (k - 1) + i
        BY <3>4
      <4> QED
        BY <1>6, <3>3, <3>4, <4>1
    <3>11. l.mh = s /\ Len(l.todo) = k - 1
      BY <1>6, <3>1, <3>3
    <3> QED
      BY <3>1, <3>2, <3>3, <3>5, <3>9, <3>10, <3>11 DEF AddOK
  <2> QED
    BY <2>1, <2>2
<1>16. ASSUME NEW u \in Waiter PROVE CallOK(u)'
  <2>1. CallOK(u) /\ fd_pc[u] # "scan" /\ u \notin fd_readers
    BY <1>5, WriterAlone DEF CacheInv, CallsOK
  <2>2. CASE u = t
    BY <1>3, <1>5, <1>11, <1>15, <2>1, <2>2 DEF CallOK
  <2>3. CASE u # t
    <3>1. fd_loc[u].mh \in Section => fd_loc[u].mh # o.mh
      BY <1>2, <2>3 DEF CacheInv, OneAdder
    <3>2. ASSUME fd_pc[u] = "add" PROVE AddOK(c, fd_registered, fd_loc[u])
      <4>1. AddOK(b, fd_registered, fd_loc[u])
        BY <1>2, <2>1, <3>2 DEF CallOK
      <4>2. fd_loc[u].mh \in Section => fd_loc[u].mh \notin fd_registered
        BY <4>1, CacheConstants DEF AddOK
      <4> QED
        BY <1>12, <1>13, <3>1, <4>1, <4>2, AddSame
    <3> QED
      BY <1>3, <1>5, <1>11, <2>1, <2>3, <3>2 DEF CallOK
  <2> QED
    BY <2>2, <2>3
<1>17. \A u \in Waiter : fd_loc'[u].mh = fd_loc[u].mh
  BY <1>2, <1>6, <1>11
<1>18. OneAdder'
  BY <1>17 DEF OneAdder, CacheInv
<1>19. Len(c) <= fd_size'
  <2>1. fd_size \in Nat \ {0} /\ Len(b) <= fd_size /\ Len(c) = Len(b) + 1 /\ Len(b) \in Nat
    BY <1>1, <1>2, <1>10 DEF CacheInv, FD!TypeOK, BufferOK, Added
  <2>2. FD!IsFull <=> Len(b) >= fd_size
    BY <1>2 DEF FD!IsFull
  <2> QED
    BY <1>5, <2>1, <2>2
<1>20. ASSUME NEW i \in 1 .. Len(c), c[i].mh = image PROVE c[i].fde = imageFde
  <2>1. Len(c) = Len(b) + 1 /\ Len(b) \in Nat
    BY <1>1, <1>2, <1>10 DEF Added
  <2>2. CASE i \in 1 .. Len(b)
    <3>1. c[i] = b[i]
      BY <1>10, <2>2 DEF Added
    <3> QED
      BY <1>2, <1>20, <2>2, <3>1 DEF CacheInv, BufferOK
  <2>3. CASE i = Len(b) + 1
    <3>1. c[i] = e
      BY <1>10, <2>3 DEF Added
    <3>2. o.todo = <<imageFde>>
      BY <1>5, <1>7, <1>9, <1>20, <3>1, CacheConstants DEF AddOK
    <3>3. Head(<<imageFde>>) = imageFde
      OBVIOUS
    <3> QED
      BY <1>9, <3>1, <3>2, <3>3
  <2> QED
    BY <2>1, <2>2, <2>3
<1>21. ASSUME NEW v \in fd_registered PROVE Stored(c, v, Len(Fdes[v]))
  <2>1. v # o.mh
    BY <1>1, <1>7, CacheConstants DEF AddOK
  <2>2. Stored(b, v, Len(Fdes[v]))
    BY <1>2 DEF CacheInv, BufferOK
  <2> QED
    BY <1>12, <1>13, <2>1, <2>2, StoredSame
<1>22. ASSUME NEW v \in Section \ fd_registered, \A u \in Waiter : fd_loc'[u].mh # v
       PROVE  EntriesOf(c, v) = {}
  <2>1. v # o.mh /\ \A u \in Waiter : fd_loc[u].mh # v
    BY <1>2, <1>17, <1>22
  <2>2. EntriesOf(b, v) = {}
    BY <1>2, <2>1 DEF CacheInv, BufferOK
  <2> QED
    BY <1>12, <2>1, <2>2
<1>23. Cardinality(EntriesOf(c, image)) + Cardinality(Missing') <= Cardinality(Waiter)
  <2>1. CASE o.mh = image
    <3>1. Cardinality(EntriesOf(c, image)) = Cardinality(EntriesOf(b, image)) + 1
      BY <1>9, <1>10, <2>1 DEF Added
    <3>2. o.todo = <<imageFde>>
      BY <1>5, <1>7, <2>1, CacheConstants DEF AddOK
    <3>3. Tail(<<imageFde>>) = <<>>
      OBVIOUS
    <3>4. l.todo = <<>>
      BY <1>4, <1>5, <3>2, <3>3, RestFacts
    <3>5. Missing' = Missing \ {t} /\ t \in Missing
      BY <1>2, <1>5, <1>11, <2>1, <3>4 DEF Missing
    <3>6. Cardinality(Missing') = Cardinality(Missing) - 1
      BY <3>5, MissingFacts, FS_RemoveElement
    <3>7. PICK x \in Nat, y \in Nat, z \in Nat :
              /\ x = Cardinality(EntriesOf(b, image)) /\ y = Cardinality(Missing)
              /\ z = Cardinality(Waiter)
      BY <1>1, <1>2, MissingFacts
    <3>8. x + y <= z
      BY <1>1, <1>2, <3>7
    <3>9. (x + 1) + (y - 1) <= z
      BY <3>8
    <3> QED
      BY <3>1, <3>6, <3>7, <3>9
  <2>2. CASE o.mh # image
    <3>1. Missing' = Missing
      BY <1>2, <1>5, <1>6, <1>11, <2>2 DEF Missing
    <3> QED
      BY <1>1, <1>2, <1>12, <2>2, <3>1
  <2> QED
    BY <2>1, <2>2
<1>24. BufferOK'
  BY <1>3, <1>5, <1>19, <1>20, <1>21, <1>22, <1>23 DEF BufferOK
<1> QED
  BY <1>14, <1>16, <1>18, <1>24 DEF CacheInv, CallsOK

-----------------------------------------------------------------------------
LEMMA CacheInit == FD!Init => CacheInv
<1>1. SUFFICES ASSUME FD!Init PROVE CacheInv
  OBVIOUS
<1>2. /\ fd_buffer = <<>> /\ fd_size = InitialSize /\ fd_generation = 0
      /\ fd_readers = {} /\ fd_registered = {}
      /\ fd_pc = [t \in Waiter |-> "idle"] /\ fd_loc = [t \in Waiter |-> FD!NoLocals]
  BY <1>1 DEF FD!Init
<1>3. fd_buffer \in Seq(FD!Entry) /\ Len(fd_buffer) = 0 /\ 1 .. 0 = {}
  BY <1>2, EmptySeq
<1>4. \A t \in Waiter : fd_pc[t] = "idle" /\ fd_loc[t] = FD!NoLocals /\ fd_loc[t].mh = None
  BY <1>2, CacheConstants
<1>5. fd_loc \in [Waiter -> Locals]
  BY <1>2, CacheConstants
<1>6. FD!TypeOK
  BY <1>2, <1>3, <1>5, SyncAssumption DEF FD!TypeOK, Locals
<1>7. CallsOK
  BY <1>2, <1>4 DEF CallsOK, CallOK
<1>8. OneAdder
  BY <1>4, CacheConstants DEF OneAdder
<1>9. \A m : EntriesOf(fd_buffer, m) = {}
  BY <1>3 DEF EntriesOf
<1>10. Missing = {}
  BY <1>4 DEF Missing
<1>11. Cardinality(EntriesOf(fd_buffer, image)) + Cardinality(Missing) <= Cardinality(Waiter)
  <2>1. Cardinality(EntriesOf(fd_buffer, image)) = 0
    BY <1>3, <1>9, EntriesFinite
  <2> QED
    BY <2>1, MissingFacts
<1>12. Len(fd_buffer) <= fd_size
  BY <1>2, <1>3, SyncAssumption
<1>13. BufferOK
  BY <1>2, <1>3, <1>9, <1>11, <1>12 DEF BufferOK
<1> QED
  BY <1>6, <1>7, <1>8, <1>13 DEF CacheInv

LEMMA CacheStep ==
    ASSUME CacheInv, FD!Next
    PROVE  CacheInv'
<1>1. PICK t \in Waiter :
          \/ FD!FindStart(t, image, imageFde)
          \/ \E s \in fd_registered : \E i \in DOMAIN Fdes[s] : FD!FindStart(t, None, Fdes[s][i])
          \/ FD!FindNext(t) \/ FD!FindHit(t) \/ FD!FindMiss(t)
          \/ FD!Add(t) \/ FD!AddReturns(t)
          \/ \E s \in Section : FD!RegisterStart(t, s) \/ FD!Deregister(t, s)
  BY DEF FD!Next
<1>2. CASE FD!FindStart(t, image, imageFde)
  BY <1>2, StepFindStart
<1>3. ASSUME NEW s \in fd_registered, NEW i \in DOMAIN Fdes[s], FD!FindStart(t, None, Fdes[s][i])
      PROVE  CacheInv'
  <2>1. i \in 1 .. Len(Fdes[s])
    BY CallFacts, CacheConstants
  <2> QED
    BY <1>3, <2>1, StepFindStart
<1>4. CASE FD!FindNext(t)
  BY <1>4, StepFindNext
<1>5. CASE FD!FindHit(t)
  BY <1>5, StepFindHit
<1>6. CASE FD!FindMiss(t)
  BY <1>6, StepFindMiss
<1>7. CASE FD!Add(t)
  BY <1>7, StepAdd
<1>8. CASE FD!AddReturns(t)
  BY <1>8, StepAddReturns
<1>9. ASSUME NEW s \in Section, FD!RegisterStart(t, s) PROVE CacheInv'
  BY <1>9, StepRegisterStart
<1>10. ASSUME NEW s \in Section, FD!Deregister(t, s) PROVE CacheInv'
  BY <1>10, StepDeregister
<1> QED
  BY <1>1, <1>2, <1>3, <1>4, <1>5, <1>6, <1>7, <1>8, <1>9, <1>10

LEMMA CacheFramed == CacheInv /\ UNCHANGED fdVars => CacheInv'
<1> SUFFICES ASSUME CacheInv, UNCHANGED fdVars PROVE CacheInv'
  OBVIOUS
<1>1. /\ fd_buffer' = fd_buffer /\ fd_size' = fd_size /\ fd_generation' = fd_generation
      /\ fd_readers' = fd_readers /\ fd_registered' = fd_registered /\ fd_pc' = fd_pc /\ fd_loc' = fd_loc
  BY DEF fdVars
<1>2. FD!TypeOK' <=> FD!TypeOK
  BY <1>1 DEF FD!TypeOK
<1>3. CallsOK' <=> CallsOK
  BY <1>1 DEF CallsOK, CallOK
<1>4. OneAdder' <=> OneAdder
  BY <1>1 DEF OneAdder
<1>5. Missing' = Missing
  BY <1>1 DEF Missing
<1>6. BufferOK' <=> BufferOK
  BY <1>1, <1>5 DEF BufferOK
<1> QED
  BY <1>2, <1>3, <1>4, <1>6 DEF CacheInv

LEMMA CacheSuffices == CacheInv => LookupFindsRegistered /\ CacheIsBounded
<1>1. SUFFICES ASSUME CacheInv PROVE LookupFindsRegistered /\ CacheIsBounded
  OBVIOUS
<1>2. LookupFindsRegistered
  BY <1>1 DEF LookupFindsRegistered, FD!LookupFindsRegistered, CacheInv, CallsOK, CallOK, ScanOK
<1>3. fd_buffer \in Seq(FD!Entry) /\ DOMAIN fd_buffer = 1 .. Len(fd_buffer)
  BY <1>1, LenProperties DEF CacheInv, FD!TypeOK
<1>4. \A m : {i \in DOMAIN fd_buffer : fd_buffer[i].mh = m} = EntriesOf(fd_buffer, m)
  BY <1>3 DEF EntriesOf
<1>5. \A S : FD!Cardinality(S) = Cardinality(S)
  BY DEF Cardinality, FD!Cardinality
<1>6. Cardinality(EntriesOf(fd_buffer, image)) <= Cardinality(Waiter)
  BY <1>1, <1>3, EntriesFinite, MissingFacts DEF CacheInv, BufferOK
<1>7. \A s \in fd_registered : Cardinality(EntriesOf(fd_buffer, s)) = Len(Fdes[s])
  BY <1>1 DEF CacheInv, BufferOK, Stored
<1>8. FD!CacheIsBounded
  BY <1>1, <1>4, <1>5, <1>6, <1>7 DEF FD!CacheIsBounded, CacheInv, BufferOK
<1> QED
  BY <1>1, <1>2, <1>8 DEF CacheIsBounded, CacheInv

LEMMA CacheAlways == SyncSpec => []CacheInv
<1>1. SyncInit => CacheInv
  BY CacheInit DEF SyncInit
<1>2. ASSUME CacheInv, [SyncNext]_syncVars PROVE CacheInv'
  <2>1. CASE FdeCacheNext
    BY <1>2, <2>1, CacheStep DEF FdeCacheNext
  <2>2. CASE ~FdeCacheNext
    <3>1. UNCHANGED fdVars
      BY <1>2, <2>2 DEF SyncNext, syncVars, SharedMutexNext, CallOnceNext, BarrierNext,
                        SharedCountNext, FutureNext, Others
    <3> QED
      BY <1>2, <3>1, CacheFramed
  <2> QED
    BY <2>1, <2>2
<1> QED
  BY <1>1, <1>2, PTL DEF SyncSpec

\* A lookup for a frame of a registered section never fails, whatever other threads
\* add and remove, and findFDE never goes on in a buffer that add has replaced.
THEOREM RegisteredFramesAreFound == SyncSpec => []LookupFindsRegistered
BY CacheAlways, CacheSuffices, PTL

\* add keeps the entries inside the buffer, removeAllIn leaves nothing of a section
\* behind and keeps all others, and the image's frame is entered once for each
\* thread at most.
THEOREM CacheHoldsWhatIsRegistered == SyncSpec => []CacheIsBounded
BY CacheAlways, CacheSuffices, PTL

-----------------------------------------------------------------------------
\* The barrier.  Level[r][e]: the arrivals that round r expects when the phase
\* expects e.
Level[r \in Nat] == IF r = 0 THEN [e \in Nat |-> e] ELSE [e \in Nat |-> BA!HalfOf(Level[r - 1][e])]

\* Half of the arrivals of a round, rounded up, go on to the next.
LEMMA HalfFacts ==
    ASSUME NEW n \in Nat
    PROVE  /\ BA!HalfOf(n) \in Nat /\ BA!HalfOf(n) <= n
           /\ n > 0 => BA!HalfOf(n) > 0
           /\ n > 1 => BA!HalfOf(n) < n
           /\ n <= 1 => BA!HalfOf(n) = n
           /\ \A m \in Nat : m <= n => BA!HalfOf(m) <= BA!HalfOf(n)
  BY DEF BA!HalfOf

\* Levels that go up to round n.
Levels(k, n) == /\ k \in [0 .. n -> [Nat -> Nat]] /\ k[0] = [e \in Nat |-> e]
                /\ \A i \in 0 .. n - 1 : k[i + 1] = [e \in Nat |-> BA!HalfOf(k[i][e])]

LEMMA LevelsExist ==
    ASSUME NEW n \in Nat
    PROVE  \E k : Levels(k, n)
<1> DEFINE T == {m \in Nat : ~ \E k : Levels(k, m)}
<1>1. 0 \notin T
  <2>1. Levels([i \in 0 .. 0 |-> [e \in Nat |-> e]], 0)
    BY DEF Levels
  <2> QED
    BY <2>1
<1>2. ASSUME NEW m \in Nat, m + 1 \in T PROVE m \in T
  <2>1. SUFFICES ASSUME NEW k, Levels(k, m) PROVE \E h : Levels(h, m + 1)
    BY <1>2
  <2> DEFINE top == [e \in Nat |-> BA!HalfOf(k[m][e])]
  <2> DEFINE h == [i \in 0 .. m + 1 |-> IF i = m + 1 THEN top ELSE k[i]]
  <2>2. k[m] \in [Nat -> Nat]
    BY <2>1 DEF Levels
  <2>3. top \in [Nat -> Nat]
    BY <2>2, HalfFacts
  <2>4. \A i \in 0 .. m : k[i] \in [Nat -> Nat] /\ i # m + 1
    BY <2>1 DEF Levels
  <2> HIDE DEF top
  <2>5. \A i \in 0 .. m + 1 : h[i] \in [Nat -> Nat]
    BY <2>3, <2>4
  <2>6. h \in [0 .. m + 1 -> [Nat -> Nat]]
    BY <2>5
  <2>7. h[0] = [e \in Nat |-> e]
    BY <2>1 DEF Levels
  <2>8. ASSUME NEW i \in 0 .. (m + 1) - 1 PROVE h[i + 1] = [e \in Nat |-> BA!HalfOf(h[i][e])]
    <3>1. i \in 0 .. m + 1 /\ i + 1 \in 0 .. m + 1 /\ h[i] = k[i]
      OBVIOUS
    <3>2. CASE i = m
      BY <3>1, <3>2 DEF top
    <3>3. CASE i # m
      <4>1. i \in 0 .. m - 1 /\ h[i + 1] = k[i + 1]
        BY <3>3
      <4> QED
        BY <2>1, <3>1, <4>1 DEF Levels
    <3> QED
      BY <3>2, <3>3
  <2> HIDE DEF h
  <2>9. Levels(h, m + 1)
    BY <2>6, <2>7, <2>8 DEF Levels
  <2> QED
    BY <2>9
<1> HIDE DEF T
<1>3. T \in SUBSET Nat
  BY DEF T
<1>4. n \notin T
  BY <1>1, <1>2, <1>3, NoLeast
<1> QED
  BY <1>4 DEF T

LEMMA LevelsUnique ==
    ASSUME NEW k, NEW m \in Nat, Levels(k, m), NEW h, NEW n \in Nat, Levels(h, n),
           NEW i \in Nat, i <= m, i <= n
    PROVE  k[i] = h[i]
<1> DEFINE T == {j \in Nat : j <= m /\ j <= n /\ k[j] # h[j]}
<1>1. 0 \notin T
  BY DEF Levels
<1>2. ASSUME NEW j \in Nat, j + 1 \in T PROVE j \in T
  <2>1. j \in 0 .. m - 1 /\ j \in 0 .. n - 1 /\ j <= m /\ j <= n
    BY <1>2
  <2>2. k[j + 1] = [e \in Nat |-> BA!HalfOf(k[j][e])] /\ h[j + 1] = [e \in Nat |-> BA!HalfOf(h[j][e])]
    BY <2>1 DEF Levels
  <2>3. k[j + 1] # h[j + 1]
    BY <1>2
  <2>4. k[j] # h[j]
    BY <2>2, <2>3
  <2> QED
    BY <2>1, <2>4
<1> HIDE DEF T
<1>3. T \in SUBSET Nat
  BY DEF T
<1>4. i \notin T
  BY <1>1, <1>2, <1>3, NoLeast
<1> QED
  BY <1>4 DEF T

LEMMA LevelIs ==
    /\ Level[0] = [e \in Nat |-> e]
    /\ \A r \in Nat : Level[r] \in [Nat -> Nat] /\ Level[r + 1] = [e \in Nat |-> BA!HalfOf(Level[r][e])]
<1> DEFINE Eq(f) == f = [r \in Nat |-> IF r = 0 THEN [e \in Nat |-> e]
                                       ELSE [e \in Nat |-> BA!HalfOf(f[r - 1][e])]]
<1> DEFINE Some(n) == CHOOSE k : Levels(k, n)
<1> DEFINE F == [r \in Nat |-> Some(r)[r]]
<1>1. ASSUME NEW n \in Nat PROVE Levels(Some(n), n)
  BY LevelsExist
<1> HIDE DEF Some
<1>2. ASSUME NEW r \in Nat, r # 0 PROVE F[r] = [e \in Nat |-> BA!HalfOf(F[r - 1][e])]
  <2>1. r - 1 \in Nat /\ (r - 1) + 1 = r /\ r - 1 \in 0 .. r - 1 /\ r - 1 <= r
    BY <1>2
  <2>2. Levels(Some(r), r) /\ Levels(Some(r - 1), r - 1)
    BY <1>1, <2>1
  <2>3. Some(r)[r - 1] = Some(r - 1)[r - 1]
    BY <2>1, <2>2, LevelsUnique
  <2>4. Some(r)[(r - 1) + 1] = [e \in Nat |-> BA!HalfOf(Some(r)[r - 1][e])]
    BY <2>1, <2>2 DEF Levels
  <2> QED
    BY <2>1, <2>3, <2>4
<1>3. F[0] = [e \in Nat |-> e]
  BY <1>1 DEF Levels
<1>4. Eq(F)
  <2>1. \A r \in Nat : F[r] = IF r = 0 THEN [e \in Nat |-> e]
                              ELSE [e \in Nat |-> BA!HalfOf(F[r - 1][e])]
    BY <1>2, <1>3
  <2>2. DOMAIN F = Nat /\ F = [r \in DOMAIN F |-> F[r]]
    OBVIOUS
  <2> HIDE DEF F
  <2> QED
    BY <2>1, <2>2
<1> HIDE DEF F
<1>5. Eq(Level)
  BY <1>4 DEF Level
<1>6. \A r \in Nat : Level[r] = IF r = 0 THEN [e \in Nat |-> e]
                                ELSE [e \in Nat |-> BA!HalfOf(Level[r - 1][e])]
  BY <1>5
<1> HIDE DEF Eq
<1>7. Level[0] = [e \in Nat |-> e]
  BY <1>6
<1>8. ASSUME NEW r \in Nat PROVE Level[r + 1] = [e \in Nat |-> BA!HalfOf(Level[r][e])]
  <2>1. r + 1 \in Nat /\ r + 1 # 0 /\ (r + 1) - 1 = r
    OBVIOUS
  <2> QED
    BY <1>6, <2>1
<1>9. \A r \in Nat : Level[r] \in [Nat -> Nat]
  <2> DEFINE T == {r \in Nat : Level[r] \notin [Nat -> Nat]}
  <2>1. 0 \notin T
    BY <1>7
  <2>2. ASSUME NEW r \in Nat, r + 1 \in T PROVE r \in T
    <3>1. SUFFICES ASSUME Level[r] \in [Nat -> Nat] PROVE Level[r + 1] \in [Nat -> Nat]
      BY <2>2
    <3>2. \A e \in Nat : BA!HalfOf(Level[r][e]) \in Nat
      BY <3>1, HalfFacts
    <3>3. Level[r + 1] = [e \in Nat |-> BA!HalfOf(Level[r][e])]
      BY <1>8
    <3> QED
      BY <3>2, <3>3
  <2> HIDE DEF T
  <2>3. T \in SUBSET Nat
    BY DEF T
  <2>4. T = {}
    BY <2>1, <2>2, <2>3, NoLeast
  <2> QED
    BY <2>4 DEF T
<1> QED
  BY <1>7, <1>8, <1>9

\* A round expects fewer arrivals than the one before, down to one, and more if
\* the phase expects more.
LEMMA LevelFacts ==
    ASSUME NEW e \in Nat
    PROVE  /\ Level[0][e] = e
           /\ \A r \in Nat : /\ Level[r][e] \in Nat /\ Level[r + 1][e] = BA!HalfOf(Level[r][e])
                             /\ Level[r][e] <= e /\ (e > 0 => Level[r][e] > 0)
                             /\ Level[r][e] > 1 => Level[r][e] + r <= e
                             /\ \A d \in Nat : d <= e => Level[r][d] <= Level[r][e]
<1>1. \A d \in Nat : /\ Level[0][d] = d
                    /\ \A r \in Nat : /\ Level[r][d] \in Nat
                                      /\ Level[r + 1][d] = BA!HalfOf(Level[r][d])
  <2>1. \A d \in Nat : Level[0][d] = d
    BY LevelIs
  <2>2. ASSUME NEW d \in Nat, NEW r \in Nat
        PROVE  Level[r][d] \in Nat /\ Level[r + 1][d] = BA!HalfOf(Level[r][d])
    <3>1. Level[r] \in [Nat -> Nat] /\ Level[r + 1] = [x \in Nat |-> BA!HalfOf(Level[r][x])]
      BY LevelIs
    <3> QED
      BY <3>1
  <2> QED
    BY <2>1, <2>2
<1> DEFINE P(r) == /\ Level[r][e] <= e /\ (e > 0 => Level[r][e] > 0)
                   /\ Level[r][e] > 1 => Level[r][e] + r <= e
                   /\ \A d \in Nat : d <= e => Level[r][d] <= Level[r][e]
<1> DEFINE T == {r \in Nat : ~P(r)}
<1>2. 0 \notin T
  BY <1>1
<1>3. ASSUME NEW r \in Nat, P(r) PROVE P(r + 1)
  <2>1. Level[r][e] \in Nat /\ Level[r + 1][e] = BA!HalfOf(Level[r][e]) /\ Level[r + 1][e] \in Nat
    BY <1>1
  <2>2. /\ Level[r + 1][e] <= Level[r][e] /\ (Level[r][e] > 0 => Level[r + 1][e] > 0)
        /\ Level[r][e] > 1 => Level[r + 1][e] < Level[r][e]
        /\ Level[r][e] <= 1 => Level[r + 1][e] = Level[r][e]
    BY <2>1, HalfFacts
  <2>3. ASSUME NEW d \in Nat, d <= e PROVE Level[r + 1][d] <= Level[r + 1][e]
    <3>1. Level[r][d] <= Level[r][e] /\ Level[r][d] \in Nat
      BY <1>1, <1>3, <2>3
    <3>2. BA!HalfOf(Level[r][d]) <= BA!HalfOf(Level[r][e])
      BY <2>1, <3>1, HalfFacts
    <3> QED
      BY <1>1, <3>2
  <2>4. /\ Level[r + 1][e] <= e /\ (e > 0 => Level[r + 1][e] > 0)
        /\ Level[r + 1][e] > 1 => Level[r + 1][e] + (r + 1) <= e
    BY <1>3, <2>1, <2>2
  <2> QED
    BY <2>3, <2>4
<1> HIDE DEF P
<1>4. ASSUME NEW r \in Nat, r + 1 \in T PROVE r \in T
  BY <1>3, <1>4
<1> HIDE DEF T
<1>5. T \in SUBSET Nat
  BY DEF T
<1>6. T = {}
  BY <1>2, <1>4, <1>5, NoLeast
<1>7. \A r \in Nat : P(r)
  BY <1>6 DEF T
<1> QED
  BY <1>1, <1>7 DEF P
-----------------------------------------------------------------------------
\* The inductive invariant of the barrier.  What round r expects, and the two
\* numbers that tickets of the phase go through.
Expects(r) == Level[r][ba_expected]
HalfPhase == (ba_phase + 1) % Phases
FullPhase == (ba_phase + 2) % Phases

\* Who looks for a ticket of round r, which arrivals of the round have found
\* theirs (ticket n is for the arrivals 2n and 2n + 1), and which tickets are
\* complete.
Calling(t) == ba_pc[t] \in {"scan", "second"}
Here(t, r) == Calling(t) /\ ba_loc[t].round = r
Present(r) == {t \in Thread : Here(t, r)}
IsTaken(k, r) == \/ ba_tickets[<<k \div 2, r>>] = FullPhase
                 \/ ba_tickets[<<k \div 2, r>>] = HalfPhase /\ k % 2 = 0
Taken(r) == {k \in 0 .. Expects(r) - 1 : Expects(r) > 1 /\ IsTaken(k, r)}
Filled(r) == {n \in 0 .. Expects(r + 1) - 1 : ba_tickets[<<n, r>>] = FullPhase}

\* The arrivals that t has yet to begin in the phase.
Due(t) == IF Calling(t) THEN ba_loc[t].left - 1
          ELSE IF ba_pc[t] = "idle" \/ (ba_pc[t] = "arrived" /\ ba_loc[t].old # ba_phase)
               THEN ba_share[t] ELSE 0
DueOf == [t \in Thread |-> Due(t)]

\* A set that has as many members as the sum of f.
Units(f) == {x \in Thread \X (1 .. Expected) : x[2] <= f[x[1]]}

\* Whoever has come into a round is looking there or has taken a ticket.
Reached(r) == r > 0 => Expects(r - 1) > 1
Entered(r) == IF r = 0 THEN ba_expected - Cardinality(Units(DueOf)) ELSE Cardinality(Filled(r - 1))
FlowOK(r) == Reached(r) => Entered(r) = Cardinality(Present(r)) + Cardinality(Taken(r))

ArrivalOK(t) ==
    /\ Calling(t) => /\ ba_loc[t].old = ba_phase /\ ba_loc[t].left > 0
                     /\ ba_loc[t].current = Expects(ba_loc[t].round) /\ ba_loc[t].current > 0
                     /\ Reached(ba_loc[t].round)
                     /\ ba_loc[t].node <= BA!HalfOf(ba_loc[t].current)
    /\ ~Calling(t) => ba_loc[t] = [BA!NoLocals EXCEPT !.old = ba_loc[t].old]
    /\ ba_pc[t] = "second" => ba_loc[t].current > 1 /\ ~BA!OneInOne(t)
    /\ ba_pc[t] \in {"idle", "arrived"} => ba_share[t] > 0
    /\ ba_pc[t] = "gone" => ba_share[t] = 0

ArriveLocals == [old : 0 .. Phases - 1, left : 0 .. Expected, round : Nat, node : Nat, current : Nat]
BarrierTypes ==
    /\ ba_expected \in 0 .. Expected /\ ba_adjustment \in -Expected .. 0 /\ ba_phase \in 0 .. Phases - 1
    /\ ba_tickets \in [BA!Ticket -> 0 .. Phases - 1]
    /\ ba_pc \in [Thread -> {"idle", "scan", "second", "arrived", "gone"}]
    /\ ba_loc \in [Thread -> ArriveLocals]
    /\ ba_share \in [Thread -> 0 .. Expected]

BarrierInv == /\ BarrierTypes
              /\ \A t \in Thread : ArrivalOK(t)
              /\ Cardinality(Units(ba_share)) = ba_expected + ba_adjustment
              /\ \A r \in Nat : FlowOK(r)

-----------------------------------------------------------------------------
\* Counting the arrivals of all participants.
LEMMA BarrierConstants ==
    /\ Expected \in Nat /\ Expected > 0 /\ Share \in [Thread -> 1 .. Expected]
    /\ Cardinality(Units(Share)) = Expected
    /\ Phases \in Nat /\ Phases > 2
  BY SyncAssumption DEF Units

LEMMA UnitsFinite ==
    ASSUME NEW f
    PROVE  IsFiniteSet(Units(f)) /\ Cardinality(Units(f)) \in Nat
<1>1. IsFiniteSet(1 .. Expected)
  BY BarrierConstants, FS_Interval
<1>2. IsFiniteSet(Thread \X (1 .. Expected))
  BY <1>1, SyncAssumption, FS_Product
<1>3. Units(f) \subseteq Thread \X (1 .. Expected)
  BY DEF Units
<1>4. IsFiniteSet(Units(f))
  BY <1>2, <1>3, FS_Subset
<1> QED
  BY <1>4, FS_CardinalityType

LEMMA OneUnitLess ==
    ASSUME NEW f \in [Thread -> 0 .. Expected], NEW t \in Thread, f[t] > 0,
           NEW g, g = [f EXCEPT ![t] = f[t] - 1]
    PROVE  Cardinality(Units(g)) = Cardinality(Units(f)) - 1
<1>1. <<t, f[t]>> \in Units(f)
  BY BarrierConstants DEF Units
<1>2. Units(g) = Units(f) \ {<<t, f[t]>>}
  <2>1. ASSUME NEW u \in Thread, NEW k \in 1 .. Expected
        PROVE  k <= g[u] <=> k <= f[u] /\ <<u, k>> # <<t, f[t]>>
    <3>1. CASE u = t
      <4>1. g[u] = f[t] - 1 /\ f[t] \in 0 .. Expected
        BY <3>1
      <4> QED
        BY <3>1, <4>1, BarrierConstants
    <3>2. CASE u # t
      BY <3>2
    <3> QED
      BY <3>1, <3>2
  <2> QED
    BY <2>1 DEF Units
<1>3. IsFiniteSet(Units(f))
  BY UnitsFinite
<1>4. Cardinality(Units(f) \ {<<t, f[t]>>}) = Cardinality(Units(f)) - 1
  BY <1>1, <1>3, FS_RemoveElement
<1> QED
  BY <1>2, <1>4

LEMMA NoUnits ==
    ASSUME NEW f, Cardinality(Units(f)) = 0, NEW t \in Thread, f[t] \in Int
    PROVE  f[t] <= 0
<1>1. Units(f) = {}
  BY UnitsFinite, FS_EmptySet
<1>2. <<t, 1>> \notin Units(f)
  BY <1>1
<1> QED
  BY <1>2, BarrierConstants DEF Units

\* Rounds.
LEMMA ExpectsFacts ==
    ASSUME BarrierTypes
    PROVE  /\ Expects(0) = ba_expected
           /\ \A r \in Nat : /\ Expects(r) \in Nat /\ Expects(r + 1) = BA!HalfOf(Expects(r))
                             /\ Expects(r) <= Expected /\ (Expects(r) > 1 => r < Expected)
                             /\ Expects(r + 1) <= Expects(r)
                             /\ Expects(r) <= ba_expected /\ (ba_expected > 0 => Expects(r) > 0)
<1>1. ba_expected \in Nat /\ ba_expected <= Expected /\ Expected \in Nat
  BY BarrierConstants DEF BarrierTypes
<1>2. ASSUME NEW r \in Nat
      PROVE  /\ Expects(r) \in Nat /\ Expects(r + 1) = BA!HalfOf(Expects(r))
             /\ Expects(r) <= ba_expected /\ (Expects(r) > 1 => Expects(r) + r <= ba_expected)
             /\ ba_expected > 0 => Expects(r) > 0
  BY <1>1, LevelFacts DEF Expects
<1>3. Expects(0) = ba_expected
  BY <1>1, LevelFacts DEF Expects
<1>4. \A r \in Nat : Expects(r + 1) <= Expects(r)
  BY <1>2, HalfFacts
<1>5. ASSUME NEW r \in Nat
      PROVE Expects(r) <= Expected /\ (Expects(r) > 1 => r < Expected)
  BY <1>1, <1>2
<1> QED
  BY <1>2, <1>3, <1>4, <1>5

\* Beyond a round that expects one there is no other.
LEMMA LastRound ==
    ASSUME BarrierTypes, NEW r \in Nat, Expects(r) <= 1, NEW q \in Nat, q >= r
    PROVE  Expects(q) <= 1
<1> DEFINE T == {n \in Nat : Expects(r + n) > 1}
<1>1. 0 \notin T
  BY ExpectsFacts
<1>2. ASSUME NEW n \in Nat, n + 1 \in T PROVE n \in T
  <2>1. r + n \in Nat /\ r + (n + 1) = (r + n) + 1
    OBVIOUS
  <2>2. Expects((r + n) + 1) <= Expects(r + n) /\ Expects(r + n) \in Nat /\ Expects((r + n) + 1) \in Nat
    BY <2>1, ExpectsFacts
  <2>3. Expects((r + n) + 1) > 1
    BY <1>2, <2>1
  <2> QED
    BY <2>2, <2>3
<1> HIDE DEF T
<1>3. T \in SUBSET Nat
  BY DEF T
<1>4. T = {}
  BY <1>1, <1>2, <1>3, NoLeast
<1>5. q - r \in Nat /\ r + (q - r) = q
  OBVIOUS
<1>6. ~(Expects(r + (q - r)) > 1)
  BY <1>4, <1>5 DEF T
<1> QED
  BY <1>5, <1>6, ExpectsFacts

LEMMA Below ==
    ASSUME NEW n \in Nat
    PROVE  IsFiniteSet(0 .. n - 1) /\ Cardinality(0 .. n - 1) = n
<1>1. 0 \in Int /\ n - 1 \in Int /\ (IF 0 > n - 1 THEN 0 ELSE (n - 1) - 0 + 1) = n
  OBVIOUS
<1>2. IsFiniteSet(0 .. n - 1) /\ Cardinality(0 .. n - 1) = IF 0 > n - 1 THEN 0 ELSE (n - 1) - 0 + 1
  BY <1>1, FS_Interval, Zenon
<1> QED
  BY <1>1, <1>2

LEMMA RoundSets ==
    ASSUME BarrierTypes, NEW r \in Nat
    PROVE  /\ IsFiniteSet(Present(r)) /\ Cardinality(Present(r)) \in Nat
           /\ IsFiniteSet(Taken(r)) /\ Cardinality(Taken(r)) \in Nat
           /\ IsFiniteSet(Filled(r)) /\ Cardinality(Filled(r)) \in Nat
           /\ Cardinality(Filled(r)) <= Expects(r + 1)
           /\ Cardinality(Filled(r)) = Expects(r + 1) => Filled(r) = 0 .. Expects(r + 1) - 1
<1>1. IsFiniteSet(Present(r))
  <2>1. Present(r) \subseteq Thread
    BY DEF Present
  <2> QED
    BY <2>1, SyncAssumption, FS_Subset
<1>2. Expects(r) \in Nat /\ Expects(r + 1) \in Nat
  BY ExpectsFacts
<1>3. /\ IsFiniteSet(0 .. Expects(r) - 1) /\ IsFiniteSet(0 .. Expects(r + 1) - 1)
      /\ Cardinality(0 .. Expects(r + 1) - 1) = Expects(r + 1)
  BY <1>2, Below
<1>4. Taken(r) \subseteq 0 .. Expects(r) - 1 /\ Filled(r) \subseteq 0 .. Expects(r + 1) - 1
  BY DEF Taken, Filled
<1>5. IsFiniteSet(Taken(r))
  BY <1>3, <1>4, FS_Subset
<1>6. /\ IsFiniteSet(Filled(r)) /\ Cardinality(Filled(r)) <= Expects(r + 1)
      /\ Cardinality(Filled(r)) = Expects(r + 1) => Filled(r) = 0 .. Expects(r + 1) - 1
  BY <1>3, <1>4, FS_Subset
<1> QED
  BY <1>1, <1>5, <1>6, FS_CardinalityType
-----------------------------------------------------------------------------
\* The last arrival.  The three numbers that a ticket has in a phase differ.
LEMMA PhaseFacts ==
    ASSUME BarrierTypes
    PROVE  /\ HalfPhase \in 0 .. Phases - 1 /\ FullPhase \in 0 .. Phases - 1
           /\ HalfPhase # ba_phase /\ FullPhase # ba_phase /\ HalfPhase # FullPhase
           /\ (FullPhase + 1) % Phases # FullPhase /\ (FullPhase + 2) % Phases # FullPhase
<1>1. ASSUME NEW x \in 0 .. Phases - 1
      PROVE  /\ (x + 1) % Phases = IF x + 1 = Phases THEN 0 ELSE x + 1
             /\ (x + 2) % Phases = IF x + 2 >= Phases THEN x + 2 - Phases ELSE x + 2
  BY BarrierConstants
<1>2. /\ HalfPhase = IF ba_phase + 1 = Phases THEN 0 ELSE ba_phase + 1
      /\ FullPhase = IF ba_phase + 2 >= Phases THEN ba_phase + 2 - Phases ELSE ba_phase + 2
  BY <1>1 DEF BarrierTypes, HalfPhase, FullPhase
<1>3. ba_phase \in 0 .. Phases - 1
  BY DEF BarrierTypes
<1>4. /\ HalfPhase \in 0 .. Phases - 1 /\ FullPhase \in 0 .. Phases - 1
      /\ HalfPhase # ba_phase /\ FullPhase # ba_phase /\ HalfPhase # FullPhase
  BY <1>2, <1>3, BarrierConstants
<1>5. (FullPhase + 1) % Phases # FullPhase /\ (FullPhase + 2) % Phases # FullPhase
  BY <1>1, <1>4, BarrierConstants
<1> QED
  BY <1>4, <1>5

\* In a round whose tickets are complete all arrivals have found theirs.
LEMMA FullRound ==
    ASSUME BarrierTypes, NEW r \in Nat, Expects(r) > 1, Cardinality(Filled(r)) = Expects(r + 1)
    PROVE  Cardinality(Taken(r)) = Expects(r)
<1>1. Expects(r) \in Nat /\ Expects(r + 1) = (Expects(r) + 1) \div 2
  BY ExpectsFacts DEF BA!HalfOf
<1>2. Filled(r) = 0 .. Expects(r + 1) - 1
  BY RoundSets
<1>3. ASSUME NEW k \in 0 .. Expects(r) - 1 PROVE IsTaken(k, r)
  <2>1. k \div 2 \in 0 .. Expects(r + 1) - 1
    BY <1>1
  <2>2. k \div 2 \in Filled(r)
    BY <1>2, <2>1
  <2> QED
    BY <2>2 DEF Filled, IsTaken
<1>4. Taken(r) = 0 .. Expects(r) - 1
  BY <1>3 DEF Taken
<1> QED
  BY <1>1, <1>4, Below

LEMMA LastArrival ==
    ASSUME BarrierInv, NEW t \in Thread, BA!LastOneLeft(t)
    PROVE  /\ Cardinality(Units(DueOf)) = 0
           /\ \A u \in Thread : Calling(u) => u = t
           /\ \A r \in Nat : Expects(r) > 1 => Filled(r) = 0 .. Expects(r + 1) - 1
<1> DEFINE R == ba_loc[t].round
<1>1. BarrierTypes /\ (\A u \in Thread : ArrivalOK(u)) /\ (\A r \in Nat : FlowOK(r))
  BY DEF BarrierInv
<1>2. /\ R \in Nat /\ t \in Present(R) /\ Reached(R)
      /\ Expects(R) = ba_loc[t].current /\ Expects(R) <= 1 /\ Expects(R) > 0
  BY <1>1 DEF BA!LastOneLeft, ArrivalOK, Calling, Here, Present, BarrierTypes, ArriveLocals
<1>3. Expects(R) = 1 /\ ba_expected \in Nat /\ Expects(0) = ba_expected
  BY <1>1, <1>2, ExpectsFacts DEF BarrierTypes
<1> HIDE DEF R
<1>4. ASSUME NEW r \in Nat, r < R PROVE Expects(r) > 1
  <2>1. SUFFICES ASSUME Expects(r) <= 1 PROVE FALSE
    BY <1>1, ExpectsFacts
  <2>2. R - 1 \in Nat /\ R - 1 >= r /\ R > 0
    BY <1>2, <1>4
  <2>3. Expects(R - 1) <= 1
    BY <1>1, <2>1, <2>2, LastRound
  <2>4. Expects(R - 1) > 1
    BY <1>2, <2>2 DEF Reached
  <2> QED
    BY <1>1, <2>2, <2>3, <2>4, ExpectsFacts
<1>5. ASSUME NEW r \in Nat, r <= R
      PROVE  /\ Entered(r) = Cardinality(Present(r)) + Cardinality(Taken(r))
             /\ Cardinality(Present(r)) \in Nat /\ Cardinality(Taken(r)) \in Nat
             /\ Expects(r) \in Nat /\ Entered(r) <= Expects(r) /\ Entered(r) \in Int
             /\ r > 0 => /\ r - 1 \in Nat /\ r - 1 < R /\ (r - 1) + 1 = r
                         /\ Entered(r) = Cardinality(Filled(r - 1))
  <2>1. r > 0 => r - 1 \in Nat /\ r - 1 < R /\ (r - 1) + 1 = r
    BY <1>2, <1>5
  <2>2. Reached(r)
    BY <1>4, <2>1 DEF Reached
  <2>3. Entered(r) = Cardinality(Present(r)) + Cardinality(Taken(r))
    BY <1>1, <2>2 DEF FlowOK
  <2>4. Cardinality(Present(r)) \in Nat /\ Cardinality(Taken(r)) \in Nat /\ Expects(r) \in Nat
    BY <1>1, RoundSets, ExpectsFacts
  <2>5. CASE r = 0
    BY <1>3, <2>3, <2>4, <2>5, UnitsFinite DEF Entered
  <2>6. CASE r > 0
    <3>1. Entered(r) = Cardinality(Filled(r - 1))
      BY <2>6 DEF Entered
    <3>2. Cardinality(Filled(r - 1)) <= Expects((r - 1) + 1)
      BY <1>1, <2>1, <2>6, RoundSets
    <3> QED
      BY <2>1, <2>3, <2>4, <2>6, <3>1, <3>2
  <2> QED
    BY <2>5, <2>6
<1>6. Cardinality(Present(R)) >= 1
  <2>1. IsFiniteSet(Present(R)) /\ Cardinality(Present(R)) \in Nat
    BY <1>1, <1>2, RoundSets
  <2>2. Cardinality(Present(R)) # 0
    BY <1>2, <2>1, FS_EmptySet
  <2> QED
    BY <2>1, <2>2
\* From the last round down, all who are expected have come.
<1>7. ASSUME NEW r \in Nat, r <= R PROVE Entered(r) = Expects(r)
  <2> DEFINE T == {n \in Nat : n <= R /\ Entered(R - n) # Expects(R - n)}
  <2>1. 0 \notin T
    <3>1. R <= R /\ R - 0 = R
      BY <1>2
    <3>2. Entered(R) = Expects(R)
      BY <1>2, <1>3, <1>5, <1>6, <3>1
    <3> QED
      BY <3>1, <3>2
  <2>2. ASSUME NEW n \in Nat, n + 1 \in T PROVE n \in T
    <3> DEFINE q == R - (n + 1)
    <3>1. /\ q \in Nat /\ q < R /\ q <= R /\ q + 1 = R - n /\ (q + 1) - 1 = q
          /\ q + 1 \in Nat /\ q + 1 <= R /\ q + 1 > 0 /\ n <= R
      BY <1>2, <2>2
    <3>2. SUFFICES ASSUME Entered(q + 1) = Expects(q + 1) PROVE Entered(q) = Expects(q)
      BY <2>2, <3>1
    <3> HIDE DEF q
    <3>3. Cardinality(Filled(q)) = Expects(q + 1)
      BY <1>5, <3>1, <3>2
    <3>4. Cardinality(Taken(q)) = Expects(q)
      BY <1>1, <1>4, <3>1, <3>3, FullRound
    <3> QED
      BY <1>5, <3>1, <3>4
  <2> HIDE DEF T
  <2>3. T \in SUBSET Nat
    BY DEF T
  <2>4. R - r \in Nat /\ R - r <= R /\ R - (R - r) = r
    BY <1>2, <1>7
  <2>5. R - r \notin T
    BY <2>1, <2>2, <2>3, NoLeast
  <2> QED
    BY <2>4, <2>5 DEF T
<1>8. ASSUME NEW r \in Nat, r < R
      PROVE  /\ Cardinality(Filled(r)) = Expects(r + 1) /\ Filled(r) = 0 .. Expects(r + 1) - 1
             /\ Cardinality(Taken(r)) = Expects(r) /\ Cardinality(Present(r)) = 0
  <2>1. r + 1 \in Nat /\ r + 1 <= R /\ r + 1 > 0 /\ (r + 1) - 1 = r /\ r <= R
    BY <1>2, <1>8
  <2>2. Cardinality(Filled(r)) = Expects(r + 1)
    BY <1>5, <1>7, <2>1
  <2>3. Cardinality(Taken(r)) = Expects(r)
    BY <1>1, <1>4, <1>8, <2>2, FullRound
  <2>4. Cardinality(Present(r)) = 0
    BY <1>5, <1>7, <2>1, <2>3
  <2> QED
    BY <1>1, <2>2, <2>3, <2>4, RoundSets
<1>9. Cardinality(Units(DueOf)) = 0
  <2>1. Entered(0) = Expects(0)
    BY <1>2, <1>7
  <2> QED
    BY <1>3, <2>1, UnitsFinite DEF Entered
<1>10. ASSUME NEW u \in Thread, Calling(u) PROVE u = t
  <2> DEFINE r == ba_loc[u].round
  <2>1. r \in Nat /\ u \in Present(r) /\ Reached(r)
    BY <1>1, <1>10 DEF ArrivalOK, Here, Present, BarrierTypes, ArriveLocals
  <2> HIDE DEF r
  <2>2. CASE r < R
    <3>1. Present(r) = {}
      BY <1>1, <1>8, <2>1, <2>2, RoundSets, FS_EmptySet
    <3> QED
      BY <2>1, <3>1
  <2>3. CASE r > R
    <3>1. r - 1 \in Nat /\ r - 1 >= R /\ r > 0
      BY <1>2, <2>1, <2>3
    <3>2. Expects(r - 1) <= 1
      BY <1>1, <1>2, <3>1, LastRound
    <3>3. Expects(r - 1) > 1
      BY <2>1, <3>1 DEF Reached
    <3> QED
      BY <1>1, <3>1, <3>2, <3>3, ExpectsFacts
  <2>4. CASE r = R
    <3>1. Cardinality(Present(R)) = 1
      BY <1>2, <1>3, <1>5, <1>6, <1>7
    <3>2. \E x : Present(R) = {x}
      BY <1>1, <1>2, <3>1, RoundSets, FS_Singleton
    <3> QED
      BY <1>2, <2>1, <2>4, <3>2
  <2> QED
    BY <1>2, <2>1, <2>2, <2>3, <2>4
<1>11. ASSUME NEW r \in Nat, Expects(r) > 1 PROVE Filled(r) = 0 .. Expects(r + 1) - 1
  <2>1. r < R
    <3>1. r >= R => Expects(r) <= 1
      BY <1>1, <1>2, LastRound
    <3> QED
      BY <1>1, <1>2, <1>11, <3>1, ExpectsFacts
  <2> QED
    BY <1>8, <2>1
<1> QED
  BY <1>9, <1>10, <1>11

\* A phase is completed by the last of its arrivals.
LEMMA BarrierSuffices == BarrierInv => PhasesAreOrderly
<1> SUFFICES ASSUME BarrierInv PROVE PhasesAreOrderly
  OBVIOUS
<1>1. BarrierTypes /\ \A u \in Thread : ArrivalOK(u)
  BY DEF BarrierInv
<1>2. ASSUME NEW t \in Thread PROVE <<BA!Node(t), ba_loc[t].round>> \in BA!Ticket
  <2>1. /\ ba_loc[t].round \in Nat /\ ba_loc[t].node \in Nat /\ ba_loc[t].current \in Nat
        /\ BA!HalfOf(Expected) \in Nat /\ BA!HalfOf(Expected) > 0
    BY <1>1, HalfFacts, BarrierConstants DEF BarrierTypes, ArriveLocals
  <2>2. CASE ~Calling(t)
    <3>1. ba_loc[t].node = 0 /\ ba_loc[t].round = 0
      BY <1>1, <2>2 DEF ArrivalOK, BA!NoLocals
    <3> QED
      BY <2>1, <3>1, BarrierConstants DEF BA!Node, BA!Ticket
  <2>3. CASE Calling(t)
    <3>1. /\ ba_loc[t].current = Expects(ba_loc[t].round) /\ ba_loc[t].current > 0
          /\ Reached(ba_loc[t].round) /\ ba_loc[t].node <= BA!HalfOf(ba_loc[t].current)
      BY <1>1, <2>3 DEF ArrivalOK
    <3>2. ba_loc[t].current <= Expected
      BY <1>1, <2>1, <3>1, ExpectsFacts
    <3>3. /\ BA!HalfOf(ba_loc[t].current) \in Nat /\ BA!HalfOf(ba_loc[t].current) > 0
          /\ BA!HalfOf(ba_loc[t].current) <= BA!HalfOf(Expected)
      BY <2>1, <3>1, <3>2, HalfFacts, BarrierConstants
    <3>4. BA!Node(t) \in 0 .. BA!HalfOf(Expected) - 1
      BY <2>1, <3>1, <3>3 DEF BA!Node
    <3>5. ba_loc[t].round \in 0 .. Expected
      <4>1. CASE ba_loc[t].round = 0
        BY <4>1, BarrierConstants
      <4>2. CASE ba_loc[t].round > 0
        <5>1. ba_loc[t].round - 1 \in Nat /\ Expects(ba_loc[t].round - 1) > 1
          BY <2>1, <3>1, <4>2 DEF Reached
        <5>2. ba_loc[t].round - 1 < Expected
          BY <1>1, <5>1, ExpectsFacts
        <5> QED
          BY <2>1, <5>2, BarrierConstants
      <4> QED
        BY <2>1, <4>1, <4>2
    <3> QED
      BY <3>4, <3>5 DEF BA!Ticket
  <2> QED
    BY <2>2, <2>3
<1>3. BA!TypeOK
  BY <1>1, <1>2 DEF BarrierTypes, BA!TypeOK
<1>4. BA!ArrivesInPhase
  BY <1>1 DEF BA!ArrivesInPhase, ArrivalOK, Calling
<1>5. ASSUME NEW t \in Thread, BA!LastOneLeft(t)
      PROVE  /\ ba_loc[t].left = 1 /\ ba_loc[t].old = ba_phase
             /\ \A u \in Thread \ {t} : ba_pc[u] = "gone" \/ (ba_pc[u] = "arrived" /\ ba_loc[u].old = ba_phase)
  <2>1. Cardinality(Units(DueOf)) = 0 /\ \A u \in Thread : Calling(u) => u = t
    BY <1>5, LastArrival
  <2>2. ASSUME NEW u \in Thread PROVE Due(u) \in Int /\ Due(u) <= 0
    <3>1. DueOf[u] = Due(u)
      BY DEF DueOf
    <3>2. Due(u) \in Int
      BY <1>1, BarrierConstants DEF Due, BarrierTypes, ArriveLocals
    <3>3. DueOf[u] \in Int
      BY <3>1, <3>2
    <3> QED
      BY <2>1, <3>1, <3>2, <3>3, NoUnits
  <2>3. Calling(t) /\ ba_loc[t].left > 0 /\ ba_loc[t].left \in Nat /\ ba_loc[t].old = ba_phase
    BY <1>1, <1>5, BarrierConstants DEF BA!LastOneLeft, Calling, ArrivalOK, BarrierTypes, ArriveLocals
  <2>4. ba_loc[t].left = 1
    BY <2>2, <2>3 DEF Due
  <2>5. ASSUME NEW u \in Thread \ {t}
        PROVE  ba_pc[u] = "gone" \/ (ba_pc[u] = "arrived" /\ ba_loc[u].old = ba_phase)
    <3>1. ~Calling(u) /\ ba_pc[u] \in {"idle", "arrived", "gone"}
      BY <1>1, <2>1 DEF BarrierTypes, Calling
    <3>2. ba_share[u] \in Nat /\ (ba_pc[u] \in {"idle", "arrived"} => ba_share[u] > 0)
      BY <1>1, BarrierConstants DEF ArrivalOK, BarrierTypes
    <3> QED
      BY <2>2, <3>1, <3>2 DEF Due
  <2> QED
    BY <2>3, <2>4, <2>5
<1>6. BA!CompletesLast
  BY <1>5 DEF BA!CompletesLast
<1> QED
  BY <1>3, <1>4, <1>6 DEF PhasesAreOrderly, BA!PhasesAreOrderly
-----------------------------------------------------------------------------
\* What a step counts.
One(b) == IF b THEN 1 ELSE 0

\* A step of t leaves the other participants alone.
Only(t) == \A u \in Thread \ {t} :
              ba_pc'[u] = ba_pc[u] /\ ba_loc'[u] = ba_loc[u] /\ ba_share'[u] = ba_share[u]
SamePhase == ba_expected' = ba_expected /\ ba_phase' = ba_phase

LEMMA RoundsSame ==
    ASSUME SamePhase
    PROVE  /\ \A r \in Nat : Expects(r)' = Expects(r) /\ (Reached(r)' <=> Reached(r))
           /\ HalfPhase' = HalfPhase /\ FullPhase' = FullPhase
  BY DEF SamePhase, Expects, Reached, HalfPhase, FullPhase

LEMMA PresentMoves ==
    ASSUME BarrierTypes, NEW t \in Thread, Only(t), NEW r \in Nat
    PROVE  Cardinality(Present(r))' = Cardinality(Present(r)) - One(Here(t, r)) + One(Here(t, r)')
<1>1. IsFiniteSet(Present(r)) /\ Cardinality(Present(r)) \in Nat
  BY RoundSets
<1>2. \A u \in Thread \ {t} : Here(u, r)' <=> Here(u, r)
  BY DEF Only, Here, Calling
<1>3. CASE Here(t, r) /\ Here(t, r)'
  <2>1. Present(r)' = Present(r)
    BY <1>2, <1>3 DEF Present
  <2> QED
    BY <1>1, <1>3, <2>1 DEF One
<1>4. CASE Here(t, r) /\ ~Here(t, r)'
  <2>1. Present(r)' = Present(r) \ {t} /\ t \in Present(r)
    BY <1>2, <1>4 DEF Present
  <2>2. Cardinality(Present(r) \ {t}) = Cardinality(Present(r)) - 1
    BY <1>1, <2>1, FS_RemoveElement
  <2> QED
    BY <1>1, <1>4, <2>1, <2>2 DEF One
<1>5. CASE ~Here(t, r) /\ Here(t, r)'
  <2>1. Present(r)' = Present(r) \cup {t} /\ t \notin Present(r)
    BY <1>2, <1>5 DEF Present
  <2>2. Cardinality(Present(r) \cup {t}) = Cardinality(Present(r)) + 1
    BY <1>1, <2>1, FS_AddElement
  <2> QED
    BY <1>1, <1>5, <2>1, <2>2 DEF One
<1>6. CASE ~Here(t, r) /\ ~Here(t, r)'
  <2>1. Present(r)' = Present(r)
    BY <1>2, <1>6 DEF Present
  <2> QED
    BY <1>1, <1>6, <2>1 DEF One
<1> QED
  BY <1>3, <1>4, <1>5, <1>6

LEMMA TicketsSame ==
    ASSUME SamePhase, ba_tickets' = ba_tickets, NEW r \in Nat
    PROVE  Taken(r)' = Taken(r) /\ Filled(r)' = Filled(r)
<1>1. /\ Expects(r)' = Expects(r) /\ Expects(r + 1)' = Expects(r + 1)
      /\ HalfPhase' = HalfPhase /\ FullPhase' = FullPhase
  BY RoundsSame
<1> QED
  BY <1>1 DEF Taken, Filled, IsTaken

\* A compare-exchange of ticket n of round r to v: arrival k finds its ticket.
Finds(k, n, r, v) ==
    \/ ba_tickets[<<n, r>>] = ba_phase /\ v = HalfPhase /\ k = 2 * n
    \/ ba_tickets[<<n, r>>] = ba_phase /\ v = FullPhase /\ k = 2 * n /\ 2 * n + 1 = Expects(r)
    \/ ba_tickets[<<n, r>>] = HalfPhase /\ v = FullPhase /\ k = 2 * n + 1

LEMMA TicketTaken ==
    ASSUME BarrierTypes, SamePhase, NEW r \in Nat, Expects(r) > 1, NEW n \in 0 .. Expects(r + 1) - 1,
           NEW v, ba_tickets' = [ba_tickets EXCEPT ![<<n, r>>] = v], NEW k \in 0 .. Expects(r) - 1,
           Finds(k, n, r, v)
    PROVE  /\ Cardinality(Taken(r))' = Cardinality(Taken(r)) + 1
           /\ Cardinality(Filled(r))' = Cardinality(Filled(r)) + One(v = FullPhase)
           /\ \A q \in Nat \ {r} : Taken(q)' = Taken(q) /\ Filled(q)' = Filled(q)
           /\ ba_tickets' \in [BA!Ticket -> 0 .. Phases - 1]
<1>1. /\ \A q \in Nat : Expects(q)' = Expects(q)
      /\ HalfPhase' = HalfPhase /\ FullPhase' = FullPhase
  BY RoundsSame
<1>2. /\ HalfPhase \in 0 .. Phases - 1 /\ FullPhase \in 0 .. Phases - 1
      /\ HalfPhase # ba_phase /\ FullPhase # ba_phase /\ HalfPhase # FullPhase
  BY PhaseFacts
<1>3. <<n, r>> \in BA!Ticket
  <2>1. /\ Expects(r) \in Nat /\ Expects(r) <= Expected /\ r < Expected
        /\ Expects(r + 1) = BA!HalfOf(Expects(r))
    BY ExpectsFacts
  <2>2. BA!HalfOf(Expects(r)) <= BA!HalfOf(Expected) /\ BA!HalfOf(Expected) \in Nat
    BY <2>1, HalfFacts, BarrierConstants
  <2>3. BA!HalfOf(Expects(r)) \in Nat
    BY <2>1, HalfFacts
  <2> QED
    BY <2>1, <2>2, <2>3, BarrierConstants DEF BA!Ticket
<1>4. ba_tickets \in [BA!Ticket -> 0 .. Phases - 1]
  BY DEF BarrierTypes
<1>5. ba_tickets'[<<n, r>>] = v
  BY <1>3, <1>4
<1>6. ASSUME NEW m, NEW q, m # n \/ q # r PROVE ba_tickets'[<<m, q>>] = ba_tickets[<<m, q>>]
  <2>1. <<m, q>> # <<n, r>>
    BY <1>6
  <2>2. CASE <<m, q>> \in BA!Ticket
    BY <1>4, <2>1, <2>2
  <2>3. CASE <<m, q>> \notin BA!Ticket
    BY <1>4, <2>1, <2>3
  <2> QED
    BY <2>2, <2>3
<1>7. Expects(r) \in Nat /\ Expects(r + 1) = (Expects(r) + 1) \div 2 /\ Expects(r + 1) \in Nat
  BY ExpectsFacts DEF BA!HalfOf
<1> USE DEF Finds
<1>8. k \div 2 = n /\ k \notin Taken(r) /\ (k % 2 = IF k = 2 * n THEN 0 ELSE 1)
  <2>1. k \div 2 = n /\ (k % 2 = IF k = 2 * n THEN 0 ELSE 1)
    BY <1>7
  <2> QED
    BY <1>2, <2>1 DEF Taken, IsTaken
<1>9. ASSUME NEW j \in 0 .. Expects(r) - 1
      PROVE  IsTaken(j, r)' <=> IsTaken(j, r) \/ j = k
  <2>1. CASE j \div 2 # n
    <3>1. ba_tickets'[<<j \div 2, r>>] = ba_tickets[<<j \div 2, r>>]
      BY <1>6, <2>1
    <3> QED
      BY <1>1, <1>8, <2>1, <3>1 DEF IsTaken
  <2>2. CASE j \div 2 = n
    <3>1. (j = 2 * n /\ j % 2 = 0) \/ (j = 2 * n + 1 /\ j % 2 = 1)
      BY <1>7, <2>2
    <3>2. ba_tickets'[<<j \div 2, r>>] = v /\ ba_tickets[<<j \div 2, r>>] = ba_tickets[<<n, r>>]
      BY <1>5, <2>2
    <3>3. n \in Nat /\ Expects(r) \in Nat /\ j < Expects(r)
      BY <1>7
    <3> QED
      BY <1>1, <1>2, <3>1, <3>2, <3>3 DEF IsTaken
  <2> QED
    BY <2>1, <2>2
<1>10. Taken(r)' = Taken(r) \cup {k}
  BY <1>1, <1>9 DEF Taken
<1>11. /\ Cardinality(Taken(r)) \in Nat /\ IsFiniteSet(Taken(r))
       /\ Cardinality(Filled(r)) \in Nat /\ IsFiniteSet(Filled(r))
  BY RoundSets
<1>12. Cardinality(Taken(r) \cup {k}) = Cardinality(Taken(r)) + 1
  BY <1>8, <1>11, FS_AddElement
<1>13. Cardinality(Filled(r))' = Cardinality(Filled(r)) + One(v = FullPhase)
  <2>1. \A m \in 0 .. Expects(r + 1) - 1 : m # n => ba_tickets'[<<m, r>>] = ba_tickets[<<m, r>>]
    BY <1>6
  <2>2. Expects(r + 1)' = Expects(r + 1) /\ ba_tickets[<<n, r>>] # FullPhase
    BY <1>1, <1>2
  <2>3. n \notin Filled(r)
    BY <2>2 DEF Filled
  <2>4. CASE v = FullPhase
    <3>1. Filled(r)' = Filled(r) \cup {n}
      BY <1>1, <1>5, <2>1, <2>2, <2>4 DEF Filled
    <3>2. Cardinality(Filled(r) \cup {n}) = Cardinality(Filled(r)) + 1
      BY <1>11, <2>3, FS_AddElement
    <3> QED
      BY <2>4, <3>1, <3>2 DEF One
  <2>5. CASE v # FullPhase
    <3>1. Filled(r)' = Filled(r)
      BY <1>1, <1>5, <2>1, <2>2, <2>5 DEF Filled
    <3> QED
      BY <1>11, <2>5, <3>1 DEF One
  <2> QED
    BY <2>4, <2>5
<1>14. ASSUME NEW q \in Nat \ {r} PROVE Taken(q)' = Taken(q) /\ Filled(q)' = Filled(q)
  <2>1. \A m : ba_tickets'[<<m, q>>] = ba_tickets[<<m, q>>]
    BY <1>6
  <2>2. Expects(q)' = Expects(q) /\ Expects(q + 1)' = Expects(q + 1)
    BY <1>1
  <2> QED
    BY <1>1, <2>1, <2>2 DEF Taken, Filled, IsTaken
<1>15. ba_tickets' \in [BA!Ticket -> 0 .. Phases - 1]
  BY <1>2, <1>4
<1> QED
  BY <1>10, <1>12, <1>13, <1>14, <1>15

\* t begins an arrival, or does not.
LEMMA DueFacts ==
    ASSUME BarrierTypes, NEW t \in Thread, ArrivalOK(t)
    PROVE  Due(t) \in 0 .. Expected
<1>1. ba_loc[t].left \in 0 .. Expected /\ ba_share[t] \in 0 .. Expected
  BY DEF BarrierTypes, ArriveLocals
<1> QED
  BY <1>1, BarrierConstants DEF Due, ArrivalOK

LEMMA DueMoves ==
    ASSUME BarrierInv, NEW t \in Thread, Only(t), SamePhase,
           NEW d \in {0, 1}, Due(t)' = Due(t) - d, d = 1 => Due(t) > 0
    PROVE  Cardinality(Units(DueOf))' = Cardinality(Units(DueOf)) - d
<1>1. ASSUME NEW u \in Thread, u # t PROVE Due(u)' = Due(u)
  BY <1>1 DEF Due, Only, SamePhase, Calling
<1>2. \A u \in Thread : Due(u) \in 0 .. Expected
  BY DueFacts DEF BarrierInv
<1>3. CASE d = 0
  <2>1. Due(t)' = Due(t)
    BY <1>2, <1>3
  <2>2. DueOf' = DueOf
    BY <1>1, <2>1 DEF DueOf
  <2>3. Units(DueOf)' = Units(DueOf)
    BY <2>2 DEF Units
  <2> QED
    BY <1>3, <2>3, UnitsFinite
<1>4. CASE d = 1
  <2>1. DueOf \in [Thread -> 0 .. Expected] /\ DueOf[t] = Due(t) /\ DueOf[t] > 0
    BY <1>2, <1>4 DEF DueOf
  <2>2. DueOf' = [DueOf EXCEPT ![t] = DueOf[t] - 1]
    BY <1>1, <1>4, <2>1 DEF DueOf
  <2>3. Cardinality(Units(DueOf')) = Cardinality(Units(DueOf)) - 1
    BY <2>1, <2>2, OneUnitLess
  <2>4. Units(DueOf)' = Units(DueOf')
    BY DEF Units
  <2> QED
    BY <1>4, <2>3, <2>4
<1> QED
  BY <1>3, <1>4
-----------------------------------------------------------------------------
\* The steps of the barrier.  Who comes into a round is counted where it goes.
LEMMA Flows ==
    ASSUME BarrierInv, NEW t \in Thread, Only(t), SamePhase,
           \A q \in Nat : /\ Cardinality(Taken(q))' \in Int
                          /\ Entered(q)' = Entered(q) + (One(Here(t, q)') - One(Here(t, q)))
                                           + (Cardinality(Taken(q))' - Cardinality(Taken(q)))
    PROVE  \A q \in Nat : FlowOK(q)'
<1> TAKE q \in Nat
<1>1. BarrierTypes /\ FlowOK(q)
  BY DEF BarrierInv
<1>2. (Reached(q)' <=> Reached(q))
  BY RoundsSame
<1>3. Cardinality(Present(q))' = Cardinality(Present(q)) - One(Here(t, q)) + One(Here(t, q)')
  BY <1>1, PresentMoves
<1>4. SUFFICES ASSUME Reached(q) PROVE Entered(q)' = Cardinality(Present(q))' + Cardinality(Taken(q))'
  BY <1>2 DEF FlowOK
<1>5. Entered(q) = Cardinality(Present(q)) + Cardinality(Taken(q))
  BY <1>1, <1>4 DEF FlowOK
<1>6. Cardinality(Present(q)) \in Nat /\ Cardinality(Taken(q)) \in Nat
  BY <1>1, RoundSets
<1>7. One(Here(t, q)') \in Nat /\ One(Here(t, q)) \in Nat
  BY DEF One
<1>8. Cardinality(Taken(q))' \in Int /\ Entered(q)' = Entered(q) + (One(Here(t, q)') - One(Here(t, q)))
                    + (Cardinality(Taken(q))' - Cardinality(Taken(q)))
  OBVIOUS
<1> QED
  BY <1>3, <1>5, <1>6, <1>7, <1>8

LEMMA OthersArrive ==
    ASSUME BarrierInv, NEW t \in Thread, Only(t), SamePhase, NEW u \in Thread, u # t
    PROVE  ArrivalOK(u)'
<1>1. BarrierTypes /\ ArrivalOK(u)
  BY DEF BarrierInv
<1>2. /\ ba_pc'[u] = ba_pc[u] /\ ba_loc'[u] = ba_loc[u] /\ ba_share'[u] = ba_share[u]
      /\ ba_phase' = ba_phase /\ ba_loc[u].round \in Nat
  BY <1>1 DEF Only, SamePhase, BarrierTypes, ArriveLocals
<1>3. /\ Expects(ba_loc[u].round)' = Expects(ba_loc[u].round)
      /\ Reached(ba_loc[u].round)' <=> Reached(ba_loc[u].round)
  BY <1>2, SamePhase DEF SamePhase, Expects, Reached
<1>4. BA!OneInOne(u)' <=> BA!OneInOne(u)
  BY <1>2 DEF BA!OneInOne, BA!Node
<1>5. Calling(u)' <=> Calling(u)
  BY <1>2 DEF Calling
<1> QED
  BY <1>1, <1>2, <1>3, <1>4, <1>5 DEF ArrivalOK

\* Two arrivals to a ticket, but one to the last if their number is odd.
LEMMA TicketSlots ==
    ASSUME NEW c \in Nat, NEW n \in 0 .. (c + 1) \div 2 - 1
    PROVE  /\ n = (c + 1) \div 2 - 1 /\ c % 2 = 1 => 2 * n + 1 = c
           /\ ~(n = (c + 1) \div 2 - 1 /\ c % 2 = 1) => 2 * n + 1 < c
  OBVIOUS

\* Where t looks.
LEMMA LooksAt ==
    ASSUME BarrierInv, NEW t \in Thread, Calling(t)
    PROVE  /\ ba_loc[t].round \in Nat /\ ba_loc[t].current = Expects(ba_loc[t].round)
           /\ ba_expected > 0 /\ ba_expected \in Nat /\ ba_loc[t].left \in 1 .. Expected
           /\ Due(t) = ba_loc[t].left - 1
           /\ ba_loc[t].old = ba_phase /\ BA!HalfStep(t) = HalfPhase /\ BA!FullStep(t) = FullPhase
           /\ BA!Node(t) \in 0 .. Expects(ba_loc[t].round + 1) - 1
           /\ BA!Seen(t) = ba_tickets[<<BA!Node(t), ba_loc[t].round>>]
           /\ Expects(ba_loc[t].round + 1) = BA!HalfOf(ba_loc[t].current)
           /\ Expects(ba_loc[t].round) \in Nat
           /\ IF BA!OneInOne(t) THEN 2 * BA!Node(t) + 1 = Expects(ba_loc[t].round)
                                ELSE 2 * BA!Node(t) + 1 < Expects(ba_loc[t].round)
<1> DEFINE r == ba_loc[t].round
<1> DEFINE n == ba_loc[t].node
<1>1. BarrierTypes /\ ArrivalOK(t)
  BY DEF BarrierInv
<1>2. /\ r \in Nat /\ n \in Nat /\ ba_loc[t].left \in 0 .. Expected
      /\ ba_expected \in Nat /\ ba_loc[t].old = ba_phase /\ ba_loc[t].left > 0
      /\ ba_loc[t].current = Expects(r) /\ Expects(r) > 0 /\ n <= BA!HalfOf(Expects(r))
  BY <1>1, BarrierConstants DEF BarrierTypes, ArriveLocals, ArrivalOK
<1>3. Expects(r) \in Nat /\ Expects(r + 1) = BA!HalfOf(Expects(r)) /\ Expects(r) <= ba_expected
  BY <1>1, <1>2, ExpectsFacts
<1>4. BA!Node(t) = IF n = BA!HalfOf(Expects(r)) THEN 0 ELSE n
  BY <1>2 DEF BA!Node
<1>5. BA!HalfOf(Expects(r)) = (Expects(r) + 1) \div 2
  BY DEF BA!HalfOf
<1>6. BA!Node(t) \in 0 .. Expects(r + 1) - 1
  BY <1>2, <1>3, <1>4, <1>5
<1>7. BA!OneInOne(t) <=> BA!Node(t) = (Expects(r) + 1) \div 2 - 1 /\ Expects(r) % 2 = 1
  BY <1>2, <1>5 DEF BA!OneInOne
<1>8. IF BA!OneInOne(t) THEN 2 * BA!Node(t) + 1 = Expects(r) ELSE 2 * BA!Node(t) + 1 < Expects(r)
  <2>1. BA!Node(t) \in 0 .. (Expects(r) + 1) \div 2 - 1
    BY <1>3, <1>5, <1>6
  <2> QED
    BY <1>3, <1>7, <2>1, TicketSlots
<1>9. /\ BA!HalfStep(t) = HalfPhase /\ BA!FullStep(t) = FullPhase /\ Due(t) = ba_loc[t].left - 1
      /\ BA!Seen(t) = ba_tickets[<<BA!Node(t), r>>]
  BY <1>2 DEF BA!HalfStep, BA!FullStep, HalfPhase, FullPhase, Due, BA!Seen
<1>10. ba_expected > 0 /\ ba_loc[t].left \in 1 .. Expected
  BY <1>2, <1>3, BarrierConstants
<1> QED
  BY <1>2, <1>3, <1>6, <1>8, <1>9, <1>10

\* t goes on to the next round.
LEMMA GoesUp ==
    ASSUME BarrierInv, NEW t \in Thread, Calling(t), ba_loc[t].current > 1, SamePhase,
           ba_share' = ba_share, BA!NextRound(t)
    PROVE  /\ Only(t) /\ ArrivalOK(t)' /\ Due(t)' = Due(t)
           /\ \A q \in Nat : Here(t, q)' <=> q = ba_loc[t].round + 1
           /\ ba_loc' \in [Thread -> ArriveLocals]
           /\ ba_pc' \in [Thread -> {"idle", "scan", "second", "arrived", "gone"}]
<1>0. PICK r : r = ba_loc[t].round
  OBVIOUS
<1>1. BarrierTypes /\ ArrivalOK(t)
  BY DEF BarrierInv
<1>2. ba_pc \in [Thread -> {"idle", "scan", "second", "arrived", "gone"}] /\ ba_loc \in [Thread -> ArriveLocals]
  BY <1>1 DEF BarrierTypes
<1>3. /\ r \in Nat /\ ba_loc[t].current = Expects(r) /\ Expects(r) \in Nat
      /\ BA!Node(t) \in 0 .. Expects(r + 1) - 1 /\ Expects(r + 1) = BA!HalfOf(Expects(r))
  BY <1>0, LooksAt
<1>4. /\ BA!HalfOf(Expects(r)) \in Nat /\ BA!HalfOf(Expects(r)) > 0
  BY <1>3, HalfFacts
<1>5. BA!Node(t) \div 2 \in Nat /\ BA!Node(t) \div 2 <= BA!HalfOf(BA!HalfOf(Expects(r)))
  <2>1. BA!HalfOf(BA!HalfOf(Expects(r))) = (BA!HalfOf(Expects(r)) + 1) \div 2
    BY DEF BA!HalfOf
  <2> QED
    BY <1>3, <1>4, <2>1
<1> DEFINE l == [old |-> ba_loc[t].old, left |-> ba_loc[t].left, round |-> r + 1,
                 node |-> BA!Node(t) \div 2, current |-> BA!HalfOf(Expects(r))]
<1>6. ba_loc' = [ba_loc EXCEPT ![t] = l] /\ ba_pc' = [ba_pc EXCEPT ![t] = "scan"]
  BY <1>0, <1>3 DEF BA!NextRound
<1>7. ba_loc[t] \in ArriveLocals
  BY <1>2
<1>8. /\ l \in ArriveLocals /\ l.round = r + 1 /\ l.node = BA!Node(t) \div 2 /\ l.current = Expects(r + 1)
      /\ l.old = ba_loc[t].old /\ l.left = ba_loc[t].left
  BY <1>3, <1>4, <1>5, <1>7 DEF ArriveLocals
<1> HIDE DEF l
<1>9. ba_pc'[t] = "scan" /\ ba_loc'[t] = l /\ Only(t) /\ ba_loc' \in [Thread -> ArriveLocals]
  BY <1>2, <1>6, <1>8 DEF Only
<1>10. Calling(t)' /\ Due(t)' = Due(t)
  BY <1>8, <1>9 DEF Calling, Due
<1>11. \A q \in Nat : Expects(q)' = Expects(q) /\ (Reached(q)' <=> Reached(q))
  BY RoundsSame
<1>12. Expects(r + 1)' = Expects(r + 1) /\ Reached(r + 1)'
  <2>1. (r + 1) - 1 = r /\ r + 1 \in Nat
    BY <1>3
  <2>2. Reached(r + 1)
    BY <1>3, <2>1 DEF Reached
  <2> QED
    BY <1>11, <2>1, <2>2
<1>13. Expects(ba_loc[t].round)' = Expects(r + 1)' /\ (Reached(ba_loc[t].round)' <=> Reached(r + 1)')
  BY <1>8, <1>9 DEF Expects, Reached
<1>14. ArrivalOK(t)'
  BY <1>1, <1>3, <1>4, <1>5, <1>8, <1>9, <1>10, <1>12, <1>13 DEF ArrivalOK, SamePhase, Calling
<1>15. \A q \in Nat : Here(t, q)' <=> q = ba_loc[t].round + 1
  BY <1>0, <1>8, <1>9, <1>10 DEF Here
<1>16. ba_pc' \in [Thread -> {"idle", "scan", "second", "arrived", "gone"}]
  BY <1>2, <1>6
<1> QED
  BY <1>9, <1>10, <1>14, <1>15, <1>16

\* t looks at the next node, or again.
LEMMA GoesOn ==
    ASSUME BarrierInv, NEW t \in Thread, Calling(t), ba_loc[t].current > 1, SamePhase,
           ba_share' = ba_share,
           \/ BA!NextNode(t)
           \/ ba_pc' = [ba_pc EXCEPT ![t] = "second"] /\ ba_loc' = ba_loc /\ ~BA!OneInOne(t)
    PROVE  /\ Only(t) /\ ArrivalOK(t)' /\ Due(t)' = Due(t)
           /\ \A q \in Nat : Here(t, q)' <=> Here(t, q)
           /\ ba_loc' \in [Thread -> ArriveLocals]
           /\ ba_pc' \in [Thread -> {"idle", "scan", "second", "arrived", "gone"}]
<1>0. PICK r : r = ba_loc[t].round
  OBVIOUS
<1>1. BarrierTypes /\ ArrivalOK(t)
  BY DEF BarrierInv
<1>2. ba_pc \in [Thread -> {"idle", "scan", "second", "arrived", "gone"}] /\ ba_loc \in [Thread -> ArriveLocals]
  BY <1>1 DEF BarrierTypes
<1>3. /\ r \in Nat /\ ba_loc[t].current = Expects(r) /\ Expects(r) \in Nat
      /\ BA!Node(t) \in 0 .. Expects(r + 1) - 1 /\ Expects(r + 1) = BA!HalfOf(ba_loc[t].current)
  BY <1>0, LooksAt
<1>4. ba_loc[t] \in ArriveLocals /\ Expects(r + 1) \in Nat
  BY <1>1, <1>2, <1>3, ExpectsFacts
<1>5. \A q \in Nat : Expects(q)' = Expects(q) /\ (Reached(q)' <=> Reached(q))
  BY RoundsSame
<1>6. CASE BA!NextNode(t)
  <2> DEFINE l == [ba_loc[t] EXCEPT !.node = BA!Node(t) + 1]
  <2>1. ba_loc' = [ba_loc EXCEPT ![t] = l] /\ ba_pc' = [ba_pc EXCEPT ![t] = "scan"]
    BY <1>6 DEF BA!NextNode
  <2>2. /\ l \in ArriveLocals /\ l.round = r /\ l.node = BA!Node(t) + 1 /\ l.current = ba_loc[t].current
        /\ l.old = ba_loc[t].old /\ l.left = ba_loc[t].left
    BY <1>0, <1>3, <1>4 DEF ArriveLocals
  <2> HIDE DEF l
  <2>3. /\ ba_pc'[t] = "scan" /\ ba_loc'[t] = l /\ Only(t) /\ ba_loc' \in [Thread -> ArriveLocals]
        /\ ba_pc' \in [Thread -> {"idle", "scan", "second", "arrived", "gone"}]
    BY <1>2, <2>1, <2>2 DEF Only
  <2>4. Calling(t)' /\ Due(t)' = Due(t)
    BY <2>2, <2>3 DEF Calling, Due
  <2>5. Expects(ba_loc[t].round)' = Expects(r) /\ (Reached(ba_loc[t].round)' <=> Reached(r))
    BY <1>3, <2>2, <2>3 DEF Expects, Reached, SamePhase
  <2>6. BA!Node(t) + 1 <= BA!HalfOf(ba_loc[t].current)
    BY <1>3, <1>4
  <2>7. ArrivalOK(t)'
    BY <1>0, <1>1, <1>3, <2>2, <2>3, <2>4, <2>5, <2>6 DEF ArrivalOK, SamePhase, Calling
  <2>8. \A q \in Nat : Here(t, q)' <=> Here(t, q)
    BY <1>0, <2>2, <2>3, <2>4 DEF Here
  <2> QED
    BY <2>3, <2>4, <2>7, <2>8
<1>7. CASE ba_pc' = [ba_pc EXCEPT ![t] = "second"] /\ ba_loc' = ba_loc /\ ~BA!OneInOne(t)
  <2>1. /\ ba_pc'[t] = "second" /\ Only(t) /\ ba_loc' \in [Thread -> ArriveLocals]
        /\ ba_pc' \in [Thread -> {"idle", "scan", "second", "arrived", "gone"}]
    BY <1>2, <1>7 DEF Only
  <2>2. Calling(t)' /\ Due(t)' = Due(t) /\ \A q \in Nat : Here(t, q)' <=> Here(t, q)
    BY <1>7, <2>1 DEF Calling, Due, Here
  <2>3. Expects(ba_loc[t].round)' = Expects(r) /\ (Reached(ba_loc[t].round)' <=> Reached(r))
    BY <1>0, <1>7 DEF Expects, Reached, SamePhase
  <2>4. ~BA!OneInOne(t)'
    BY <1>7 DEF BA!OneInOne, BA!Node
  <2>5. ArrivalOK(t)'
    BY <1>0, <1>1, <1>7, <2>1, <2>2, <2>3, <2>4 DEF ArrivalOK, SamePhase, Calling
  <2> QED
    BY <2>1, <2>2, <2>5
<1> QED
  BY <1>6, <1>7

\* __arrive has returned false.
LEMMA Returns ==
    ASSUME BarrierInv, NEW t \in Thread, Calling(t), SamePhase, ba_share' = ba_share, BA!ArriveReturns(t)
    PROVE  /\ Only(t) /\ ArrivalOK(t)'
           /\ Due(t)' = Due(t) - One(ba_loc[t].left > 1) /\ (ba_loc[t].left > 1 => Due(t) > 0)
           /\ \A q \in Nat : Here(t, q)' <=> ba_loc[t].left > 1 /\ q = 0
           /\ ba_loc' \in [Thread -> ArriveLocals]
           /\ ba_pc' \in [Thread -> {"idle", "scan", "second", "arrived", "gone"}]
<1>1. BarrierTypes /\ ArrivalOK(t)
  BY DEF BarrierInv
<1>2. /\ ba_pc \in [Thread -> {"idle", "scan", "second", "arrived", "gone"}]
      /\ ba_loc \in [Thread -> ArriveLocals] /\ ba_loc[t] \in ArriveLocals
      /\ ba_loc[t].old \in 0 .. Phases - 1 /\ ba_share[t] \in 0 .. Expected
  BY <1>1 DEF BarrierTypes, ArriveLocals
<1>3. /\ ba_loc[t].left \in 1 .. Expected /\ ba_expected \in Nat /\ ba_expected > 0
      /\ Due(t) = ba_loc[t].left - 1 /\ ba_loc[t].old = ba_phase
  BY LooksAt
<1>4. CASE ba_loc[t].left > 1
  <2>1. PICK n \in BA!StartsAt(ba_expected) :
            /\ ba_loc' = [ba_loc EXCEPT ![t] = BA!Arrival(ba_loc[t].old, ba_loc[t].left - 1, n)]
            /\ ba_pc' = [ba_pc EXCEPT ![t] = "scan"]
    BY <1>4 DEF BA!ArriveReturns
  <2> DEFINE l == BA!Arrival(ba_loc[t].old, ba_loc[t].left - 1, n)
  <2>2. n \in Nat /\ n <= BA!HalfOf(ba_expected)
    BY <1>3, HalfFacts DEF BA!StartsAt
  <2>3. /\ l \in ArriveLocals /\ l.round = 0 /\ l.node = n /\ l.current = ba_expected
        /\ l.old = ba_phase /\ l.left = ba_loc[t].left - 1
    BY <1>2, <1>3, <1>4, <2>2, BarrierConstants DEF ArriveLocals, BA!Arrival
  <2>4. ba_loc' = [ba_loc EXCEPT ![t] = l]
    BY <2>1
  <2> HIDE DEF l
  <2>5. /\ ba_pc'[t] = "scan" /\ ba_loc'[t] = l /\ Only(t) /\ ba_loc' \in [Thread -> ArriveLocals]
        /\ ba_pc' \in [Thread -> {"idle", "scan", "second", "arrived", "gone"}]
    BY <1>2, <2>1, <2>3, <2>4 DEF Only
  <2>6. Calling(t)'
    BY <2>5 DEF Calling
  <2>7. Due(t)' = Due(t) - One(ba_loc[t].left > 1)
    BY <1>3, <1>4, <2>3, <2>5, <2>6, BarrierConstants DEF Due, One
  <2>8. \A q \in Nat : Here(t, q)' <=> ba_loc[t].left > 1 /\ q = 0
    BY <1>4, <2>3, <2>5, <2>6 DEF Here
  <2>9. Expects(0) = ba_expected
    BY <1>1, ExpectsFacts
  <2>10. Expects(ba_loc[t].round)' = ba_expected /\ Reached(ba_loc[t].round)'
    BY <2>3, <2>5, <2>9 DEF Expects, Reached, SamePhase
  <2>11. ArrivalOK(t)'
    BY <1>3, <1>4, <2>2, <2>3, <2>5, <2>6, <2>10 DEF ArrivalOK, SamePhase
  <2> QED
    BY <1>3, <1>4, <2>5, <2>7, <2>8, <2>11
<1>5. CASE ~(ba_loc[t].left > 1)
  <2> DEFINE l == [BA!NoLocals EXCEPT !.old = ba_loc[t].old]
  <2>1. /\ ba_loc' = [ba_loc EXCEPT ![t] = l]
        /\ ba_pc' = [ba_pc EXCEPT ![t] = IF ba_share[t] = 0 THEN "gone" ELSE "arrived"]
    BY <1>5 DEF BA!ArriveReturns
  <2>2. l \in ArriveLocals /\ l.old = ba_phase /\ l = [BA!NoLocals EXCEPT !.old = l.old]
    BY <1>2, <1>3, BarrierConstants DEF ArriveLocals, BA!NoLocals
  <2> HIDE DEF l
  <2>3. /\ ba_pc'[t] = (IF ba_share[t] = 0 THEN "gone" ELSE "arrived") /\ ba_loc'[t] = l
        /\ Only(t) /\ ba_loc' \in [Thread -> ArriveLocals]
        /\ ba_pc' \in [Thread -> {"idle", "scan", "second", "arrived", "gone"}]
    BY <1>2, <2>1, <2>2 DEF Only
  <2>4. ~Calling(t)'
    BY <2>3 DEF Calling
  <2>5. ba_pc'[t] # "idle" /\ Due(t)' = 0
    BY <2>2, <2>3, <2>4 DEF Due, SamePhase
  <2>6. Due(t)' = Due(t) - One(ba_loc[t].left > 1)
    BY <1>3, <1>5, <2>5, BarrierConstants DEF One
  <2>7. \A q \in Nat : Here(t, q)' <=> ba_loc[t].left > 1 /\ q = 0
    BY <1>5, <2>4 DEF Here
  <2>8. ArrivalOK(t)'
    BY <1>2, <2>2, <2>3, <2>4 DEF ArrivalOK, SamePhase
  <2> QED
    BY <1>5, <2>3, <2>6, <2>7, <2>8
<1> QED
  BY <1>4, <1>5

LEMMA Assemble ==
    ASSUME BarrierInv, BarrierTypes', NEW t \in Thread, Only(t), SamePhase, ArrivalOK(t)',
           Cardinality(Units(ba_share))' = ba_expected' + ba_adjustment',
           NEW d \in {0, 1}, Due(t)' = Due(t) - d, d = 1 => Due(t) > 0,
           NEW T \in [Nat -> {0, 1}], NEW G \in [Nat -> {0, 1}],
           \A q \in Nat : /\ Cardinality(Taken(q))' = Cardinality(Taken(q)) + T[q]
                          /\ Cardinality(Filled(q))' = Cardinality(Filled(q)) + G[q],
           \A q \in Nat : One(Here(t, q)') - One(Here(t, q)) = (IF q = 0 THEN d ELSE G[q - 1]) - T[q]
    PROVE  BarrierInv'
<1>1. BarrierTypes
  BY DEF BarrierInv
<1>2. ASSUME NEW q \in Nat
      PROVE  /\ Cardinality(Taken(q))' \in Int
             /\ Entered(q)' = Entered(q) + (One(Here(t, q)') - One(Here(t, q)))
                              + (Cardinality(Taken(q))' - Cardinality(Taken(q)))
  <2>1. /\ Cardinality(Taken(q)) \in Nat /\ T[q] \in {0, 1}
        /\ Cardinality(Taken(q))' = Cardinality(Taken(q)) + T[q]
    BY <1>1, RoundSets
  <2>2. One(Here(t, q)') - One(Here(t, q)) = (IF q = 0 THEN d ELSE G[q - 1]) - T[q]
    OBVIOUS
  <2>3. CASE q = 0
    <3>1. Cardinality(Units(DueOf))' = Cardinality(Units(DueOf)) - d
      BY DueMoves
    <3>2. Cardinality(Units(DueOf)) \in Nat /\ ba_expected \in Int /\ ba_expected' = ba_expected
      BY <1>1, UnitsFinite, BarrierConstants DEF BarrierTypes, SamePhase
    <3>3. /\ Entered(q) = ba_expected - Cardinality(Units(DueOf))
          /\ Entered(q)' = ba_expected - Cardinality(Units(DueOf))'
      BY <2>3, <3>2 DEF Entered
    <3> QED
      BY <2>1, <2>2, <2>3, <3>1, <3>2, <3>3
  <2>4. CASE q > 0
    <3>1. q - 1 \in Nat
      BY <2>4
    <3>2. Cardinality(Filled(q - 1)) \in Nat /\ G[q - 1] \in {0, 1}
      BY <1>1, <3>1, RoundSets
    <3>3. Cardinality(Filled(q - 1))' = Cardinality(Filled(q - 1)) + G[q - 1]
      BY <3>1
    <3>4. Entered(q) = Cardinality(Filled(q - 1)) /\ Entered(q)' = Cardinality(Filled(q - 1))'
      BY <2>4 DEF Entered
    <3> QED
      BY <2>1, <2>2, <2>4, <3>2, <3>3, <3>4
  <2> QED
    BY <2>3, <2>4
<1>3. \A q \in Nat : FlowOK(q)'
  BY <1>2, Flows
<1>4. \A u \in Thread : ArrivalOK(u)'
  BY OthersArrive
<1> QED
  BY <1>3, <1>4 DEF BarrierInv

\* Nothing is taken.
LEMMA NothingTaken ==
    ASSUME BarrierInv, BarrierTypes', NEW t \in Thread, Only(t), SamePhase, ArrivalOK(t)',
           Cardinality(Units(ba_share))' = ba_expected' + ba_adjustment', ba_tickets' = ba_tickets,
           NEW d \in {0, 1}, Due(t)' = Due(t) - d, d = 1 => Due(t) > 0,
           \A q \in Nat : One(Here(t, q)') - One(Here(t, q)) = IF q = 0 THEN d ELSE 0
    PROVE  BarrierInv'
<1> DEFINE Z == [q \in Nat |-> 0]
<1>1. Z \in [Nat -> {0, 1}] /\ \A q \in Nat : Z[q] = 0
  OBVIOUS
<1>2. \A q \in Nat : (q # 0 => Z[q - 1] = 0)
  BY <1>1
<1> HIDE DEF Z
<1>3. ASSUME NEW q \in Nat
      PROVE  /\ Cardinality(Taken(q))' = Cardinality(Taken(q)) + Z[q]
             /\ Cardinality(Filled(q))' = Cardinality(Filled(q)) + Z[q]
  <2>1. Taken(q)' = Taken(q) /\ Filled(q)' = Filled(q)
    BY TicketsSame
  <2>2. Cardinality(Taken(q)) \in Nat /\ Cardinality(Filled(q)) \in Nat
    BY RoundSets DEF BarrierInv
  <2> QED
    BY <1>1, <2>1, <2>2
<1>4. \A q \in Nat : One(Here(t, q)') - One(Here(t, q)) = (IF q = 0 THEN d ELSE Z[q - 1]) - Z[q]
  BY <1>1, <1>2
<1> QED
  BY <1>1, <1>3, <1>4, Assemble

LEMMA SharesSame ==
    ASSUME BarrierInv, SamePhase, ba_share' = ba_share, ba_adjustment' = ba_adjustment
    PROVE  Cardinality(Units(ba_share))' = ba_expected' + ba_adjustment'
<1>1. Units(ba_share)' = Units(ba_share)
  BY DEF Units
<1> QED
  BY <1>1 DEF BarrierInv, SamePhase

\* A ticket is taken.
LEMMA SomethingTaken ==
    ASSUME BarrierInv, NEW t \in Thread, Calling(t), ba_loc[t].current > 1, Only(t), SamePhase, ArrivalOK(t)',
           ba_share' = ba_share, ba_adjustment' = ba_adjustment,
           ba_loc' \in [Thread -> ArriveLocals],
           ba_pc' \in [Thread -> {"idle", "scan", "second", "arrived", "gone"}],
           NEW v, BA!Take(t, v),
           \/ BA!Seen(t) = ba_phase /\ v = HalfPhase /\ ~BA!OneInOne(t)
           \/ BA!Seen(t) = ba_phase /\ v = FullPhase /\ BA!OneInOne(t)
           \/ BA!Seen(t) = HalfPhase /\ v = FullPhase /\ ~BA!OneInOne(t),
           NEW d \in {0, 1}, Due(t)' = Due(t) - d, d = 1 => Due(t) > 0,
           \A q \in Nat : One(Here(t, q)') = (IF q = 0 THEN d ELSE 0)
                                             + (IF q = ba_loc[t].round + 1 THEN One(v = FullPhase) ELSE 0)
    PROVE  BarrierInv'
<1>1. PICK r : r = ba_loc[t].round
  OBVIOUS
<1>2. PICK n : n = BA!Node(t)
  OBVIOUS
<1>3. /\ r \in Nat /\ Expects(r) \in Nat /\ Expects(r) > 1 /\ n \in 0 .. Expects(r + 1) - 1
      /\ BA!Seen(t) = ba_tickets[<<n, r>>]
      /\ IF BA!OneInOne(t) THEN 2 * n + 1 = Expects(r) ELSE 2 * n + 1 < Expects(r)
  BY <1>1, <1>2, LooksAt
<1>4. ba_tickets' = [ba_tickets EXCEPT ![<<n, r>>] = v]
  BY <1>1, <1>2 DEF BA!Take
<1>5. BarrierTypes
  BY DEF BarrierInv
<1>6. HalfPhase # ba_phase /\ FullPhase # ba_phase /\ HalfPhase # FullPhase
  BY <1>5, PhaseFacts
<1>7. PICK k : k = IF BA!Seen(t) = ba_phase THEN 2 * n ELSE 2 * n + 1
  OBVIOUS
<1>8. n \in Nat /\ k \in 0 .. Expects(r) - 1
  BY <1>3, <1>6, <1>7
<1>9. Finds(k, n, r, v)
  BY <1>3, <1>6, <1>7 DEF Finds
<1>10. /\ Cardinality(Taken(r))' = Cardinality(Taken(r)) + 1
       /\ Cardinality(Filled(r))' = Cardinality(Filled(r)) + One(v = FullPhase)
       /\ \A q \in Nat \ {r} : Taken(q)' = Taken(q) /\ Filled(q)' = Filled(q)
       /\ ba_tickets' \in [BA!Ticket -> 0 .. Phases - 1]
  BY <1>3, <1>4, <1>5, <1>8, <1>9, TicketTaken
<1> DEFINE T == [q \in Nat |-> IF q = r THEN 1 ELSE 0]
<1> DEFINE G == [q \in Nat |-> IF q = r THEN One(v = FullPhase) ELSE 0]
<1>11. PICK g : g = One(v = FullPhase)
  OBVIOUS
<1>12. g \in {0, 1}
  BY <1>11 DEF One
<1>13. /\ T \in [Nat -> {0, 1}] /\ G \in [Nat -> {0, 1}]
       /\ \A q \in Nat : T[q] = (IF q = r THEN 1 ELSE 0) /\ G[q] = (IF q = r THEN g ELSE 0)
  BY <1>11, <1>12
<1> HIDE DEF T, G
<1>14. ASSUME NEW q \in Nat
       PROVE  /\ Cardinality(Taken(q))' = Cardinality(Taken(q)) + T[q]
              /\ Cardinality(Filled(q))' = Cardinality(Filled(q)) + G[q]
  <2>1. Cardinality(Taken(q)) \in Nat /\ Cardinality(Filled(q)) \in Nat
    BY <1>5, RoundSets
  <2>2. CASE q = r
    <3>1. T[q] = 1 /\ G[q] = One(v = FullPhase)
      BY <1>11, <1>13, <2>2
    <3> QED
      BY <1>10, <2>2, <3>1
  <2>3. CASE q # r
    <3>1. T[q] = 0 /\ G[q] = 0
      BY <1>13, <2>3
    <3> QED
      BY <1>10, <2>1, <2>3, <3>1
  <2> QED
    BY <2>2, <2>3
<1>15. ASSUME NEW q \in Nat
       PROVE  One(Here(t, q)') - One(Here(t, q)) = (IF q = 0 THEN d ELSE G[q - 1]) - T[q]
  <2>1. One(Here(t, q)) = IF q = r THEN 1 ELSE 0
    BY <1>1 DEF Here, One
  <2>2. One(Here(t, q)') = (IF q = 0 THEN d ELSE 0) + (IF q = r + 1 THEN g ELSE 0)
    BY <1>1, <1>11
  <2>3. T[q] = IF q = r THEN 1 ELSE 0
    BY <1>13
  <2>4. CASE q = 0
    <3>1. q # r + 1
      BY <1>3, <2>4
    <3> QED
      BY <2>1, <2>2, <2>3, <2>4, <3>1
  <2>5. CASE q # 0
    <3>1. q - 1 \in Nat /\ (q - 1 = r <=> q = r + 1)
      BY <1>3, <2>5
    <3>2. G[q - 1] = IF q = r + 1 THEN g ELSE 0
      BY <1>13, <3>1
    <3> QED
      BY <1>12, <2>1, <2>2, <2>3, <2>5, <3>2
  <2> QED
    BY <2>4, <2>5
<1>16. BarrierTypes'
  BY <1>5, <1>10 DEF BarrierTypes, SamePhase
<1>17. Cardinality(Units(ba_share))' = ba_expected' + ba_adjustment'
  BY SharesSame
<1> QED
  BY <1>13, <1>14, <1>15, <1>16, <1>17, Assemble

LEMMA StepTakes ==
    ASSUME BarrierInv, NEW t \in Thread,
           BA!TakeAlone(t) \/ BA!TakeFirst(t) \/ BA!TakenBefore(t) \/ BA!TakeSecond(t)
    PROVE  BarrierInv'
<1>1. BarrierTypes /\ ArrivalOK(t)
  BY DEF BarrierInv
<1>2. /\ Calling(t) /\ ba_loc[t].current > 1
      /\ ba_share' = ba_share /\ ba_adjustment' = ba_adjustment /\ SamePhase
  <2>1. CASE BA!TakeAlone(t)
    BY <2>1 DEF BA!TakeAlone, BA!Scanning, Calling, SamePhase
  <2>2. CASE BA!TakeFirst(t)
    BY <2>2 DEF BA!TakeFirst, BA!Scanning, Calling, SamePhase
  <2>3. CASE BA!TakenBefore(t)
    BY <2>3 DEF BA!TakenBefore, BA!Scanning, Calling, SamePhase
  <2>4. CASE BA!TakeSecond(t)
    BY <1>1, <2>4 DEF BA!TakeSecond, Calling, SamePhase, ArrivalOK
  <2> QED
    BY <2>1, <2>2, <2>3, <2>4
<1>3. /\ ba_loc[t].round \in Nat /\ ba_loc[t].old = ba_phase /\ BA!HalfStep(t) = HalfPhase
      /\ BA!FullStep(t) = FullPhase /\ Due(t) \in Int
  <2>1. Due(t) \in Int
    BY <1>1, DueFacts, BarrierConstants
  <2> QED
    BY <1>2, <2>1, LooksAt
<1>4. HalfPhase # FullPhase
  BY <1>1, PhaseFacts
\* The ticket is not to be had.
<1>5. CASE /\ ba_tickets' = ba_tickets
           /\ \/ BA!NextNode(t)
              \/ ba_pc' = [ba_pc EXCEPT ![t] = "second"] /\ ba_loc' = ba_loc /\ ~BA!OneInOne(t)
  <2>1. /\ Only(t) /\ ArrivalOK(t)' /\ Due(t)' = Due(t)
        /\ \A q \in Nat : Here(t, q)' <=> Here(t, q)
        /\ ba_loc' \in [Thread -> ArriveLocals]
        /\ ba_pc' \in [Thread -> {"idle", "scan", "second", "arrived", "gone"}]
    BY <1>2, <1>5, GoesOn
  <2>2. BarrierTypes'
    BY <1>1, <1>2, <1>5, <2>1 DEF BarrierTypes, SamePhase
  <2>3. \A q \in Nat : One(Here(t, q)') - One(Here(t, q)) = IF q = 0 THEN 0 ELSE 0
    BY <2>1 DEF One
  <2>4. Cardinality(Units(ba_share))' = ba_expected' + ba_adjustment'
    BY <1>2, SharesSame
  <2>5. Due(t)' = Due(t) - 0 /\ 0 \in {0, 1} /\ (0 = 1 => Due(t) > 0) /\ ba_tickets' = ba_tickets
    BY <1>3, <1>5, <2>1
  <2> QED
    BY <1>2, <2>1, <2>2, <2>3, <2>4, <2>5, NothingTaken
\* t has completed the ticket.
<1>6. CASE /\ BA!Take(t, BA!FullStep(t)) /\ BA!NextRound(t)
           /\ \/ BA!Seen(t) = ba_phase /\ BA!OneInOne(t)
              \/ BA!Seen(t) = HalfPhase /\ ~BA!OneInOne(t)
  <2>1. /\ Only(t) /\ ArrivalOK(t)' /\ Due(t)' = Due(t)
        /\ \A q \in Nat : Here(t, q)' <=> q = ba_loc[t].round + 1
        /\ ba_loc' \in [Thread -> ArriveLocals]
        /\ ba_pc' \in [Thread -> {"idle", "scan", "second", "arrived", "gone"}]
    BY <1>2, <1>6, GoesUp
  <2>2. PICK v : v = FullPhase
    OBVIOUS
  <2>3. BA!Take(t, v)
    BY <1>3, <1>6, <2>2 DEF BA!Take
  <2>4. \A q \in Nat : One(Here(t, q)') = (IF q = 0 THEN 0 ELSE 0)
                                          + (IF q = ba_loc[t].round + 1 THEN One(v = FullPhase) ELSE 0)
    BY <2>1, <2>2 DEF One
  <2>5. Due(t)' = Due(t) - 0 /\ 0 \in {0, 1} /\ (0 = 1 => Due(t) > 0)
    BY <1>3, <2>1
  <2>6. \/ BA!Seen(t) = ba_phase /\ v = HalfPhase /\ ~BA!OneInOne(t)
        \/ BA!Seen(t) = ba_phase /\ v = FullPhase /\ BA!OneInOne(t)
        \/ BA!Seen(t) = HalfPhase /\ v = FullPhase /\ ~BA!OneInOne(t)
    BY <1>6, <2>2
  <2> QED
    BY <1>2, <2>1, <2>3, <2>4, <2>5, <2>6, SomethingTaken
\* t is the first of two.
<1>7. CASE BA!TakeFirst(t)
  <2>1. /\ Only(t) /\ ArrivalOK(t)'
        /\ Due(t)' = Due(t) - One(ba_loc[t].left > 1) /\ (ba_loc[t].left > 1 => Due(t) > 0)
        /\ \A q \in Nat : Here(t, q)' <=> ba_loc[t].left > 1 /\ q = 0
        /\ ba_loc' \in [Thread -> ArriveLocals]
        /\ ba_pc' \in [Thread -> {"idle", "scan", "second", "arrived", "gone"}]
    BY <1>2, <1>7, Returns DEF BA!TakeFirst
  <2>2. PICK v : v = HalfPhase
    OBVIOUS
  <2>3. BA!Take(t, v)
    BY <1>3, <1>7, <2>2 DEF BA!Take, BA!TakeFirst
  <2>4. PICK d : d = One(ba_loc[t].left > 1)
    OBVIOUS
  <2>5. d \in {0, 1} /\ (d = 1 => Due(t) > 0) /\ Due(t)' = Due(t) - d
    BY <2>1, <2>4 DEF One
  <2>6. One(v = FullPhase) = 0
    BY <1>4, <2>2 DEF One
  <2>7. ASSUME NEW q \in Nat
        PROVE  One(Here(t, q)') = (IF q = 0 THEN d ELSE 0)
                                  + (IF q = ba_loc[t].round + 1 THEN One(v = FullPhase) ELSE 0)
    <3>1. One(Here(t, q)') = IF q = 0 THEN d ELSE 0
      BY <2>1, <2>4 DEF One
    <3> QED
      BY <2>5, <2>6, <3>1
  <2>8. \/ BA!Seen(t) = ba_phase /\ v = HalfPhase /\ ~BA!OneInOne(t)
        \/ BA!Seen(t) = ba_phase /\ v = FullPhase /\ BA!OneInOne(t)
        \/ BA!Seen(t) = HalfPhase /\ v = FullPhase /\ ~BA!OneInOne(t)
    BY <1>3, <1>7, <2>2 DEF BA!TakeFirst
  <2> QED
    BY <1>2, <2>1, <2>3, <2>5, <2>7, <2>8, SomethingTaken
<1>8. CASE BA!TakeAlone(t)
  BY <1>3, <1>5, <1>6, <1>8 DEF BA!TakeAlone
<1>9. CASE BA!TakenBefore(t)
  BY <1>3, <1>5, <1>9 DEF BA!TakenBefore
<1>10. CASE BA!TakeSecond(t)
  <2>1. ~BA!OneInOne(t)
    BY <1>1, <1>10 DEF ArrivalOK, BA!TakeSecond
  <2> QED
    BY <1>3, <1>5, <1>6, <1>10, <2>1 DEF BA!TakeSecond, BA!SwapsToFull
<1> QED
  BY <1>7, <1>8, <1>9, <1>10

LEMMA StepArrive ==
    ASSUME BarrierInv, NEW t \in Thread, NEW drop \in BOOLEAN, BA!Arrive(t, drop)
    PROVE  BarrierInv'
<1>1. BarrierTypes /\ ArrivalOK(t) /\ Cardinality(Units(ba_share)) = ba_expected + ba_adjustment
  BY DEF BarrierInv
<1>2. /\ ba_pc \in [Thread -> {"idle", "scan", "second", "arrived", "gone"}]
      /\ ba_loc \in [Thread -> ArriveLocals] /\ ba_share \in [Thread -> 0 .. Expected]
      /\ ba_expected \in Nat /\ ba_adjustment \in Int /\ ba_phase \in 0 .. Phases - 1
      /\ ba_expected <= Expected /\ ba_adjustment <= 0
  BY <1>1, BarrierConstants DEF BarrierTypes
<1>3. /\ ba_pc[t] = "idle" /\ ba_share[t] > 0 /\ ba_tickets' = ba_tickets /\ SamePhase
      /\ ba_pc' = [ba_pc EXCEPT ![t] = "scan"]
      /\ ba_adjustment' = IF drop THEN ba_adjustment - 1 ELSE ba_adjustment
      /\ ba_share' = IF drop THEN [ba_share EXCEPT ![t] = ba_share[t] - 1] ELSE ba_share
  BY DEF BA!Arrive, SamePhase
<1>4. PICK n \in BA!StartsAt(ba_expected) :
          ba_loc' = [ba_loc EXCEPT ![t] = BA!Arrival(ba_phase, ba_share[t], n)]
  BY DEF BA!Arrive
<1>5. ba_share[t] \in 1 .. Expected
  BY <1>2, <1>3, BarrierConstants
\* All shares are counted, so that somebody who has one is expected.
<1>6. Cardinality(Units(ba_share)) >= 1 /\ Cardinality(Units(ba_share)) \in Nat
  <2>1. <<t, 1>> \in Units(ba_share)
    BY <1>2, <1>3, BarrierConstants DEF Units
  <2>2. Cardinality(Units(ba_share)) # 0
    BY <2>1, UnitsFinite, FS_EmptySet
  <2> QED
    BY <2>2, UnitsFinite
<1>7. ba_expected > 0 /\ ba_adjustment >= 1 - Expected
  BY <1>1, <1>2, <1>6, BarrierConstants
<1> DEFINE l == BA!Arrival(ba_phase, ba_share[t], n)
<1>8. n \in Nat /\ n <= BA!HalfOf(ba_expected)
  BY <1>2, HalfFacts DEF BA!StartsAt
<1>9. /\ l \in ArriveLocals /\ l.round = 0 /\ l.node = n /\ l.current = ba_expected
      /\ l.old = ba_phase /\ l.left = ba_share[t]
  BY <1>2, <1>8, BarrierConstants DEF ArriveLocals, BA!Arrival
<1>10. ba_loc' = [ba_loc EXCEPT ![t] = l]
  BY <1>4
<1> HIDE DEF l
<1>11. /\ ba_pc'[t] = "scan" /\ ba_loc'[t] = l /\ Only(t) /\ ba_loc' \in [Thread -> ArriveLocals]
       /\ ba_pc' \in [Thread -> {"idle", "scan", "second", "arrived", "gone"}]
       /\ ba_share' \in [Thread -> 0 .. Expected]
  <2>1. ba_share[t] - 1 \in 0 .. Expected
    BY <1>5, BarrierConstants
  <2> QED
    BY <1>2, <1>3, <1>9, <1>10, <2>1 DEF Only
<1>12. Calling(t)' /\ ~Calling(t)
  BY <1>3, <1>11 DEF Calling
<1>13. Due(t) = ba_share[t] /\ Due(t)' = Due(t) - 1 /\ Due(t) > 0
  BY <1>3, <1>9, <1>11, <1>12 DEF Due
<1>14. \A q \in Nat : One(Here(t, q)') - One(Here(t, q)) = IF q = 0 THEN 1 ELSE 0
  BY <1>9, <1>11, <1>12 DEF Here, One
<1>15. ArrivalOK(t)'
  <2>1. Expects(0) = ba_expected
    BY <1>1, ExpectsFacts
  <2>2. Expects(ba_loc[t].round)' = ba_expected /\ Reached(ba_loc[t].round)'
    BY <1>3, <1>9, <1>11, <2>1 DEF Expects, Reached, SamePhase
  <2> QED
    BY <1>3, <1>5, <1>7, <1>8, <1>9, <1>11, <1>12, <2>2 DEF ArrivalOK, SamePhase
<1>16. BarrierTypes'
  BY <1>1, <1>2, <1>3, <1>7, <1>11, BarrierConstants DEF BarrierTypes, SamePhase
<1>17. Cardinality(Units(ba_share))' = ba_expected' + ba_adjustment'
  <2>1. Units(ba_share)' = Units(ba_share')
    BY DEF Units
  <2>2. CASE drop
    <3>1. Cardinality(Units(ba_share')) = Cardinality(Units(ba_share)) - 1
      BY <1>2, <1>3, <2>2, OneUnitLess
    <3> QED
      BY <1>1, <1>2, <1>3, <2>1, <2>2, <3>1 DEF SamePhase
  <2>3. CASE ~drop
    BY <1>1, <1>3, <2>1, <2>3 DEF SamePhase
  <2> QED
    BY <2>2, <2>3
<1>18. 1 \in {0, 1} /\ (1 = 1 => Due(t) > 0)
  BY <1>13
<1> QED
  BY <1>3, <1>11, <1>13, <1>14, <1>15, <1>16, <1>17, <1>18, NothingTaken

LEMMA StepWait ==
    ASSUME BarrierInv, NEW t \in Thread, BA!Wait(t)
    PROVE  BarrierInv'
<1>1. BarrierTypes /\ ArrivalOK(t)
  BY DEF BarrierInv
<1>2. /\ ba_pc \in [Thread -> {"idle", "scan", "second", "arrived", "gone"}]
      /\ ba_loc \in [Thread -> ArriveLocals] /\ ba_share \in [Thread -> 0 .. Expected]
  BY <1>1 DEF BarrierTypes
<1>3. /\ ba_pc[t] = "arrived" /\ ba_phase # ba_loc[t].old /\ ba_tickets' = ba_tickets /\ SamePhase
      /\ ba_pc' = [ba_pc EXCEPT ![t] = "idle"] /\ ba_loc' = [ba_loc EXCEPT ![t] = BA!NoLocals]
      /\ ba_share' = ba_share /\ ba_adjustment' = ba_adjustment
  BY DEF BA!Wait, BA!PhaseOver, SamePhase
<1>4. /\ BA!NoLocals \in ArriveLocals /\ BA!NoLocals.old = 0
      /\ BA!NoLocals = [BA!NoLocals EXCEPT !.old = 0]
  BY BarrierConstants DEF BA!NoLocals, ArriveLocals
<1>5. /\ ba_pc'[t] = "idle" /\ ba_loc'[t] = BA!NoLocals /\ Only(t) /\ ba_loc' \in [Thread -> ArriveLocals]
      /\ ba_pc' \in [Thread -> {"idle", "scan", "second", "arrived", "gone"}]
  BY <1>2, <1>3, <1>4 DEF Only
<1>6. ~Calling(t) /\ ~Calling(t)'
  BY <1>3, <1>5 DEF Calling
<1>7. Due(t)' = Due(t) - 0
  BY <1>2, <1>3, <1>5, <1>6, BarrierConstants DEF Due
<1>8. ArrivalOK(t)'
  BY <1>1, <1>3, <1>4, <1>5, <1>6 DEF ArrivalOK
<1>9. \A q \in Nat : One(Here(t, q)') - One(Here(t, q)) = IF q = 0 THEN 0 ELSE 0
  BY <1>6 DEF Here, One
<1>10. BarrierTypes'
  BY <1>1, <1>3, <1>5 DEF BarrierTypes, SamePhase
<1>11. Cardinality(Units(ba_share))' = ba_expected' + ba_adjustment'
  BY <1>3, SharesSame
<1>12. 0 \in {0, 1} /\ (0 = 1 => Due(t) > 0)
  OBVIOUS
<1> QED
  BY <1>3, <1>5, <1>7, <1>8, <1>9, <1>10, <1>11, <1>12, NothingTaken

\* The last arrival completes the phase: everybody is due, nobody looks for a
\* ticket, and the tickets of all rounds have the number of the new phase.
LEMMA StepComplete ==
    ASSUME BarrierInv, NEW t \in Thread, BA!Complete(t)
    PROVE  BarrierInv'
<1>1. /\ BarrierTypes /\ (\A u \in Thread : ArrivalOK(u))
      /\ Cardinality(Units(ba_share)) = ba_expected + ba_adjustment
  BY DEF BarrierInv
<1>2. /\ ba_pc \in [Thread -> {"idle", "scan", "second", "arrived", "gone"}]
      /\ ba_loc \in [Thread -> ArriveLocals] /\ ba_share \in [Thread -> 0 .. Expected]
      /\ ba_expected \in Nat /\ ba_adjustment \in Int
      /\ ba_expected <= Expected /\ ba_adjustment <= 0 /\ ba_loc[t].old \in 0 .. Phases - 1
  BY <1>1, BarrierConstants DEF BarrierTypes, ArriveLocals
<1>3. /\ BA!LastOneLeft(t) /\ ba_tickets' = ba_tickets /\ ba_share' = ba_share
      /\ ba_expected' = ba_expected + ba_adjustment /\ ba_adjustment' = 0
      /\ ba_phase' = BA!FullStep(t) /\ BA!ArriveReturns(t)
  BY DEF BA!Complete
<1>4. /\ \A u \in Thread : Calling(u) => u = t
      /\ \A r \in Nat : Expects(r) > 1 => Filled(r) = 0 .. Expects(r + 1) - 1
  BY <1>3, LastArrival
<1>5. /\ ba_loc[t].left = 1 /\ ba_loc[t].old = ba_phase
      /\ \A u \in Thread \ {t} : ba_pc[u] = "gone" \/ (ba_pc[u] = "arrived" /\ ba_loc[u].old = ba_phase)
  BY <1>3, BarrierSuffices DEF PhasesAreOrderly, BA!PhasesAreOrderly, BA!CompletesLast
<1>6. ba_phase' = FullPhase
  BY <1>3, <1>5 DEF BA!FullStep, FullPhase
<1>7. /\ FullPhase \in 0 .. Phases - 1 /\ FullPhase # ba_phase
      /\ HalfPhase' # FullPhase /\ FullPhase' # FullPhase
  BY <1>1, <1>6, PhaseFacts DEF HalfPhase, FullPhase
<1>8. Cardinality(Units(ba_share)) \in Nat
  BY UnitsFinite
<1>9. /\ ba_expected' \in Nat /\ ba_expected' <= ba_expected /\ ba_expected' <= Expected
      /\ ba_expected' = Cardinality(Units(ba_share))
  BY <1>1, <1>2, <1>3, <1>8, BarrierConstants
\* Everybody has arrived.
<1> DEFINE l == [BA!NoLocals EXCEPT !.old = ba_loc[t].old]
<1>10. /\ ba_loc' = [ba_loc EXCEPT ![t] = l]
       /\ ba_pc' = [ba_pc EXCEPT ![t] = IF ba_share[t] = 0 THEN "gone" ELSE "arrived"]
  <2>1. ~(ba_loc[t].left > 1)
    BY <1>5
  <2> QED
    BY <1>3, <2>1 DEF BA!ArriveReturns
<1>11. l \in ArriveLocals /\ l.old = ba_phase /\ l = [BA!NoLocals EXCEPT !.old = l.old]
  BY <1>2, <1>5, BarrierConstants DEF ArriveLocals, BA!NoLocals
<1> HIDE DEF l
<1>12. /\ ba_pc'[t] = (IF ba_share[t] = 0 THEN "gone" ELSE "arrived") /\ ba_loc'[t] = l
       /\ \A u \in Thread \ {t} : ba_pc'[u] = ba_pc[u] /\ ba_loc'[u] = ba_loc[u]
       /\ ba_loc' \in [Thread -> ArriveLocals]
       /\ ba_pc' \in [Thread -> {"idle", "scan", "second", "arrived", "gone"}]
  BY <1>2, <1>10, <1>11
<1>13. ASSUME NEW u \in Thread
       PROVE  /\ ~Calling(u)' /\ ba_pc'[u] \in {"gone", "arrived"}
              /\ ba_loc'[u] = [BA!NoLocals EXCEPT !.old = ba_loc'[u].old]
              /\ ba_pc'[u] = "arrived" => ba_loc'[u].old # ba_phase' /\ ba_share[u] > 0
              /\ ba_pc'[u] = "gone" => ba_share[u] = 0
  <2>1. CASE u = t
    BY <1>2, <1>6, <1>7, <1>11, <1>12, <2>1, BarrierConstants DEF Calling
  <2>2. CASE u # t
    <3>1. ~Calling(u) /\ ArrivalOK(u) /\ ba_pc'[u] = ba_pc[u] /\ ba_loc'[u] = ba_loc[u]
      BY <1>1, <1>4, <1>12, <2>2
    <3>2. ba_pc[u] = "gone" \/ (ba_pc[u] = "arrived" /\ ba_loc[u].old = ba_phase)
      BY <1>5, <2>2
    <3> QED
      BY <1>6, <1>7, <3>1, <3>2 DEF Calling, ArrivalOK
  <2> QED
    BY <2>1, <2>2
<1>14. \A u \in Thread : ArrivalOK(u)'
  BY <1>3, <1>13 DEF ArrivalOK
<1>15. Units(DueOf)' = Units(ba_share) /\ Units(ba_share)' = Units(ba_share)
  <2>1. \A u \in Thread : Due(u)' = ba_share[u]
    BY <1>3, <1>13 DEF Due
  <2>2. DueOf' = ba_share
    BY <1>2, <2>1 DEF DueOf
  <2> QED
    BY <1>3, <2>2 DEF Units
<1>16. BarrierTypes'
  <2>1. 0 \in -Expected .. 0 /\ ba_expected' \in 0 .. Expected
    BY <1>9, BarrierConstants
  <2> QED
    BY <1>1, <1>2, <1>3, <1>6, <1>7, <1>12, <2>1 DEF BarrierTypes
\* No round of the new phase is larger than it was, and its tickets are free.
<1>17. ASSUME NEW r \in Nat, Expects(r)' > 1
       PROVE  Taken(r)' = {} /\ Filled(r)' = {}
  <2>1. /\ Expects(r) \in Nat /\ Expects(r + 1) = (Expects(r) + 1) \div 2
        /\ Expects(r)' \in Nat /\ Expects(r + 1)' \in Nat
        /\ Expects(r)' <= Expects(r) /\ Expects(r + 1)' <= Expects(r + 1) /\ r + 1 \in Nat
    <3>1. r + 1 \in Nat
      OBVIOUS
    <3>2. Expects(r)' = Level[r][ba_expected'] /\ Expects(r + 1)' = Level[r + 1][ba_expected']
      BY DEF Expects
    <3>3. /\ Level[r][ba_expected'] <= Expects(r) /\ Level[r + 1][ba_expected'] <= Expects(r + 1)
          /\ Level[r][ba_expected'] \in Nat /\ Level[r + 1][ba_expected'] \in Nat
      BY <1>2, <1>9, <3>1, LevelFacts DEF Expects
    <3>4. Expects(r) \in Nat /\ Expects(r + 1) = (Expects(r) + 1) \div 2
      BY <1>1, ExpectsFacts DEF BA!HalfOf
    <3> QED
      BY <3>1, <3>2, <3>3, <3>4
  <2>2. Filled(r) = 0 .. Expects(r + 1) - 1
    BY <1>4, <1>17, <2>1
  <2>3. ASSUME NEW n \in 0 .. Expects(r + 1) - 1
        PROVE  /\ ba_tickets'[<<n, r>>] # HalfPhase' /\ ba_tickets'[<<n, r>>] # FullPhase'
    <3>1. n \in Filled(r)
      BY <2>2
    <3> QED
      BY <1>3, <1>7, <3>1 DEF Filled
  <2>4. Filled(r)' = {}
    <3>1. ASSUME NEW n \in 0 .. Expects(r + 1)' - 1 PROVE ba_tickets'[<<n, r>>] # FullPhase'
      <4>1. n \in 0 .. Expects(r + 1) - 1
        BY <2>1
      <4> QED
        BY <2>3, <4>1
    <3> QED
      BY <3>1 DEF Filled
  <2>5. Taken(r)' = {}
    <3>1. ASSUME NEW k \in 0 .. Expects(r)' - 1 PROVE ~IsTaken(k, r)'
      <4>1. k \div 2 \in 0 .. Expects(r + 1) - 1
        BY <2>1
      <4> QED
        BY <2>3, <4>1 DEF IsTaken
    <3> QED
      BY <3>1 DEF Taken
  <2> QED
    BY <2>4, <2>5
<1>18. ASSUME NEW r \in Nat, Reached(r)' PROVE Entered(r)' = Cardinality(Present(r))' + Cardinality(Taken(r))'
  <2>1. Present(r)' = {}
    BY <1>13 DEF Present, Here
  <2>2. Taken(r)' = {}
    <3>1. CASE Expects(r)' > 1
      BY <1>17, <3>1
    <3>2. CASE ~(Expects(r)' > 1)
      BY <3>2 DEF Taken
    <3> QED
      BY <3>1, <3>2
  <2>3. CASE r = 0
    <3>1. Entered(r)' = ba_expected' - Cardinality(Units(ba_share))
      BY <1>15, <2>3 DEF Entered
    <3>2. Entered(r)' = 0
      BY <1>8, <1>9, <3>1
    <3> QED
      BY <2>1, <2>2, <3>2, FS_EmptySet
  <2>4. CASE r > 0
    <3>1. r - 1 \in Nat /\ Expects(r - 1)' > 1
      BY <1>18, <2>4 DEF Reached
    <3>2. Filled(r - 1)' = {}
      BY <1>17, <3>1
    <3>3. Entered(r)' = Cardinality(Filled(r - 1)')
      BY <2>4 DEF Entered
    <3> QED
      BY <2>1, <2>2, <3>2, <3>3, FS_EmptySet
  <2> QED
    BY <2>3, <2>4
<1>19. \A r \in Nat : FlowOK(r)'
  BY <1>18 DEF FlowOK
<1>20. Cardinality(Units(ba_share))' = ba_expected' + ba_adjustment'
  BY <1>3, <1>8, <1>9, <1>15
<1> QED
  BY <1>14, <1>16, <1>19, <1>20 DEF BarrierInv

LEMMA BarrierStep ==
    ASSUME BarrierInv, BA!Next
    PROVE  BarrierInv'
<1>1. PICK t \in Thread : BA!Step(t) \/ BA!Arrive(t, TRUE)
  BY DEF BA!Next
<1>2. CASE BA!Step(t)
  BY <1>2, StepArrive, StepTakes, StepComplete, StepWait DEF BA!Step
<1>3. CASE BA!Arrive(t, TRUE)
  BY <1>3, StepArrive
<1> QED
  BY <1>1, <1>2, <1>3

LEMMA BarrierFramed == BarrierInv /\ UNCHANGED baVars => BarrierInv'
<1> SUFFICES ASSUME BarrierInv, UNCHANGED baVars PROVE BarrierInv'
  OBVIOUS
<1>1. /\ SamePhase /\ ba_share' = ba_share /\ ba_adjustment' = ba_adjustment /\ ba_tickets' = ba_tickets
      /\ ba_pc' = ba_pc /\ ba_loc' = ba_loc /\ ba_expected' = ba_expected /\ ba_phase' = ba_phase
  BY DEF baVars, SamePhase
<1>2. /\ BarrierTypes /\ (\A u \in Thread : ArrivalOK(u)) /\ (\A r \in Nat : FlowOK(r))
      /\ Cardinality(Units(ba_share)) = ba_expected + ba_adjustment
  BY DEF BarrierInv
<1>3. BarrierTypes'
  BY <1>1, <1>2 DEF BarrierTypes
<1>4. ASSUME NEW u \in Thread PROVE ArrivalOK(u)'
  <2>1. ArrivalOK(u)
    BY <1>2
  <2>2. ArrivalOK(u)' <=> ArrivalOK(u)
    BY <1>1 DEF ArrivalOK, Calling, Expects, Reached, BA!OneInOne, BA!Node
  <2> QED
    BY <2>1, <2>2
<1>5. Units(ba_share)' = Units(ba_share) /\ Units(DueOf)' = Units(DueOf)
  BY <1>1 DEF Units, DueOf, Due, Calling
<1>6. ASSUME NEW r \in Nat PROVE FlowOK(r)'
  <2>1. /\ (Reached(r)' <=> Reached(r)) /\ Present(r)' = Present(r)
    BY <1>1 DEF Reached, Expects, Present, Here, Calling
  <2>2. Taken(r)' = Taken(r)
    BY <1>1, TicketsSame
  <2>3. Entered(r)' = Entered(r)
    <3>1. CASE r = 0
      BY <1>1, <1>5, <3>1 DEF Entered
    <3>2. CASE r > 0
      <4>1. r - 1 \in Nat
        BY <3>2
      <4>2. Filled(r - 1)' = Filled(r - 1)
        BY <1>1, <4>1, TicketsSame
      <4> QED
        BY <3>2, <4>2 DEF Entered
    <3> QED
      BY <3>1, <3>2
  <2>4. FlowOK(r)
    BY <1>2
  <2> QED
    BY <2>1, <2>2, <2>3, <2>4 DEF FlowOK
<1> QED
  BY <1>1, <1>2, <1>3, <1>4, <1>5, <1>6 DEF BarrierInv

LEMMA BarrierInit == BA!Init => BarrierInv
<1> SUFFICES ASSUME BA!Init PROVE BarrierInv
  OBVIOUS
<1>1. /\ ba_expected = Expected /\ ba_adjustment = 0 /\ ba_phase = 0
      /\ ba_tickets = [k \in BA!Ticket |-> 0] /\ ba_pc = [t \in Thread |-> "idle"]
      /\ ba_loc = [t \in Thread |-> BA!NoLocals] /\ ba_share = Share
  BY DEF BA!Init
<1>2. Expected \in Nat /\ Expected > 0 /\ Share \in [Thread -> 1 .. Expected] /\ Phases \in Nat /\ Phases > 2
  BY BarrierConstants
<1>3. BA!NoLocals \in ArriveLocals /\ BA!NoLocals.old = 0 /\ BA!NoLocals = [BA!NoLocals EXCEPT !.old = 0]
  BY <1>2 DEF BA!NoLocals, ArriveLocals
<1>4. BarrierTypes
  <2>1. 0 \in -Expected .. 0 /\ Expected \in 0 .. Expected /\ 0 \in 0 .. Phases - 1
    BY <1>2
  <2>2. Share \in [Thread -> 0 .. Expected]
    BY <1>2
  <2>3. ba_tickets \in [BA!Ticket -> 0 .. Phases - 1]
    BY <1>1, <2>1
  <2> QED
    BY <1>1, <1>3, <2>1, <2>2, <2>3 DEF BarrierTypes
<1>5. ASSUME NEW t \in Thread PROVE ~Calling(t) /\ Due(t) = Share[t] /\ ArrivalOK(t)
  <2>1. ~Calling(t) /\ Due(t) = Share[t]
    BY <1>1 DEF Calling, Due
  <2>2. ba_pc[t] = "idle" /\ ba_share[t] > 0 /\ ba_loc[t] = BA!NoLocals
    BY <1>1, <1>2
  <2>3. ArrivalOK(t)
    BY <1>3, <2>1, <2>2 DEF ArrivalOK
  <2> QED
    BY <2>1, <2>3
<1>6. DueOf = Share
  BY <1>2, <1>5 DEF DueOf
<1>7. Cardinality(Units(Share)) = Expected
  BY BarrierConstants
<1>8. /\ HalfPhase # 0 /\ FullPhase # 0
  BY <1>1, <1>4, PhaseFacts
<1>9. ASSUME NEW r \in Nat PROVE FlowOK(r)
  <2>1. SUFFICES ASSUME Reached(r) PROVE Entered(r) = Cardinality(Present(r)) + Cardinality(Taken(r))
    BY DEF FlowOK
  <2>2. Present(r) = {}
    BY <1>5 DEF Present, Here
  <2>3. ASSUME NEW q \in Nat, NEW n \in Nat, n < Expects(q + 1), Expects(q) > 1 PROVE ba_tickets[<<n, q>>] = 0
    <3>1. /\ Expects(q) \in Nat /\ Expects(q) <= Expected /\ q < Expected
          /\ Expects(q + 1) = BA!HalfOf(Expects(q))
      BY <1>4, <2>3, ExpectsFacts
    <3>2. /\ BA!HalfOf(Expects(q)) <= BA!HalfOf(Expected)
          /\ BA!HalfOf(Expected) \in Nat /\ BA!HalfOf(Expects(q)) \in Nat
      BY <1>2, <3>1, HalfFacts
    <3>3. <<n, q>> \in BA!Ticket
      BY <1>2, <2>3, <3>1, <3>2 DEF BA!Ticket
    <3> QED
      BY <1>1, <3>3
  <2>4. Expects(r) \in Nat /\ Expects(r + 1) = (Expects(r) + 1) \div 2
    BY <1>4, ExpectsFacts DEF BA!HalfOf
  <2>5. Taken(r) = {}
    <3>1. ASSUME NEW k \in 0 .. Expects(r) - 1, Expects(r) > 1 PROVE ~IsTaken(k, r)
      <4>1. k \div 2 \in Nat /\ k \div 2 < Expects(r + 1)
        BY <2>4
      <4>2. ba_tickets[<<k \div 2, r>>] = 0
        BY <2>3, <3>1, <4>1
      <4> QED
        BY <1>8, <4>2 DEF IsTaken
    <3> QED
      BY <3>1 DEF Taken
  <2>6. CASE r = 0
    <3>1. Entered(r) = 0
      BY <1>1, <1>2, <1>6, <1>7, <2>6 DEF Entered
    <3> QED
      BY <2>2, <2>5, <3>1, FS_EmptySet
  <2>7. CASE r > 0
    <3>1. r - 1 \in Nat /\ Expects(r - 1) > 1
      BY <2>1, <2>7 DEF Reached
    <3>2. ASSUME NEW n \in 0 .. Expects((r - 1) + 1) - 1 PROVE ba_tickets[<<n, r - 1>>] # FullPhase
      <4>1. Expects((r - 1) + 1) \in Nat
        BY <1>4, <3>1, ExpectsFacts
      <4>2. n \in Nat /\ n < Expects((r - 1) + 1)
        BY <4>1
      <4> QED
        BY <1>8, <2>3, <3>1, <4>2
    <3>3. Filled(r - 1) = {}
      BY <3>2 DEF Filled
    <3> QED
      BY <2>2, <2>5, <2>7, <3>3, FS_EmptySet DEF Entered
  <2> QED
    BY <2>6, <2>7
<1> QED
  BY <1>1, <1>2, <1>4, <1>5, <1>7, <1>9 DEF BarrierInv

LEMMA BarrierAlways == SyncSpec => []BarrierInv
<1>1. SyncInit => BarrierInv
  BY BarrierInit DEF SyncInit
<1>2. ASSUME BarrierInv, [SyncNext]_syncVars PROVE BarrierInv'
  <2>1. CASE BarrierNext
    BY <1>2, <2>1, BarrierStep DEF BarrierNext
  <2>2. CASE ~BarrierNext
    <3>1. UNCHANGED baVars
      BY <1>2, <2>2 DEF SyncNext, syncVars, SharedMutexNext, CallOnceNext, FdeCacheNext,
                        SharedCountNext, FutureNext, Others
    <3> QED
      BY <1>2, <3>1, BarrierFramed
  <2> QED
    BY <2>1, <2>2
<1> QED
  BY <1>1, <1>2, PTL DEF SyncSpec

\* __barrier_base::arrive of the barrier: of the arrivals of a phase exactly the
\* last completes it, when all who take part have arrived or dropped out, and
\* nobody looks for a ticket of a phase that is over, for every number of
\* participants and of arrivals, and however the expected count shrinks.
THEOREM PhasesEndInOrder == SyncSpec => []PhasesAreOrderly
BY BarrierAlways, BarrierSuffices, PTL
=============================================================================
