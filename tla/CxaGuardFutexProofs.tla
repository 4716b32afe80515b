------------------------ MODULE CxaGuardFutexProofs ------------------------
(***************************************************************************)
(* Safety of the futex guards for every number of threads, guards,         *)
(* exceptions and nestings: FutexInv is inductive, and from it the guards  *)
(* implement OnceInit, as those over the global mutex do.                  *)
(***************************************************************************)
EXTENDS CxaGuardFutex, TLAPS, SequenceTheorems

\* A thread's stack grows by the guard it has claimed and moves nothing.
LEMMA Pushed ==
    ASSUME NEW S, NEW s \in Seq(S), NEW x \in S
    PROVE  /\ Append(s, x) \in Seq(S)
           /\ Len(Append(s, x)) = Len(s) + 1
           /\ Append(s, x)[Len(s) + 1] = x
           /\ 1 .. Len(s) + 1 = (1 .. Len(s)) \cup {Len(s) + 1}
           /\ \A i \in 1 .. Len(s) : Append(s, x)[i] = s[i]
  OBVIOUS

\* It loses the innermost guard and moves nothing.
LEMMA Popped ==
    ASSUME NEW S, NEW s \in Seq(S), s # <<>>
    PROVE  /\ SubSeq(s, 1, Len(s) - 1) \in Seq(S)
           /\ Len(SubSeq(s, 1, Len(s) - 1)) = Len(s) - 1
           /\ Len(s) \in 1 .. Len(s) /\ s[Len(s)] \in S
           /\ 1 .. Len(s) = (1 .. Len(s) - 1) \cup {Len(s)}
           /\ Len(s) \notin 1 .. Len(s) - 1
           /\ \A i \in 1 .. Len(s) - 1 : SubSeq(s, 1, Len(s) - 1)[i] = s[i]
<1>1. Len(s) \in Nat \ {0}
  BY EmptySeq
<1> DEFINE n == Len(s) - 1
           r == SubSeq(s, 1, n)
<1>2. n \in Nat /\ Len(s) = n + 1 /\ \A i \in 1 .. n + 1 : s[i] \in S
  BY <1>1, ElementOfSeq
<1> HIDE DEF n
<1>3. r \in Seq(S) /\ Len(r) = (IF 1 <= n THEN n - 1 + 1 ELSE 0)
  BY <1>2, SubSeqProperties
<1>4. \A i \in 1 .. n - 1 + 1 : r[i] = s[1 + i - 1]
  BY <1>2, SubSeqProperties
<1>5. Len(r) = n /\ \A i \in 1 .. n : r[i] = s[i]
  BY <1>2, <1>3, <1>4
<1>6. 1 .. n + 1 = (1 .. n) \cup {n + 1} /\ n + 1 \notin 1 .. n /\ n + 1 \in 1 .. n + 1
  BY <1>2
<1> QED
  BY <1>2, <1>3, <1>5, <1>6 DEF n

\* What the bytes can hold tells the four states of a guard apart.
LEMMA Bits ==
    /\ COMPLETE_BIT # UNSET /\ PENDING_BIT # UNSET /\ WaitingBits # UNSET
    /\ COMPLETE_BIT # PENDING_BIT /\ COMPLETE_BIT # WaitingBits
    /\ PENDING_BIT \subseteq PENDING_BIT /\ PENDING_BIT \subseteq WaitingBits
    /\ ~(PENDING_BIT \subseteq UNSET) /\ ~(PENDING_BIT \subseteq COMPLETE_BIT)
  BY DEF UNSET, COMPLETE_BIT, PENDING_BIT, WAITING_BIT, WaitingBits

-----------------------------------------------------------------------------
\* The initial state satisfies the invariant.
LEMMA InitFutexInv == Init => FutexInv
<1> SUFFICES ASSUME Init PROVE FutexInv
  OBVIOUS
<1> USE CxaGuardFutexAssumption, Bits DEF Init, InAcquire
<1>1. TypeOK
  BY DEF TypeOK
<1>2. CallsAreSound /\ ClaimsAreExclusive /\ NoFalseRecursion
  BY DEF CallsAreSound, ClaimsAreExclusive, NoFalseRecursion
<1>3. PendingMeansOwned
  BY DEF PendingMeansOwned, Owns
<1>4. GuardByteRunsAhead /\ GuardByteRecordsConstruction /\ IdsMatch
  BY DEF GuardByteRunsAhead, GuardByteRecordsConstruction, IdsMatch
<1> QED
  BY <1>1, <1>2, <1>3, <1>4 DEF FutexInv

\* A step that neither claims nor gives back a guard, and after which a thread
\* compares ids only with the owner's, preserves the invariant.
LEMMA QuietStep ==
    ASSUME FutexInv, TypeOK', CallsAreSound', aborted = NoThread,
           UNCHANGED <<guard_byte, thread_id, stack, constructed, aborted>>,
           \A g \in Guard :
               \/ init_byte'[g] = init_byte[g]
               \/ PENDING_BIT \subseteq init_byte[g] /\ PENDING_BIT \subseteq init_byte'[g],
           \A u \in Thread :
               /\ \A l \in {"store_id", "release", "abort"} : pc'[u] = l <=> pc[u] = l
               /\ pc[u] = "store_id" => at'[u] = at[u]
               /\ pc'[u] = "load_id" /\ thread_id[at'[u]] = ThreadId[u] =>
                      \E i \in 1 .. Len(stack[u]) : stack[u][i] = at'[u]
               /\ \A g \in seen'[u] : guard_byte[g] # UNSET
    PROVE  FutexInv'
<1>1. \A u \in Thread, g \in Guard : Owns(u, g)' <=> Owns(u, g)
  BY DEF Owns
<1>2. ClaimsAreExclusive'
  BY DEF FutexInv, ClaimsAreExclusive
<1>3. PendingMeansOwned'
  BY <1>1 DEF FutexInv, PendingMeansOwned
<1>4. GuardByteRunsAhead'
  BY Bits DEF FutexInv, GuardByteRunsAhead
<1>5. GuardByteRecordsConstruction'
  BY DEF FutexInv, GuardByteRecordsConstruction
<1>6. IdsMatch'
  <2>1. \A u \in Thread : pc'[u] = "load_id" /\ thread_id'[at'[u]] = ThreadId[u]
                              => Owns(u, at[u])'
    BY DEF Owns
  <2> QED
    BY <2>1, Bits DEF FutexInv, IdsMatch
<1>7. NoFalseRecursion'
  BY DEF NoFalseRecursion
<1> QED
  BY <1>2, <1>3, <1>4, <1>5, <1>6, <1>7 DEF FutexInv

\* The steps of acquire that only look, and those that wait and wake.
LEMMA QuietActions ==
    ASSUME FutexInv, aborted = NoThread, NEW t \in Thread,
           \/ \E g \in Guard : GuardByteDone(t, g) \/ GuardByteUnset(t, g)
           \/ AcquireDone(t) \/ FindPending(t) \/ SetWaiting(t)
           \/ WaitOnInitialization(t) \/ FutexReturns(t) \/ WakeAll(t)
           \/ CheckRecursion(t) /\ UNCHANGED aborted
    PROVE  FutexInv'
<1> DEFINE Framed == UNCHANGED <<guard_byte, thread_id, stack, constructed, aborted>>
           Quiet(u) ==
               /\ \A l \in {"store_id", "release", "abort"} : pc'[u] = l <=> pc[u] = l
               /\ pc[u] = "store_id" => at'[u] = at[u]
               /\ pc'[u] = "load_id" /\ thread_id[at'[u]] = ThreadId[u] =>
                      \E i \in 1 .. Len(stack[u]) : stack[u][i] = at'[u]
               /\ \A g \in seen'[u] : guard_byte[g] # UNSET
<1>0. ASSUME TypeOK', CallsAreSound', Framed, init_byte' = init_byte,
             \A u \in Thread : Quiet(u)
      PROVE  FutexInv'
  BY <1>0, QuietStep
<1>1. TypeOK /\ CallsAreSound
  BY DEF FutexInv
<1>2. \A u \in Thread :
         /\ \A g \in seen[u] : guard_byte[g] # UNSET
         /\ pc[u] = "load_id" /\ thread_id[at[u]] = ThreadId[u] =>
                \E i \in 1 .. Len(stack[u]) : stack[u][i] = at[u]
  BY DEF FutexInv, GuardByteRecordsConstruction, IdsMatch, Owns
<1>3. \A g \in Guard : init_byte[g] = COMPLETE_BIT => guard_byte[g] # UNSET
  BY DEF FutexInv, GuardByteRunsAhead
<1> USE <1>1 DEF TypeOK, CallsAreSound, InAcquire, Goto
<1>4. ASSUME NEW g \in Guard, GuardByteDone(t, g) PROVE FutexInv'
  <2> USE <1>4 DEF GuardByteDone, ReturnDone
  <2>1. TypeOK' /\ CallsAreSound'
    OBVIOUS
  <2>2. Framed /\ init_byte' = init_byte /\ \A u \in Thread : Quiet(u)
    BY <1>2
  <2> QED
    BY <1>0, <2>1, <2>2
<1>5. ASSUME NEW g \in Guard, GuardByteUnset(t, g) PROVE FutexInv'
  <2> USE <1>5 DEF GuardByteUnset, program
  <2>1. TypeOK' /\ CallsAreSound'
    OBVIOUS
  <2>2. Framed /\ init_byte' = init_byte /\ \A u \in Thread : Quiet(u)
    BY <1>2
  <2> QED
    BY <1>0, <2>1, <2>2
<1>6. ASSUME NEW g \in Guard, at[t] = g, pc[t] \in {"acquire", "set_waiting"},
             init_byte[g] = COMPLETE_BIT, ReturnDone(t, g),
             UNCHANGED <<guard_byte, init_byte, thread_id, stack, constructed, throws,
                         aborted>>
      PROVE  FutexInv'
  <2> USE <1>6 DEF ReturnDone
  <2>1. TypeOK' /\ CallsAreSound'
    OBVIOUS
  <2>2. Framed /\ init_byte' = init_byte /\ \A u \in Thread : Quiet(u)
    BY <1>2, <1>3
  <2> QED
    BY <1>0, <2>1, <2>2
<1>7. ASSUME WaitOnInitialization(t) \/ FutexReturns(t) PROVE FutexInv'
  <2> USE <1>7 DEF WaitOnInitialization, FutexReturns, program
  <2>1. TypeOK' /\ CallsAreSound'
    OBVIOUS
  <2>2. Framed /\ init_byte' = init_byte /\ \A u \in Thread : Quiet(u)
    <3>1. Framed /\ init_byte' = init_byte
      BY <1>2
    <3>2. \A u \in Thread : Quiet(u)
      <4>1. CASE WaitOnInitialization(t)
        BY <1>2, <4>1
      <4>2. CASE FutexReturns(t)
        BY <1>2, <4>2
      <4> QED
        BY <4>1, <4>2
    <3> QED
      BY <3>1, <3>2
  <2> QED
    BY <1>0, <2>1, <2>2
<1>8. ASSUME WakeAll(t) PROVE FutexInv'
  <2> USE <1>8 DEF WakeAll, program
  <2>1. TypeOK' /\ CallsAreSound'
    OBVIOUS
  <2>2. Framed /\ init_byte' = init_byte /\ \A u \in Thread : Quiet(u)
    BY <1>2
  <2> QED
    BY <1>0, <2>1, <2>2
<1>9. ASSUME CheckRecursion(t), UNCHANGED aborted PROVE FutexInv'
  <2> USE <1>9 DEF CheckRecursion
  <2>1. /\ thread_id[at[t]] # ThreadId[t]
        /\ pc' = [pc EXCEPT ![t] = IF WAITING_BIT \subseteq last_val[t] THEN "wait"
                                   ELSE "set_waiting"]
        /\ UNCHANGED <<at, last_val, seen, init_byte>>
    BY CxaGuardFutexAssumption
  <2>2. TypeOK' /\ CallsAreSound'
    BY <2>1
  <2>3. Framed /\ init_byte' = init_byte /\ \A u \in Thread : Quiet(u)
    BY <1>2, <2>1
  <2> QED
    BY <1>0, <2>2, <2>3
<1>10. ASSUME FindPending(t) PROVE FutexInv'
  <2> USE <1>10 DEF FindPending, program
  <2>1. at[t] \in Guard /\ PENDING_BIT \subseteq init_byte[at[t]]
    OBVIOUS
  <2>2. init_byte[at[t]] \in {PENDING_BIT, WaitingBits}
    BY <2>1, Bits
  <2>3. TypeOK' /\ CallsAreSound'
    BY <2>1, <2>2
  <2>4. thread_id[at[t]] = ThreadId[t] =>
            \E i \in 1 .. Len(stack[t]) : stack[t][i] = at[t]
    <3> SUFFICES ASSUME thread_id[at[t]] = ThreadId[t]
                 PROVE  \E i \in 1 .. Len(stack[t]) : stack[t][i] = at[t]
      OBVIOUS
    <3>1. PICK u \in Thread : Owns(u, at[t])
      BY <2>1 DEF FutexInv, PendingMeansOwned
    <3>2. ThreadId[t] # 0 /\ (ThreadId[u] = ThreadId[t] => u = t)
      BY CxaGuardFutexAssumption
    <3> QED
      BY <3>1, <3>2 DEF Owns, FutexInv, IdsMatch
  <2>5. Framed /\ init_byte' = init_byte /\ \A u \in Thread : Quiet(u)
    BY <1>2, <2>4
  <2> QED
    BY <1>0, <2>3, <2>5
<1>11. ASSUME SetWaiting(t) PROVE FutexInv'
  <2>1. at[t] \in Guard /\ PENDING_BIT \subseteq last_val[t]
    BY <1>11 DEF SetWaiting
  <2>2. CASE init_byte[at[t]] = COMPLETE_BIT
    <3>1. COMPLETE_BIT # last_val[t]
      BY <2>1, Bits
    <3>2. ReturnDone(t, at[t]) /\ UNCHANGED init_byte
      BY <1>11, <2>2, <3>1, Bits DEF SetWaiting
    <3> QED
      BY <1>6, <1>11, <2>1, <2>2, <3>2 DEF SetWaiting
  <2>3. CASE init_byte[at[t]] # COMPLETE_BIT
    <3>1. /\ \/ init_byte' = init_byte
             \/ /\ PENDING_BIT \subseteq init_byte[at[t]]
                /\ init_byte' = [init_byte EXCEPT ![at[t]] = WaitingBits]
          /\ pc' = [pc EXCEPT ![t] = pc'[t]]
          /\ pc'[t] \in {"wait", "acquire"}
          /\ pc[t] = "set_waiting"
          /\ UNCHANGED <<guard_byte, thread_id, at, last_val, program>>
      BY <1>11, <2>1, <2>3 DEF SetWaiting, program
    <3>2. TypeOK' /\ CallsAreSound'
      <4>1. init_byte' \in [Guard -> {UNSET, COMPLETE_BIT, PENDING_BIT, WaitingBits}]
        BY <2>1, <3>1
      <4>2. pc' \in [Thread -> InAcquire \cup {"run", "release", "abort", "wake", "ended"}]
        BY <3>1
      <4>3. TypeOK'
        BY <3>1, <4>1, <4>2 DEF program
      <4>4. \A u \in Thread \ {t} : pc'[u] = pc[u]
        BY <3>1
      <4>5. CallsAreSound'
        BY <2>1, <3>1, <4>4 DEF program
      <4> QED
        BY <4>3, <4>5
    <3>3. Framed /\ \A u \in Thread : Quiet(u)
      BY <1>2, <3>1 DEF program
    <3>4. \A g \in Guard :
             \/ init_byte'[g] = init_byte[g]
             \/ PENDING_BIT \subseteq init_byte[g] /\ PENDING_BIT \subseteq init_byte'[g]
      BY <2>1, <3>1, Bits
    <3> HIDE DEF TypeOK, CallsAreSound
    <3> QED
      BY <3>2, <3>3, <3>4, QuietStep
  <2> QED
    BY <2>2, <2>3
<1>12. AcquireDone(t) => FutexInv'
  BY <1>6 DEF AcquireDone
<1> QED
  BY <1>4, <1>5, <1>7, <1>8, <1>9, <1>10, <1>11, <1>12

-----------------------------------------------------------------------------
\* The innermost guard is claimed by its thread and by no other.
LEMMA InnermostOwned ==
    ASSUME TypeOK, ClaimsAreExclusive, NEW t \in Thread, stack[t] # <<>>
    PROVE  /\ Len(stack[t]) \in 1 .. Len(stack[t])
           /\ Innermost(t) \in Guard /\ Innermost(t) = stack[t][Len(stack[t])]
           /\ \A u \in Thread : \A i \in 1 .. Len(stack[u]) :
                 stack[u][i] = Innermost(t) <=> u = t /\ i = Len(stack[t])
           /\ \A u \in Thread : pc[u] = "store_id" => at[u] # Innermost(t)
<1>1. stack[t] \in Seq(Guard)
  BY DEF TypeOK
<1>2. Len(stack[t]) \in 1 .. Len(stack[t]) /\ Innermost(t) \in Guard
  BY <1>1, Popped DEF Innermost
<1> QED
  BY <1>2 DEF ClaimsAreExclusive, Innermost

\* compare_exchange(UNSET, PENDING_BIT) finds a guard that nobody has claimed.
LEMMA ClaimPreserves ==
    ASSUME FutexInv, aborted = NoThread, NEW t \in Thread, ClaimGuard(t)
    PROVE  FutexInv'
<1>1. at[t] \in Guard /\ pc[t] = "acquire" /\ init_byte[at[t]] = UNSET
  BY DEF ClaimGuard, Claimable, FutexInv, CallsAreSound, InAcquire
<1> PICK g \in Guard : g = at[t]
  BY <1>1
<1>2. /\ init_byte' = [init_byte EXCEPT ![g] = PENDING_BIT]
      /\ pc' = [pc EXCEPT ![t] = "store_id"]
      /\ UNCHANGED <<guard_byte, thread_id, at, last_val, stack, constructed, seen,
                     throws, aborted>>
  BY DEF ClaimGuard, Goto, program
<1>3. TypeOK /\ TypeOK'
  BY <1>2 DEF FutexInv, TypeOK, InAcquire
<1>4. init_byte'[g] = PENDING_BIT /\ \A h \in Guard \ {g} : init_byte'[h] = init_byte[h]
  BY <1>2, <1>3 DEF TypeOK
<1>5. pc'[t] = "store_id" /\ \A u \in Thread \ {t} : pc'[u] = pc[u]
  BY <1>2, <1>3 DEF TypeOK
<1>6. /\ \A u \in Thread : ~Owns(u, g)
      /\ guard_byte[g] = UNSET /\ thread_id[g] = 0
  BY <1>1, Bits DEF FutexInv, PendingMeansOwned, GuardByteRunsAhead, IdsMatch
<1>7. \A u \in Thread, h \in Guard : Owns(u, h)' <=> Owns(u, h) \/ (u = t /\ h = g)
  BY <1>1, <1>2, <1>5 DEF Owns
<1>8. CallsAreSound'
  BY <1>1, <1>2, <1>5 DEF FutexInv, CallsAreSound, InAcquire
<1>9. ClaimsAreExclusive'
  BY <1>1, <1>2, <1>5, <1>6 DEF FutexInv, ClaimsAreExclusive, Owns
<1>10. PendingMeansOwned'
  BY <1>4, <1>7, Bits DEF FutexInv, PendingMeansOwned
<1>11. GuardByteRunsAhead'
  BY <1>1, <1>2, <1>4, <1>5, <1>6, Bits DEF FutexInv, GuardByteRunsAhead
<1>12. GuardByteRecordsConstruction'
  BY <1>2 DEF FutexInv, GuardByteRecordsConstruction
<1>13. IdsMatch'
  <2>1. \A u \in Thread : pc'[u] = "load_id" => at[u] \in Guard /\ u # t
    BY <1>2, <1>5, <1>8 DEF CallsAreSound, InAcquire
  <2>2. \A u \in Thread :
           pc'[u] = "load_id" /\ thread_id[at[u]] = ThreadId[u] => Owns(u, at[u])'
    BY <1>2, <1>5, <1>7, <2>1 DEF FutexInv, IdsMatch, Owns
  <2> QED
    BY <1>1, <1>2, <1>4, <1>5, <1>6, <2>2, Bits DEF FutexInv, IdsMatch
<1>14. NoFalseRecursion'
  BY <1>2 DEF NoFalseRecursion
<1> QED
  BY <1>3, <1>8, <1>9, <1>10, <1>11, <1>12, <1>13, <1>14 DEF FutexInv

\* The id is stored while the claim already keeps all others off.
LEMMA StoreIdPreserves ==
    ASSUME FutexInv, aborted = NoThread, NEW t \in Thread, StoreId(t)
    PROVE  FutexInv'
<1> USE CxaGuardFutexAssumption
<1>1. at[t] \in Guard /\ pc[t] = "store_id" /\ stack[t] \in Seq(Guard)
  BY DEF StoreId, FutexInv, CallsAreSound, InAcquire, TypeOK
<1> PICK g \in Guard : g = at[t]
  BY <1>1
<1>2. /\ thread_id' = [thread_id EXCEPT ![g] = ThreadId[t]]
      /\ stack' = [stack EXCEPT ![t] = Append(@, g)]
      /\ at' = [at EXCEPT ![t] = NoGuard]
      /\ last_val' = [last_val EXCEPT ![t] = UNSET]
      /\ pc' = [pc EXCEPT ![t] = "run"]
      /\ UNCHANGED <<guard_byte, init_byte, constructed, seen, throws, aborted>>
  BY DEF StoreId, Goto
<1> DEFINE n == Len(stack[t])
<1>3. /\ stack'[t] \in Seq(Guard) /\ Len(stack'[t]) = n + 1 /\ n \in Nat
      /\ stack'[t][n + 1] = g
      /\ 1 .. n + 1 = (1 .. n) \cup {n + 1} /\ n + 1 \notin 1 .. n
      /\ \A i \in 1 .. n : stack'[t][i] = stack[t][i]
      /\ \A u \in Thread \ {t} : stack'[u] = stack[u]
  BY <1>1, <1>2, Pushed DEF FutexInv, TypeOK
<1>4. TypeOK /\ TypeOK'
  <2>1. stack' \in [Thread -> Seq(Guard)]
    BY <1>2, <1>3 DEF FutexInv, TypeOK
  <2> QED
    BY <1>2, <2>1 DEF FutexInv, TypeOK, InAcquire
<1>5. /\ pc'[t] = "run" /\ \A u \in Thread \ {t} : pc'[u] = pc[u] /\ at'[u] = at[u] /\ last_val'[u] = last_val[u]
      /\ thread_id'[g] = ThreadId[t] /\ \A h \in Guard \ {g} : thread_id'[h] = thread_id[h]
  BY <1>2, <1>4 DEF TypeOK
<1>6. /\ \A u \in Thread : \A i \in 1 .. Len(stack[u]) : stack[u][i] # g
      /\ \A u \in Thread \ {t} : pc[u] = "store_id" => at[u] # g
      /\ guard_byte[g] = UNSET /\ init_byte[g] # UNSET
  <2>1. PENDING_BIT \subseteq init_byte[g]
    BY <1>1 DEF FutexInv, PendingMeansOwned, Owns
  <2> QED
    BY <1>1, <2>1, Bits DEF FutexInv, ClaimsAreExclusive, GuardByteRunsAhead
<1>7. \A u \in Thread, h \in Guard : Owns(u, h)' <=> Owns(u, h)
  <2>1. \A u \in Thread \ {t}, h \in Guard : Owns(u, h)' <=> Owns(u, h)
    BY <1>3, <1>5 DEF Owns
  <2>2. ASSUME NEW h \in Guard PROVE Owns(t, h)' <=> Owns(t, h)
    <3>1. CASE h = g
      BY <1>1, <1>3, <1>5, <3>1 DEF Owns
    <3>2. CASE h # g
      BY <1>1, <1>3, <1>5, <3>2 DEF Owns
    <3> QED
      BY <3>1, <3>2
  <2> QED
    BY <2>1, <2>2
<1>8. CallsAreSound'
  BY <1>3, <1>5 DEF FutexInv, CallsAreSound, InAcquire
<1>15. \A u \in Thread \ {t} : stack'[u] = stack[u]
  BY <1>3
<1>16. \A i \in 1 .. Len(stack'[t]) :
          \/ i = n + 1 /\ stack'[t][i] = g
          \/ i \in 1 .. Len(stack[t]) /\ stack'[t][i] = stack[t][i]
  BY <1>3
<1> HIDE DEF n
<1>9. ClaimsAreExclusive'
  <2>1. \A u \in Thread : \A i \in 1 .. Len(stack'[u]) :
           \/ u = t /\ i = n + 1 /\ stack'[u][i] = g
           \/ i \in 1 .. Len(stack[u]) /\ stack'[u][i] = stack[u][i] /\ stack[u][i] # g
    BY <1>6, <1>15, <1>16
  <2>2. \A u, w \in Thread : \A i \in 1 .. Len(stack'[u]), j \in 1 .. Len(stack'[w]) :
           stack'[u][i] = stack'[w][j] => u = w /\ i = j
    BY <2>1 DEF FutexInv, ClaimsAreExclusive
  <2>3. \A u, w \in Thread :
           pc'[u] = "store_id" => \A j \in 1 .. Len(stack'[w]) : stack'[w][j] # at'[u]
    BY <1>5, <1>6, <2>1 DEF FutexInv, ClaimsAreExclusive
  <2>4. \A u, w \in Thread :
           pc'[u] = "store_id" /\ pc'[w] = "store_id" /\ at'[u] = at'[w] => u = w
    BY <1>5 DEF FutexInv, ClaimsAreExclusive
  <2> QED
    BY <2>2, <2>3, <2>4 DEF ClaimsAreExclusive
<1>10. PendingMeansOwned'
  BY <1>2, <1>7 DEF FutexInv, PendingMeansOwned
<1>11. GuardByteRunsAhead'
  <2>1. ASSUME NEW u \in Thread \ {t}
        PROVE  \A i \in 1 .. Len(stack'[u]) :
           guard_byte[stack'[u][i]] # UNSET <=> i = Len(stack'[u]) /\ pc'[u] = "release"
    BY <1>5, <1>15 DEF FutexInv, GuardByteRunsAhead
  <2>2. \A i \in 1 .. Len(stack'[t]) : guard_byte[stack'[t][i]] = UNSET
    <3>1. \A i \in 1 .. Len(stack[t]) : guard_byte[stack[t][i]] = UNSET
      BY <1>1 DEF FutexInv, GuardByteRunsAhead
    <3> QED
      BY <1>6, <1>16, <3>1
  <2> QED
    BY <1>2, <1>5, <2>1, <2>2 DEF FutexInv, GuardByteRunsAhead
<1>12. GuardByteRecordsConstruction'
  BY <1>2 DEF FutexInv, GuardByteRecordsConstruction
<1>13. IdsMatch'
  <2>0. \A u \in Thread : \A i \in 1 .. Len(stack[u]) : stack[u][i] \in Guard \ {g}
    <3>1. \A u \in Thread : stack[u] \in Seq(Guard)
      BY <1>4 DEF TypeOK
    <3> QED
      BY <1>6, <3>1, ElementOfSeq
  <2>1. \A h \in Guard : init_byte'[h] = UNSET => thread_id'[h] = 0
    BY <1>2, <1>5, <1>6 DEF FutexInv, IdsMatch
  <2>2. \A u \in Thread : pc'[u] = "store_id" => thread_id'[at'[u]] = 0
    BY <1>5, <1>6 DEF FutexInv, IdsMatch, CallsAreSound, InAcquire
  <2>3. ASSUME NEW u \in Thread \ {t}, NEW i \in 1 .. Len(stack'[u])
        PROVE  thread_id'[stack'[u][i]] = IF i = Len(stack'[u]) /\ pc'[u] = "abort"
                                          THEN 0 ELSE ThreadId[u]
    <3>1. thread_id'[stack[u][i]] = thread_id[stack[u][i]]
      BY <1>5, <1>15, <2>0
    <3> QED
      BY <1>5, <1>15, <3>1 DEF FutexInv, IdsMatch
  <2>4. \A i \in 1 .. Len(stack'[t]) : thread_id'[stack'[t][i]] = ThreadId[t]
    <3>1. \A i \in 1 .. Len(stack[t]) : thread_id[stack[t][i]] = ThreadId[t]
      BY <1>1 DEF FutexInv, IdsMatch
    <3>2. \A i \in 1 .. Len(stack[t]) : thread_id'[stack[t][i]] = thread_id[stack[t][i]]
      BY <1>5, <2>0
    <3> QED
      BY <1>5, <1>16, <3>1, <3>2
  <2>5. \A u \in Thread :
           pc'[u] = "load_id" /\ thread_id'[at'[u]] = ThreadId[u] => Owns(u, at[u])'
    <3> SUFFICES ASSUME NEW u \in Thread, pc'[u] = "load_id", thread_id'[at'[u]] = ThreadId[u]
                 PROVE  Owns(u, at[u])'
      OBVIOUS
    <3>1. u # t /\ pc[u] = "load_id" /\ at'[u] = at[u] /\ at[u] \in Guard
      BY <1>5 DEF FutexInv, CallsAreSound, InAcquire
    <3>2. at[u] # g
      BY <1>5, <3>1
    <3>3. Owns(u, at[u])
      BY <1>5, <3>1, <3>2 DEF FutexInv, IdsMatch
    <3> QED
      BY <1>5, <1>15, <3>1, <3>3 DEF Owns
  <2> QED
    BY <1>5, <2>1, <2>2, <2>3, <2>4, <2>5 DEF IdsMatch
<1>14. NoFalseRecursion'
  BY <1>2 DEF NoFalseRecursion
<1> QED
  BY <1>4, <1>8, <1>9, <1>10, <1>11, <1>12, <1>13, <1>14 DEF FutexInv

\* release stores the guard byte of a guard that only its owner can change.
LEMMA ReleasePreserves ==
    ASSUME FutexInv, aborted = NoThread, NEW t \in Thread, GuardByteRelease(t)
    PROVE  FutexInv'
<1>1. pc[t] = "run" /\ stack[t] # <<>> /\ TypeOK
  BY DEF GuardByteRelease, FutexInv
<1>2. /\ Len(stack[t]) \in 1 .. Len(stack[t])
      /\ Innermost(t) \in Guard /\ Innermost(t) = stack[t][Len(stack[t])]
      /\ \A u \in Thread : \A i \in 1 .. Len(stack[u]) :
            stack[u][i] = Innermost(t) <=> u = t /\ i = Len(stack[t])
      /\ \A u \in Thread : pc[u] = "store_id" => at[u] # Innermost(t)
  BY <1>1, InnermostOwned DEF FutexInv
<1> PICK g \in Guard : g = Innermost(t)
  BY <1>2
<1>3. /\ constructed' = [constructed EXCEPT ![g] = @ + 1]
      /\ guard_byte' = [guard_byte EXCEPT ![g] = COMPLETE_BIT]
      /\ pc' = [pc EXCEPT ![t] = "release"]
      /\ UNCHANGED <<init_byte, thread_id, at, last_val, stack, seen, throws, aborted>>
  BY DEF GuardByteRelease, Goto
<1>4. TypeOK'
  BY <1>1, <1>3 DEF TypeOK
<1>5. /\ pc'[t] = "release" /\ \A u \in Thread \ {t} : pc'[u] = pc[u]
      /\ guard_byte'[g] = COMPLETE_BIT /\ constructed'[g] = constructed[g] + 1
      /\ \A h \in Guard \ {g} : guard_byte'[h] = guard_byte[h] /\ constructed'[h] = constructed[h]
  BY <1>1, <1>3 DEF TypeOK
<1>6. guard_byte[g] = UNSET /\ init_byte[g] # UNSET
  <2>1. PENDING_BIT \subseteq init_byte[g]
    BY <1>2 DEF FutexInv, PendingMeansOwned, Owns
  <2> QED
    BY <1>1, <1>2, <2>1, Bits DEF FutexInv, GuardByteRunsAhead
<1>7. \A u \in Thread, h \in Guard : Owns(u, h)' <=> Owns(u, h)
  BY <1>1, <1>3, <1>5 DEF Owns
<1>8. CallsAreSound'
  BY <1>1, <1>3, <1>5 DEF FutexInv, CallsAreSound, InAcquire
<1>9. ClaimsAreExclusive'
  BY <1>3, <1>5 DEF FutexInv, ClaimsAreExclusive
<1>10. PendingMeansOwned'
  BY <1>3, <1>7 DEF FutexInv, PendingMeansOwned
<1>11. GuardByteRunsAhead'
  <2>1. \A h \in Guard : /\ guard_byte'[h] # UNSET => init_byte'[h] # UNSET
                         /\ init_byte'[h] = COMPLETE_BIT => guard_byte'[h] # UNSET
    BY <1>3, <1>5, <1>6, Bits DEF FutexInv, GuardByteRunsAhead
  <2>2. \A u \in Thread : pc'[u] = "store_id" => guard_byte'[at'[u]] = UNSET
    <3>1. \A u \in Thread : pc'[u] = "store_id" => pc[u] = "store_id" /\ at[u] \in Guard \ {g}
      BY <1>2, <1>5 DEF FutexInv, CallsAreSound, InAcquire
    <3> QED
      BY <1>3, <1>5, <3>1 DEF FutexInv, GuardByteRunsAhead
  <2>3. ASSUME NEW u \in Thread, NEW i \in 1 .. Len(stack[u])
        PROVE  guard_byte'[stack[u][i]] # UNSET <=> i = Len(stack[u]) /\ pc'[u] = "release"
    <3>1. stack[u][i] \in Guard
      BY <1>1, ElementOfSeq DEF TypeOK
    <3>2. CASE stack[u][i] = g
      BY <1>2, <1>5, <3>2, Bits
    <3>3. CASE stack[u][i] # g
      BY <1>1, <1>2, <1>5, <3>1, <3>3 DEF FutexInv, GuardByteRunsAhead
    <3> QED
      BY <3>2, <3>3
  <2> QED
    BY <1>3, <2>1, <2>2, <2>3 DEF GuardByteRunsAhead
<1>12. GuardByteRecordsConstruction'
  <2>1. constructed'[g] = 1 /\ guard_byte'[g] # UNSET
    BY <1>5, <1>6, Bits DEF FutexInv, GuardByteRecordsConstruction
  <2>2. \A h \in Guard : constructed'[h] = IF guard_byte'[h] = UNSET THEN 0 ELSE 1
    BY <1>5, <2>1 DEF FutexInv, GuardByteRecordsConstruction
  <2>3. \A u \in Thread : \A h \in seen[u] : guard_byte'[h] # UNSET
    BY <1>1, <1>5, <2>1 DEF FutexInv, GuardByteRecordsConstruction, TypeOK
  <2> QED
    BY <1>3, <2>2, <2>3 DEF GuardByteRecordsConstruction
<1>13. IdsMatch'
  <2>1. \A u \in Thread :
           pc'[u] = "load_id" /\ thread_id'[at'[u]] = ThreadId[u] => Owns(u, at[u])'
    <3>1. \A u \in Thread : pc'[u] = "load_id" => at[u] \in Guard /\ u # t
      BY <1>3, <1>5, <1>8 DEF CallsAreSound, InAcquire
    <3> QED
      BY <1>3, <1>5, <3>1 DEF FutexInv, IdsMatch, Owns
  <2>2. ASSUME NEW u \in Thread, NEW i \in 1 .. Len(stack[u])
        PROVE  thread_id[stack[u][i]] = IF i = Len(stack[u]) /\ pc'[u] = "abort"
                                        THEN 0 ELSE ThreadId[u]
    BY <1>1, <1>5 DEF FutexInv, IdsMatch
  <2>3. \A u \in Thread : pc'[u] = "store_id" => thread_id'[at'[u]] = 0
    BY <1>3, <1>5 DEF FutexInv, IdsMatch
  <2>4. \A h \in Guard : init_byte'[h] = UNSET => thread_id'[h] = 0
    BY <1>3 DEF FutexInv, IdsMatch
  <2>5. stack' = stack /\ thread_id' = thread_id
    BY <1>3
  <2> QED
    BY <2>1, <2>2, <2>3, <2>4, <2>5 DEF IdsMatch
<1>14. NoFalseRecursion'
  BY <1>3 DEF NoFalseRecursion
<1> QED
  BY <1>4, <1>8, <1>9, <1>10, <1>11, <1>12, <1>13, <1>14 DEF FutexInv

\* abort clears the id first; nobody can mistake the owner meanwhile.
LEMMA ClearPreserves ==
    ASSUME FutexInv, aborted = NoThread, NEW t \in Thread, AbortClearsId(t)
    PROVE  FutexInv'
<1> USE CxaGuardFutexAssumption
<1>1. pc[t] = "run" /\ stack[t] # <<>> /\ TypeOK
  BY DEF AbortClearsId, FutexInv
<1>2. /\ Len(stack[t]) \in 1 .. Len(stack[t])
      /\ Innermost(t) \in Guard /\ Innermost(t) = stack[t][Len(stack[t])]
      /\ \A u \in Thread : \A i \in 1 .. Len(stack[u]) :
            stack[u][i] = Innermost(t) <=> u = t /\ i = Len(stack[t])
      /\ \A u \in Thread : pc[u] = "store_id" => at[u] # Innermost(t)
  BY <1>1, InnermostOwned DEF FutexInv
<1> PICK g \in Guard : g = Innermost(t)
  BY <1>2
<1>3. /\ throws' = throws + 1
      /\ thread_id' = [thread_id EXCEPT ![g] = 0]
      /\ pc' = [pc EXCEPT ![t] = "abort"]
      /\ UNCHANGED <<guard_byte, init_byte, at, last_val, stack, constructed, seen, aborted>>
  BY DEF AbortClearsId, ClearId, Goto
<1>4. TypeOK'
  BY <1>1, <1>3 DEF TypeOK
<1>5. /\ pc'[t] = "abort" /\ \A u \in Thread \ {t} : pc'[u] = pc[u]
      /\ thread_id'[g] = 0
      /\ \A h \in Guard \ {g} : thread_id'[h] = thread_id[h]
  BY <1>1, <1>3 DEF TypeOK
<1>7. \A u \in Thread, h \in Guard : Owns(u, h)' <=> Owns(u, h)
  BY <1>1, <1>3, <1>5 DEF Owns
<1>8. CallsAreSound'
  BY <1>1, <1>3, <1>5 DEF FutexInv, CallsAreSound, InAcquire
<1>9. ClaimsAreExclusive'
  BY <1>3, <1>5 DEF FutexInv, ClaimsAreExclusive
<1>10. PendingMeansOwned'
  BY <1>3, <1>7 DEF FutexInv, PendingMeansOwned
<1>11. GuardByteRunsAhead'
  <2>1. ASSUME NEW u \in Thread, NEW i \in 1 .. Len(stack[u])
        PROVE  guard_byte[stack[u][i]] # UNSET <=> i = Len(stack[u]) /\ pc'[u] = "release"
    BY <1>1, <1>5 DEF FutexInv, GuardByteRunsAhead
  <2>2. \A u \in Thread : pc'[u] = "store_id" => guard_byte'[at'[u]] = UNSET
    BY <1>3, <1>5 DEF FutexInv, GuardByteRunsAhead
  <2> QED
    BY <1>3, <2>1, <2>2 DEF FutexInv, GuardByteRunsAhead
<1>12. GuardByteRecordsConstruction'
  BY <1>3 DEF FutexInv, GuardByteRecordsConstruction
<1>13. IdsMatch'
  <2>1. \A u \in Thread :
           pc'[u] = "load_id" /\ thread_id'[at'[u]] = ThreadId[u] => Owns(u, at[u])'
    <3> SUFFICES ASSUME NEW u \in Thread, pc'[u] = "load_id", thread_id'[at'[u]] = ThreadId[u]
                 PROVE  Owns(u, at[u])'
      OBVIOUS
    <3>1. u # t /\ pc[u] = "load_id" /\ at'[u] = at[u] /\ at[u] \in Guard
      BY <1>3, <1>5 DEF FutexInv, CallsAreSound, InAcquire
    <3>2. at[u] # g
      BY <1>5, <3>1
    <3>3. Owns(u, at[u])
      BY <1>5, <3>1, <3>2 DEF FutexInv, IdsMatch
    <3> QED
      BY <1>3, <1>5, <3>1, <3>3 DEF Owns
  <2>2. ASSUME NEW u \in Thread, NEW i \in 1 .. Len(stack[u])
        PROVE  thread_id'[stack[u][i]] = IF i = Len(stack[u]) /\ pc'[u] = "abort"
                                         THEN 0 ELSE ThreadId[u]
    <3>1. stack[u][i] \in Guard
      BY <1>1, ElementOfSeq DEF TypeOK
    <3>2. CASE stack[u][i] = g
      BY <1>2, <1>5, <3>2
    <3>3. CASE stack[u][i] # g
      BY <1>1, <1>2, <1>5, <3>1, <3>3 DEF FutexInv, IdsMatch
    <3> QED
      BY <3>2, <3>3
  <2>3. \A u \in Thread : pc'[u] = "store_id" => thread_id'[at'[u]] = 0
    <3>1. \A u \in Thread : pc'[u] = "store_id" => pc[u] = "store_id" /\ at[u] \in Guard \ {g}
      BY <1>2, <1>5 DEF FutexInv, CallsAreSound, InAcquire
    <3> QED
      BY <1>3, <1>5, <3>1 DEF FutexInv, IdsMatch
  <2>4. \A h \in Guard : init_byte'[h] = UNSET => thread_id'[h] = 0
    BY <1>3, <1>5 DEF FutexInv, IdsMatch
  <2>5. stack' = stack
    BY <1>3
  <2> QED
    BY <2>1, <2>2, <2>3, <2>4, <2>5 DEF IdsMatch
<1>14. NoFalseRecursion'
  BY <1>3 DEF NoFalseRecursion
<1> QED
  BY <1>4, <1>8, <1>9, <1>10, <1>11, <1>12, <1>13, <1>14 DEF FutexInv

\* The exchange gives the innermost guard back and takes it off the stack.
LEMMA ExchangeStack ==
    ASSUME TypeOK, CallsAreSound, ClaimsAreExclusive, NEW t \in Thread,
           ExchangeInitByte(t)
    PROVE  /\ stack' \in [Thread -> Seq(Guard)]
           /\ Innermost(t) \in Guard /\ Owns(t, Innermost(t))
           /\ \A u \in Thread : \A i \in 1 .. Len(stack'[u]) :
                 /\ i \in 1 .. Len(stack[u]) /\ stack'[u][i] = stack[u][i]
                 /\ stack[u][i] # Innermost(t)
                 /\ i = Len(stack[u]) => u # t
                 /\ i = Len(stack'[u]) /\ u # t => i = Len(stack[u])
           /\ \A u \in Thread, h \in Guard :
                 Owns(u, h)' <=> Owns(u, h) /\ h # Innermost(t)
<1>1. pc[t] \in {"release", "abort"} /\ stack[t] # <<>> /\ stack[t] \in Seq(Guard)
  BY DEF ExchangeInitByte, CallsAreSound, TypeOK
<1>2. /\ Len(stack[t]) \in 1 .. Len(stack[t])
      /\ Innermost(t) \in Guard /\ Innermost(t) = stack[t][Len(stack[t])]
      /\ \A u \in Thread : \A i \in 1 .. Len(stack[u]) :
            stack[u][i] = Innermost(t) <=> u = t /\ i = Len(stack[t])
      /\ \A u \in Thread : pc[u] = "store_id" => at[u] # Innermost(t)
  BY <1>1, InnermostOwned
<1> PICK g \in Guard : g = Innermost(t)
  BY <1>2
<1>3. /\ stack'[t] = SubSeq(stack[t], 1, Len(stack[t]) - 1)
      /\ stack' = [stack EXCEPT ![t] = SubSeq(@, 1, Len(@) - 1)]
      /\ \A u \in Thread \ {t} : stack'[u] = stack[u]
  BY DEF ExchangeInitByte, TypeOK
<1>4. /\ stack'[t] \in Seq(Guard) /\ Len(stack'[t]) = Len(stack[t]) - 1
      /\ 1 .. Len(stack[t]) = (1 .. Len(stack'[t])) \cup {Len(stack[t])}
      /\ Len(stack[t]) \notin 1 .. Len(stack'[t])
      /\ \A i \in 1 .. Len(stack'[t]) : stack'[t][i] = stack[t][i]
  BY <1>1, <1>3, Popped
<1>5. stack' \in [Thread -> Seq(Guard)]
  BY <1>3, <1>4 DEF TypeOK
<1>6. ASSUME NEW u \in Thread, NEW i \in 1 .. Len(stack'[u])
      PROVE  /\ i \in 1 .. Len(stack[u]) /\ stack'[u][i] = stack[u][i]
             /\ stack[u][i] # g
             /\ i = Len(stack[u]) => u # t
             /\ i = Len(stack'[u]) /\ u # t => i = Len(stack[u])
  <2>1. CASE u = t
    BY <1>2, <1>4, <1>6, <2>1
  <2>2. CASE u # t
    BY <1>2, <1>3, <1>6, <2>2
  <2> QED
    BY <2>1, <2>2
<1>7. \A u \in Thread \ {t} : pc'[u] = pc[u] /\ at'[u] = at[u]
  BY DEF ExchangeInitByte, TypeOK, Goto
<1>8. pc'[t] \in {"wake", "ended"} /\ pc[t] # "store_id"
  BY <1>1 DEF ExchangeInitByte, TypeOK, Goto
<1>9. \A u \in Thread \ {t}, h \in Guard : Owns(u, h)' <=> Owns(u, h) /\ h # g
  BY <1>2, <1>3, <1>7 DEF Owns
<1>10. \A h \in Guard : Owns(t, h)' <=> Owns(t, h) /\ h # g
  BY <1>2, <1>4, <1>8 DEF Owns
<1>11. Owns(t, g)
  BY <1>2 DEF Owns
<1> QED
  BY <1>5, <1>6, <1>9, <1>10, <1>11

\* init_byte.exchange comes last, when the id and the guard byte are as the next
\* owner, or everybody after completion, has to find them.
LEMMA ExchangePreserves ==
    ASSUME FutexInv, aborted = NoThread, NEW t \in Thread, ExchangeInitByte(t)
    PROVE  FutexInv'
<1> USE CxaGuardFutexAssumption
<1>1. /\ pc[t] \in {"release", "abort"} /\ stack[t] # <<>>
      /\ TypeOK /\ CallsAreSound /\ ClaimsAreExclusive
  BY DEF ExchangeInitByte, FutexInv, CallsAreSound
<1>2. /\ Len(stack[t]) \in 1 .. Len(stack[t])
      /\ Innermost(t) \in Guard /\ Innermost(t) = stack[t][Len(stack[t])]
      /\ \A u \in Thread : pc[u] = "store_id" => at[u] # Innermost(t)
  BY <1>1, InnermostOwned
<1> PICK g \in Guard : g = Innermost(t)
  BY <1>2
<1>3. /\ stack' \in [Thread -> Seq(Guard)]
      /\ \A u \in Thread : \A i \in 1 .. Len(stack'[u]) :
            /\ i \in 1 .. Len(stack[u]) /\ stack'[u][i] = stack[u][i]
            /\ stack[u][i] # g
            /\ i = Len(stack[u]) => u # t
            /\ i = Len(stack'[u]) /\ u # t => i = Len(stack[u])
      /\ \A u \in Thread, h \in Guard : Owns(u, h)' <=> Owns(u, h) /\ h # g
  BY <1>1, ExchangeStack
<1> DEFINE b == IF pc[t] = "release" THEN COMPLETE_BIT ELSE UNSET
           l == IF WAITING_BIT \subseteq init_byte[g] THEN "wake" ELSE "ended"
<1>4. /\ init_byte' = [init_byte EXCEPT ![g] = b]
      /\ at' = [at EXCEPT ![t] = g]
      /\ pc' = [pc EXCEPT ![t] = l]
      /\ UNCHANGED <<guard_byte, thread_id, last_val, constructed, seen, throws, aborted>>
  BY DEF ExchangeInitByte, Goto
<1>5. b \in {COMPLETE_BIT, UNSET} /\ l \in {"wake", "ended"}
  OBVIOUS
<1>6. /\ guard_byte[g] # UNSET <=> pc[t] = "release"
      /\ thread_id[g] = IF pc[t] = "abort" THEN 0 ELSE ThreadId[t]
  BY <1>2 DEF FutexInv, GuardByteRunsAhead, IdsMatch
<1>7. (b = COMPLETE_BIT <=> pc[t] = "release") /\ (b = UNSET <=> pc[t] = "abort")
  BY <1>1, Bits
<1> HIDE DEF b, l
<1>8. TypeOK'
  BY <1>1, <1>3, <1>4, <1>5 DEF TypeOK, InAcquire
<1>9. /\ init_byte'[g] = b /\ \A h \in Guard \ {g} : init_byte'[h] = init_byte[h]
      /\ pc'[t] = l /\ \A u \in Thread \ {t} : pc'[u] = pc[u] /\ at'[u] = at[u]
  BY <1>1, <1>4 DEF TypeOK
<1>10. \A u \in Thread :
          /\ pc'[u] \in InAcquire \cup {"release", "abort"} => u # t /\ pc[u] = pc'[u]
          /\ pc'[u] \in InAcquire => at'[u] = at[u] /\ at[u] \in Guard
  BY <1>1, <1>5, <1>9 DEF CallsAreSound, InAcquire
<1>11. CallsAreSound'
  <2>1. \A u \in Thread \ {t} : stack'[u] = stack[u]
    BY <1>1 DEF ExchangeInitByte, TypeOK
  <2> QED
    BY <1>1, <1>4, <1>10, <2>1 DEF CallsAreSound, InAcquire
<1>12. ClaimsAreExclusive'
  <2>1. \A u, w \in Thread : \A i \in 1 .. Len(stack'[u]), j \in 1 .. Len(stack'[w]) :
           stack'[u][i] = stack'[w][j] => u = w /\ i = j
    BY <1>1, <1>3 DEF ClaimsAreExclusive
  <2>2. \A u, w \in Thread :
           pc'[u] = "store_id" => \A j \in 1 .. Len(stack'[w]) : stack'[w][j] # at'[u]
    <3>1. \A u \in Thread : pc'[u] = "store_id" => pc[u] = "store_id" /\ at'[u] = at[u]
      BY <1>10 DEF InAcquire
    <3> QED
      BY <1>1, <1>3, <3>1 DEF ClaimsAreExclusive
  <2>3. \A u, w \in Thread :
           pc'[u] = "store_id" /\ pc'[w] = "store_id" /\ at'[u] = at'[w] => u = w
    BY <1>1, <1>10 DEF ClaimsAreExclusive, InAcquire
  <2> QED
    BY <2>1, <2>2, <2>3 DEF ClaimsAreExclusive
<1>13. PendingMeansOwned'
  <2>1. ~(PENDING_BIT \subseteq init_byte'[g]) /\ \A u \in Thread : ~Owns(u, g)'
    BY <1>3, <1>5, <1>9, Bits
  <2>2. \A h \in Guard \ {g} :
           PENDING_BIT \subseteq init_byte'[h] <=> \E u \in Thread : Owns(u, h)'
    BY <1>3, <1>9 DEF FutexInv, PendingMeansOwned
  <2> QED
    BY <2>1, <2>2 DEF PendingMeansOwned
<1>14. GuardByteRunsAhead'
  <2>1. \A h \in Guard : /\ guard_byte'[h] # UNSET => init_byte'[h] # UNSET
                         /\ init_byte'[h] = COMPLETE_BIT => guard_byte'[h] # UNSET
    BY <1>1, <1>4, <1>6, <1>7, <1>9, Bits DEF FutexInv, GuardByteRunsAhead
  <2>2. \A u \in Thread : pc'[u] = "store_id" => guard_byte'[at'[u]] = UNSET
    BY <1>4, <1>10 DEF FutexInv, GuardByteRunsAhead, InAcquire
  <2>3. ASSUME NEW u \in Thread, NEW i \in 1 .. Len(stack'[u])
        PROVE  guard_byte'[stack'[u][i]] # UNSET <=> i = Len(stack'[u]) /\ pc'[u] = "release"
    <3>1. guard_byte[stack[u][i]] # UNSET <=> i = Len(stack[u]) /\ pc[u] = "release"
      BY <1>3, <2>3 DEF FutexInv, GuardByteRunsAhead
    <3>2. CASE u = t
      BY <1>3, <1>4, <1>5, <1>9, <2>3, <3>1, <3>2
    <3>3. CASE u # t
      <4>1. stack'[u] = stack[u]
        BY <1>1, <3>3 DEF ExchangeInitByte, TypeOK
      <4> QED
        BY <1>4, <1>9, <3>1, <3>3, <4>1
    <3> QED
      BY <3>2, <3>3
  <2> QED
    BY <2>1, <2>2, <2>3 DEF GuardByteRunsAhead
<1>15. GuardByteRecordsConstruction'
  BY <1>4 DEF FutexInv, GuardByteRecordsConstruction
<1>16. IdsMatch'
  <2>1. \A u \in Thread :
           pc'[u] = "load_id" /\ thread_id'[at'[u]] = ThreadId[u] => Owns(u, at[u])'
    <3> SUFFICES ASSUME NEW u \in Thread, pc'[u] = "load_id", thread_id'[at'[u]] = ThreadId[u]
                 PROVE  Owns(u, at[u])'
      OBVIOUS
    <3>1. u # t /\ pc[u] = "load_id" /\ at'[u] = at[u] /\ at[u] \in Guard
      BY <1>10 DEF InAcquire
    <3>2. thread_id[at[u]] = ThreadId[u] /\ at[u] # g
      BY <1>4, <1>6, <3>1
    <3>3. Owns(u, at[u])
      BY <3>1, <3>2 DEF FutexInv, IdsMatch
    <3>4. stack'[u] = stack[u]
      BY <1>1, <3>1 DEF ExchangeInitByte, TypeOK
    <3> QED
      BY <3>1, <3>3, <3>4 DEF Owns
  <2>2. ASSUME NEW u \in Thread, NEW i \in 1 .. Len(stack'[u])
        PROVE  thread_id'[stack'[u][i]] = IF i = Len(stack'[u]) /\ pc'[u] = "abort"
                                          THEN 0 ELSE ThreadId[u]
    <3>1. thread_id[stack[u][i]] = IF i = Len(stack[u]) /\ pc[u] = "abort"
                                   THEN 0 ELSE ThreadId[u]
      BY <1>3, <2>2 DEF FutexInv, IdsMatch
    <3>2. CASE u = t
      <4>1. thread_id' = thread_id /\ pc'[t] # "abort"
        BY <1>4, <1>5, <1>9
      <4>2. stack'[t][i] = stack[t][i] /\ i # Len(stack[t])
        BY <1>3, <2>2, <3>2
      <4> QED
        BY <3>1, <3>2, <4>1, <4>2
    <3>3. CASE u # t
      <4>1. stack'[u] = stack[u]
        BY <1>1, <3>3 DEF ExchangeInitByte, TypeOK
      <4> QED
        BY <1>4, <1>9, <3>1, <3>3, <4>1
    <3> QED
      BY <3>2, <3>3
  <2>3. \A u \in Thread : pc'[u] = "store_id" => thread_id'[at'[u]] = 0
    BY <1>4, <1>10 DEF FutexInv, IdsMatch, InAcquire
  <2>4. \A h \in Guard : init_byte'[h] = UNSET => thread_id'[h] = 0
    <3>1. b = UNSET => thread_id[g] = 0
      BY <1>6, <1>7
    <3> QED
      BY <1>4, <1>9, <3>1 DEF FutexInv, IdsMatch
  <2> QED
    BY <2>1, <2>2, <2>3, <2>4 DEF IdsMatch
<1>17. NoFalseRecursion'
  BY <1>4 DEF NoFalseRecursion
<1> QED
  BY <1>8, <1>11, <1>12, <1>13, <1>14, <1>15, <1>16, <1>17 DEF FutexInv

\* Recursion is reported on the strength of a matching id, which only the owner
\* finds.
LEMMA RecursionPreserves ==
    ASSUME FutexInv, aborted = NoThread, NEW t \in Thread, CheckRecursion(t),
           aborted' # aborted
    PROVE  FutexInv'
<1>1. /\ thread_id[at[t]] = ThreadId[t] /\ pc[t] = "load_id" /\ aborted' = t
      /\ UNCHANGED <<pc, guard_byte, init_byte, thread_id, at, last_val, stack,
                     constructed, seen, throws>>
  BY DEF CheckRecursion
<1>2. TypeOK' /\ CallsAreSound' /\ ClaimsAreExclusive'
  BY <1>1 DEF FutexInv, TypeOK, CallsAreSound, ClaimsAreExclusive
<1>3. PendingMeansOwned' /\ IdsMatch'
  BY <1>1 DEF FutexInv, PendingMeansOwned, IdsMatch, Owns
<1>4. GuardByteRunsAhead' /\ GuardByteRecordsConstruction'
  BY <1>1 DEF FutexInv, GuardByteRunsAhead, GuardByteRecordsConstruction
<1>5. Owns(t, at[t])
  BY <1>1 DEF FutexInv, IdsMatch
<1>6. NoFalseRecursion'
  BY <1>1, <1>5 DEF NoFalseRecursion, Owns
<1> QED
  BY <1>2, <1>3, <1>4, <1>6 DEF FutexInv

\* The invariant is inductive.
LEMMA NextFutexInv == FutexInv /\ [Next]_vars => FutexInv'
<1> SUFFICES ASSUME FutexInv, [Next]_vars PROVE FutexInv'
  OBVIOUS
<1>1. CASE UNCHANGED vars
  <2>1. UNCHANGED <<guard_byte, init_byte, thread_id, pc, at, last_val, stack,
                    constructed, seen, throws, aborted>>
    BY <1>1 DEF vars, program
  <2>2. TypeOK' /\ CallsAreSound' /\ ClaimsAreExclusive'
    BY <2>1 DEF FutexInv, TypeOK, CallsAreSound, ClaimsAreExclusive
  <2>3. PendingMeansOwned' /\ IdsMatch' /\ NoFalseRecursion'
    BY <2>1 DEF FutexInv, PendingMeansOwned, IdsMatch, NoFalseRecursion, Owns
  <2>4. GuardByteRunsAhead' /\ GuardByteRecordsConstruction'
    BY <2>1 DEF FutexInv, GuardByteRunsAhead, GuardByteRecordsConstruction
  <2> QED
    BY <2>2, <2>3, <2>4 DEF FutexInv
<1>2. CASE Next
  <2>1. aborted = NoThread
    BY <1>2 DEF Next
  <2>2. PICK t \in Thread :
           \/ \E g \in Guard : GuardByteDone(t, g) \/ GuardByteUnset(t, g)
           \/ LibraryStep(t) \/ FutexReturns(t) \/ InitialiserEnds(t)
    BY <1>2 DEF Next
  <2>3. CASE CheckRecursion(t)
    BY <2>1, <2>3, QuietActions, RecursionPreserves
  <2> QED
    BY <2>1, <2>2, <2>3, QuietActions, ClaimPreserves, StoreIdPreserves,
       ReleasePreserves, ClearPreserves, ExchangePreserves
    DEF LibraryStep, InitialiserEnds
<1> QED
  BY <1>1, <1>2

\* Both bytes, the id and the call stacks of the futex guards agree between any
\* two of their atomic accesses, for every number of threads and guards.
THEOREM FutexInvariant == Spec => []FutexInv
  BY InitFutexInv, NextFutexInv, PTL DEF Spec

\* Recursion is never reported to a thread that waits for another, although
\* acquire reads the init byte and the id at different times.
THEOREM FutexRecursionIsReal == Spec => []NoFalseRecursion
<1>1. FutexInv => NoFalseRecursion
  BY DEF FutexInv
<1> QED
  BY <1>1, FutexInvariant, PTL

-----------------------------------------------------------------------------
(***************************************************************************)
(* Refinement.  A compare-exchange begins an initialiser, the guard byte's *)
(* store finishes it, abort's exchange makes it fail.                      *)
(***************************************************************************)

\* The one element of a singleton.
LEMMA SingletonChoice == ASSUME NEW x PROVE (CHOOSE y \in {x} : TRUE) = x
  OBVIOUS

\* The abstract status follows from the guard byte and from who has claimed.
LEMMA StatusFacts ==
    ASSUME NEW g
    PROVE  /\ guard_byte[g] # UNSET => Status(g) = "complete"
           /\ guard_byte[g] = UNSET /\ Owners(g) = {} => Status(g) = "unset"
           /\ \A t : guard_byte[g] = UNSET /\ Owners(g) = {t} => Status(g) = t
<1>1. ASSUME NEW t, guard_byte[g] = UNSET, Owners(g) = {t}
      PROVE  Status(g) = t
  BY <1>1, SingletonChoice DEF Status
<1> QED
  BY <1>1 DEF Status

\* The same of the state after a step.
LEMMA StatusFactsNext ==
    ASSUME NEW g
    PROVE  /\ guard_byte'[g] # UNSET => Status(g)' = "complete"
           /\ guard_byte'[g] = UNSET /\ Owners(g)' = {} => Status(g)' = "unset"
           /\ \A t : guard_byte'[g] = UNSET /\ Owners(g)' = {t} => Status(g)' = t
<1>1. ASSUME NEW t, guard_byte'[g] = UNSET, Owners(g)' = {t}
      PROVE  Status(g)' = t
  BY <1>1, SingletonChoice DEF Status
<1> QED
  BY <1>1 DEF Status

\* A step that touches neither leaves the status alone.
LEMMA StatusFramed ==
    ASSUME NEW g, guard_byte[g] = UNSET <=> guard_byte'[g] = UNSET,
           guard_byte[g] = UNSET => Owners(g)' = Owners(g)
    PROVE  Status(g)' = Status(g)
<1>1. CASE guard_byte[g] # UNSET
  BY <1>1 DEF Status
<1>2. CASE guard_byte[g] = UNSET
  <2>1. PICK S : S = Owners(g) /\ S = Owners(g)'
    BY <1>2
  <2>2. Status(g) = IF S = {} THEN "unset" ELSE CHOOSE t \in S : TRUE
    BY <1>2, <2>1 DEF Status
  <2>3. Status(g)' = IF S = {} THEN "unset" ELSE CHOOSE t \in S : TRUE
    BY <1>2, <2>1 DEF Status
  <2> QED
    BY <2>2, <2>3
<1> QED
  BY <1>1, <1>2

\* Who has claimed a guard is the only one who has.
LEMMA OneOwner ==
    ASSUME ClaimsAreExclusive, NEW t \in Thread, NEW g, Owns(t, g)
    PROVE  Owners(g) = {t}
<1>1. \A u \in Thread : Owns(u, g) => u = t
  BY DEF ClaimsAreExclusive, Owns
<1> QED
  BY <1>1 DEF Owners

\* A step that changes neither claims nor guard bytes nor answers is invisible.
LEMMA Invisible ==
    ASSUME UNCHANGED <<guard_byte, seen>>,
           \A u \in Thread, h \in Guard : Owns(u, h)' <=> Owns(u, h)
    PROVE  UNCHANGED Abstract!vars
<1>1. \A h \in Guard : Owners(h)' = Owners(h)
  BY DEF Owners
<1>2. \A h \in Guard : Status(h)' = Status(h)
  BY <1>1, StatusFramed
<1> QED
  BY <1>2 DEF Abstract!vars

\* Every step of the futex guards is a step of OnceInit or leaves its state alone.
LEMMA FutexSimulates ==
    ASSUME FutexInv, [Next]_vars
    PROVE  [Abstract!Next]_Abstract!vars
<1> DEFINE status == [g \in Guard |-> Status(g)]
<1>0. TypeOK /\ ClaimsAreExclusive /\ CallsAreSound
  BY DEF FutexInv
<1>1. ASSUME NEW t \in Thread, NEW g \in Guard, guard_byte[g] # UNSET,
             pc[t] # "store_id", ReturnDone(t, g), UNCHANGED <<guard_byte, stack>>
      PROVE  Abstract!Next
  <2>1. Status(g) = "complete"
    BY <1>1, StatusFacts
  <2>2. \A u \in Thread, h \in Guard : Owns(u, h)' <=> Owns(u, h)
    BY <1>0, <1>1 DEF ReturnDone, Goto, Owns, TypeOK
  <2>3. \A h \in Guard : Owners(h)' = Owners(h)
    BY <2>2 DEF Owners
  <2>4. status' = status
    BY <1>1, <2>3, StatusFramed
  <2> QED
    BY <1>1, <2>1, <2>4 DEF Abstract!Next, Abstract!Observe, ReturnDone
<1>2. ASSUME NEW t \in Thread, ClaimGuard(t)
      PROVE  Abstract!Next
  <2>1. at[t] \in Guard /\ pc[t] = "acquire" /\ init_byte[at[t]] = UNSET
    BY <1>0, <1>2 DEF ClaimGuard, Claimable, CallsAreSound, InAcquire
  <2> PICK g \in Guard : g = at[t]
    BY <2>1
  <2>2. guard_byte[g] = UNSET /\ \A u \in Thread : ~Owns(u, g)
    BY <2>1, Bits DEF FutexInv, GuardByteRunsAhead, PendingMeansOwned
  <2>3. /\ pc'[t] = "store_id" /\ \A u \in Thread \ {t} : pc'[u] = pc[u]
        /\ UNCHANGED <<guard_byte, seen, at, stack>>
    BY <1>0, <1>2 DEF ClaimGuard, Goto, TypeOK, program
  <2>4. \A u \in Thread, h \in Guard : Owns(u, h)' <=> Owns(u, h) \/ (u = t /\ h = g)
    BY <2>1, <2>3 DEF Owns
  <2>5. Owners(g) = {} /\ Owners(g)' = {t}
    BY <2>2, <2>4 DEF Owners
  <2>6. Status(g) = "unset" /\ Status(g)' = t
    BY <2>2, <2>3, <2>5, StatusFacts, StatusFactsNext
  <2>7. \A h \in Guard \ {g} : Status(h)' = Status(h)
    BY <2>3, <2>4, StatusFramed DEF Owners
  <2>8. status' = [status EXCEPT ![g] = t]
    BY <2>6, <2>7
  <2> QED
    BY <2>3, <2>6, <2>8 DEF Abstract!Next, Abstract!Begin
<1>3. ASSUME NEW t \in Thread, GuardByteRelease(t)
      PROVE  Abstract!Next
  <2>1. stack[t] # <<>> /\ pc[t] = "run"
    BY <1>3 DEF GuardByteRelease
  <2>2. /\ Innermost(t) \in Guard /\ Owns(t, Innermost(t))
        /\ guard_byte[Innermost(t)] = UNSET
    BY <1>0, <2>1, InnermostOwned DEF Owns, FutexInv, GuardByteRunsAhead
  <2> PICK g \in Guard : g = Innermost(t)
    BY <2>2
  <2>3. /\ guard_byte' = [guard_byte EXCEPT ![g] = COMPLETE_BIT]
        /\ pc'[t] = "release" /\ \A u \in Thread \ {t} : pc'[u] = pc[u]
        /\ UNCHANGED <<stack, at, seen>>
    BY <1>0, <1>3 DEF GuardByteRelease, Goto, TypeOK
  <2>4. Status(g) = t
    BY <1>0, <2>2, OneOwner, StatusFacts
  <2>5. guard_byte'[g] # UNSET /\ \A h \in Guard \ {g} : guard_byte'[h] = guard_byte[h]
    BY <1>0, <2>3, Bits DEF TypeOK
  <2>6. Status(g)' = "complete"
    BY <2>5, StatusFactsNext
  <2>7. \A u \in Thread, h \in Guard : Owns(u, h)' <=> Owns(u, h)
    BY <2>1, <2>3 DEF Owns
  <2>8. \A h \in Guard \ {g} : Owners(h)' = Owners(h)
    BY <2>7 DEF Owners
  <2>9. \A h \in Guard \ {g} : Status(h)' = Status(h)
    BY <2>5, <2>8, StatusFramed
  <2>10. status' = [status EXCEPT ![g] = "complete"]
    BY <2>6, <2>9
  <2> QED
    BY <2>3, <2>4, <2>10 DEF Abstract!Next, Abstract!Finish
<1>4. ASSUME NEW t \in Thread, ExchangeInitByte(t)
      PROVE  [Abstract!Next]_Abstract!vars
  <2>1. Innermost(t) \in Guard /\ pc[t] \in {"release", "abort"}
    BY <1>0, <1>4, ExchangeStack DEF ExchangeInitByte
  <2> PICK g \in Guard : g = Innermost(t)
    BY <2>1
  <2>2. /\ Owns(t, g)
        /\ \A u \in Thread, h \in Guard : Owns(u, h)' <=> Owns(u, h) /\ h # g
        /\ UNCHANGED <<guard_byte, seen>>
    BY <1>0, <1>4, ExchangeStack DEF ExchangeInitByte
  <2>3. guard_byte[g] # UNSET <=> pc[t] = "release"
    <3>1. stack[t] # <<>>
      BY <1>0, <2>1 DEF CallsAreSound
    <3>2. Len(stack[t]) \in 1 .. Len(stack[t]) /\ g = stack[t][Len(stack[t])]
      BY <1>0, <3>1, InnermostOwned
    <3> QED
      BY <3>2 DEF FutexInv, GuardByteRunsAhead
  <2>4. \A h \in Guard \ {g} : Owners(h)' = Owners(h)
    BY <2>2 DEF Owners
  <2>5. \A h \in Guard \ {g} : Status(h)' = Status(h)
    BY <2>2, <2>4, StatusFramed
  <2>6. CASE guard_byte[g] # UNSET
    <3>1. Status(g)' = Status(g)
      BY <2>2, <2>6, StatusFramed
    <3> QED
      BY <2>2, <2>5, <3>1 DEF Abstract!vars
  <2>7. CASE guard_byte[g] = UNSET
    <3>1. Status(g) = t
      BY <1>0, <2>2, <2>7, OneOwner, StatusFacts
    <3>2. Owners(g)' = {}
      BY <2>2 DEF Owners
    <3>3. Status(g)' = "unset"
      BY <2>2, <2>7, <3>2, StatusFactsNext
    <3>4. status' = [status EXCEPT ![g] = "unset"]
      BY <2>5, <3>3
    <3> QED
      BY <2>2, <3>1, <3>4 DEF Abstract!Next, Abstract!Fail
  <2> QED
    BY <2>6, <2>7
<1>5. ASSUME NEW t \in Thread, StoreId(t)
      PROVE  UNCHANGED Abstract!vars
  <2>1. pc[t] = "store_id" /\ stack[t] \in Seq(Guard) /\ at[t] \in Guard
    BY <1>0, <1>5 DEF StoreId, TypeOK, CallsAreSound, InAcquire
  <2>2. /\ \A u \in Thread \ {t} : pc'[u] = pc[u] /\ at'[u] = at[u] /\ stack'[u] = stack[u]
        /\ pc'[t] = "run" /\ stack'[t] = Append(stack[t], at[t])
        /\ UNCHANGED <<guard_byte, seen>>
    BY <1>0, <1>5 DEF StoreId, Goto, TypeOK
  <2>3. \A u \in Thread \ {t}, h \in Guard : Owns(u, h)' <=> Owns(u, h)
    BY <2>2 DEF Owns
  <2>4. \A h \in Guard : Owns(t, h)' <=> Owns(t, h)
    BY <2>1, <2>2, Pushed DEF Owns
  <2> QED
    BY <2>2, <2>3, <2>4, Invisible
<1>6. ASSUME UNCHANGED <<guard_byte, stack, seen>>,
             \A u \in Thread : /\ pc'[u] = "store_id" <=> pc[u] = "store_id"
                               /\ pc[u] = "store_id" => at'[u] = at[u]
      PROVE  UNCHANGED Abstract!vars
  <2>1. \A u \in Thread, h \in Guard : Owns(u, h)' <=> Owns(u, h)
    BY <1>6 DEF Owns
  <2> QED
    BY <1>6, <2>1, Invisible
<1>7. ASSUME NEW t \in Thread, NEW g \in Guard, GuardByteDone(t, g)
      PROVE  Abstract!Next
  BY <1>1, <1>7 DEF GuardByteDone
<1>8. ASSUME NEW t \in Thread, at[t] \in Guard, pc[t] \in {"acquire", "set_waiting"},
             init_byte[at[t]] = COMPLETE_BIT, ReturnDone(t, at[t]),
             UNCHANGED <<guard_byte, stack>>
      PROVE  Abstract!Next
  BY <1>1, <1>8 DEF FutexInv, GuardByteRunsAhead
<1>9. ASSUME NEW t \in Thread, AcquireDone(t)
      PROVE  Abstract!Next
  BY <1>0, <1>8, <1>9 DEF AcquireDone, CallsAreSound, InAcquire
<1>10. ASSUME NEW t \in Thread, SetWaiting(t)
       PROVE  [Abstract!Next]_Abstract!vars
  <2>1. at[t] \in Guard /\ pc[t] = "set_waiting" /\ UNCHANGED <<guard_byte, stack>>
    BY <1>0, <1>10 DEF SetWaiting, CallsAreSound, InAcquire
  <2>2. CASE init_byte[at[t]] = COMPLETE_BIT /\ ReturnDone(t, at[t])
    BY <1>8, <2>1, <2>2
  <2>3. CASE ~(init_byte[at[t]] = COMPLETE_BIT /\ ReturnDone(t, at[t]))
    <3>1. /\ pc'[t] \in {"wait", "acquire"} /\ UNCHANGED <<at, seen>>
          /\ \A u \in Thread \ {t} : pc'[u] = pc[u]
      BY <1>0, <1>10, <2>3 DEF SetWaiting, Goto, TypeOK
    <3> QED
      BY <1>6, <2>1, <3>1
  <2> QED
    BY <2>2, <2>3
<1>11. ASSUME NEW t \in Thread,
             \/ \E g \in Guard : GuardByteUnset(t, g)
             \/ FindPending(t) \/ WaitOnInitialization(t) \/ FutexReturns(t)
             \/ AbortClearsId(t)
       PROVE  UNCHANGED Abstract!vars
  <2>1. /\ UNCHANGED <<guard_byte, stack, seen>>
        /\ pc[t] # "store_id" /\ pc'[t] # "store_id"
        /\ \A u \in Thread \ {t} : pc'[u] = pc[u] /\ at'[u] = at[u]
    BY <1>0, <1>11 DEF GuardByteUnset, FindPending, WaitOnInitialization, FutexReturns,
                       AbortClearsId, Goto, TypeOK, program
  <2> QED
    BY <1>6, <2>1
<1>12. ASSUME NEW t \in Thread, CheckRecursion(t)
       PROVE  UNCHANGED Abstract!vars
  <2>1. /\ UNCHANGED <<guard_byte, stack, seen, at>>
        /\ pc[t] # "store_id" /\ pc'[t] # "store_id"
        /\ \A u \in Thread \ {t} : pc'[u] = pc[u]
    BY <1>0, <1>12 DEF CheckRecursion, Goto, TypeOK
  <2> QED
    BY <1>6, <2>1
<1>13. ASSUME NEW t \in Thread, WakeAll(t)
       PROVE  UNCHANGED Abstract!vars
  <2>1. /\ UNCHANGED <<guard_byte, stack, seen>>
        /\ pc[t] # "store_id" /\ pc'[t] # "store_id"
        /\ \A u \in Thread \ {t} :
              at'[u] = at[u] /\ (pc'[u] = "store_id" <=> pc[u] = "store_id")
    BY <1>0, <1>13 DEF WakeAll, TypeOK, program
  <2> QED
    BY <1>6, <2>1
<1>14. CASE UNCHANGED vars
  BY <1>6, <1>14 DEF vars, program
<1> QED
  BY <1>2, <1>3, <1>4, <1>5, <1>7, <1>9, <1>10, <1>11, <1>12, <1>13, <1>14
  DEF Next, LibraryStep, InitialiserEnds

\* The futex guards keep the same promise: initialisers begin, fail and finish
\* one at a time, and nobody is told "done" before one has finished.
THEOREM FutexImplementsOnceInit == Spec => ImplementsOnceInit
<1>1. Init => Abstract!Init
  BY DEF Init, Abstract!Init, Status, Owners, Owns
<1>2. FutexInv /\ [Next]_vars => [Abstract!Next]_Abstract!vars
  BY FutexSimulates
<1> QED
  BY <1>1, <1>2, FutexInvariant, PTL DEF Spec, ImplementsOnceInit, Abstract!Spec
============================================================================
