--------------------------- MODULE CxaGuardProofs ---------------------------
(***************************************************************************)
(* Safety of the static-local guards for every number of threads, guards,  *)
(* exceptions and nestings.  GuardInv is inductive; the properties that    *)
(* the runs of MCCxaGuard check on three threads follow from it.           *)
(***************************************************************************)
EXTENDS CxaGuard, TLAPS, SequenceTheorems

\* Entering an initialiser adds one activation and moves no other.
LEMMA PushFacts ==
    ASSUME NEW S, NEW s \in Seq(S), NEW x \in S
    PROVE  /\ Append(s, x) \in Seq(S)
           /\ Append(s, x) # <<>>
           /\ Len(Append(s, x)) = Len(s) + 1
           /\ Append(s, x)[Len(s) + 1] = x
           /\ \A i \in 1 .. Len(s) : Append(s, x)[i] = s[i]
  OBVIOUS

\* Leaving one removes the innermost activation and moves no other.
LEMMA PopFacts ==
    ASSUME NEW S, NEW s \in Seq(S), s # <<>>
    PROVE  /\ Len(s) \in Nat \ {0}
           /\ s[Len(s)] \in S
           /\ SubSeq(s, 1, Len(s) - 1) \in Seq(S)
           /\ Len(SubSeq(s, 1, Len(s) - 1)) = Len(s) - 1
           /\ \A i \in 1 .. Len(s) - 1 : SubSeq(s, 1, Len(s) - 1)[i] = s[i]
<1>1. Len(s) \in Nat \ {0}
  BY EmptySeq
<1>2. s[Len(s)] \in S
  BY <1>1, ElementOfSeq
<1> DEFINE n == Len(s) - 1
           r == SubSeq(s, 1, n)
<1>3. n \in Nat /\ \A i \in 1 .. n : s[i] \in S
  BY <1>1, ElementOfSeq
<1> HIDE DEF n
<1>4. r \in Seq(S) /\ Len(r) = (IF 1 <= n THEN n - 1 + 1 ELSE 0)
  BY <1>3, SubSeqProperties
<1>5. \A i \in 1 .. n - 1 + 1 : r[i] = s[1 + i - 1]
  BY <1>3, SubSeqProperties
<1>6. Len(r) = n /\ \A i \in 1 .. n : r[i] = s[i]
  BY <1>3, <1>4, <1>5
<1> QED
  BY <1>1, <1>2, <1>4, <1>6 DEF n

\* A thread's id is a number.
LEMMA ThreadIdType == ASSUME NEW t \in Thread PROVE ThreadId(t) \in Nat
  BY CxaGuardAssumption DEF ThreadId

-----------------------------------------------------------------------------
\* Entering a guard that nobody is inside of: one activation more, mutual
\* exclusion kept.
LEMMA PushStack ==
    ASSUME TypeOK, MutualExclusion, NEW t \in Thread, NEW g \in Guard,
           \A u \in Thread : ~Inside(u, g),
           stack' = [stack EXCEPT ![t] = Append(@, g)]
    PROVE  /\ stack' \in [Thread -> Seq(Guard)]
           /\ stack'[t] # <<>>
           /\ \A u \in Thread \ {t} : stack'[u] = stack[u]
           /\ \A u \in Thread : \A i \in 1 .. Len(stack'[u]) :
                 \/ u = t /\ stack'[u][i] = g
                 \/ i \in 1 .. Len(stack[u]) /\ stack'[u][i] = stack[u][i]
           /\ \A u \in Thread, h \in Guard :
                 Inside(u, h)' <=> Inside(u, h) \/ (u = t /\ h = g)
           /\ MutualExclusion'
<1>1. stack[t] \in Seq(Guard) /\ Len(stack[t]) \in Nat
  BY DEF TypeOK
<1> PICK n \in Nat : n = Len(stack[t])
  BY <1>1
<1>2. /\ stack'[t] = Append(stack[t], g)
      /\ \A u \in Thread \ {t} : stack'[u] = stack[u]
  BY DEF TypeOK
<1>3. /\ stack'[t] \in Seq(Guard) /\ stack'[t] # <<>>
      /\ Len(stack'[t]) = n + 1
      /\ stack'[t][n + 1] = g
      /\ \A i \in 1 .. n : stack'[t][i] = stack[t][i]
  BY <1>1, <1>2, PushFacts
<1>4. stack' \in [Thread -> Seq(Guard)]
  BY <1>2, <1>3 DEF TypeOK
<1>5. 1 .. n + 1 = (1 .. n) \cup {n + 1}
  OBVIOUS
<1>6. ASSUME NEW u \in Thread, NEW i \in 1 .. Len(stack'[u])
      PROVE  \/ u = t /\ i = n + 1 /\ stack'[u][i] = g
             \/ i \in 1 .. Len(stack[u]) /\ stack'[u][i] = stack[u][i]
  <2>1. CASE u = t
    BY <2>1, <1>3, <1>5
  <2>2. CASE u # t
    BY <2>2, <1>2
  <2> QED
    BY <2>1, <2>2
<1>7. \A u \in Thread, h \in Guard :
         Inside(u, h)' <=> Inside(u, h) \/ (u = t /\ h = g)
  <2>1. \A u \in Thread \ {t}, h \in Guard : Inside(u, h)' <=> Inside(u, h)
    BY <1>2 DEF Inside
  <2>2. n + 1 \in 1 .. Len(stack'[t]) /\ \A i \in 1 .. n : i \in 1 .. Len(stack'[t])
    BY <1>3, <1>5
  <2>3. \A h \in Guard : Inside(t, h)' <=> Inside(t, h) \/ h = g
    BY <1>3, <1>6, <2>2 DEF Inside
  <2> QED
    BY <2>1, <2>3
<1>8. MutualExclusion'
  <2> SUFFICES ASSUME NEW u \in Thread, NEW v \in Thread,
                      NEW i \in 1 .. Len(stack'[u]), NEW j \in 1 .. Len(stack'[v]),
                      stack'[u][i] = stack'[v][j]
               PROVE  u = v /\ i = j
    BY DEF MutualExclusion
  <2>1. CASE stack'[u][i] = g
    <3>1. u = t /\ i = n + 1
      BY <2>1, <1>6 DEF Inside
    <3>2. v = t /\ j = n + 1
      BY <2>1, <1>6 DEF Inside
    <3> QED
      BY <3>1, <3>2
  <2>2. CASE stack'[u][i] # g
    <3>1. i \in 1 .. Len(stack[u]) /\ stack'[u][i] = stack[u][i]
      BY <2>2, <1>6
    <3>2. j \in 1 .. Len(stack[v]) /\ stack'[v][j] = stack[v][j]
      BY <2>2, <1>6
    <3> QED
      BY <3>1, <3>2 DEF MutualExclusion
  <2> QED
    BY <2>1, <2>2
<1> QED
  BY <1>2, <1>3, <1>4, <1>6, <1>7, <1>8

\* Leaving the innermost initialiser: exactly that guard is free again.
LEMMA PopStack ==
    ASSUME TypeOK, MutualExclusion, NEW t \in Thread, stack[t] # <<>>,
           NEW g, g = Innermost(t), Pop(t)
    PROVE  /\ g \in Guard
           /\ Inside(t, g)
           /\ stack' \in [Thread -> Seq(Guard)]
           /\ \A u \in Thread \ {t} : stack'[u] = stack[u]
           /\ \A u \in Thread : \A i \in 1 .. Len(stack'[u]) :
                 /\ i \in 1 .. Len(stack[u])
                 /\ stack'[u][i] = stack[u][i]
                 /\ stack[u][i] # g
                 /\ u = t => i # Len(stack[u])
           /\ \A u \in Thread, h \in Guard :
                 Inside(u, h)' <=> Inside(u, h) /\ h # g
           /\ MutualExclusion'
<1>1. /\ stack[t] \in Seq(Guard) /\ Len(stack[t]) \in Nat \ {0}
      /\ stack[t][Len(stack[t])] \in Guard
  BY PopFacts DEF TypeOK
<1> PICK n \in Nat \ {0} : n = Len(stack[t])
  BY <1>1
<1>2. /\ stack'[t] = SubSeq(stack[t], 1, Len(stack[t]) - 1)
      /\ \A u \in Thread \ {t} : stack'[u] = stack[u]
      /\ stack' = [stack EXCEPT ![t] = stack'[t]]
  BY DEF TypeOK, Pop
<1>3. /\ stack'[t] \in Seq(Guard)
      /\ Len(stack'[t]) = n - 1
      /\ \A i \in 1 .. n - 1 : stack'[t][i] = stack[t][i]
  BY <1>1, <1>2, PopFacts
<1>4. stack' \in [Thread -> Seq(Guard)]
  BY <1>2, <1>3 DEF TypeOK
<1>5. 1 .. n = (1 .. n - 1) \cup {n} /\ n \notin 1 .. n - 1
  OBVIOUS
<1>6. g \in Guard /\ g = stack[t][n] /\ n \in 1 .. Len(stack[t])
  BY <1>1, <1>5 DEF Innermost
<1>7. Inside(t, g)
  BY <1>6 DEF Inside
<1>8. ASSUME NEW u \in Thread, NEW i \in 1 .. Len(stack'[u])
      PROVE  /\ i \in 1 .. Len(stack[u])
             /\ stack'[u][i] = stack[u][i]
             /\ stack[u][i] # g
             /\ u = t => i # Len(stack[u])
  <2>1. /\ i \in 1 .. Len(stack[u])
        /\ stack'[u][i] = stack[u][i]
        /\ u = t => i # n
    <3>1. CASE u = t
      BY <3>1, <1>3, <1>5
    <3>2. CASE u # t
      BY <3>2, <1>2
    <3> QED
      BY <3>1, <3>2
  <2>2. stack[u][i] # g
    BY <2>1, <1>6 DEF MutualExclusion
  <2> QED
    BY <2>1, <2>2
<1>9. \A u \in Thread, h \in Guard : Inside(u, h)' <=> Inside(u, h) /\ h # g
  <2>1. ASSUME NEW u \in Thread, NEW h \in Guard, Inside(u, h), h # g
        PROVE  Inside(u, h)'
    <3>1. PICK i \in 1 .. Len(stack[u]) : stack[u][i] = h
      BY <2>1 DEF Inside
    <3>2. CASE u = t
      <4>1. i \in 1 .. n - 1
        BY <3>1, <3>2, <2>1, <1>5, <1>6
      <4> QED
        BY <4>1, <3>1, <3>2, <1>3 DEF Inside
    <3>3. CASE u # t
      BY <3>1, <3>3, <1>2 DEF Inside
    <3> QED
      BY <3>2, <3>3
  <2>2. ASSUME NEW u \in Thread, NEW h \in Guard, Inside(u, h)'
        PROVE  Inside(u, h) /\ h # g
    BY <2>2, <1>8 DEF Inside
  <2> QED
    BY <2>1, <2>2
<1>10. MutualExclusion'
  BY <1>8 DEF MutualExclusion
<1> QED
  BY <1>2, <1>4, <1>6, <1>7, <1>8, <1>9, <1>10

-----------------------------------------------------------------------------
\* The initial state satisfies the invariant: no byte is set, no call is made.
LEMMA InitGuardInv == Init => GuardInv
<1> SUFFICES ASSUME Init PROVE GuardInv
  OBVIOUS
<1> USE DEF Init, UNSET, COMPLETE_BIT, PENDING_BIT, WAITING_BIT
<1>1. TypeOK
  BY DEF TypeOK, PCs
<1>2. CallsAreSound /\ MutualExclusion /\ IdsMatch
  BY DEF CallsAreSound, MutualExclusion, IdsMatch
<1>3. PendingMeansInside
  BY DEF PendingMeansInside, Pending, Inside
<1>4. GuardByteRunsAhead /\ GuardByteRecordsConstruction
  BY DEF GuardByteRunsAhead, GuardByteRecordsConstruction, IsComplete
<1> QED
  BY <1>1, <1>2, <1>3, <1>4 DEF GuardInv

\* A step that touches neither the init bytes nor the call stacks leaves alone
\* what is pending and who is inside.
LEMMA PendingFrame ==
    ASSUME PendingMeansInside, UNCHANGED <<init_byte, stack>>
    PROVE  PendingMeansInside'
  BY DEF PendingMeansInside, Pending, Inside

-----------------------------------------------------------------------------
\* Every step of every thread preserves the invariant.
LEMMA NextGuardInv == GuardInv /\ [Next]_vars => GuardInv'
<1> SUFFICES ASSUME GuardInv, [Next]_vars PROVE GuardInv'
  OBVIOUS
<1> USE DEF GuardInv, TypeOK, CallsAreSound
<1>1. ASSUME NEW t \in Thread, NEW g \in Guard, GuardByteDone(t, g)
      PROVE  GuardInv'
  <2> USE <1>1 DEF GuardByteDone, ReturnDone
  <2>1. TypeOK'
    BY DEF PCs
  <2>2. CallsAreSound' /\ MutualExclusion' /\ IdsMatch'
    BY DEF MutualExclusion, IdsMatch, Inside
  <2>3. PendingMeansInside'
    <3>1. UNCHANGED <<init_byte, stack>>
      OBVIOUS
    <3> QED
      BY <3>1, PendingFrame
  <2>4. GuardByteRunsAhead' /\ GuardByteRecordsConstruction'
    BY DEF GuardByteRunsAhead, GuardByteRecordsConstruction, IsComplete, Pending
  <2> QED
    BY <2>1, <2>2, <2>3, <2>4 DEF GuardInv
<1>12. ASSUME NEW t \in Thread, NEW g \in Guard, GuardByteUnset(t, g)
      PROVE  GuardInv'
  <2> USE <1>12 DEF GuardByteUnset
  <2>1. TypeOK'
    BY DEF PCs
  <2>2. CallsAreSound' /\ MutualExclusion' /\ IdsMatch'
    BY DEF MutualExclusion, IdsMatch, Inside
  <2>3. PendingMeansInside'
    <3>1. UNCHANGED <<init_byte, stack>>
      OBVIOUS
    <3> QED
      BY <3>1, PendingFrame
  <2>4. GuardByteRunsAhead' /\ GuardByteRecordsConstruction'
    BY DEF GuardByteRunsAhead, GuardByteRecordsConstruction, IsComplete, Pending
  <2> QED
    BY <2>1, <2>2, <2>3, <2>4 DEF GuardInv
<1>2. ASSUME NEW t \in Thread, AbortRecursive(t)
      PROVE  GuardInv'
  <2> USE <1>2 DEF AbortRecursive
  <2>1. TypeOK'
    BY DEF PCs
  <2>2. CallsAreSound' /\ MutualExclusion' /\ IdsMatch'
    BY DEF MutualExclusion, IdsMatch, Inside
  <2>3. PendingMeansInside'
    <3>1. UNCHANGED <<init_byte, stack>>
      OBVIOUS
    <3> QED
      BY <3>1, PendingFrame
  <2>4. GuardByteRunsAhead' /\ GuardByteRecordsConstruction'
    BY DEF GuardByteRunsAhead, GuardByteRecordsConstruction, IsComplete, Pending
  <2> QED
    BY <2>1, <2>2, <2>3, <2>4 DEF GuardInv
<1>3. ASSUME NEW t \in Thread, AcquireDone(t)
      PROVE  GuardInv'
  <2> USE <1>3 DEF AcquireDone, InWaitLoop, ReturnDone
  <2>1. TypeOK'
    BY DEF PCs
  <2>2. CallsAreSound' /\ MutualExclusion' /\ IdsMatch'
    BY DEF MutualExclusion, IdsMatch, Inside
  <2>3. PendingMeansInside'
    <3>1. UNCHANGED <<init_byte, stack>>
      OBVIOUS
    <3> QED
      BY <3>1, PendingFrame
  <2>4. GuardByteRunsAhead' /\ GuardByteRecordsConstruction'
    BY DEF GuardByteRunsAhead, GuardByteRecordsConstruction, IsComplete, Pending
  <2> QED
    BY <2>1, <2>2, <2>3, <2>4 DEF GuardInv
<1>4. ASSUME NEW t \in Thread, SpuriousWakeup(t)
      PROVE  GuardInv'
  <2> USE <1>4 DEF SpuriousWakeup
  <2>1. TypeOK'
    BY DEF PCs
  <2>2. CallsAreSound' /\ MutualExclusion' /\ IdsMatch'
    BY DEF MutualExclusion, IdsMatch, Inside
  <2>3. PendingMeansInside'
    <3>1. UNCHANGED <<init_byte, stack>>
      OBVIOUS
    <3> QED
      BY <3>1, PendingFrame
  <2>4. GuardByteRunsAhead' /\ GuardByteRecordsConstruction'
    BY DEF GuardByteRunsAhead, GuardByteRecordsConstruction, IsComplete, Pending
  <2> QED
    BY <2>1, <2>2, <2>3, <2>4 DEF GuardInv
<1>5. ASSUME NEW t \in Thread, Broadcast(t)
      PROVE  GuardInv'
  <2> USE <1>5 DEF Broadcast
  <2>1. TypeOK'
    BY DEF PCs
  <2>2. CallsAreSound' /\ MutualExclusion' /\ IdsMatch'
    BY DEF MutualExclusion, IdsMatch, Inside
  <2>3. PendingMeansInside'
    <3>1. UNCHANGED <<init_byte, stack>>
      OBVIOUS
    <3> QED
      BY <3>1, PendingFrame
  <2>4. GuardByteRunsAhead' /\ GuardByteRecordsConstruction'
    BY DEF GuardByteRunsAhead, GuardByteRecordsConstruction, IsComplete, Pending
  <2> QED
    BY <2>1, <2>2, <2>3, <2>4 DEF GuardInv
<1>6. ASSUME NEW t \in Thread, WaitPending(t)
      PROVE  GuardInv'
  <2> USE <1>6 DEF WaitPending, OrWaiting, UNSET, COMPLETE_BIT, PENDING_BIT,
                   WAITING_BIT
  <2>1. at[t] \in Guard /\ init_byte'[at[t]] = PENDING_BIT \cup WAITING_BIT
    BY DEF InWaitLoop, Pending
  <2>2. \A g \in Guard : /\ Pending(g)' <=> Pending(g)
                         /\ IsComplete(g)' <=> IsComplete(g)
    BY <2>1 DEF Pending, IsComplete
  <2>3. TypeOK'
    BY <2>1 DEF PCs
  <2>4. CallsAreSound' /\ MutualExclusion'
    BY <2>1 DEF MutualExclusion
  <2>5. IdsMatch'
    BY <2>1 DEF IdsMatch, Inside, InWaitLoop, RecursionDetected
  <2>6. PendingMeansInside'
    <3>1. \A u \in Thread, g \in Guard : Inside(u, g)' <=> Inside(u, g)
      BY DEF Inside
    <3> QED
      BY <2>2, <3>1 DEF PendingMeansInside
  <2>7. GuardByteRunsAhead'
    <3>1. pc[t] # "init_release" /\ pc'[t] # "init_release"
      BY DEF InWaitLoop
    <3> QED
      BY <2>2, <3>1 DEF GuardByteRunsAhead
  <2>8. GuardByteRecordsConstruction'
    BY DEF GuardByteRecordsConstruction
  <2> QED
    BY <2>3, <2>4, <2>5, <2>6, <2>7, <2>8 DEF GuardInv
<1>7. ASSUME NEW t \in Thread, AcquirePending(t)
      PROVE  GuardInv'
  <2>1. at[t] \in Guard /\ at[t] # NoGuard /\ pc[t] # "init_release"
    BY <1>7, CxaGuardAssumption DEF AcquirePending, InWaitLoop
  <2> PICK g \in Guard : g = at[t]
    BY <2>1
  <2>2. ~Pending(g) /\ ~IsComplete(g) /\ guard_byte[g] = UNSET
    BY <1>7, <2>1 DEF GuardByteRunsAhead, AcquirePending
  <2>3. \A u \in Thread : ~Inside(u, g)
    BY <2>1, <2>2 DEF PendingMeansInside
  <2>4. stack' = [stack EXCEPT ![t] = Append(@, g)]
    BY <1>7 DEF AcquirePending, Push
  <2>5. /\ stack' \in [Thread -> Seq(Guard)]
        /\ stack'[t] # <<>>
        /\ \A u \in Thread \ {t} : stack'[u] = stack[u]
        /\ MutualExclusion'
    BY <2>3, <2>4, PushStack
  <2>6. \A u \in Thread : \A i \in 1 .. Len(stack'[u]) :
           \/ u = t /\ stack'[u][i] = g
           \/ i \in 1 .. Len(stack[u]) /\ stack'[u][i] = stack[u][i]
    BY <2>3, <2>4, PushStack
  <2>7. \A u \in Thread, h \in Guard :
           Inside(u, h)' <=> Inside(u, h) \/ (u = t /\ h = g)
    BY <2>3, <2>4, PushStack
  <2>9. /\ init_byte' = [init_byte EXCEPT ![g] = PENDING_BIT]
        /\ thread_id' = [thread_id EXCEPT ![g] =
                            IF HasThreadId THEN ThreadId(t) ELSE thread_id[g]]
        /\ pc' = [pc EXCEPT ![t] = "run"]
        /\ at' = [at EXCEPT ![t] = NoGuard]
        /\ UNCHANGED <<guard_byte, has_waiting, constructed, seen, throws,
                       aborted>>
    BY <1>7 DEF AcquirePending
  <2>10. \A h \in Guard \ {g} : /\ Pending(h)' <=> Pending(h)
                                /\ IsComplete(h)' <=> IsComplete(h)
                                /\ thread_id'[h] = thread_id[h]
    BY <2>1, <2>9 DEF Pending, IsComplete
  <2>11. Pending(g)' /\ ~IsComplete(g)'
    BY <2>1, <2>9 DEF Pending, IsComplete, PENDING_BIT, COMPLETE_BIT
  <2>12. TypeOK'
    BY <2>1, <2>5, <2>9, ThreadIdType DEF PCs
  <2>13. CallsAreSound'
    BY <2>5, <2>9
  <2>14. PendingMeansInside'
    BY <2>7, <2>10, <2>11 DEF PendingMeansInside
  <2>15. GuardByteRunsAhead'
    <3>0. \A u \in Thread : \A i \in 1 .. Len(stack[u]) :
             guard_byte[stack[u][i]] # UNSET <=>
                 i = Len(stack[u]) /\ pc[u] = "init_release"
      BY DEF GuardByteRunsAhead
    <3>1. \A h \in Guard : /\ guard_byte'[h] # UNSET => IsComplete(h)' \/ Pending(h)'
                           /\ IsComplete(h)' => guard_byte'[h] # UNSET
      BY <2>9, <2>10, <2>11 DEF GuardByteRunsAhead
    <3>2. ASSUME NEW u \in Thread \ {t}, NEW i \in 1 .. Len(stack'[u])
          PROVE  guard_byte'[stack'[u][i]] # UNSET <=>
                     i = Len(stack'[u]) /\ pc'[u] = "init_release"
      <4>1. pc'[u] = pc[u] /\ stack'[u] = stack[u] /\ guard_byte' = guard_byte
        BY <2>5, <2>9
      <4> QED
        BY <3>0, <4>1
    <3>3. ASSUME NEW i \in 1 .. Len(stack'[t])
          PROVE  guard_byte'[stack'[t][i]] = UNSET
      <4>1. CASE stack'[t][i] = g
        BY <4>1, <2>2, <2>9
      <4>2. CASE i \in 1 .. Len(stack[t]) /\ stack'[t][i] = stack[t][i]
        BY <4>2, <3>0, <2>1, <2>9
      <4> QED
        BY <4>1, <4>2, <2>6
    <3> QED
      BY <3>1, <3>2, <3>3, <2>9 DEF GuardByteRunsAhead
  <2>16. GuardByteRecordsConstruction'
    BY <2>9 DEF GuardByteRecordsConstruction
  <2>17. IdsMatch'
    <3> SUFFICES ASSUME HasThreadId, NEW u \in Thread
                 PROVE  /\ \A i \in 1 .. Len(stack'[u]) :
                               thread_id'[stack'[u][i]] = ThreadId(u)
                        /\ pc'[u] \in {"waiting", "woken"} => ~Inside(u, at[u])'
      BY DEF IdsMatch, ThreadId
    <3>1. ASSUME NEW i \in 1 .. Len(stack'[u])
          PROVE  thread_id'[stack'[u][i]] = ThreadId(u)
      <4>1. CASE u = t /\ stack'[u][i] = g
        BY <4>1, <2>9
      <4>2. CASE i \in 1 .. Len(stack[u]) /\ stack'[u][i] = stack[u][i]
        <5>1. stack[u][i] \in Guard /\ stack[u][i] # g
          BY <4>2, <2>3 DEF Inside
        <5> QED
          BY <4>2, <5>1, <2>10 DEF IdsMatch
      <4> QED
        BY <4>1, <4>2, <2>6
    <3>2. pc'[u] \in {"waiting", "woken"} =>
              u # t /\ at'[u] = at[u] /\ stack'[u] = stack[u]
      BY <2>5, <2>9
    <3> QED
      BY <3>1, <3>2, <2>9 DEF IdsMatch, Inside
  <2> QED
    BY <2>5, <2>12, <2>13, <2>14, <2>15, <2>16, <2>17
<1>8. ASSUME NEW t \in Thread, GuardByteRelease(t)
      PROVE  GuardInv'
  <2>1. stack[t] \in Seq(Guard) /\ stack[t] # <<>> /\ pc[t] = "run"
    BY <1>8 DEF GuardByteRelease
  <2>2. Innermost(t) \in Guard /\ Len(stack[t]) \in 1 .. Len(stack[t])
    BY <2>1, PopFacts DEF Innermost
  <2> PICK g \in Guard : g = Innermost(t)
    BY <2>2
  <2>3. g = stack[t][Len(stack[t])] /\ Inside(t, g)
    BY <2>2 DEF Inside, Innermost
  <2>4. /\ constructed' = [constructed EXCEPT ![g] = @ + 1]
        /\ guard_byte' = [guard_byte EXCEPT ![g] = COMPLETE_BIT]
        /\ pc' = [pc EXCEPT ![t] = "init_release"]
        /\ UNCHANGED <<init_byte, thread_id, at, stack, has_waiting, seen,
                       throws, aborted>>
    BY <1>8 DEF GuardByteRelease
  <2>5. guard_byte[g] = UNSET /\ constructed[g] = 0 /\ Pending(g)
    BY <2>1, <2>2, <2>3 DEF GuardByteRunsAhead, GuardByteRecordsConstruction,
                            PendingMeansInside
  <2>6. TypeOK' /\ CallsAreSound' /\ MutualExclusion'
    BY <2>1, <2>4 DEF PCs, MutualExclusion
  <2>7. PendingMeansInside' /\ IdsMatch'
    <3>1. PendingMeansInside'
      BY <2>4, PendingFrame
    <3>2. \A u \in Thread : pc'[u] \in {"waiting", "woken"} => pc'[u] = pc[u]
      BY <2>4
    <3> QED
      BY <2>4, <3>1, <3>2 DEF IdsMatch, Inside, ThreadId
  <2>8. COMPLETE_BIT # UNSET
    BY DEF COMPLETE_BIT, UNSET
  <2>9. GuardByteRunsAhead'
    <3>1. \A h \in Guard : /\ guard_byte'[h] # UNSET => IsComplete(h)' \/ Pending(h)'
                           /\ IsComplete(h)' => guard_byte'[h] # UNSET
      BY <2>4, <2>5, <2>8 DEF GuardByteRunsAhead, IsComplete, Pending
    <3>2. ASSUME NEW u \in Thread, NEW i \in 1 .. Len(stack[u])
          PROVE  guard_byte'[stack[u][i]] # UNSET <=>
                     i = Len(stack[u]) /\ pc'[u] = "init_release"
      <4>1. CASE stack[u][i] = g
        <5>1. u = t /\ i = Len(stack[t])
          BY <4>1, <2>2, <2>3 DEF MutualExclusion
        <5> QED
          BY <4>1, <5>1, <2>4, <2>8
      <4>2. CASE stack[u][i] # g
        <5>1. stack[u][i] \in Guard
          OBVIOUS
        <5>2. ~(u = t /\ i = Len(stack[t]))
          BY <4>2, <2>3
        <5>3. guard_byte'[stack[u][i]] = guard_byte[stack[u][i]]
          BY <4>2, <5>1, <2>4
        <5> QED
          BY <5>2, <5>3, <2>1, <2>4 DEF GuardByteRunsAhead
      <4> QED
        BY <4>1, <4>2
    <3> QED
      BY <3>1, <3>2, <2>4 DEF GuardByteRunsAhead
  <2>10. GuardByteRecordsConstruction'
    BY <2>4, <2>5, <2>8 DEF GuardByteRecordsConstruction
  <2> QED
    BY <2>6, <2>7, <2>9, <2>10
<1>9. ASSUME NEW t \in Thread, InitByteRelease(t)
      PROVE  GuardInv'
  <2>1. stack[t] \in Seq(Guard) /\ stack[t] # <<>> /\ pc[t] = "init_release"
    BY <1>9 DEF InitByteRelease
  <2> PICK g : g = Innermost(t)
    OBVIOUS
  <2>2. Pop(t)
    BY <1>9 DEF InitByteRelease
  <2>3. g \in Guard /\ Inside(t, g) /\ stack' \in [Thread -> Seq(Guard)]
    BY <2>1, <2>2, PopStack
  <2>4. /\ \A u \in Thread \ {t} : stack'[u] = stack[u]
        /\ MutualExclusion'
    BY <2>1, <2>2, PopStack
  <2>5. \A u \in Thread : \A i \in 1 .. Len(stack'[u]) :
           /\ i \in 1 .. Len(stack[u])
           /\ stack'[u][i] = stack[u][i]
           /\ stack[u][i] # g
           /\ u = t => i # Len(stack[u])
    <3> HIDE DEF TypeOK, CallsAreSound
    <3>1. TypeOK /\ MutualExclusion
      BY DEF GuardInv
    <3> HIDE DEF GuardInv
    <3> QED
      BY <2>1, <2>2, <3>1, PopStack
  <2>6. \A u \in Thread, h \in Guard : Inside(u, h)' <=> Inside(u, h) /\ h # g
    BY <2>1, <2>2, PopStack
  <2>7. /\ has_waiting' \in [Thread -> BOOLEAN]
        /\ init_byte' = [init_byte EXCEPT ![g] = COMPLETE_BIT]
        /\ pc' = [pc EXCEPT ![t] = "unlocked"]
        /\ UNCHANGED <<guard_byte, thread_id, at, constructed, seen, throws,
                       aborted>>
    BY <1>9 DEF InitByteRelease
  <2>8. guard_byte[g] # UNSET
    <3>1. Len(stack[t]) \in 1 .. Len(stack[t]) /\ g = stack[t][Len(stack[t])]
      BY <2>1, PopFacts DEF Innermost
    <3> QED
      BY <2>1, <3>1 DEF GuardByteRunsAhead
  <2>9. \A h \in Guard \ {g} : /\ Pending(h)' <=> Pending(h)
                               /\ IsComplete(h)' <=> IsComplete(h)
    BY <2>3, <2>7 DEF Pending, IsComplete
  <2>10. ~Pending(g)' /\ IsComplete(g)'
    BY <2>3, <2>7 DEF Pending, IsComplete, PENDING_BIT, COMPLETE_BIT
  <2>11. TypeOK' /\ CallsAreSound'
    BY <2>3, <2>4, <2>7 DEF PCs
  <2>12. PendingMeansInside'
    BY <2>6, <2>9, <2>10 DEF PendingMeansInside
  <2>13. GuardByteRunsAhead'
    <3>0. \A u \in Thread : \A i \in 1 .. Len(stack[u]) :
             guard_byte[stack[u][i]] # UNSET <=>
                 i = Len(stack[u]) /\ pc[u] = "init_release"
      BY DEF GuardByteRunsAhead
    <3>1. \A h \in Guard : /\ guard_byte'[h] # UNSET => IsComplete(h)' \/ Pending(h)'
                           /\ IsComplete(h)' => guard_byte'[h] # UNSET
      BY <2>7, <2>8, <2>9, <2>10 DEF GuardByteRunsAhead
    <3>2. \A u \in Thread \ {t} : \A i \in 1 .. Len(stack'[u]) :
             guard_byte'[stack'[u][i]] # UNSET <=>
                 i = Len(stack'[u]) /\ pc'[u] = "init_release"
      BY <2>4, <2>7 DEF GuardByteRunsAhead
    <3>3. ASSUME NEW i \in 1 .. Len(stack'[t])
          PROVE  guard_byte'[stack'[t][i]] = UNSET
      <4>1. /\ i \in 1 .. Len(stack[t]) /\ i # Len(stack[t])
            /\ stack'[t][i] = stack[t][i]
        BY <2>5
      <4>2. guard_byte[stack[t][i]] = UNSET
        BY <4>1, <3>0
      <4> QED
        BY <4>1, <4>2, <2>7
    <3> QED
      BY <3>1, <3>2, <3>3, <2>7 DEF GuardByteRunsAhead
  <2>14. GuardByteRecordsConstruction'
    BY <2>7 DEF GuardByteRecordsConstruction
  <2>15. IdsMatch'
    <3> SUFFICES ASSUME HasThreadId, NEW u \in Thread
                 PROVE  /\ \A i \in 1 .. Len(stack'[u]) :
                               thread_id'[stack'[u][i]] = ThreadId(u)
                        /\ pc'[u] \in {"waiting", "woken"} => ~Inside(u, at[u])'
      BY DEF IdsMatch, ThreadId
    <3>1. ASSUME NEW i \in 1 .. Len(stack'[u])
          PROVE  thread_id'[stack'[u][i]] = ThreadId(u)
      <4>1. i \in 1 .. Len(stack[u]) /\ stack'[u][i] = stack[u][i]
        BY <2>5, <2>7
      <4> QED
        BY <4>1, <2>5, <2>7 DEF IdsMatch
    <3>2. pc'[u] \in {"waiting", "woken"} =>
              u # t /\ at'[u] = at[u] /\ stack'[u] = stack[u]
      BY <2>4, <2>7
    <3> QED
      BY <3>1, <3>2, <2>7 DEF IdsMatch, Inside
  <2> QED
    BY <2>4, <2>11, <2>12, <2>13, <2>14, <2>15
<1>10. ASSUME NEW t \in Thread, InitByteAbort(t)
       PROVE  GuardInv'
  <2>1. stack[t] \in Seq(Guard) /\ stack[t] # <<>> /\ pc[t] = "run"
    BY <1>10 DEF InitByteAbort
  <2> PICK g : g = Innermost(t)
    OBVIOUS
  <2>2. Pop(t)
    BY <1>10 DEF InitByteAbort
  <2>3. g \in Guard /\ Inside(t, g) /\ stack' \in [Thread -> Seq(Guard)]
    BY <2>1, <2>2, PopStack
  <2>4. /\ \A u \in Thread \ {t} : stack'[u] = stack[u]
        /\ MutualExclusion'
    BY <2>1, <2>2, PopStack
  <2>5. \A u \in Thread : \A i \in 1 .. Len(stack'[u]) :
           /\ i \in 1 .. Len(stack[u])
           /\ stack'[u][i] = stack[u][i]
           /\ stack[u][i] # g
           /\ u = t => i # Len(stack[u])
    <3> HIDE DEF TypeOK, CallsAreSound
    <3>1. TypeOK /\ MutualExclusion
      BY DEF GuardInv
    <3> HIDE DEF GuardInv
    <3> QED
      BY <2>1, <2>2, <3>1, PopStack
  <2>6. \A u \in Thread, h \in Guard : Inside(u, h)' <=> Inside(u, h) /\ h # g
    BY <2>1, <2>2, PopStack
  <2>7. /\ has_waiting' \in [Thread -> BOOLEAN]
        /\ init_byte' = [init_byte EXCEPT ![g] = UNSET]
        /\ thread_id' = [thread_id EXCEPT ![g] =
                            IF HasThreadId THEN 0 ELSE thread_id[g]]
        /\ throws' = throws + 1
        /\ pc' = [pc EXCEPT ![t] = "unlocked"]
        /\ UNCHANGED <<guard_byte, at, constructed, seen, aborted>>
    BY <1>10 DEF InitByteAbort
  <2>8. guard_byte[g] = UNSET
    <3>1. Len(stack[t]) \in 1 .. Len(stack[t]) /\ g = stack[t][Len(stack[t])]
      BY <2>1, PopFacts DEF Innermost
    <3> QED
      BY <2>1, <3>1 DEF GuardByteRunsAhead
  <2>9. \A h \in Guard \ {g} : /\ Pending(h)' <=> Pending(h)
                               /\ IsComplete(h)' <=> IsComplete(h)
                               /\ thread_id'[h] = thread_id[h]
    BY <2>3, <2>7 DEF Pending, IsComplete
  <2>10. ~Pending(g)' /\ ~IsComplete(g)'
    BY <2>3, <2>7 DEF Pending, IsComplete, PENDING_BIT, COMPLETE_BIT, UNSET
  <2>11. TypeOK' /\ CallsAreSound'
    BY <2>3, <2>4, <2>7 DEF PCs
  <2>12. PendingMeansInside'
    BY <2>6, <2>9, <2>10 DEF PendingMeansInside
  <2>13. GuardByteRunsAhead'
    <3>0. \A u \in Thread : \A i \in 1 .. Len(stack[u]) :
             guard_byte[stack[u][i]] # UNSET <=>
                 i = Len(stack[u]) /\ pc[u] = "init_release"
      BY DEF GuardByteRunsAhead
    <3>1. \A h \in Guard : /\ guard_byte'[h] # UNSET => IsComplete(h)' \/ Pending(h)'
                           /\ IsComplete(h)' => guard_byte'[h] # UNSET
      BY <2>7, <2>8, <2>9, <2>10 DEF GuardByteRunsAhead
    <3>2. \A u \in Thread \ {t} : \A i \in 1 .. Len(stack'[u]) :
             guard_byte'[stack'[u][i]] # UNSET <=>
                 i = Len(stack'[u]) /\ pc'[u] = "init_release"
      BY <2>4, <2>7 DEF GuardByteRunsAhead
    <3>3. ASSUME NEW i \in 1 .. Len(stack'[t])
          PROVE  guard_byte'[stack'[t][i]] = UNSET
      <4>1. /\ i \in 1 .. Len(stack[t]) /\ i # Len(stack[t])
            /\ stack'[t][i] = stack[t][i]
        BY <2>5
      <4>2. guard_byte[stack[t][i]] = UNSET
        BY <4>1, <3>0
      <4> QED
        BY <4>1, <4>2, <2>7
    <3> QED
      BY <3>1, <3>2, <3>3, <2>7 DEF GuardByteRunsAhead
  <2>14. GuardByteRecordsConstruction'
    BY <2>7 DEF GuardByteRecordsConstruction
  <2>15. IdsMatch'
    <3> SUFFICES ASSUME HasThreadId, NEW u \in Thread
                 PROVE  /\ \A i \in 1 .. Len(stack'[u]) :
                               thread_id'[stack'[u][i]] = ThreadId(u)
                        /\ pc'[u] \in {"waiting", "woken"} => ~Inside(u, at[u])'
      BY DEF IdsMatch, ThreadId
    <3>1. ASSUME NEW i \in 1 .. Len(stack'[u])
          PROVE  thread_id'[stack'[u][i]] = ThreadId(u)
      <4>1. /\ i \in 1 .. Len(stack[u]) /\ stack'[u][i] = stack[u][i]
            /\ stack[u][i] \in Guard \ {g}
        BY <2>5
      <4> QED
        BY <4>1, <2>9 DEF IdsMatch
    <3>2. pc'[u] \in {"waiting", "woken"} =>
              u # t /\ at'[u] = at[u] /\ stack'[u] = stack[u]
      BY <2>4, <2>7
    <3> QED
      BY <3>1, <3>2, <2>7 DEF IdsMatch, Inside
  <2> QED
    BY <2>4, <2>11, <2>12, <2>13, <2>14, <2>15
<1>11. CASE UNCHANGED vars
  <2> USE <1>11 DEF vars
  <2>1. TypeOK'
    BY DEF TypeOK
  <2>2. CallsAreSound' /\ MutualExclusion' /\ IdsMatch'
    BY DEF MutualExclusion, IdsMatch, Inside, ThreadId
  <2>3. PendingMeansInside'
    <3>1. UNCHANGED <<init_byte, stack>>
      OBVIOUS
    <3> QED
      BY <3>1, PendingFrame
  <2>4. GuardByteRunsAhead' /\ GuardByteRecordsConstruction'
    BY DEF GuardByteRunsAhead, GuardByteRecordsConstruction, IsComplete, Pending
  <2> QED
    BY <2>1, <2>2, <2>3, <2>4
<1> QED
  BY <1>1, <1>2, <1>3, <1>4, <1>5, <1>6, <1>7, <1>8, <1>9, <1>10, <1>11, <1>12
  DEF Next, LibraryStep, InitialiserEnds

-----------------------------------------------------------------------------
\* GuardInv holds throughout, whatever the number of threads and statics.
THEOREM GuardInvariant == Spec => []GuardInv
  BY InitGuardInv, NextGuardInv, PTL DEF Spec

\* No initialiser is entered while another activation of it has not ended.
THEOREM GuardMutualExclusion == Spec => []MutualExclusion
<1>1. GuardInv => MutualExclusion
  BY DEF GuardInv
<1> QED
  BY <1>1, GuardInvariant, PTL

\* A static is constructed at most once, and before anyone is told it is done.
THEOREM GuardConstructedOnce == Spec => []ConstructedOnceBeforeUse
<1>1. GuardInv => ConstructedOnceBeforeUse
  <2> SUFFICES ASSUME GuardInv PROVE ConstructedOnceBeforeUse
    OBVIOUS
  <2>1. \A g \in Guard : constructed[g] = IF guard_byte[g] = UNSET THEN 0 ELSE 1
    BY DEF GuardInv, GuardByteRecordsConstruction
  <2>2. \A t \in Thread : \A g \in seen[t] : g \in Guard /\ guard_byte[g] # UNSET
    BY DEF GuardInv, TypeOK, GuardByteRecordsConstruction
  <2> QED
    BY <2>1, <2>2 DEF ConstructedOnceBeforeUse
<1> QED
  BY <1>1, GuardInvariant, PTL

\* With thread ids no thread sleeps on an initialiser it is itself inside of.
THEOREM GuardNoSelfWait == Spec => []NoSelfWait
<1>1. GuardInv => NoSelfWait
  BY DEF GuardInv, IdsMatch, NoSelfWait
<1> QED
  BY <1>1, GuardInvariant, PTL

\* If the id kept in the guard tells the threads apart, the process is ended
\* only by a thread that really re-enters its own initialiser.
THEOREM GuardNoFalseRecursion ==
    ASSUME \A t, u \in Thread : ThreadId(t) = ThreadId(u) => t = u
    PROVE  Spec => []NoFalseRecursion
<1>1. Init => NoFalseRecursion
  BY DEF Init, NoFalseRecursion
<1>2. GuardInv /\ NoFalseRecursion /\ [Next]_vars => NoFalseRecursion'
  <2> SUFFICES ASSUME GuardInv, NoFalseRecursion, [Next]_vars
               PROVE  NoFalseRecursion'
    OBVIOUS
  <2>1. CASE UNCHANGED vars
    BY <2>1 DEF vars, NoFalseRecursion, Inside
  <2>2. ASSUME NEW t \in Thread, AbortRecursive(t)
        PROVE  NoFalseRecursion'
    <3>1. /\ at[t] \in Guard /\ HasThreadId /\ Pending(at[t])
          /\ thread_id[at[t]] = ThreadId(t)
      BY <2>2 DEF AbortRecursive, RecursionDetected, GuardInv, CallsAreSound
    <3>2. PICK u \in Thread : Inside(u, at[t])
      BY <3>1 DEF GuardInv, PendingMeansInside
    <3>3. thread_id[at[t]] = ThreadId(u)
      BY <3>1, <3>2 DEF GuardInv, IdsMatch, Inside
    <3>4. u = t
      BY <3>1, <3>3
    <3> QED
      BY <2>2, <3>2, <3>4 DEF AbortRecursive, NoFalseRecursion, Inside
  <2>3. CASE Next /\ aborted' = NoThread
    BY <2>3 DEF NoFalseRecursion
  <2>4. Next => aborted' = NoThread \/ \E t \in Thread : AbortRecursive(t)
    BY DEF Next, LibraryStep, InitialiserEnds, GuardByteDone, GuardByteUnset,
           WaitPending, AcquireDone, AcquirePending, SpuriousWakeup,
           GuardByteRelease, InitByteRelease, InitByteAbort, Broadcast
  <2> QED
    BY <2>1, <2>2, <2>3, <2>4
<1> QED
  BY <1>1, <1>2, GuardInvariant, PTL DEF Spec

-----------------------------------------------------------------------------
(***************************************************************************)
(* The guards implement OnceInit.  What OnceInit calls the status of a     *)
(* guard is "complete" from the moment the guard byte is published, and    *)
(* before that the thread that is inside.                                  *)
(***************************************************************************)

\* The choice from a set of one.
LEMMA SingletonChoice == ASSUME NEW x PROVE (CHOOSE y \in {x} : TRUE) = x
  OBVIOUS

\* The abstract status follows from the guard byte and from who is inside.
LEMMA StatusFacts ==
    ASSUME NEW g
    PROVE  /\ guard_byte[g] # UNSET => Status(g) = "complete"
           /\ guard_byte[g] = UNSET /\ Insiders(g) = {} => Status(g) = "unset"
           /\ \A t : guard_byte[g] = UNSET /\ Insiders(g) = {t} => Status(g) = t
<1>1. ASSUME NEW t, guard_byte[g] = UNSET, Insiders(g) = {t}
      PROVE  Status(g) = t
  BY <1>1, SingletonChoice DEF Status
<1> QED
  BY <1>1 DEF Status

\* The same of the state after a step.
LEMMA StatusFactsNext ==
    ASSUME NEW g
    PROVE  /\ guard_byte'[g] # UNSET => Status(g)' = "complete"
           /\ guard_byte'[g] = UNSET /\ Insiders(g)' = {} => Status(g)' = "unset"
           /\ \A t : guard_byte'[g] = UNSET /\ Insiders(g)' = {t} => Status(g)' = t
<1>1. ASSUME NEW t, guard_byte'[g] = UNSET, Insiders(g)' = {t}
      PROVE  Status(g)' = t
  BY <1>1, SingletonChoice DEF Status
<1> QED
  BY <1>1 DEF Status

\* A step that touches neither leaves the status alone.
LEMMA StatusFramed ==
    ASSUME NEW g, guard_byte[g] = UNSET <=> guard_byte'[g] = UNSET,
           guard_byte[g] = UNSET => Insiders(g)' = Insiders(g)
    PROVE  Status(g)' = Status(g)
<1>1. CASE guard_byte[g] # UNSET
  BY <1>1 DEF Status
<1>2. CASE guard_byte[g] = UNSET
  <2>1. PICK S : S = Insiders(g) /\ S = Insiders(g)'
    BY <1>2
  <2>2. Status(g) = IF S = {} THEN "unset" ELSE CHOOSE t \in S : TRUE
    BY <1>2, <2>1 DEF Status
  <2>3. Status(g)' = IF S = {} THEN "unset" ELSE CHOOSE t \in S : TRUE
    BY <1>2, <2>1 DEF Status
  <2> QED
    BY <2>2, <2>3
<1> QED
  BY <1>1, <1>2

\* Who is inside an initialiser is alone there.
LEMMA OneInsider ==
    ASSUME MutualExclusion, NEW t \in Thread, NEW g, Inside(t, g)
    PROVE  Insiders(g) = {t}
<1>1. \A u \in Thread : Inside(u, g) => u = t
  BY DEF MutualExclusion, Inside
<1> QED
  BY <1>1 DEF Insiders

\* Every step of the guards is a step of OnceInit or leaves its state alone.
LEMMA GuardSimulates ==
    ASSUME GuardInv, [Next]_vars
    PROVE  [Abstract!Next]_Abstract!vars
<1> DEFINE status == [g \in Guard |-> Status(g)]
<1>0. TypeOK /\ MutualExclusion /\ CallsAreSound
  BY DEF GuardInv
<1>1. ASSUME NEW t \in Thread, NEW g \in Guard, guard_byte[g] # UNSET,
             seen' = [seen EXCEPT ![t] = @ \cup {g}], UNCHANGED <<guard_byte, stack>>
      PROVE  Abstract!Next
  <2>1. Status(g) = "complete"
    BY <1>1, StatusFacts
  <2>2. status' = status
    BY <1>1, StatusFramed DEF Insiders, Inside
  <2> QED
    BY <1>1, <2>1, <2>2 DEF Abstract!Next, Abstract!Observe
<1>2. ASSUME NEW t \in Thread, AcquireDone(t)
      PROVE  Abstract!Next
  <2>1. at[t] \in Guard
    BY <1>0, <1>2 DEF AcquireDone, InWaitLoop, CallsAreSound
  <2>2. guard_byte[at[t]] # UNSET
    BY <1>2, <2>1 DEF AcquireDone, GuardInv, GuardByteRunsAhead
  <2> QED
    BY <1>1, <1>2, <2>1, <2>2 DEF AcquireDone, ReturnDone
<1>3. ASSUME NEW t \in Thread, AcquirePending(t)
      PROVE  Abstract!Next
  <2>1. at[t] \in Guard
    BY <1>0, <1>3 DEF AcquirePending, InWaitLoop, CallsAreSound
  <2> PICK g \in Guard : g = at[t]
    BY <2>1
  <2>2. guard_byte[g] = UNSET /\ \A u \in Thread : ~Inside(u, g)
    BY <1>3, <2>1 DEF AcquirePending, GuardInv, GuardByteRunsAhead, PendingMeansInside
  <2>3. stack' = [stack EXCEPT ![t] = Append(@, g)] /\ UNCHANGED <<guard_byte, seen>>
    BY <1>3 DEF AcquirePending, Push
  <2>4. \A u \in Thread, h \in Guard : Inside(u, h)' <=> Inside(u, h) \/ (u = t /\ h = g)
    BY <1>0, <2>2, <2>3, PushStack
  <2>5. Insiders(g) = {} /\ Insiders(g)' = {t}
    BY <2>2, <2>4 DEF Insiders
  <2>6. Status(g) = "unset" /\ Status(g)' = t
    BY <2>2, <2>3, <2>5, StatusFacts, StatusFactsNext
  <2>7. \A h \in Guard \ {g} : Status(h)' = Status(h)
    BY <2>3, <2>4, StatusFramed DEF Insiders
  <2>8. status' = [status EXCEPT ![g] = t]
    BY <2>6, <2>7
  <2> QED
    BY <2>3, <2>6, <2>8 DEF Abstract!Next, Abstract!Begin
<1>4. ASSUME NEW t \in Thread, GuardByteRelease(t)
      PROVE  Abstract!Next
  <2>1. stack[t] \in Seq(Guard) /\ stack[t] # <<>> /\ pc[t] = "run"
    BY <1>0, <1>4 DEF GuardByteRelease, TypeOK
  <2>2. /\ Innermost(t) \in Guard /\ Inside(t, Innermost(t))
        /\ guard_byte[Innermost(t)] = UNSET
    <3>1. Len(stack[t]) \in 1 .. Len(stack[t]) /\ stack[t][Len(stack[t])] \in Guard
      BY <2>1, PopFacts
    <3> QED
      BY <2>1, <3>1 DEF Innermost, Inside, GuardInv, GuardByteRunsAhead
  <2> PICK g \in Guard : g = Innermost(t)
    BY <2>2
  <2>3. /\ guard_byte' = [guard_byte EXCEPT ![g] = COMPLETE_BIT]
        /\ UNCHANGED <<stack, seen>>
    BY <1>4 DEF GuardByteRelease
  <2>4. Status(g) = t
    BY <1>0, <2>2, OneInsider, StatusFacts
  <2>5. guard_byte'[g] # UNSET
    BY <1>0, <2>3 DEF TypeOK, COMPLETE_BIT, UNSET
  <2>6. Status(g)' = "complete"
    BY <2>5, StatusFactsNext
  <2>7. \A h \in Guard \ {g} : Status(h)' = Status(h)
    BY <1>0, <2>3, StatusFramed DEF Insiders, Inside, TypeOK
  <2>8. status' = [status EXCEPT ![g] = "complete"]
    BY <2>6, <2>7
  <2> QED
    BY <2>3, <2>4, <2>8 DEF Abstract!Next, Abstract!Finish
<1>5. ASSUME NEW t \in Thread, InitByteRelease(t)
      PROVE  UNCHANGED Abstract!vars
  <2>1. stack[t] \in Seq(Guard) /\ stack[t] # <<>> /\ pc[t] = "init_release"
    BY <1>0, <1>5 DEF InitByteRelease, TypeOK, CallsAreSound
  <2> PICK g : g = Innermost(t)
    OBVIOUS
  <2>2. Pop(t) /\ UNCHANGED <<guard_byte, seen>>
    BY <1>5 DEF InitByteRelease
  <2>3. \A u \in Thread, h \in Guard : Inside(u, h)' <=> Inside(u, h) /\ h # g
    BY <1>0, <2>1, <2>2, PopStack
  <2>4. guard_byte[g] # UNSET
    <3>1. Len(stack[t]) \in 1 .. Len(stack[t])
      BY <2>1, PopFacts
    <3> QED
      BY <2>1, <3>1 DEF Innermost, GuardInv, GuardByteRunsAhead
  <2>5. \A h \in Guard : Status(h)' = Status(h)
    BY <2>2, <2>3, <2>4, StatusFramed DEF Insiders
  <2> QED
    BY <2>2, <2>5 DEF Abstract!vars
<1>6. ASSUME NEW t \in Thread, InitByteAbort(t)
      PROVE  Abstract!Next
  <2>1. stack[t] \in Seq(Guard) /\ stack[t] # <<>> /\ pc[t] = "run"
    BY <1>0, <1>6 DEF InitByteAbort, TypeOK
  <2> PICK g : g = Innermost(t)
    OBVIOUS
  <2>2. Pop(t) /\ UNCHANGED <<guard_byte, seen>>
    BY <1>6 DEF InitByteAbort
  <2>3. g \in Guard /\ Inside(t, g)
    BY <1>0, <2>1, <2>2, PopStack
  <2>4. \A u \in Thread, h \in Guard : Inside(u, h)' <=> Inside(u, h) /\ h # g
    BY <1>0, <2>1, <2>2, PopStack
  <2>5. guard_byte[g] = UNSET
    <3>1. Len(stack[t]) \in 1 .. Len(stack[t])
      BY <2>1, PopFacts
    <3> QED
      BY <2>1, <3>1 DEF Innermost, GuardInv, GuardByteRunsAhead
  <2>6. Status(g) = t
    BY <1>0, <2>3, <2>5, OneInsider, StatusFacts
  <2>7. Insiders(g)' = {}
    BY <2>3, <2>4 DEF Insiders
  <2>8. Status(g)' = "unset"
    BY <2>2, <2>5, <2>7, StatusFactsNext
  <2>9. \A h \in Guard \ {g} : Status(h)' = Status(h)
    BY <2>2, <2>4, StatusFramed DEF Insiders
  <2>10. status' = [status EXCEPT ![g] = "unset"]
    BY <2>8, <2>9
  <2> QED
    BY <2>2, <2>3, <2>6, <2>10 DEF Abstract!Next, Abstract!Fail
<1>7. ASSUME UNCHANGED <<guard_byte, stack, seen>>
      PROVE  UNCHANGED Abstract!vars
  <2>1. \A h \in Guard : Status(h)' = Status(h)
    BY <1>7, StatusFramed DEF Insiders, Inside
  <2> QED
    BY <1>7, <2>1 DEF Abstract!vars
<1>8. ASSUME NEW t \in Thread, NEW g \in Guard, GuardByteDone(t, g)
      PROVE  Abstract!Next
  BY <1>1, <1>8 DEF GuardByteDone, ReturnDone
<1>9. ASSUME NEW t \in Thread,
             \/ \E g \in Guard : GuardByteUnset(t, g)
             \/ AbortRecursive(t) \/ WaitPending(t) \/ SpuriousWakeup(t)
             \/ Broadcast(t)
      PROVE  UNCHANGED <<guard_byte, stack, seen>>
  BY <1>9 DEF GuardByteUnset, AbortRecursive, WaitPending, SpuriousWakeup, Broadcast
<1>10. CASE UNCHANGED vars
  BY <1>7, <1>10 DEF vars
<1> QED
  BY <1>2, <1>3, <1>4, <1>5, <1>6, <1>7, <1>8, <1>9, <1>10
  DEF Next, LibraryStep, InitialiserEnds

\* The guards keep the promise of OnceInit: initialisers begin, fail and finish
\* one at a time, and nobody is told "done" before one has finished.
THEOREM GuardImplementsOnceInit == Spec => ImplementsOnceInit
<1>1. Init => Abstract!Init
  BY DEF Init, Abstract!Init, Status, Insiders, Inside
<1>2. GuardInv /\ [Next]_vars => [Abstract!Next]_Abstract!vars
  BY GuardSimulates
<1> QED
  BY <1>1, <1>2, GuardInvariant, PTL DEF Spec, ImplementsOnceInit, Abstract!Spec
=============================================================================
