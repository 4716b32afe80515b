-------------------------- MODULE ThreadExitProofs --------------------------
(***************************************************************************)
(* Theorems about ThreadExit, for any number of variables, any use that    *)
(* destructors make of one another and any order of the keys.              *)
(***************************************************************************)
EXTENDS ThreadExit, SequenceTheorems, TLAPS

USE DEF PTHREAD_DESTRUCTOR_ITERATIONS, EMUTLS_SKIP_DESTRUCTOR_ROUNDS

-----------------------------------------------------------------------------
(* Lists of objects.                                                       *)

\* register_dtor puts a new object in front of the list.
LEMMA ConsFacts ==
    ASSUME NEW s \in Seq(Object), NEW x \in Object
    PROVE  /\ <<x>> \o s \in Seq(Object)
           /\ <<x>> \o s # <<>>
           /\ Elements(<<x>> \o s) = Elements(s) \cup {x}
           /\ x \notin Elements(s) /\ Distinct(s) => Distinct(<<x>> \o s)
           /\ \A y, z : x \notin Elements(s) /\ z # x /\ Ahead(s, y, z)
                           => Ahead(<<x>> \o s, y, z)
<1> DEFINE t == <<x>> \o s
<1>1. /\ t \in Seq(Object) /\ Len(t) = Len(s) + 1
      /\ t[1] = x
      /\ \A i \in 1 .. Len(s) : t[i + 1] = s[i]
  OBVIOUS
<1>2. \A i \in 2 .. Len(t) : i - 1 \in 1 .. Len(s) /\ t[i] = s[i - 1]
  BY <1>1
<1>3. \A i \in 1 .. Len(t) : i = 1 \/ i \in 2 .. Len(t)
  BY <1>1
<1>4. 1 \in 1 .. Len(t) /\ t # <<>>
  BY <1>1
<1> HIDE DEF t
<1>5. Elements(t) = Elements(s) \cup {x}
  <2>1. ASSUME NEW i \in 1 .. Len(t) PROVE t[i] \in Elements(s) \cup {x}
    BY <1>1, <1>2, <1>3 DEF Elements
  <2>2. ASSUME NEW i \in 1 .. Len(s) PROVE s[i] \in Elements(t)
    <3>1. i + 1 \in 1 .. Len(t) /\ t[i + 1] = s[i]
      BY <1>1
    <3> QED
      BY <3>1 DEF Elements
  <2>3. x \in Elements(t)
    BY <1>1, <1>4 DEF Elements
  <2> QED
    BY <2>1, <2>2, <2>3 DEF Elements
<1>6. ASSUME x \notin Elements(s) PROVE \A i \in 1 .. Len(t) : t[i] = x => i = 1
  BY <1>6, <1>2, <1>3 DEF Elements
<1>7. ASSUME x \notin Elements(s), Distinct(s) PROVE Distinct(t)
  <2> SUFFICES ASSUME NEW i \in 1 .. Len(t), NEW j \in 1 .. Len(t), t[i] = t[j]
               PROVE  i = j
    BY DEF Distinct
  <2>1. CASE i = 1 \/ j = 1
    BY <2>1, <1>1, <1>6, <1>7
  <2>2. CASE i # 1 /\ j # 1
    <3>1. i - 1 = j - 1
      BY <2>2, <1>2, <1>3, <1>7 DEF Distinct
    <3> QED
      BY <3>1, <1>1
  <2> QED
    BY <2>1, <2>2
<1>8. ASSUME NEW y, NEW z, x \notin Elements(s), z # x, Ahead(s, y, z)
      PROVE  Ahead(t, y, z)
  <2> SUFFICES ASSUME NEW k \in 1 .. Len(t), NEW l \in 1 .. Len(t),
                      t[k] = z, t[l] = y
               PROVE  l < k
    BY DEF Ahead
  <2>1. k # 1
    BY <1>1, <1>8
  <2>2. CASE l = 1
    BY <2>1, <2>2, <1>1
  <2>3. CASE l # 1
    <3>1. l - 1 < k - 1
      BY <2>1, <2>3, <1>2, <1>3, <1>8 DEF Ahead
    <3> QED
      BY <3>1, <1>1
  <2> QED
    BY <2>2, <2>3
<1> QED
  BY <1>1, <1>4, <1>5, <1>7, <1>8 DEF t

\* run_dtors takes the object at the head of the list.
LEMMA TailFacts ==
    ASSUME NEW s \in Seq(Object), s # <<>>
    PROVE  /\ Tail(s) \in Seq(Object)
           /\ Head(s) \in Object
           /\ Elements(s) = Elements(Tail(s)) \cup {Head(s)}
           /\ Distinct(s) => Distinct(Tail(s)) /\ Head(s) \notin Elements(Tail(s))
           /\ \A y, z : Ahead(s, y, z) => Ahead(Tail(s), y, z)
           /\ \A y : Ahead(s, y, Head(s)) => y \notin Elements(s)
<1> DEFINE t == Tail(s)
<1>1. /\ t \in Seq(Object) /\ Len(s) = Len(t) + 1 /\ Head(s) = s[1]
      /\ \A i \in 1 .. Len(t) : t[i] = s[i + 1]
      /\ Head(s) \in Object
  OBVIOUS
<1>2. 1 \in 1 .. Len(s) /\ \A i \in 1 .. Len(t) : i + 1 \in 2 .. Len(s)
  BY <1>1
<1>3. \A i \in 1 .. Len(s) : i = 1 \/ (i - 1 \in 1 .. Len(t) /\ t[i - 1] = s[i])
  BY <1>1
<1> HIDE DEF t
<1>4. Elements(s) = Elements(t) \cup {Head(s)}
  <2>1. ASSUME NEW i \in 1 .. Len(s) PROVE s[i] \in Elements(t) \cup {Head(s)}
    BY <1>1, <1>3 DEF Elements
  <2>2. ASSUME NEW i \in 1 .. Len(t) PROVE t[i] \in Elements(s)
    <3>1. i + 1 \in 1 .. Len(s) /\ t[i] = s[i + 1]
      BY <1>1
    <3> QED
      BY <3>1 DEF Elements
  <2>3. Head(s) \in Elements(s)
    BY <1>1, <1>2 DEF Elements
  <2> QED
    BY <2>1, <2>2, <2>3 DEF Elements
<1>5. ASSUME Distinct(s) PROVE Distinct(t) /\ Head(s) \notin Elements(t)
  <2>1. ASSUME NEW i \in 1 .. Len(t), NEW j \in 1 .. Len(t), t[i] = t[j]
        PROVE  i = j
    <3>1. i + 1 \in 1 .. Len(s) /\ j + 1 \in 1 .. Len(s) /\ s[i + 1] = s[j + 1]
      BY <1>1, <2>1
    <3>2. i + 1 = j + 1
      BY <3>1, <1>5 DEF Distinct
    <3> QED
      BY <3>2, <1>1
  <2>2. ASSUME NEW i \in 1 .. Len(t), t[i] = Head(s)
        PROVE  FALSE
    <3>1. i + 1 \in 1 .. Len(s) /\ s[i + 1] = s[1] /\ 1 \in 1 .. Len(s)
      BY <1>1, <2>2
    <3>2. i + 1 = 1
      BY <3>1, <1>5 DEF Distinct
    <3> QED
      BY <3>2, <1>1
  <2> QED
    BY <2>1, <2>2 DEF Distinct, Elements
<1>6. ASSUME NEW y, NEW z, Ahead(s, y, z) PROVE Ahead(t, y, z)
  <2> SUFFICES ASSUME NEW k \in 1 .. Len(t), NEW l \in 1 .. Len(t),
                      t[k] = z, t[l] = y
               PROVE  l < k
    BY DEF Ahead
  <2>1. /\ k + 1 \in 1 .. Len(s) /\ l + 1 \in 1 .. Len(s)
        /\ s[k + 1] = z /\ s[l + 1] = y
    BY <1>1
  <2>2. l + 1 < k + 1
    BY <2>1, <1>6 DEF Ahead
  <2> QED
    BY <2>2, <1>1
<1>7. ASSUME NEW y, Ahead(s, y, Head(s)) PROVE y \notin Elements(s)
  <2>1. ASSUME NEW l \in 1 .. Len(s), s[l] = y PROVE FALSE
    <3>1. l < 1
      BY <2>1, <1>1, <1>2, <1>7 DEF Ahead
    <3> QED
      BY <3>1
  <2> QED
    BY <2>1 DEF Elements
<1> QED
  BY <1>1, <1>4, <1>5, <1>6, <1>7 DEF t

\* An object that is added at the end of a history.
LEMMA AppendFacts ==
    ASSUME NEW s \in Seq(Object), NEW x \in Object
    PROVE  /\ Append(s, x) \in Seq(Object)
           /\ Len(Append(s, x)) = Len(s) + 1
           /\ Append(s, x)[Len(s) + 1] = x
           /\ \A i \in 1 .. Len(s) : Append(s, x)[i] = s[i]
           /\ Elements(Append(s, x)) = Elements(s) \cup {x}
           /\ x \notin Elements(s) /\ Distinct(s) => Distinct(Append(s, x))
           /\ \A y, z : /\ x \notin Elements(s) /\ y # z /\ Ahead(s, y, z)
                        /\ y = x => z \notin Elements(s)
                        => Ahead(Append(s, x), y, z)
<1> DEFINE t == Append(s, x)
           n == Len(s) + 1
<1>1. /\ t \in Seq(Object) /\ Len(t) = n /\ t[n] = x
      /\ \A i \in 1 .. Len(s) : t[i] = s[i]
      /\ Len(s) \in Nat
  OBVIOUS
<1>2. \A i \in 1 .. Len(t) : i = n \/ i \in 1 .. Len(s)
  BY <1>1
<1>3. n \in 1 .. Len(t) /\ \A i \in 1 .. Len(s) : i \in 1 .. Len(t) /\ i < n
  BY <1>1
<1> HIDE DEF t, n
<1>4. Elements(t) = Elements(s) \cup {x}
  BY <1>1, <1>2, <1>3 DEF Elements
<1>5. ASSUME x \notin Elements(s), Distinct(s) PROVE Distinct(t)
  BY <1>1, <1>2, <1>3, <1>5 DEF Elements, Distinct
<1>6. ASSUME NEW y, NEW z, x \notin Elements(s), y # z, Ahead(s, y, z),
             y = x => z \notin Elements(s)
      PROVE  Ahead(t, y, z)
  BY <1>1, <1>2, <1>3, <1>6 DEF Elements, Ahead
<1> QED
  BY <1>1, <1>4, <1>5, <1>6 DEF t, n

LEMMA EmptyFacts ==
    /\ <<>> \in Seq(Object) /\ Elements(<<>>) = {} /\ Distinct(<<>>) /\ Len(<<>>) = 0
    /\ \A y, z : Ahead(<<>>, y, z)
    /\ \A s \in Seq(Object) : s # <<>> => Elements(s) # {}
<1>1. \A s \in Seq(Object) : s # <<>> => 1 \in 1 .. Len(s)
  OBVIOUS
<1> QED
  BY <1>1 DEF Elements, Distinct, Ahead

-----------------------------------------------------------------------------
(* Types.                                                                  *)

LEMMA TypesInit == Init => TypeOK
<1> SUFFICES ASSUME Init PROVE TypeOK
  OBVIOUS
<1>1. at_end \in [count : Nat, array : BOOLEAN, main : BOOLEAN]
  BY DEF Init
<1>2. key \in 0 .. Len(KeyOrder) + 1
  BY ThreadExitAssumption DEF Init
<1>3. \A s \in {dtors, walk, registered, destroyed} : s \in Seq(Object)
  BY EmptyFacts DEF Init
<1>4. round \in 0 .. 4 /\ skip \in 0 .. 3 /\ gen \in Nat
  BY DEF Init
<1>5. /\ tsd_used \in BOOLEAN /\ has_array \in BOOLEAN /\ in_user \in BOOLEAN
      /\ blocks \subseteq Var /\ freed \subseteq Object
      /\ armed \subseteq Keys /\ todo \subseteq Var
      /\ running \in Object \cup {NoObject}
      /\ phase \in {"body", "keys", "exit", "done"}
  BY DEF Init
<1> QED
  BY <1>1, <1>2, <1>3, <1>4, <1>5 DEF TypeOK

\* What a use of v does to the variables of Use.
LEMMA UseFacts ==
    ASSUME TypeOK, NEW v \in Var, NEW ok \in BOOLEAN, Use(v, ok)
    PROVE  /\ has_array' = TRUE /\ skip' \in 0 .. 3 /\ tsd_used' \in BOOLEAN
           /\ blocks' = blocks \cup {v} /\ gen' = gen /\ freed' = freed
           /\ <<v, gen>> \in Object
           /\ has_array => skip' = skip
           /\ ~has_array => skip' = 3 /\ tsd_used'
           /\ tsd_used => tsd_used'
           /\ \/ /\ v \notin blocks
                 /\ dtors' = <<<<v, gen>>>> \o dtors
                 /\ registered' = Append(registered, <<v, gen>>)
                 /\ tsd_used'
              \/ UNCHANGED <<dtors, registered>>
           /\ dtors' \in Seq(Object) /\ registered' \in Seq(Object)
<1>1. <<v, gen>> \in Object
  BY DEF TypeOK, Object
<1>2. /\ has_array' = TRUE /\ skip' \in 0 .. 3
      /\ blocks' = blocks \cup {v} /\ gen' = gen /\ freed' = freed
      /\ has_array => skip' = skip
      /\ ~has_array => skip' = 3
  BY DEF Use, TypeOK
<1>3. /\ tsd_used' \in BOOLEAN
      /\ ~has_array \/ tsd_used => tsd_used'
      /\ v \notin blocks /\ ok => tsd_used'
  BY DEF Use
<1>4. CASE v \notin blocks /\ ok
  <2>1. /\ dtors' = <<<<v, gen>>>> \o dtors
        /\ registered' = Append(registered, <<v, gen>>)
    BY <1>4 DEF Use
  <2>2. dtors' \in Seq(Object) /\ registered' \in Seq(Object)
    BY <1>1, <2>1, ConsFacts, AppendFacts DEF TypeOK
  <2> QED
    BY <1>1, <1>2, <1>3, <1>4, <2>1, <2>2
<1>5. CASE ~(v \notin blocks /\ ok)
  <2>1. UNCHANGED <<dtors, registered>>
    BY <1>5 DEF Use
  <2>2. dtors' \in Seq(Object) /\ registered' \in Seq(Object)
    BY <2>1 DEF TypeOK
  <2> QED
    BY <1>1, <1>2, <1>3, <2>1, <2>2
<1> QED
  BY <1>4, <1>5

LEMMA TypesNext == TypeOK /\ [Next]_vars => TypeOK'
<1> SUFFICES ASSUME TypeOK, [Next]_vars PROVE TypeOK'
  OBVIOUS
<1>0. Len(KeyOrder) \in Nat
  BY ThreadExitAssumption
<1>1. ASSUME NEW v \in Var, NEW ok \in BOOLEAN, BodyUses(v, ok) PROVE TypeOK'
  <2>1. Use(v, ok) /\ UNCHANGED <<keyVars, armed, walkVars, destroyed>>
    BY <1>1 DEF BodyUses
  <2>2. /\ has_array' = TRUE /\ skip' \in 0 .. 3 /\ tsd_used' \in BOOLEAN
        /\ blocks' = blocks \cup {v} /\ gen' = gen /\ freed' = freed
        /\ dtors' \in Seq(Object) /\ registered' \in Seq(Object)
    BY <2>1, UseFacts
  <2> QED
    BY <2>1, <2>2 DEF TypeOK, keyVars, walkVars
<1>2. ASSUME NEW v \in Var, NEW ok \in BOOLEAN, DtorUsesVar(v, ok) PROVE TypeOK'
  <2>1. /\ Use(v, ok) /\ UNCHANGED <<keyVars, armed, walk, running, in_user, destroyed>>
        /\ todo' = todo \ {v}
    BY <1>2 DEF DtorUsesVar
  <2>2. /\ has_array' = TRUE /\ skip' \in 0 .. 3 /\ tsd_used' \in BOOLEAN
        /\ blocks' = blocks \cup {v} /\ gen' = gen /\ freed' = freed
        /\ dtors' \in Seq(Object) /\ registered' \in Seq(Object)
    BY <2>1, UseFacts
  <2> QED
    BY <2>1, <2>2 DEF TypeOK, keyVars
<1>3. ASSUME NEW k \in Keys, Arm(k) PROVE TypeOK'
  BY <1>3 DEF Arm, TypeOK, keyVars, emutlsVars, walkVars
<1>4. CASE ThreadEnds
  <2>1. at_end' \in [count : Nat, array : BOOLEAN, main : BOOLEAN]
    BY <1>4 DEF ThreadEnds, TypeOK
  <2>2. /\ phase' \in {"body", "keys", "exit", "done"} /\ round' \in 0 .. 4
        /\ key' \in 0 .. Len(KeyOrder) + 1
    BY <1>4, <1>0 DEF ThreadEnds, TypeOK
  <2> QED
    BY <1>4, <2>1, <2>2 DEF ThreadEnds, TypeOK, emutlsVars, walkVars
<1>5. CASE MainExits
  <2>1. at_end' \in [count : Nat, array : BOOLEAN, main : BOOLEAN]
    BY <1>5 DEF MainExits, TypeOK
  <2> QED
    BY <1>5, <2>1, EmptyFacts DEF MainExits, TakeList, TypeOK, emutlsVars
<1>6. CASE NoValue
  <2>1. key <= Len(KeyOrder) /\ NextKey
    BY <1>6 DEF NoValue, AtKey
  <2> QED
    BY <1>0, <1>6, <2>1 DEF NoValue, NextKey, TypeOK, emutlsVars, walkVars
<1>7. CASE EmutlsSkips
  <2>1. skip' \in 0 .. 3
    BY <1>7 DEF EmutlsSkips, TypeOK
  <2> QED
    BY <1>0, <1>7, <2>1 DEF EmutlsSkips, AtKey, NextKey, TypeOK, walkVars
<1>8. CASE EmutlsFrees
  <2>1. {<<v, gen>> : v \in blocks} \subseteq Object /\ gen + 1 \in Nat
    BY DEF TypeOK, Object
  <2>2. freed' \subseteq Object /\ gen' \in Nat
    BY <1>8, <2>1 DEF EmutlsFrees, TypeOK
  <2>3. blocks' \subseteq Var /\ has_array' \in BOOLEAN
    BY <1>8 DEF EmutlsFrees
  <2>4. key' \in 0 .. Len(KeyOrder) + 1 /\ UNCHANGED <<phase, round, at_end>>
    BY <1>0, <1>8 DEF EmutlsFrees, AtKey, NextKey, TypeOK
  <2> QED
    BY <1>8, <2>2, <2>3, <2>4 DEF EmutlsFrees, TypeOK, walkVars
<1>9. CASE RunDtorsKey
  BY <1>0, <1>9, EmptyFacts DEF RunDtorsKey, TakeList, AtKey, NextKey, TypeOK, emutlsVars
<1>10. CASE ThreadStructKey
  BY <1>0, <1>10 DEF ThreadStructKey, AtKey, NextKey, TypeOK, emutlsVars, walkVars
<1>11. CASE UserKey
  BY <1>0, <1>11, ThreadExitAssumption DEF UserKey, AtKey, NextKey, TypeOK, emutlsVars
<1>12. CASE RoundEnds
  <2>1. /\ phase' \in {"body", "keys", "exit", "done"} /\ round' \in 0 .. 4
        /\ key' \in 0 .. Len(KeyOrder) + 1
    BY <1>0, <1>12 DEF RoundEnds, TypeOK
  <2> QED
    BY <1>12, <2>1 DEF RoundEnds, TypeOK, emutlsVars, walkVars
<1>13. CASE CallDtor
  <2>1. Tail(walk) \in Seq(Object) /\ Head(walk) \in Object
    BY <1>13, TailFacts DEF CallDtor, TypeOK
  <2>2. DtorUses[Head(walk)[1]] \subseteq Var
    BY <2>1, ThreadExitAssumption DEF Object
  <2> QED
    BY <1>13, <2>1, <2>2 DEF CallDtor, TypeOK, keyVars, emutlsVars
<1>14. CASE DtorReturns
  <2>1. Append(destroyed, running) \in Seq(Object)
    BY <1>14, AppendFacts DEF DtorReturns, TypeOK
  <2> QED
    BY <1>14, <2>1 DEF DtorReturns, TypeOK, keyVars, emutlsVars
<1>15. CASE UserReturns
  BY <1>15 DEF UserReturns, TypeOK, keyVars, emutlsVars
<1>16. CASE ExitReturns
  BY <1>16 DEF ExitReturns, TypeOK, emutlsVars, walkVars
<1>17. CASE UNCHANGED vars
  BY <1>17 DEF TypeOK, vars, keyVars, emutlsVars, walkVars
<1> QED
  BY <1>1, <1>2, <1>3, <1>4, <1>5, <1>6, <1>7, <1>8, <1>9, <1>10, <1>11, <1>12,
     <1>13, <1>14, <1>15, <1>16, <1>17 DEF Next

-----------------------------------------------------------------------------
(* The lists.  They change in four ways only: an object is registered, the *)
(* list is taken from its key, a destructor is called, and it returns.     *)

listVars == <<dtors, walk, running, registered, destroyed>>

\* A block keeps its owner until emutls_shutdown starts a new array.
BlocksGrow == \/ gen' = gen /\ blocks \subseteq blocks'
              \/ gen' = gen + 1

Registers(v) ==
    /\ v \notin blocks
    /\ dtors' = <<<<v, gen>>>> \o dtors
    /\ registered' = Append(registered, <<v, gen>>)
    /\ blocks' = blocks \cup {v} /\ gen' = gen
    /\ UNCHANGED <<phase, at_end, walk, running, destroyed>>

TakesList ==
    /\ walk = <<>> /\ running = NoObject
    /\ TakeList
    /\ UNCHANGED <<running, registered, destroyed, gen, blocks>>

LEMMA StepsOnLists ==
    ASSUME TypeOK, OrderKept, [Next]_vars
    PROVE  \/ UNCHANGED listVars /\ BlocksGrow
           \/ \E v \in Var : Registers(v) /\ (phase = "body" \/ running # NoObject \/ in_user)
           \/ TakesList /\ (RunDtorsKey \/ MainExits)
           \/ CallDtor
           \/ DtorReturns
<1>1. ASSUME NEW v \in Var, NEW ok \in BOOLEAN, Use(v, ok),
             UNCHANGED <<phase, at_end, walk, running, destroyed>>
      PROVE  (UNCHANGED listVars /\ BlocksGrow) \/ Registers(v)
  <2>1. /\ blocks' = blocks \cup {v} /\ gen' = gen
        /\ \/ /\ v \notin blocks
              /\ dtors' = <<<<v, gen>>>> \o dtors
              /\ registered' = Append(registered, <<v, gen>>)
           \/ UNCHANGED <<dtors, registered>>
    BY <1>1, UseFacts
  <2> QED
    BY <1>1, <2>1 DEF Registers, listVars, BlocksGrow
<1>2. ASSUME NEW v \in Var, NEW ok \in BOOLEAN, BodyUses(v, ok)
      PROVE  \/ UNCHANGED listVars /\ BlocksGrow
             \/ Registers(v) /\ phase = "body"
  BY <1>1, <1>2 DEF BodyUses, keyVars, walkVars
<1>3. ASSUME NEW v \in Var, NEW ok \in BOOLEAN, DtorUsesVar(v, ok)
      PROVE  \/ UNCHANGED listVars /\ BlocksGrow
             \/ Registers(v) /\ (running # NoObject \/ in_user)
  BY <1>1, <1>3 DEF DtorUsesVar, keyVars
<1>4. ASSUME UNCHANGED emutlsVars PROVE BlocksGrow
  BY <1>4 DEF emutlsVars, BlocksGrow
<1>5. ASSUME NEW k \in Keys, Arm(k) PROVE UNCHANGED listVars /\ BlocksGrow
  BY <1>4, <1>5 DEF Arm, listVars, walkVars
<1>6. CASE ThreadEnds
  BY <1>4, <1>6 DEF ThreadEnds, listVars, walkVars
<1>7. CASE MainExits
  BY <1>7 DEF MainExits, TakesList, OrderKept, emutlsVars
<1>8. CASE NoValue
  BY <1>4, <1>8 DEF NoValue, listVars, walkVars
<1>9. CASE EmutlsSkips
  BY <1>9 DEF EmutlsSkips, listVars, walkVars, BlocksGrow
<1>10. CASE EmutlsFrees
  BY <1>10 DEF EmutlsFrees, listVars, walkVars, BlocksGrow
<1>11. CASE RunDtorsKey
  BY <1>11 DEF RunDtorsKey, TakesList, AtKey, Idle, emutlsVars
<1>12. CASE ThreadStructKey
  BY <1>4, <1>12 DEF ThreadStructKey, listVars, walkVars
<1>13. CASE UserKey
  BY <1>4, <1>13 DEF UserKey, listVars
<1>14. CASE RoundEnds
  BY <1>4, <1>14 DEF RoundEnds, listVars, walkVars
<1>15. CASE UserReturns
  BY <1>4, <1>15 DEF UserReturns, listVars
<1>16. CASE ExitReturns
  BY <1>4, <1>16 DEF ExitReturns, listVars, walkVars
<1>17. CASE UNCHANGED vars
  BY <1>4, <1>17 DEF vars, listVars, walkVars
<1> QED
  BY <1>2, <1>3, <1>5, <1>6, <1>7, <1>8, <1>9, <1>10, <1>11, <1>12, <1>13,
     <1>14, <1>15, <1>16, <1>17 DEF Next

\* The thread leaves its body once; what it constructed by then is counted.
LEMMA StepsOnPhase ==
    ASSUME TypeOK, OrderKept, [Next]_vars
    PROVE  \/ UNCHANGED <<phase, at_end>>
           \/ /\ phase = "body" /\ at_end'.count = Len(registered)
              /\ UNCHANGED <<registered, destroyed, running>>
              /\ \/ /\ phase' \in {"keys", "done"} /\ ~at_end'.main
                    /\ UNCHANGED listVars
                 \/ phase' = "exit" /\ at_end'.main /\ TakesList
           \/ /\ phase \in {"keys", "exit"} /\ phase' = "done"
              /\ UNCHANGED at_end /\ UNCHANGED listVars
              /\ walk = <<>> /\ running = NoObject
<1>1. ASSUME NEW v \in Var, NEW ok \in BOOLEAN, BodyUses(v, ok) \/ DtorUsesVar(v, ok)
      PROVE  UNCHANGED <<phase, at_end>>
  BY <1>1 DEF BodyUses, DtorUsesVar, keyVars
<1>2. ASSUME NEW k \in Keys, Arm(k) PROVE UNCHANGED <<phase, at_end>>
  BY <1>2 DEF Arm, keyVars
<1>3. CASE ThreadEnds
  <2>1. at_end'.count = Len(registered) /\ at_end'.main = FALSE
    BY <1>3 DEF ThreadEnds
  <2>2. phase = "body" /\ phase' \in {"keys", "done"} /\ UNCHANGED listVars
    BY <1>3 DEF ThreadEnds, listVars, walkVars
  <2> QED
    BY <2>1, <2>2 DEF listVars
<1>4. CASE MainExits
  <2>1. at_end'.count = Len(registered) /\ at_end'.main = TRUE
    BY <1>4 DEF MainExits
  <2>2. phase = "body" /\ phase' = "exit" /\ TakesList
    BY <1>4 DEF MainExits, TakesList, OrderKept, emutlsVars
  <2> QED
    BY <2>1, <2>2 DEF TakesList
<1>5. CASE NoValue \/ EmutlsSkips \/ EmutlsFrees \/ RunDtorsKey \/ ThreadStructKey \/ UserKey
  BY <1>5 DEF NoValue, EmutlsSkips, EmutlsFrees, RunDtorsKey, ThreadStructKey, UserKey, NextKey
<1>6. CASE RoundEnds
  BY <1>6 DEF RoundEnds, Idle, listVars, walkVars
<1>7. CASE ExitReturns
  BY <1>7 DEF ExitReturns, Idle, listVars, walkVars
<1>8. CASE CallDtor \/ DtorReturns \/ UserReturns
  BY <1>8 DEF CallDtor, DtorReturns, UserReturns, keyVars
<1>9. CASE UNCHANGED vars
  BY <1>9 DEF vars, keyVars
<1> QED
  BY <1>1, <1>2, <1>3, <1>4, <1>5, <1>6, <1>7, <1>8, <1>9 DEF Next

LEMMA ListsInit == Init => ListsAgree /\ OrderKept
<1> SUFFICES ASSUME Init PROVE ListsAgree /\ OrderKept
  OBVIOUS
<1>1. /\ registered = <<>> /\ dtors = <<>> /\ walk = <<>> /\ destroyed = <<>>
      /\ running = NoObject /\ phase = "body" /\ at_end.main = FALSE
  BY DEF Init
<1>2. ListsAgree
  BY <1>1, EmptyFacts DEF ListsAgree
<1>3. Counted = 0
  BY <1>1, EmptyFacts DEF Counted
<1>4. at_end.main = (phase = "exit")
  BY <1>1
<1>5. \A i, j \in 1 .. Counted : FALSE
  BY <1>3
<1>6. Counted <= Len(registered)
  BY <1>1, <1>3, EmptyFacts
<1> QED
  BY <1>1, <1>2, <1>4, <1>5, <1>6 DEF OrderKept, LaterGoesFirst

\* A registered object is new: its block had no owner in this array.
LEMMA RegistersFacts ==
    ASSUME TypeOK, ListsAgree, NEW v \in Var, Registers(v)
    PROVE  /\ <<v, gen>> \notin Elements(registered)
           /\ <<v, gen>> \notin Elements(dtors) /\ <<v, gen>> \notin Elements(walk)
           /\ <<v, gen>> \notin Elements(destroyed) /\ <<v, gen>> # running
           /\ Elements(dtors') = Elements(dtors) \cup {<<v, gen>>} /\ Distinct(dtors')
           /\ Elements(registered') = Elements(registered) \cup {<<v, gen>>}
           /\ Distinct(registered')
           /\ Len(registered') = Len(registered) + 1
           /\ registered'[Len(registered) + 1] = <<v, gen>>
           /\ \A i \in 1 .. Len(registered) : registered'[i] = registered[i]
           /\ \A y, z : z # <<v, gen>> /\ Ahead(dtors, y, z) => Ahead(dtors', y, z)
           /\ \A z : z # <<v, gen>> => Ahead(dtors', <<v, gen>>, z)
<1> DEFINE o == <<v, gen>>
<1>0. dtors \in Seq(Object) /\ registered \in Seq(Object) /\ gen \in Nat
  BY DEF TypeOK
<1>1. o \in Object /\ o[1] = v /\ o[2] = gen /\ NoObject \notin Object
  BY <1>0, ThreadExitAssumption DEF Object
<1>2. o \notin Elements(registered)
  <2> SUFFICES ASSUME o \in Elements(registered) PROVE FALSE
    OBVIOUS
  <2>1. o[2] < gen \/ (o[2] = gen /\ o[1] \in blocks)
    BY DEF ListsAgree
  <2> QED
    BY <1>0, <1>1, <2>1 DEF Registers
<1>3. dtors' = <<o>> \o dtors /\ registered' = Append(registered, o)
  BY DEF Registers
<1> HIDE DEF o
<1>4. /\ o \notin Elements(dtors) /\ o \notin Elements(walk)
      /\ o \notin Elements(destroyed) /\ o # running
  BY <1>1, <1>2 DEF ListsAgree
<1>5. /\ Elements(dtors') = Elements(dtors) \cup {o} /\ Distinct(dtors')
      /\ \A y, z : z # o /\ Ahead(dtors, y, z) => Ahead(dtors', y, z)
  BY <1>0, <1>1, <1>3, <1>4, ConsFacts DEF ListsAgree
<1>6. \A z : Ahead(dtors, o, z)
  BY <1>4 DEF Ahead, Elements
<1>7. /\ Elements(registered') = Elements(registered) \cup {o} /\ Distinct(registered')
      /\ Len(registered') = Len(registered) + 1
      /\ registered'[Len(registered) + 1] = o
      /\ \A i \in 1 .. Len(registered) : registered'[i] = registered[i]
  BY <1>0, <1>1, <1>2, <1>3, AppendFacts DEF ListsAgree
<1> QED
  BY <1>2, <1>4, <1>5, <1>6, <1>7 DEF o

\* Every object is in one place at a time.
LEMMA ListsNext ==
    ASSUME TypeOK, ListsAgree, OrderKept, [Next]_vars
    PROVE  ListsAgree'
<1>0. /\ dtors \in Seq(Object) /\ walk \in Seq(Object)
      /\ registered \in Seq(Object) /\ destroyed \in Seq(Object)
      /\ running \in Object \cup {NoObject} /\ gen \in Nat
  BY DEF TypeOK
<1>n. NoObject \notin Object
  BY ThreadExitAssumption DEF Object
<1>r. \A o \in Elements(registered) : o \in Object /\ o[2] \in Nat
  BY <1>0 DEF Elements, Object
<1>1. CASE UNCHANGED listVars /\ BlocksGrow
  <2>1. UNCHANGED <<dtors, walk, running, registered, destroyed>>
    BY <1>1 DEF listVars
  <2>2. \A o \in Elements(registered) : o[2] < gen' \/ (o[2] = gen' /\ o[1] \in blocks')
    BY <1>0, <1>1, <1>r DEF BlocksGrow, ListsAgree
  <2> QED
    BY <2>1, <2>2 DEF ListsAgree
<1>2. ASSUME NEW v \in Var, Registers(v) PROVE ListsAgree'
  <2> DEFINE o == <<v, gen>>
  <2>1. /\ o \notin Elements(registered) /\ o \notin Elements(dtors)
        /\ o \notin Elements(walk) /\ o \notin Elements(destroyed) /\ o # running
        /\ Elements(dtors') = Elements(dtors) \cup {o} /\ Distinct(dtors')
        /\ Elements(registered') = Elements(registered) \cup {o}
        /\ Distinct(registered')
    BY <1>2, RegistersFacts
  <2>2. /\ UNCHANGED <<walk, running, destroyed>>
        /\ blocks' = blocks \cup {v} /\ gen' = gen /\ o[1] = v /\ o[2] = gen
    BY <1>2 DEF Registers
  <2> HIDE DEF o
  <2>3. \A p \in Elements(registered') : p[2] < gen' \/ (p[2] = gen' /\ p[1] \in blocks')
    BY <2>1, <2>2 DEF ListsAgree
  <2> QED
    BY <2>1, <2>2, <2>3 DEF ListsAgree
<1>3. CASE TakesList
  <2>1. /\ walk = <<>> /\ running = NoObject /\ walk' = dtors /\ dtors' = <<>>
        /\ UNCHANGED <<running, registered, destroyed, gen, blocks>>
    BY <1>3 DEF TakesList, TakeList
  <2> QED
    BY <2>1, EmptyFacts DEF ListsAgree
<1>4. CASE CallDtor
  <2>1. /\ walk # <<>> /\ running = NoObject
        /\ running' = Head(walk) /\ walk' = Tail(walk)
        /\ UNCHANGED <<dtors, registered, destroyed, gen, blocks>>
    BY <1>4 DEF CallDtor, emutlsVars
  <2>2. /\ Elements(walk) = Elements(walk') \cup {running'} /\ Distinct(walk')
        /\ running' \notin Elements(walk') /\ running' # NoObject
    BY <1>0, <1>n, <2>1, TailFacts DEF ListsAgree
  <2> QED
    BY <2>1, <2>2 DEF ListsAgree
<1>5. CASE DtorReturns
  <2>1. /\ running # NoObject /\ running' = NoObject
        /\ destroyed' = Append(destroyed, running)
        /\ UNCHANGED <<dtors, walk, registered, gen, blocks>>
    BY <1>5 DEF DtorReturns, emutlsVars
  <2>2. Elements(destroyed') = Elements(destroyed) \cup {running} /\ Distinct(destroyed')
    BY <1>0, <2>1, AppendFacts DEF ListsAgree
  <2>3. NoObject \notin Elements(dtors) \cup Elements(walk) \cup Elements(destroyed) \cup {running}
    BY <1>0, <1>n, <2>1 DEF Elements
  <2> QED
    BY <2>1, <2>2, <2>3 DEF ListsAgree
<1> QED
  BY <1>1, <1>2, <1>3, <1>4, <1>5, StepsOnLists

\* The order is kept: an object is called only after all that are newer.
LEMMA OrderNext ==
    ASSUME TypeOK, ListsAgree, OrderKept, [Next]_vars
    PROVE  OrderKept'
<1>0. /\ dtors \in Seq(Object) /\ walk \in Seq(Object) /\ destroyed \in Seq(Object)
      /\ registered \in Seq(Object) /\ Len(registered) \in Nat
      /\ running \in Object \cup {NoObject} /\ NoObject \notin Object
  BY ThreadExitAssumption DEF TypeOK, Object
<1>c. Counted \in Nat /\ Counted <= Len(registered)
  BY <1>0 DEF TypeOK, Counted, OrderKept
<1>e. /\ \A i \in 1 .. Counted : /\ i \in 1 .. Len(registered)
                                  /\ registered[i] \in Elements(registered)
      /\ \A i, j \in 1 .. Counted : i < j => registered[i] # registered[j]
  <2>1. \A i \in 1 .. Counted : i \in 1 .. Len(registered)
    BY <1>0, <1>c
  <2> QED
    BY <2>1 DEF Elements, ListsAgree, Distinct
<1>p. /\ (phase \in {"body", "done"} => walk = <<>> /\ running = NoObject)'
      /\ (phase = "body" => destroyed = <<>>)'
      /\ (phase # "done" => at_end.main = (phase = "exit"))'
  <2>1. CASE UNCHANGED <<phase, at_end>>
    <3>1. phase \in {"body", "done"} =>
              walk' = <<>> /\ running' = NoObject /\ destroyed' = destroyed
      <4> SUFFICES ASSUME phase \in {"body", "done"}
                   PROVE  walk' = <<>> /\ running' = NoObject /\ destroyed' = destroyed
        OBVIOUS
      <4>1. walk = <<>> /\ running = NoObject
        BY DEF OrderKept
      <4>2. ~RunDtorsKey /\ ~MainExits /\ ~CallDtor /\ ~DtorReturns
        BY <2>1, <4>1 DEF RunDtorsKey, AtKey, MainExits, CallDtor, DtorReturns
      <4> QED
        BY <4>1, <4>2, StepsOnLists DEF listVars, Registers
    <3> QED
      BY <2>1, <3>1 DEF OrderKept
  <2>2. CASE /\ phase = "body" /\ phase' # "body" /\ UNCHANGED running
             /\ (at_end'.main <=> phase' = "exit")
             /\ (phase' = "done" => UNCHANGED walk)
    <3>1. walk = <<>> /\ running = NoObject
      BY <2>2 DEF OrderKept
    <3>2. at_end'.main = (phase' = "exit")
      <4>1. at_end'.main \in BOOLEAN
        BY TypesNext DEF TypeOK
      <4> QED
        BY <2>2, <4>1
    <3> QED
      BY <2>2, <3>1, <3>2
  <2>3. CASE phase' = "done" /\ walk' = <<>> /\ running' = NoObject
    BY <2>3
  <2> QED
    BY <2>1, <2>2, <2>3, StepsOnPhase DEF listVars
<1>1. CASE UNCHANGED listVars /\ BlocksGrow
  <2>1. UNCHANGED <<dtors, walk, running, registered, destroyed>>
    BY <1>1 DEF listVars
  <2>2. Counted' = Counted
    BY <2>1, StepsOnPhase DEF Counted, TakesList
  <2>3. LaterGoesFirst(Counted)'
    BY <2>1, <2>2 DEF OrderKept, LaterGoesFirst
  <2>4. (Counted <= Len(registered))'
    BY <1>c, <2>1, <2>2
  <2>5. phase' \in {"exit", "done"} /\ at_end'.main
            => \A i \in 1 .. Counted : registered[i] \notin Elements(dtors)
    <3>1. CASE UNCHANGED <<phase, at_end>>
      BY <3>1 DEF OrderKept
    <3>2. CASE ~at_end'.main
      BY <3>2
    <3>3. CASE TakesList
      BY <2>1, <3>3, EmptyFacts DEF TakesList, TakeList
    <3>4. CASE phase \in {"keys", "exit"} /\ UNCHANGED at_end
      <4>1. at_end.main => phase = "exit"
        BY <3>4 DEF OrderKept
      <4> QED
        BY <3>4, <4>1 DEF OrderKept
    <3> QED
      BY <3>1, <3>2, <3>3, <3>4, StepsOnPhase
  <2> QED
    BY <1>p, <2>1, <2>2, <2>3, <2>4, <2>5 DEF OrderKept
<1>2. ASSUME NEW v \in Var, Registers(v) PROVE OrderKept'
  <2> DEFINE o == <<v, gen>>
  <2>1. /\ o \notin Elements(registered)
        /\ o \notin Elements(walk) /\ o \notin Elements(destroyed) /\ o # running
        /\ Elements(dtors') = Elements(dtors) \cup {o}
        /\ Len(registered') = Len(registered) + 1
        /\ registered'[Len(registered) + 1] = o
        /\ \A i \in 1 .. Len(registered) : registered'[i] = registered[i]
        /\ \A y, z : z # o /\ Ahead(dtors, y, z) => Ahead(dtors', y, z)
        /\ \A z : z # o => Ahead(dtors', o, z)
    BY <1>2, RegistersFacts
  <2>2. UNCHANGED <<phase, at_end, walk, running, destroyed>>
    BY <1>2 DEF Registers
  <2> HIDE DEF o
  <2>3. /\ Counted' \in Nat /\ Counted' <= Len(registered')
        /\ \A i \in 1 .. Counted' :
               \/ i \in 1 .. Counted
               \/ phase = "body" /\ i = Len(registered) + 1 /\ i > Counted
    BY <1>0, <1>c, <2>1, <2>2 DEF Counted, TypeOK
  <2>4. \A i \in 1 .. Counted : registered'[i] = registered[i] /\ registered[i] # o
    BY <1>e, <2>1
  <2>5. LaterGoesFirst(Counted)'
    <3> SUFFICES ASSUME NEW i \in 1 .. Counted', NEW j \in 1 .. Counted', i < j
                 PROVE  /\ Ahead(dtors', registered'[j], registered'[i])
                        /\ Ahead(walk', registered'[j], registered'[i])
                        /\ Ahead(destroyed', registered'[j], registered'[i])
                        /\ registered'[i] \in Elements(destroyed') \cup {running'} =>
                               registered'[j] \in Elements(destroyed')
                        /\ registered'[i] \in Elements(walk') =>
                               registered'[j] \notin Elements(dtors')
      BY DEF LaterGoesFirst
    <3>1. i \in 1 .. Counted
      BY <1>0, <1>c, <2>1, <2>3
    <3>2. CASE j \in 1 .. Counted
      BY <2>1, <2>2, <2>4, <3>1, <3>2 DEF OrderKept, LaterGoesFirst
    <3>3. CASE phase = "body" /\ j = Len(registered) + 1
      <4>1. walk = <<>> /\ destroyed = <<>> /\ running = NoObject
        BY <3>3 DEF OrderKept
      <4>2. registered[i] \in Object
        BY <1>0, <1>e, <3>1
      <4> QED
        BY <1>0, <2>1, <2>2, <2>4, <3>1, <3>3, <4>1, <4>2, EmptyFacts
    <3> QED
      BY <2>3, <3>2, <3>3
  <2>6. phase \in {"exit", "done"} /\ at_end.main
            => \A i \in 1 .. Counted' : registered'[i] \notin Elements(dtors')
    BY <2>1, <2>3, <2>4 DEF OrderKept
  <2> QED
    BY <1>p, <2>2, <2>3, <2>5, <2>6 DEF OrderKept
<1>3. CASE TakesList
  <2>1. /\ walk = <<>> /\ running = NoObject /\ walk' = dtors /\ dtors' = <<>>
        /\ UNCHANGED <<running, registered, destroyed>>
    BY <1>3 DEF TakesList, TakeList
  <2>2. Counted' = Counted
    BY <2>1, StepsOnPhase DEF Counted
  <2>3. LaterGoesFirst(Counted)'
    BY <2>1, <2>2, EmptyFacts DEF OrderKept, LaterGoesFirst
  <2> QED
    BY <1>p, <1>c, <2>1, <2>2, <2>3, EmptyFacts DEF OrderKept
<1>4. CASE CallDtor
  <2>1. /\ walk # <<>> /\ running = NoObject
        /\ running' = Head(walk) /\ walk' = Tail(walk)
        /\ UNCHANGED <<phase, at_end, dtors, registered, destroyed>>
    BY <1>4 DEF CallDtor, keyVars
  <2>2. Counted' = Counted
    BY <2>1 DEF Counted
  <2>3. /\ Elements(walk) = Elements(walk') \cup {running'}
        /\ \A y, z : Ahead(walk, y, z) => Ahead(walk', y, z)
        /\ \A y : Ahead(walk, y, running') => y \notin Elements(walk)
        /\ running' \in Object
    BY <1>0, <2>1, TailFacts
  <2>4. LaterGoesFirst(Counted)'
    <3> SUFFICES ASSUME NEW i \in 1 .. Counted, NEW j \in 1 .. Counted, i < j
                 PROVE  /\ Ahead(dtors, registered[j], registered[i])
                        /\ Ahead(walk', registered[j], registered[i])
                        /\ Ahead(destroyed, registered[j], registered[i])
                        /\ registered[i] \in Elements(destroyed) \cup {running'} =>
                               registered[j] \in Elements(destroyed)
                        /\ registered[i] \in Elements(walk') => registered[j] \notin Elements(dtors)
      BY <2>1, <2>2 DEF LaterGoesFirst
    <3>1. /\ Ahead(dtors, registered[j], registered[i])
          /\ Ahead(walk, registered[j], registered[i])
          /\ Ahead(destroyed, registered[j], registered[i])
          /\ registered[i] \in Elements(destroyed) => registered[j] \in Elements(destroyed)
          /\ registered[i] \in Elements(walk) => registered[j] \notin Elements(dtors)
      BY DEF OrderKept, LaterGoesFirst
    <3>2. ASSUME registered[i] = running' PROVE registered[j] \in Elements(destroyed)
      <4>1. registered[j] \notin Elements(walk) /\ registered[j] \notin Elements(dtors)
        BY <2>3, <3>1, <3>2
      <4>2. registered[j] \in Elements(registered)
        BY <1>e
      <4> QED
        BY <2>1, <4>1, <4>2 DEF ListsAgree
    <3> QED
      BY <2>3, <3>1, <3>2
  <2> QED
    BY <1>p, <1>c, <2>1, <2>2, <2>4 DEF OrderKept
<1>5. CASE DtorReturns
  <2>1. /\ running # NoObject /\ running' = NoObject
        /\ destroyed' = Append(destroyed, running)
        /\ UNCHANGED <<phase, at_end, dtors, walk, registered>>
    BY <1>5 DEF DtorReturns, keyVars
  <2>2. Counted' = Counted
    BY <2>1 DEF Counted
  <2>3. /\ Elements(destroyed') = Elements(destroyed) \cup {running}
        /\ running \notin Elements(destroyed)
        /\ \A y, z : /\ y # z /\ Ahead(destroyed, y, z)
                     /\ y = running => z \notin Elements(destroyed)
                     => Ahead(destroyed', y, z)
    BY <1>0, <2>1, AppendFacts DEF ListsAgree
  <2>4. LaterGoesFirst(Counted)'
    <3> SUFFICES ASSUME NEW i \in 1 .. Counted, NEW j \in 1 .. Counted, i < j
                 PROVE  /\ Ahead(dtors, registered[j], registered[i])
                        /\ Ahead(walk, registered[j], registered[i])
                        /\ Ahead(destroyed', registered[j], registered[i])
                        /\ registered[i] \in Elements(destroyed') \cup {NoObject} =>
                               registered[j] \in Elements(destroyed')
                        /\ registered[i] \in Elements(walk) => registered[j] \notin Elements(dtors)
      BY <2>1, <2>2 DEF LaterGoesFirst
    <3>1. /\ Ahead(dtors, registered[j], registered[i])
          /\ Ahead(walk, registered[j], registered[i])
          /\ Ahead(destroyed, registered[j], registered[i])
          /\ registered[i] \in Elements(destroyed) \cup {running}
                 => registered[j] \in Elements(destroyed)
          /\ registered[i] \in Elements(walk) => registered[j] \notin Elements(dtors)
      BY DEF OrderKept, LaterGoesFirst
    <3>2. registered[i] # NoObject /\ registered[i] # registered[j]
      BY <1>0, <1>e
    <3> QED
      BY <2>3, <3>1, <3>2
  <2> QED
    BY <1>p, <1>c, <2>1, <2>2, <2>4 DEF OrderKept
<1> QED
  BY <1>1, <1>2, <1>3, <1>4, <1>5, StepsOnLists

(***************************************************************************)
(* Every destructor runs at most once, and those of the objects that the   *)
(* thread itself constructed in reverse order of construction: for every   *)
(* use that destructors make of other variables, also one that musl's      *)
(* rounds do not suffice for.                                              *)
(***************************************************************************)
THEOREM DestructionInReverse == Spec => []DestroyedOnceInReverse
<1> DEFINE Inv == TypeOK /\ ListsAgree /\ OrderKept
<1>1. Init => Inv
  BY TypesInit, ListsInit
<1>2. Inv /\ [Next]_vars => Inv'
  BY TypesNext, ListsNext, OrderNext
<1>3. Inv => DestroyedOnceInReverse
  <2> SUFFICES ASSUME Inv PROVE DestroyedOnceInReverse
    OBVIOUS
  <2>1. Distinct(destroyed)
    BY DEF ListsAgree
  <2>2. phase = "body" => Len(destroyed) = 0
    BY EmptyFacts DEF OrderKept
  <2>3. phase # "body" => LaterGoesFirst(at_end.count)
    BY DEF OrderKept, Counted
  <2> QED
    BY <2>1, <2>2, <2>3 DEF DestroyedOnceInReverse, Distinct, LaterGoesFirst, Ahead
<1> QED
  BY <1>1, <1>2, <1>3, PTL DEF Spec

-----------------------------------------------------------------------------
(* Keys, rounds and depths.                                                *)

LEMMA BeforeFacts ==
    /\ \A k : ~Before(k, 1)
    /\ \A n \in 1 .. Len(KeyOrder) :
           /\ ~Before(KeyOrder[n], n)
           /\ \A k : Before(k, n + 1) <=> (Before(k, n) \/ k = KeyOrder[n])
    /\ \A n \in Nat : n > Len(KeyOrder) =>
           /\ Before("emutls", n) /\ Before("dtors", n)
           /\ (\E i \in 1 .. Len(KeyOrder) : KeyOrder[i] = "user") => Before("user", n)
<1> USE ThreadExitAssumption DEF Before
<1>0. Len(KeyOrder) \in Nat
  OBVIOUS
<1>1. \A k : ~Before(k, 1)
  OBVIOUS
<1>2. ASSUME NEW n \in 1 .. Len(KeyOrder)
      PROVE  /\ ~Before(KeyOrder[n], n)
             /\ \A k : Before(k, n + 1) <=> (Before(k, n) \/ k = KeyOrder[n])
  <2>1. ~Before(KeyOrder[n], n)
    OBVIOUS
  <2>2. \A i \in 1 .. Len(KeyOrder) : i < n + 1 <=> (i < n \/ i = n)
    OBVIOUS
  <2> QED
    BY <2>1, <2>2
<1>3. ASSUME NEW n \in Nat, n > Len(KeyOrder)
      PROVE  /\ Before("emutls", n) /\ Before("dtors", n)
             /\ (\E i \in 1 .. Len(KeyOrder) : KeyOrder[i] = "user") => Before("user", n)
  <2>1. \A i \in 1 .. Len(KeyOrder) : i < n
    BY <1>0, <1>3
  <2> QED
    BY <2>1
<1> QED
  BY <1>1, <1>2, <1>3

\* Every round lowers the depth by one; four rounds leave nothing.
LEMMA FitFacts ==
    /\ \A r \in 1 .. 4 : \A v \in Fit(r) : v \in Var /\ DtorUses[v] \subseteq Fit(r + 1)
    /\ \A r \in 1 .. 4 : Fit(r + 1) \subseteq Fit(r)
    /\ Fit(1) = Depth2 /\ Fit(2) = Depth1 /\ Fit(4) = {} /\ Fit(5) = {}
    /\ Depth1 \subseteq Depth2
<1>1. Depth0 \subseteq Depth1 /\ Depth1 \subseteq Depth2 /\ Depth2 \subseteq Var
  BY DEF Depth0, Depth1, Depth2
<1>2. /\ \A v \in Depth2 : DtorUses[v] \subseteq Depth1
      /\ \A v \in Depth1 : DtorUses[v] \subseteq Depth0
      /\ \A v \in Depth0 : DtorUses[v] \subseteq {}
  BY DEF Depth0, Depth1, Depth2
<1>3. Fit(1) = Depth2 /\ Fit(2) = Depth1 /\ Fit(3) = Depth0 /\ Fit(4) = {} /\ Fit(5) = {}
  BY DEF Fit
<1>4. \A r \in 1 .. 4 : r = 1 \/ r = 2 \/ r = 3 \/ r = 4
  OBVIOUS
<1>5. 1 + 1 = 2 /\ 2 + 1 = 3 /\ 3 + 1 = 4 /\ 4 + 1 = 5
  OBVIOUS
<1>6. ASSUME NEW r \in 1 .. 4
      PROVE  /\ \A v \in Fit(r) : v \in Var /\ DtorUses[v] \subseteq Fit(r + 1)
             /\ Fit(r + 1) \subseteq Fit(r)
  <2>1. CASE r = 1
    BY <1>1, <1>2, <1>3, <1>5, <2>1
  <2>2. CASE r = 2
    BY <1>1, <1>2, <1>3, <1>5, <2>2
  <2>3. CASE r = 3
    BY <1>1, <1>2, <1>3, <1>5, <2>3
  <2>4. CASE r = 4
    BY <1>1, <1>2, <1>3, <1>5, <2>4
  <2> QED
    BY <1>4, <2>1, <2>2, <2>3, <2>4
<1> QED
  BY <1>1, <1>3, <1>6

LEMMA RoundsInit == Init => RoundsAgree /\ RoundsLowerDepth /\ ArrayCountsDown
<1> SUFFICES ASSUME Init PROVE RoundsAgree /\ RoundsLowerDepth /\ ArrayCountsDown
  OBVIOUS
<1>1. /\ phase = "body" /\ has_array = FALSE /\ dtors = <<>> /\ freed = {}
      /\ armed = {} /\ running = NoObject /\ in_user = FALSE
  BY DEF Init
<1>2. RoundsAgree
  BY <1>1 DEF RoundsAgree
<1>3. RoundsLowerDepth
  BY <1>1, EmptyFacts DEF RoundsLowerDepth
<1>4. ArrayCountsDown
  BY <1>1 DEF ArrayCountsDown
<1> QED
  BY <1>2, <1>3, <1>4

RoundsInv == RoundsAgree /\ RoundsLowerDepth /\ ArrayCountsDown

\* musl visits the next key: what it has passed grows by that key.
LEMMA KeySteps ==
    ASSUME TypeOK, ListsAgree, OrderKept, RoundsInv,
           NoValue \/ EmutlsSkips \/ EmutlsFrees \/ RunDtorsKey \/ ThreadStructKey \/ UserKey
    PROVE  RoundsInv'
<1> DEFINE k == KeyOrder[key]
<1>0. /\ phase = "keys" /\ phase' = "keys" /\ UNCHANGED <<round, at_end, running, registered>>
      /\ walk = <<>> /\ running = NoObject /\ ~in_user
      /\ key \in 1 .. Len(KeyOrder) /\ key' = key + 1 /\ round \in 1 .. 4
      /\ skip \in 0 .. 3
  <2>1. /\ AtKey(k) /\ NextKey /\ UNCHANGED <<running, registered>>
    BY DEF NoValue, EmutlsSkips, EmutlsFrees, RunDtorsKey, ThreadStructKey, UserKey,
           AtKey, walkVars
  <2>2. key >= 1 /\ round >= 1
    BY <2>1 DEF AtKey, RoundsInv, RoundsAgree
  <2> QED
    BY <2>1, <2>2, ThreadExitAssumption DEF AtKey, NextKey, Idle, TypeOK
<1>1. /\ ~Before(k, key)
      /\ \A q : Before(q, key') <=> (Before(q, key) \/ q = k)
  BY <1>0, BeforeFacts
<1>2. /\ NoValue =>
             /\ UNCHANGED <<dtors, walk, armed, in_user, has_array, skip, freed, tsd_used>>
             /\ k = "emutls" => ~has_array
             /\ k = "dtors" => dtors = <<>>
             /\ k = "user" => "user" \notin armed
      /\ EmutlsSkips =>
             /\ UNCHANGED <<dtors, walk, armed, in_user, has_array, freed>>
             /\ k = "emutls" /\ has_array /\ skip > 0 /\ skip' = skip - 1 /\ tsd_used'
      /\ EmutlsFrees =>
             /\ UNCHANGED <<dtors, walk, armed, in_user, tsd_used>>
             /\ k = "emutls" /\ has_array /\ skip = 0 /\ ~has_array'
      /\ RunDtorsKey =>
             /\ UNCHANGED <<armed, in_user, has_array, skip, freed, tsd_used>>
             /\ k = "dtors" /\ walk' = dtors /\ dtors' = <<>>
      /\ ThreadStructKey =>
             /\ UNCHANGED <<dtors, walk, in_user, has_array, skip, freed, tsd_used>>
             /\ k = "thread_struct" /\ armed' \subseteq armed
      /\ UserKey =>
             /\ UNCHANGED <<dtors, walk, has_array, skip, freed, tsd_used>>
             /\ k = "user" /\ "user" \in armed /\ armed' = armed \ {"user"}
             /\ todo' = UserUses
  BY DEF NoValue, EmutlsSkips, EmutlsFrees, RunDtorsKey, ThreadStructKey, UserKey,
         AtKey, TakeList, walkVars, emutlsVars
<1> HIDE DEF k
<1>3. RoundsAgree'
  <2>1. /\ dtors' # <<>> /\ Before("dtors", key') => tsd_used'
        /\ has_array' /\ Before("emutls", key') => tsd_used'
    BY <1>0, <1>1, <1>2 DEF RoundsInv, RoundsAgree, Passed
  <2>2. has_array' => skip' >= IF Before("emutls", key') THEN 3 - round ELSE 4 - round
    <3>1. has_array => skip >= IF Before("emutls", key) THEN 3 - round ELSE 4 - round
      BY <1>0 DEF RoundsInv, RoundsAgree, Passed
    <3>2. CASE EmutlsSkips
      BY <1>0, <1>1, <1>2, <3>1, <3>2
    <3>3. CASE EmutlsFrees
      BY <1>2, <3>3
    <3>4. CASE ~EmutlsSkips /\ ~EmutlsFrees
      <4>1. /\ has_array' = has_array /\ skip' = skip
            /\ k = "emutls" => ~has_array
        BY <1>2, <3>4
      <4> QED
        BY <1>1, <3>1, <4>1
    <3> QED
      BY <3>2, <3>3, <3>4
  <2>3. freed' # {} => round = 4 /\ Before("emutls", key')
    BY <1>0, <1>1, <1>2 DEF RoundsInv, RoundsAgree, Passed
  <2>4. "user" \in armed' => "user" \in armed
    BY <1>2
  <2> QED
    BY <1>0, <2>1, <2>2, <2>3, <2>4 DEF RoundsInv, RoundsAgree, Passed
<1>4. RoundsLowerDepth'
  <2>1. \A o \in Elements(dtors') : o[1] \in Due(key', round)
    BY <1>0, <1>1, <1>2, EmptyFacts DEF RoundsInv, RoundsLowerDepth, Due, Passed
  <2>2. \A o \in Elements(walk') : o[1] \in Fit(round)
    BY <1>0, <1>1, <1>2, EmptyFacts DEF RoundsInv, RoundsLowerDepth, Due, Passed
  <2>3. in_user' => round = 1 /\ todo' \subseteq UserUses /\ walk' = <<>>
    BY <1>0, <1>1, <1>2 DEF RoundsInv, RoundsLowerDepth, Passed
  <2>4. "user" \in armed' => round = 1 /\ ~Before("user", key')
    BY <1>0, <1>1, <1>2 DEF RoundsInv, RoundsLowerDepth, Passed
  <2> QED
    BY <1>0, <2>1, <2>2, <2>3, <2>4 DEF RoundsLowerDepth, Due, Passed
<1>5. ArrayCountsDown'
  BY <1>0, <1>1, <1>2 DEF RoundsInv, ArrayCountsDown, RoundsAgree, Passed
<1> QED
  BY <1>3, <1>4, <1>5 DEF RoundsInv

\* Destructors are called, return, and the thread runs its body.
LEMMA WalkSteps ==
    ASSUME TypeOK, ListsAgree, OrderKept, RoundsInv,
           CallDtor \/ DtorReturns \/ UserReturns \/ \E k \in Keys : Arm(k)
    PROVE  RoundsInv'
<1>0. /\ UNCHANGED <<phase, round, key, at_end, has_array, skip, freed, dtors>>
      /\ walk \in Seq(Object)
      /\ tsd_used => tsd_used'
  BY DEF CallDtor, DtorReturns, UserReturns, Arm, keyVars, emutlsVars, TypeOK
<1>1. /\ "user" \in armed' => /\ "user" \in armed \/ phase = "body"
                              /\ \E i \in 1 .. Len(KeyOrder) : KeyOrder[i] = "user"
  BY DEF CallDtor, DtorReturns, UserReturns, Arm, RoundsInv, RoundsAgree
<1>2. RoundsAgree'
  BY <1>0, <1>1 DEF RoundsInv, RoundsAgree, Passed
<1>3. ArrayCountsDown'
  BY <1>0 DEF RoundsInv, ArrayCountsDown, Passed
<1>4. Elements(walk') \cup ({running'} \ {NoObject})
          \subseteq Elements(walk) \cup ({running} \ {NoObject})
  <2>1. CASE CallDtor
    <3>1. Elements(walk) = Elements(walk') \cup {running'}
      BY <1>0, <2>1, TailFacts DEF CallDtor
    <3> QED
      BY <3>1
  <2>2. CASE ~CallDtor
    BY <2>2 DEF DtorReturns, UserReturns, Arm, walkVars
  <2> QED
    BY <2>1, <2>2
<1>5. running' # NoObject => todo' \subseteq DtorUses[running'[1]]
  BY DEF CallDtor, DtorReturns, UserReturns, Arm, walkVars, RoundsInv, RoundsLowerDepth
<1>6. in_user' => /\ in_user /\ walk' = <<>> /\ running' = NoObject /\ UNCHANGED todo
  <2> SUFFICES ASSUME in_user'
               PROVE  in_user /\ walk' = <<>> /\ running' = NoObject /\ UNCHANGED todo
    OBVIOUS
  <2>1. in_user /\ ~UserReturns
    BY DEF CallDtor, DtorReturns, UserReturns, Arm, walkVars
  <2>2. walk = <<>> /\ running = NoObject
    BY <2>1 DEF RoundsInv, RoundsLowerDepth
  <2> QED
    BY <2>1, <2>2 DEF CallDtor, DtorReturns, Arm, walkVars
<1>7. RoundsLowerDepth'
  BY <1>0, <1>1, <1>4, <1>5, <1>6 DEF RoundsInv, RoundsLowerDepth, Due, Passed
<1> QED
  BY <1>2, <1>3, <1>7 DEF RoundsInv

\* The thread itself uses a variable.
LEMMA BodySteps ==
    ASSUME DestructorsFit, TypeOK, ListsAgree, OrderKept, RoundsInv,
           NEW v \in Var, NEW ok \in BOOLEAN, BodyUses(v, ok)
    PROVE  RoundsInv'
<1>0. /\ phase = "body" /\ v \in BodyVars /\ Use(v, ok)
      /\ UNCHANGED <<phase, round, key, at_end, armed, walk, running, in_user, todo>>
  BY DEF BodyUses, keyVars, walkVars
<1>1. /\ has_array' = TRUE /\ freed' = freed
      /\ has_array => skip' = skip
      /\ ~has_array => skip' = 3 /\ tsd_used'
      /\ tsd_used => tsd_used'
      /\ \/ Registers(v) /\ tsd_used'
         \/ UNCHANGED dtors
  BY <1>0, UseFacts DEF Registers, BodyUses
<1>2. ~in_user /\ running = NoObject
  BY <1>0 DEF RoundsInv, RoundsLowerDepth, OrderKept
<1>3. \A o \in Elements(dtors') : o[1] \in Depth2
  <2>1. CASE UNCHANGED dtors
    BY <1>0, <2>1 DEF RoundsInv, RoundsLowerDepth
  <2>2. CASE Registers(v)
    <3>1. Elements(dtors') = Elements(dtors) \cup {<<v, gen>>}
      BY <2>2, RegistersFacts
    <3>2. <<v, gen>>[1] \in Depth2
      BY <1>0 DEF DestructorsFit
    <3>3. \A o \in Elements(dtors) : o[1] \in Depth2
      BY <1>0 DEF RoundsInv, RoundsLowerDepth
    <3> QED
      BY <3>1, <3>2, <3>3
  <2> QED
    BY <1>1, <2>1, <2>2
<1>4. RoundsAgree'
  <2>1. tsd_used' /\ skip' = 3
    BY <1>0, <1>1 DEF RoundsInv, RoundsAgree
  <2> QED
    BY <1>0, <1>1, <2>1 DEF RoundsInv, RoundsAgree
<1>5. RoundsLowerDepth'
  BY <1>0, <1>2, <1>3 DEF RoundsLowerDepth
<1>6. ArrayCountsDown'
  BY <1>0 DEF ArrayCountsDown
<1> QED
  BY <1>4, <1>5, <1>6 DEF RoundsInv

\* A destructor uses a variable, which may construct it.
LEMMA DtorSteps ==
    ASSUME DestructorsFit, TypeOK, ListsAgree, OrderKept, RoundsInv,
           NEW v \in Var, NEW ok \in BOOLEAN, DtorUsesVar(v, ok)
    PROVE  RoundsInv'
<1>0. /\ running # NoObject \/ in_user
      /\ v \in todo /\ todo' = todo \ {v} /\ Use(v, ok)
      /\ UNCHANGED <<phase, round, key, at_end, armed, walk, running, in_user, destroyed>>
  BY DEF DtorUsesVar, keyVars
<1>1. /\ has_array' = TRUE /\ freed' = freed
      /\ has_array => skip' = skip
      /\ ~has_array => skip' = 3 /\ tsd_used'
      /\ tsd_used => tsd_used'
      /\ \/ Registers(v) /\ tsd_used'
         \/ UNCHANGED dtors
  BY <1>0, UseFacts DEF Registers
<1>2. phase \in {"keys", "exit"}
  BY <1>0 DEF RoundsInv, RoundsLowerDepth, OrderKept, TypeOK
<1>3. round \in 0 .. 4 /\ skip \in 0 .. 3
  BY DEF TypeOK
<1>4. phase = "keys" => round \in 1 .. 3 /\ v \in Fit(round + 1) /\ v \in Fit(round)
  <2> SUFFICES ASSUME phase = "keys"
               PROVE  round \in 1 .. 3 /\ v \in Fit(round + 1) /\ v \in Fit(round)
    OBVIOUS
  <2>1. round \in 1 .. 4
    BY <1>3 DEF RoundsInv, RoundsAgree
  <2>2. CASE in_user
    <3>1. round = 1 /\ v \in Depth1
      BY <1>0, <2>2 DEF RoundsInv, RoundsLowerDepth, DestructorsFit
    <3> QED
      BY <3>1, FitFacts
  <2>3. CASE running # NoObject
    <3>1. running[1] \in Fit(round) /\ v \in DtorUses[running[1]]
      BY <1>0, <2>3 DEF RoundsInv, RoundsLowerDepth
    <3>2. v \in Fit(round + 1) /\ v \in Fit(round)
      BY <2>1, <3>1, FitFacts
    <3>3. round # 4
      BY <3>2, FitFacts
    <3> QED
      BY <2>1, <3>2, <3>3
  <2> QED
    BY <1>0, <2>2, <2>3
<1>5. phase = "keys" =>
          \A o \in Elements(dtors') : o[1] \in Due(key, round)
  <2> SUFFICES ASSUME phase = "keys"
               PROVE  \A o \in Elements(dtors') :
                          o[1] \in Due(key, round)
    OBVIOUS
  <2>1. \A o \in Elements(dtors) : o[1] \in Due(key, round)
    BY DEF RoundsInv, RoundsLowerDepth, Due, Passed
  <2>2. CASE UNCHANGED dtors
    BY <2>1, <2>2
  <2>3. CASE Registers(v)
    <3>1. Elements(dtors') = Elements(dtors) \cup {<<v, gen>>}
      BY <2>3, RegistersFacts
    <3>2. <<v, gen>>[1] = v
      OBVIOUS
    <3> QED
      BY <1>4, <2>1, <3>1, <3>2 DEF Due
  <2> QED
    BY <1>1, <2>2, <2>3
<1>6. RoundsAgree'
  <2>1. phase = "keys" => /\ round >= 1 /\ key >= 1
                          /\ dtors' # <<>> /\ Before("dtors", key) => tsd_used'
                          /\ Before("emutls", key) => tsd_used'
                          /\ skip' >= IF Before("emutls", key) THEN 3 - round ELSE 4 - round
    <3> SUFFICES ASSUME phase = "keys"
                 PROVE  /\ round >= 1 /\ key >= 1
                        /\ dtors' # <<>> /\ Before("dtors", key) => tsd_used'
                        /\ Before("emutls", key) => tsd_used'
                        /\ skip' >= IF Before("emutls", key) THEN 3 - round ELSE 4 - round
      OBVIOUS
    <3>1. /\ round >= 1 /\ key >= 1
          /\ dtors # <<>> /\ Before("dtors", key) => tsd_used
          /\ has_array /\ Before("emutls", key) => tsd_used
          /\ has_array => skip >= IF Before("emutls", key) THEN 3 - round ELSE 4 - round
      BY DEF RoundsInv, RoundsAgree, Passed
    <3>2. dtors' # <<>> /\ Before("dtors", key) => tsd_used'
      BY <1>1, <3>1
    <3>3. Before("emutls", key) => tsd_used'
      BY <1>1, <3>1
    <3>4. skip' >= IF Before("emutls", key) THEN 3 - round ELSE 4 - round
      BY <1>1, <1>3, <3>1
    <3> QED
      BY <3>1, <3>2, <3>3, <3>4
  <2> QED
    BY <1>0, <1>1, <1>2, <2>1 DEF RoundsInv, RoundsAgree, Passed
<1>7. RoundsLowerDepth'
  BY <1>0, <1>2, <1>5 DEF RoundsInv, RoundsLowerDepth, Due, Passed
<1>8. ArrayCountsDown'
  BY <1>0, <1>1, <1>2, <1>4 DEF RoundsInv, ArrayCountsDown, Passed
<1> QED
  BY <1>6, <1>7, <1>8 DEF RoundsInv

\* The thread ends, a round ends, exit() returns.
LEMMA PhaseSteps ==
    ASSUME TypeOK, ListsAgree, OrderKept, RoundsInv,
           ThreadEnds \/ MainExits \/ RoundEnds \/ ExitReturns
    PROVE  RoundsInv'
<1>1. CASE ThreadEnds
  <2>1. /\ phase = "body"
        /\ at_end'.array = has_array /\ at_end'.main = FALSE
        /\ \/ phase' = "keys" /\ round' = 1 /\ key' = 1
           \/ phase' = "done" /\ ~tsd_used
        /\ UNCHANGED <<has_array, skip, freed, dtors, armed, walk, running, in_user, todo>>
    BY <1>1 DEF ThreadEnds, emutlsVars, walkVars
  <2>2. /\ walk = <<>> /\ running = NoObject /\ ~in_user /\ freed = {}
        /\ has_array \/ dtors # <<>> => tsd_used
        /\ has_array => skip = 3
        /\ \A o \in Elements(dtors) : o[1] \in Depth2
        /\ "user" \in armed => \E i \in 1 .. Len(KeyOrder) : KeyOrder[i] = "user"
    BY <2>1 DEF RoundsInv, RoundsLowerDepth, RoundsAgree, OrderKept
  <2>3. phase' = "keys" => ~Passed("dtors")' /\ ~Passed("emutls")' /\ ~Passed("user")'
    BY <2>1, BeforeFacts DEF Passed
  <2>4. RoundsAgree'
    BY <2>1, <2>2, <2>3 DEF RoundsAgree
  <2>5. RoundsLowerDepth'
    BY <2>1, <2>2, <2>3, EmptyFacts, FitFacts DEF RoundsLowerDepth, Due, Passed
  <2>6. ArrayCountsDown'
    BY <2>1, <2>2, <2>3 DEF ArrayCountsDown
  <2> QED
    BY <2>4, <2>5, <2>6 DEF RoundsInv
<1>2. CASE MainExits
  <2>1. /\ phase = "body" /\ phase' = "exit"
        /\ UNCHANGED <<freed, armed, running, in_user, todo>>
    BY <1>2 DEF MainExits, emutlsVars
  <2>2. running = NoObject /\ ~in_user /\ freed = {}
        /\ ("user" \in armed => \E i \in 1 .. Len(KeyOrder) : KeyOrder[i] = "user")
    BY <2>1 DEF RoundsInv, RoundsLowerDepth, RoundsAgree, OrderKept
  <2> QED
    BY <2>1, <2>2 DEF RoundsInv, RoundsAgree, RoundsLowerDepth, ArrayCountsDown
<1>3. CASE ExitReturns
  <2>1. /\ phase = "exit" /\ phase' = "done" /\ running = NoObject /\ ~in_user
        /\ UNCHANGED <<at_end, armed, running, in_user>>
    BY <1>3 DEF ExitReturns, Idle, walkVars
  <2>2. at_end.main
    BY <2>1 DEF OrderKept
  <2>3. "user" \in armed => \E i \in 1 .. Len(KeyOrder) : KeyOrder[i] = "user"
    BY DEF RoundsInv, RoundsAgree
  <2> QED
    BY <2>1, <2>2, <2>3 DEF RoundsInv, RoundsAgree, RoundsLowerDepth, ArrayCountsDown
<1>4. CASE RoundEnds
  <2>1. /\ phase = "keys" /\ walk = <<>> /\ running = NoObject /\ ~in_user
        /\ key > Len(KeyOrder) /\ key \in Nat /\ round \in 1 .. 4
        /\ \/ phase' = "keys" /\ round < 4 /\ round' = round + 1 /\ key' = 1
           \/ phase' = "done" /\ (~tsd_used \/ round = 4)
        /\ UNCHANGED <<at_end, has_array, skip, freed, dtors, armed, walk, running, in_user, todo>>
    <3>1. key \in Nat /\ round \in 0 .. 4
      BY ThreadExitAssumption DEF TypeOK
    <3>2. phase = "keys" /\ round >= 1
      BY <1>4 DEF RoundEnds, RoundsInv, RoundsAgree
    <3> QED
      BY <1>4, <3>1, <3>2 DEF RoundEnds, Idle, emutlsVars, walkVars
  <2>2. Passed("dtors") /\ Passed("emutls") /\ "user" \notin armed
    BY <2>1, BeforeFacts DEF Passed, RoundsInv, RoundsLowerDepth, RoundsAgree
  <2>3. phase' = "keys" => ~Passed("dtors")' /\ ~Passed("emutls")' /\ ~Passed("user")'
    BY <2>1, BeforeFacts DEF Passed
  <2>4. /\ \A o \in Elements(dtors) : o[1] \in Fit(round + 1)
        /\ dtors # <<>> => tsd_used
        /\ has_array => tsd_used /\ skip >= 3 - round
        /\ freed # {} => round = 4
        /\ at_end.array => IF round < 4 THEN has_array /\ skip = 3 - round ELSE ~has_array
    BY <2>1, <2>2 DEF RoundsInv, RoundsLowerDepth, RoundsAgree, ArrayCountsDown, Due, Passed
  <2>5. phase' = "done" => dtors = <<>> /\ (at_end.array => ~has_array)
    <3>1. round = 4 => dtors = <<>>
      <4>1. round = 4 => Elements(dtors) = {}
        BY <2>4, FitFacts
      <4> QED
        BY <4>1, EmptyFacts DEF TypeOK
    <3> QED
      BY <2>1, <2>4, <3>1
  <2>6. RoundsAgree'
    BY <2>1, <2>2, <2>3, <2>4, <2>5 DEF RoundsAgree
  <2>7. RoundsLowerDepth'
    BY <2>1, <2>2, <2>3, <2>4, EmptyFacts DEF RoundsLowerDepth, Due, Passed
  <2>8. ArrayCountsDown'
    BY <2>1, <2>3, <2>4 DEF ArrayCountsDown
  <2> QED
    BY <2>6, <2>7, <2>8 DEF RoundsInv
<1> QED
  BY <1>1, <1>2, <1>3, <1>4

LEMMA RoundsNext ==
    ASSUME DestructorsFit, TypeOK, ListsAgree, OrderKept, RoundsInv, [Next]_vars
    PROVE  RoundsInv'
<1>1. CASE UNCHANGED vars
  BY <1>1 DEF vars, keyVars, emutlsVars, walkVars, RoundsInv, RoundsAgree, RoundsLowerDepth,
              ArrayCountsDown, Due, Passed
<1>2. CASE Next
  BY <1>2, BodySteps, DtorSteps, KeySteps, WalkSteps, PhaseSteps DEF Next
<1> QED
  BY <1>1, <1>2

\* What the rounds leave behind.
LEMMA RoundsSuffice ==
    ASSUME TypeOK, ListsAgree, OrderKept, RoundsInv
    PROVE  NoUseAfterFree /\ AllDestroyed /\ BlocksFreed
<1>1. NoUseAfterFree
  <2> SUFFICES ASSUME running \in freed PROVE FALSE
    BY DEF NoUseAfterFree
  <2>1. freed # {} /\ running # NoObject
    BY ThreadExitAssumption DEF TypeOK, Object
  <2>2. phase = "keys" /\ round = 4
    BY <2>1 DEF RoundsInv, RoundsAgree, OrderKept, TypeOK
  <2>3. running[1] \in Fit(4)
    BY <2>1, <2>2 DEF RoundsInv, RoundsLowerDepth
  <2> QED
    BY <2>3, FitFacts
<1>2. AllDestroyed
  <2> SUFFICES ASSUME phase = "done", NEW i \in 1 .. Len(registered),
                      i <= at_end.count \/ ~at_end.main
               PROVE  registered[i] \in Elements(destroyed)
    BY DEF AllDestroyed
  <2>1. walk = <<>> /\ running = NoObject
    BY DEF OrderKept
  <2>2. registered[i] \in Elements(registered)
    BY DEF Elements
  <2>3. registered[i] \notin Elements(dtors)
    <3>1. CASE ~at_end.main
      BY <3>1, EmptyFacts DEF RoundsInv, RoundsAgree
    <3>2. CASE at_end.main
      <4>1. i \in 1 .. Counted
        BY <3>2 DEF Counted, TypeOK
      <4> QED
        BY <3>2, <4>1 DEF OrderKept
    <3> QED
      BY <3>1, <3>2
  <2> QED
    BY <2>1, <2>2, <2>3, EmptyFacts DEF ListsAgree
<1>3. BlocksFreed
  BY DEF BlocksFreed, RoundsInv, RoundsAgree
<1> QED
  BY <1>1, <1>2, <1>3

(***************************************************************************)
(* When destructors construct further variables only as deep as musl's     *)
(* four rounds allow, no destructor runs on a block that emutls has freed, *)
(* every registered destructor has run when the thread is gone, and the    *)
(* array that it ended with is freed.                                      *)
(***************************************************************************)
THEOREM ExitInvariant ==
    ASSUME DestructorsFit
    PROVE  Spec => [](ExitInv /\ AllDestroyed /\ BlocksFreed)
<1> DEFINE Inv == TypeOK /\ ListsAgree /\ OrderKept /\ RoundsInv
<1>1. Init => Inv
  BY TypesInit, ListsInit, RoundsInit DEF RoundsInv
<1>2. Inv /\ [Next]_vars => Inv'
  BY DestructorsFit, TypesNext, ListsNext, OrderNext, RoundsNext
<1>3. Inv => ExitInv /\ AllDestroyed /\ BlocksFreed
  BY RoundsSuffice DEF ExitInv, RoundsInv
<1> QED
  BY <1>1, <1>2, <1>3, PTL DEF Spec

(***************************************************************************)
(* Then every destructor that __cxa_thread_atexit registered has run when  *)
(* the thread is gone, those that destructors registered meanwhile         *)
(* included; when the program ended by exit(), those registered before.    *)
(***************************************************************************)
THEOREM EveryDestructorRuns ==
    ASSUME DestructorsFit
    PROVE  Spec => []AllDestroyed
<1>1. Spec => [](ExitInv /\ AllDestroyed /\ BlocksFreed)
  BY DestructorsFit, ExitInvariant
<1> QED
  BY <1>1, PTL

(***************************************************************************)
(* And a thread that had an emutls array when its body ended leaves none   *)
(* behind: emutls_key_destructor counts its rounds down to zero before     *)
(* musl stops calling it.                                                  *)
(***************************************************************************)
THEOREM EveryBlockIsFreed ==
    ASSUME DestructorsFit
    PROVE  Spec => []BlocksFreed
<1>1. Spec => [](ExitInv /\ AllDestroyed /\ BlocksFreed)
  BY DestructorsFit, ExitInvariant
<1> QED
  BY <1>1, PTL
=============================================================================
