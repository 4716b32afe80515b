----------------------------- MODULE ThreadExit -----------------------------
(***************************************************************************)
(* The end of a thread whose thread_local variables are emulated: the      *)
(* destructors that libc++abi keeps in a pthread key                       *)
(* (cxa_thread_atexit.cpp), the blocks that emutls.c keeps in another, the *)
(* __thread_struct of libc++ (thread.cpp) in a third and a key of the      *)
(* program's own, all run by musl in rounds, in the order of their keys.   *)
(*                                                                         *)
(* One thread is modelled: nothing here is shared between threads.  The    *)
(* main thread runs no key destructors; ~DtorsManager calls run_dtors.     *)
(***************************************************************************)
EXTENDS Integers, Sequences, FiniteSets

CONSTANTS
    Var,       \* thread_local variables with destructors
    BodyVars,  \* those that the thread itself may use before it ends
    DtorUses,  \* DtorUses[v]: variables that the destructor of v uses
    UserUses,  \* variables that the destructor of the program's key uses
    KeyOrder,  \* the keys in order of creation
    NoObject   \* not an object

Keys == {"emutls", "dtors", "user", "thread_struct"}

\* Every key is created once.  A destructor is registered for an object that has
\* its block, so the key of emutls is older than that of the destructors.
ASSUME ThreadExitAssumption ==
    /\ BodyVars \subseteq Var /\ UserUses \subseteq Var
    /\ DtorUses \in [Var -> SUBSET Var]
    /\ KeyOrder \in Seq(Keys)
    /\ \A i, j \in 1 .. Len(KeyOrder) : KeyOrder[i] = KeyOrder[j] => i = j
    /\ \A k \in {"emutls", "dtors"} : \E i \in 1 .. Len(KeyOrder) : KeyOrder[i] = k
    /\ NoObject \notin Var \X Nat
    /\ \A i, j \in 1 .. Len(KeyOrder) :
          KeyOrder[i] = "emutls" /\ KeyOrder[j] = "dtors" => i < j

VARIABLES
    phase,       \* "body", "keys" (pthread_exit), "exit" (main), or "done"
    round,       \* the round of key destructors, from 1
    key,         \* position in KeyOrder
    tsd_used,    \* musl's flag: some key was given a value since the round began
    skip,        \* skip_destructor_rounds of the emutls array, 0 if no array
    has_array,   \* the emutls key has a value
    blocks,      \* variables that have a block in the array
    gen,         \* arrays freed so far; <<v, gen>> is the address of v's block
    dtors,       \* value of dtors_key: registered objects, newest first
    armed,       \* the other keys that have a value
    walk,        \* run_dtors's head: what it still has to destroy
    running,     \* the object whose destructor runs, or NoObject
    in_user,     \* the program's own key destructor runs
    todo,        \* the variables the running destructor is still going to use
    registered,  \* history: objects in order of registration
    destroyed,   \* history: objects in order of destruction
    freed,       \* history: blocks that were freed
    at_end       \* what the thread had when it ended: count, array, main

keyVars == <<phase, round, key, at_end>>
emutlsVars == <<skip, has_array, blocks, gen, freed>>
walkVars == <<walk, running, in_user, todo>>
vars == <<keyVars, tsd_used, emutlsVars, dtors, armed, walkVars, registered,
          destroyed>>

PTHREAD_DESTRUCTOR_ITERATIONS == 4

\* Upstream frees the blocks in the first round, openkal in the last.
SkipNoRounds == 0
SkipAllRounds == PTHREAD_DESTRUCTOR_ITERATIONS
EMUTLS_SKIP_DESTRUCTOR_ROUNDS == PTHREAD_DESTRUCTOR_ITERATIONS - 1

Init ==
    /\ phase = "body" /\ round = 0 /\ key = 0
    /\ tsd_used = FALSE
    /\ skip = 0 /\ has_array = FALSE /\ blocks = {} /\ gen = 0
    /\ dtors = <<>> /\ armed = {}
    /\ walk = <<>> /\ running = NoObject /\ in_user = FALSE /\ todo = {}
    /\ registered = <<>> /\ destroyed = <<>> /\ freed = {}
    /\ at_end = [count |-> 0, array |-> FALSE, main |-> FALSE]

-----------------------------------------------------------------------------
(***************************************************************************)
(* Use of a thread_local variable: __emutls_get_address gives it a block   *)
(* and, if that is new, the compiler's code constructs the object in it    *)
(* and calls __cxa_thread_atexit.  `ok' says whether malloc gave           *)
(* register_dtor a list node; without one nobody destroys the object.      *)
(***************************************************************************)
Use(v, ok) ==
    /\ has_array' = TRUE
    /\ skip' = IF has_array THEN skip ELSE EMUTLS_SKIP_DESTRUCTOR_ROUNDS
    /\ blocks' = blocks \cup {v}
    /\ IF v \notin blocks /\ ok
       THEN /\ dtors' = <<<<v, gen>>>> \o dtors
            /\ registered' = Append(registered, <<v, gen>>)
       ELSE UNCHANGED <<dtors, registered>>
    /\ tsd_used' = (tsd_used \/ ~has_array \/ (v \notin blocks /\ ok))
    /\ UNCHANGED <<gen, freed>>

BodyUses(v, ok) ==
    /\ phase = "body"
    /\ v \in BodyVars \ blocks
    /\ Use(v, ok)
    /\ UNCHANGED <<keyVars, armed, walkVars, destroyed>>

\* pthread_setspecific on the program's key, or notify_all_at_thread_exit.
Arm(k) ==
    /\ phase = "body"
    /\ k \in {"user", "thread_struct"} \ armed
    /\ \E i \in 1 .. Len(KeyOrder) : KeyOrder[i] = k
    /\ armed' = armed \cup {k}
    /\ tsd_used' = TRUE
    /\ UNCHANGED <<keyVars, emutlsVars, dtors, walkVars, registered, destroyed>>

\* The start function returns: musl begins the first round if a key was used.
ThreadEnds ==
    /\ phase = "body"
    /\ at_end' = [count |-> Len(registered), array |-> has_array, main |-> FALSE]
    /\ \/ tsd_used /\ phase' = "keys" /\ round' = 1 /\ key' = 1
       \/ ~tsd_used /\ phase' = "done" /\ UNCHANGED <<round, key>>
    /\ tsd_used' = FALSE
    /\ UNCHANGED <<emutlsVars, dtors, armed, walkVars, registered, destroyed>>

\* run_dtors(p): the key's value is cleared before the walk.
TakeListLeavingKey == walk' = dtors /\ UNCHANGED dtors
TakeList == walk' = dtors /\ dtors' = <<>>

\* A ~DtorsManager that trusts the key destructors to run on this thread too.
MainExitsWithoutList ==
    /\ phase = "body"
    /\ phase' = "exit"
    /\ at_end' = [count |-> Len(registered), array |-> has_array, main |-> TRUE]
    /\ UNCHANGED <<round, key, tsd_used, emutlsVars, dtors, armed, walkVars,
                   registered, destroyed>>

\* exit() in the main thread: ~DtorsManager hands run_dtors the key's value.
MainExits ==
    /\ phase = "body"
    /\ phase' = "exit"
    /\ at_end' = [count |-> Len(registered), array |-> has_array, main |-> TRUE]
    /\ TakeList
    /\ UNCHANGED <<round, key, tsd_used, emutlsVars, armed, running, in_user,
                   todo, registered, destroyed>>

-----------------------------------------------------------------------------
(***************************************************************************)
(* __pthread_tsd_run_dtors: each key with a value loses it and has its     *)
(* destructor called with it.                                              *)
(***************************************************************************)
Idle == walk = <<>> /\ running = NoObject /\ ~in_user

AtKey(k) == phase = "keys" /\ Idle /\ key <= Len(KeyOrder) /\ KeyOrder[key] = k

NextKey == key' = key + 1 /\ UNCHANGED <<phase, round, at_end>>

NoValue ==
    /\ \/ AtKey("emutls") /\ ~has_array
       \/ AtKey("dtors") /\ dtors = <<>>
       \/ \E k \in {"user", "thread_struct"} : AtKey(k) /\ k \notin armed
    /\ NextKey
    /\ UNCHANGED <<tsd_used, emutlsVars, dtors, armed, walkVars, registered,
                   destroyed>>

\* emutls_key_destructor, another round: the value goes back into the key.
EmutlsSkips ==
    /\ AtKey("emutls") /\ has_array
    /\ skip > 0
    /\ skip' = skip - 1
    /\ tsd_used' = TRUE
    /\ NextKey
    /\ UNCHANGED <<has_array, blocks, gen, freed, dtors, armed, walkVars,
                   registered, destroyed>>

\* emutls_key_destructor, the last round: emutls_shutdown frees every block.
EmutlsFrees ==
    /\ AtKey("emutls") /\ has_array
    /\ skip = 0
    /\ has_array' = FALSE
    /\ freed' = freed \cup {<<v, gen>> : v \in blocks}
    /\ blocks' = {}
    /\ gen' = gen + 1
    /\ NextKey
    /\ UNCHANGED <<skip, tsd_used, dtors, armed, walkVars, registered, destroyed>>

RunDtorsKey ==
    /\ AtKey("dtors")
    /\ dtors # <<>>
    /\ TakeList
    /\ NextKey
    /\ UNCHANGED <<tsd_used, emutlsVars, armed, running, in_user, todo,
                   registered, destroyed>>

\* ~__thread_struct_imp: the condition variables are notified here.
ThreadStructKey ==
    /\ AtKey("thread_struct")
    /\ "thread_struct" \in armed
    /\ armed' = armed \ {"thread_struct"}
    /\ NextKey
    /\ UNCHANGED <<tsd_used, emutlsVars, dtors, walkVars, registered, destroyed>>

UserKey ==
    /\ AtKey("user")
    /\ "user" \in armed
    /\ armed' = armed \ {"user"}
    /\ in_user' = TRUE
    /\ todo' = UserUses
    /\ NextKey
    /\ UNCHANGED <<tsd_used, emutlsVars, dtors, walk, running, registered,
                   destroyed>>

RoundEnds ==
    /\ phase = "keys" /\ Idle /\ key > Len(KeyOrder)
    /\ \/ /\ tsd_used /\ round < PTHREAD_DESTRUCTOR_ITERATIONS
          /\ round' = round + 1
          /\ key' = 1
          /\ UNCHANGED phase
       \/ /\ ~tsd_used \/ round = PTHREAD_DESTRUCTOR_ITERATIONS
          /\ phase' = "done"
          /\ UNCHANGED <<round, key>>
    /\ tsd_used' = FALSE
    /\ UNCHANGED <<at_end, emutlsVars, dtors, armed, walkVars, registered,
                   destroyed>>

-----------------------------------------------------------------------------
(***************************************************************************)
(* The walk of run_dtors, and the destructors it and the user's key call.  *)
(***************************************************************************)
CallDtor ==
    /\ walk # <<>> /\ running = NoObject
    /\ running' = Head(walk)
    /\ walk' = Tail(walk)
    /\ todo' = DtorUses[Head(walk)[1]]
    /\ UNCHANGED <<keyVars, tsd_used, emutlsVars, dtors, armed, in_user,
                   registered, destroyed>>

DtorUsesVar(v, ok) ==
    /\ running # NoObject \/ in_user
    /\ v \in todo
    /\ todo' = todo \ {v}
    /\ Use(v, ok)
    /\ UNCHANGED <<keyVars, armed, walk, running, in_user, destroyed>>

DtorReturns ==
    /\ running # NoObject
    /\ todo = {}
    /\ running' = NoObject
    /\ destroyed' = Append(destroyed, running)
    /\ UNCHANGED <<keyVars, tsd_used, emutlsVars, dtors, armed, walk, in_user,
                   todo, registered>>

UserReturns ==
    /\ in_user
    /\ todo = {}
    /\ in_user' = FALSE
    /\ UNCHANGED <<keyVars, tsd_used, emutlsVars, dtors, armed, walk, running,
                   todo, registered, destroyed>>

ExitReturns ==
    /\ phase = "exit" /\ Idle
    /\ phase' = "done"
    /\ UNCHANGED <<round, key, at_end, tsd_used, emutlsVars, dtors, armed,
                   walkVars, registered, destroyed>>

Next ==
    \/ \E v \in Var, ok \in BOOLEAN : BodyUses(v, ok) \/ DtorUsesVar(v, ok)
    \/ \E k \in Keys : Arm(k)
    \/ ThreadEnds \/ MainExits
    \/ NoValue \/ EmutlsSkips \/ EmutlsFrees \/ RunDtorsKey \/ ThreadStructKey
    \/ UserKey \/ RoundEnds
    \/ CallDtor \/ DtorReturns \/ UserReturns \/ ExitReturns

Spec == Init /\ [][Next]_vars

-----------------------------------------------------------------------------
Object == Var \X Nat
Elements(s) == {s[i] : i \in 1 .. Len(s)}

\* Types; the array's countdown never exceeds what it started with.
TypeOK ==
    /\ phase \in {"body", "keys", "exit", "done"}
    /\ round \in 0 .. PTHREAD_DESTRUCTOR_ITERATIONS
    /\ key \in 0 .. Len(KeyOrder) + 1
    /\ tsd_used \in BOOLEAN /\ has_array \in BOOLEAN /\ in_user \in BOOLEAN
    /\ skip \in 0 .. PTHREAD_DESTRUCTOR_ITERATIONS - 1
    /\ blocks \subseteq Var /\ gen \in Nat /\ freed \subseteq Object
    /\ armed \subseteq Keys /\ todo \subseteq Var
    /\ running \in Object \cup {NoObject}
    /\ \A s \in {dtors, walk, registered, destroyed} : s \in Seq(Object)
    /\ at_end \in [count : Nat, array : BOOLEAN, main : BOOLEAN]

\* An object is in one of the places where its destructor can be: in the key's
\* list, in the walk, running, or done.
Distinct(s) == \A i, j \in 1 .. Len(s) : s[i] = s[j] => i = j
ListsAgree ==
    /\ Distinct(registered) /\ Distinct(dtors) /\ Distinct(walk) /\ Distinct(destroyed)
    /\ Elements(registered) = Elements(dtors) \cup Elements(walk)
                                  \cup Elements(destroyed) \cup ({running} \ {NoObject})
    /\ Elements(dtors) \cap Elements(walk) = {}
    /\ Elements(destroyed) \cap (Elements(dtors) \cup Elements(walk)) = {}
    /\ running \notin Elements(dtors) \cup Elements(walk) \cup Elements(destroyed)
    /\ \A o \in Elements(registered) : o[2] < gen \/ (o[2] = gen /\ o[1] \in blocks)

\* y comes before x in s, if both are there.
Ahead(s, y, x) == \A k, l \in 1 .. Len(s) : s[k] = x /\ s[l] = y => l < k

\* Of the first n objects, the later of two goes first.
LaterGoesFirst(n) ==
    \A i, j \in 1 .. n : i < j =>
        /\ \A s \in {dtors, walk, destroyed} : Ahead(s, registered[j], registered[i])
        /\ registered[i] \in Elements(destroyed) \cup {running} =>
               registered[j] \in Elements(destroyed)
        /\ registered[i] \in Elements(walk) => registered[j] \notin Elements(dtors)

\* Those that the thread itself constructed are destroyed in reverse order.
Counted == IF phase = "body" THEN Len(registered) ELSE at_end.count
OrderKept ==
    /\ Counted <= Len(registered)
    /\ LaterGoesFirst(Counted)
    /\ phase \in {"body", "done"} => walk = <<>> /\ running = NoObject
    /\ phase = "body" => destroyed = <<>>
    /\ phase # "done" => at_end.main = (phase = "exit")
    /\ phase \in {"exit", "done"} /\ at_end.main =>
           \A i \in 1 .. Counted : registered[i] \notin Elements(dtors)

-----------------------------------------------------------------------------
\* How deep destructors construct further variables: Depth0 construct none.
Depth0 == {v \in Var : DtorUses[v] = {}}
Depth1 == {v \in Var : DtorUses[v] \subseteq Depth0}
Depth2 == {v \in Var : DtorUses[v] \subseteq Depth1}

\* The depth that musl's rounds allow.
DestructorsFit == BodyVars \subseteq Depth2 /\ UserUses \subseteq Depth1

\* The keys that musl visits before the n-th.
Before(k, n) == \E i \in 1 .. Len(KeyOrder) : KeyOrder[i] = k /\ i < n
Passed(k) == Before(k, key)

\* What there may be to destroy in round r, and in the list at key n of round r.
Fit(r) == IF r <= 1 THEN Depth2 ELSE IF r = 2 THEN Depth1 ELSE IF r = 3 THEN Depth0 ELSE {}
Due(n, r) == IF Before("dtors", n) THEN Fit(r + 1) ELSE Fit(r)

\* Every round lowers the depth, so that the last one destroys nothing.
RoundsLowerDepth ==
    /\ phase = "body" => \A o \in Elements(dtors) : o[1] \in Depth2
    /\ phase = "keys" =>
           /\ \A o \in Elements(dtors) : o[1] \in Due(key, round)
           /\ \A o \in Elements(walk) \cup ({running} \ {NoObject}) : o[1] \in Fit(round)
    /\ running # NoObject => todo \subseteq DtorUses[running[1]]
    /\ in_user => /\ phase = "keys" /\ round = 1 /\ todo \subseteq UserUses
                  /\ walk = <<>> /\ running = NoObject
    /\ "user" \in armed /\ phase = "keys" => round = 1 /\ ~Passed("user")

\* The keys' state in the rounds: a list or an array that is left makes musl go
\* on, and the array counts down to the last round.
RoundsAgree ==
    /\ phase = "body" => /\ (has_array \/ dtors # <<>>) => tsd_used
                         /\ has_array => skip = EMUTLS_SKIP_DESTRUCTOR_ROUNDS
    /\ phase = "keys" => /\ round >= 1 /\ key >= 1
                         /\ dtors # <<>> /\ Passed("dtors") => tsd_used
                         /\ has_array /\ Passed("emutls") => tsd_used
                         /\ has_array => skip >= IF Passed("emutls") THEN 3 - round ELSE 4 - round
    /\ phase \in {"exit", "body"} => freed = {}
    /\ phase = "keys" /\ freed # {} => round = 4 /\ Passed("emutls")
    /\ phase = "done" /\ ~at_end.main => dtors = <<>> /\ (at_end.array => ~has_array)
    /\ "user" \in armed => \E i \in 1 .. Len(KeyOrder) : KeyOrder[i] = "user"

\* The array that the thread ended with is there until the last round.
ArrayCountsDown ==
    /\ phase = "keys" /\ at_end.array =>
           IF round < 4 \/ ~Passed("emutls")
           THEN has_array /\ skip = IF Passed("emutls") THEN 3 - round ELSE 4 - round
           ELSE ~has_array

\* No destructor runs on an object whose block emutls has freed, also when
\* destructors construct variables whose destructors run in later rounds.
NoUseAfterFree == running \notin freed

\* Rounds, keys and lists agree, and destructors run on live blocks.
ExitInv == /\ TypeOK /\ ListsAgree /\ OrderKept
           /\ RoundsAgree /\ RoundsLowerDepth /\ ArrayCountsDown
           /\ NoUseAfterFree

\* Every object is destroyed at most once, and those that the thread itself
\* constructed in reverse order of construction.
DestroyedOnceInReverse ==
    /\ \A i, j \in 1 .. Len(destroyed) : destroyed[i] = destroyed[j] => i = j
    /\ \A i, j \in 1 .. at_end.count :
          \A k, l \in 1 .. Len(destroyed) :
             i < j /\ destroyed[k] = registered[i] /\ destroyed[l] = registered[j]
                => l < k

\* When the thread is gone every registered destructor has run, those that
\* destructors registered included; exit() in the main thread runs those that
\* were registered before it.
AllDestroyed ==
    phase = "done" =>
        \A i \in 1 .. Len(registered) :
            i <= at_end.count \/ ~at_end.main => registered[i] \in Elements(destroyed)

\* A thread that had an array when it ended leaves no block behind.
BlocksFreed ==
    phase = "done" /\ ~at_end.main /\ at_end.array => ~has_array
=============================================================================
