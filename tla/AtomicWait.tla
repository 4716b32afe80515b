----------------------------- MODULE AtomicWait -----------------------------
(***************************************************************************)
(* std::atomic<T>::wait, store, notify_one and notify_all                  *)
(* (libcxx/include/__atomic/atomic_sync.h over libcxx/src/atomic.cpp) in   *)
(* the openkal build.  An atomic of four bytes is `native': the thread     *)
(* sleeps on the atomic itself.  For any other width it sleeps on a word   *)
(* of a table entry that the atomic shares with others.                    *)
(*                                                                         *)
(* A store that is not seq_cst may stay in the processor's store buffer    *)
(* while the thread goes on; read-modify-writes and fences empty it, loads *)
(* do not.  That is what x86 does with the instructions of this build, and *)
(* the notifier's seq_cst load of the waiter count is a plain load there.  *)
(***************************************************************************)
EXTENDS Contention

CONSTANTS
    Atom,      \* the program's atomics
    Native,    \* those of the platform's wait size
    EntryOf,   \* EntryOf[a]: where a hashes to
    Orders,    \* Orders[a]: memory orders the program stores to a with
    Kinds,     \* Kinds[a]: how it notifies: "one", "all"
    Value,     \* values of atomics
    Initial,   \* the one they start with
    Waiter,    \* threads that wait
    Writer,    \* threads that store and notify
    MaxStores, \* bound: stores by one thread
    NoStore,   \* an empty store buffer
    NoAtom     \* no atomic: the thread is outside the library

ASSUME AtomicWaitAssumption ==
    /\ Native \subseteq Atom
    /\ Waiter \cup Writer = Thread
    /\ EntryOf \in [Atom -> Entry]
    /\ Orders \in [Atom -> SUBSET {"seq_cst", "release"}]
    /\ Kinds \in [Atom -> SUBSET {"one", "all"}]
    /\ Initial \in Value /\ NoAtom \notin Atom
    /\ MaxStores \in Nat
    \* The native table and the global one are two tables.
    /\ \A a \in Native, b \in Atom \ Native : EntryOf[a] # EntryOf[b]

VARIABLES
    value,    \* value[a], in memory
    buffer,   \* buffer[t]: a store on its way to memory, or NoStore
    pc,       \* pc[t]
    atom,     \* atom[t]: the atomic of t's operation, or NoAtom
    old,      \* old[t]: the argument of wait
    monitor,  \* monitor[t]: the platform state to sleep on, global
    stores    \* stores[t]: stores made so far

waitVars == <<old, monitor>>
vars == <<contentionVars, value, buffer, pc, atom, waitVars, stores>>

Word == Atom \cup Entry
WordOf(a) == IF a \in Native THEN a ELSE EntryOf[a]

Init ==
    /\ ContentionInit
    /\ value = [a \in Atom |-> Initial]
    /\ buffer = [t \in Thread |-> NoStore]
    /\ pc = [t \in Thread |-> "idle"]
    /\ atom = [t \in Thread |-> NoAtom]
    /\ old = [t \in Thread |-> Initial]
    /\ monitor = [t \in Thread |-> 0]
    /\ stores = [t \in Thread |-> 0]

Goto(t, l) == pc' = [pc EXCEPT ![t] = l] /\ UNCHANGED <<atom, waitVars>>

\* The call is over and its locals are gone.
Return(t) ==
    /\ pc' = [pc EXCEPT ![t] = "idle"]
    /\ atom' = [atom EXCEPT ![t] = NoAtom]
    /\ old' = [old EXCEPT ![t] = Initial]
    /\ monitor' = [monitor EXCEPT ![t] = 0]

GotoIf(t, cond, l) == (cond /\ Goto(t, l)) \/ (~cond /\ Return(t))

\* A thread sees its own store before memory does.
Load(t, a) == IF buffer[t] # NoStore /\ buffer[t].atom = a THEN buffer[t].value
                                                           ELSE value[a]

-----------------------------------------------------------------------------
(***************************************************************************)
(* wait(old): __libcpp_thread_poll_with_backoff.  The 64 polls and the     *)
(* four microseconds before the first backoff are one poll here: another   *)
(* poll of the same value changes nothing.                                 *)
(***************************************************************************)
Wait(t, a, v) ==
    /\ pc[t] = "idle" /\ t \in Waiter
    /\ atom' = [atom EXCEPT ![t] = a]
    /\ old' = [old EXCEPT ![t] = v]
    /\ pc' = [pc EXCEPT ![t] = "poll"]
    /\ UNCHANGED <<contentionVars, value, buffer, monitor, stores>>

Poll(t) ==
    /\ pc[t] = "poll"
    /\ GotoIf(t, Load(t, atom[t]) = old[t], "backoff")
    /\ UNCHANGED <<contentionVars, value, buffer, stores>>

\* __atomic_wait_backoff_impl: the wrong width monitors the entry first.
MonitorGlobal(t) ==
    /\ pc[t] = "backoff" /\ atom[t] \notin Native
    /\ monitor' = [monitor EXCEPT ![t] = platform_state[EntryOf[atom[t]]]]
    /\ pc' = [pc EXCEPT ![t] = "load"]
    /\ UNCHANGED <<contentionVars, value, buffer, atom, old, stores>>

\* The last look at the value before sleeping: what is slept on is what was
\* seen, and that is the old value.
BackoffLoad(t) ==
    /\ \/ pc[t] = "load"
       \/ pc[t] = "backoff" /\ atom[t] \in Native
    /\ GotoIf(t, Load(t, atom[t]) = old[t], "add")
    /\ UNCHANGED <<contentionVars, value, buffer, stores>>

\* fetch_add on the waiter count, and the fence behind it.
ContentionWait(t) ==
    /\ pc[t] = "add" /\ buffer[t] = NoStore
    /\ AddWaiter(EntryOf[atom[t]])
    /\ Goto(t, "platform_wait")
    /\ UNCHANGED <<platform_state, asleep, value, buffer, stores>>

PlatformWait(t) ==
    LET a == atom[t]
    IN  /\ pc[t] = "platform_wait"
        /\ \/ a \in Native /\ kal_task_wait(t, a, value[a], old[t])
           \/ /\ a \notin Native
              /\ kal_task_wait(t, EntryOf[a], platform_state[EntryOf[a]], monitor[t])
        /\ Goto(t, "sub")
        /\ UNCHANGED <<waiter_count, platform_state, value, buffer, stores>>

\* Zero is "no timeout" to openkal; the code passes two seconds.
ZeroTimeout == 0
DefaultTimeout == 2

WaitTimesOut(t) ==
    /\ asleep[t] # Awake
    /\ DefaultTimeout # 0
    /\ asleep' = [asleep EXCEPT ![t] = Awake]
    /\ UNCHANGED <<waiter_count, platform_state, value, buffer, pc, atom,
                   waitVars, stores>>

ContentionWaitReturns(t) ==
    /\ pc[t] = "sub" /\ asleep[t] = Awake /\ buffer[t] = NoStore
    /\ SubWaiter(EntryOf[atom[t]])
    /\ Goto(t, "poll")
    /\ UNCHANGED <<platform_state, asleep, value, buffer, stores>>

-----------------------------------------------------------------------------
(***************************************************************************)
(* store(v, order), followed by the notification.                          *)
(***************************************************************************)
Store(t, a, v, order) ==
    /\ pc[t] = "idle" /\ t \in Writer /\ stores[t] < MaxStores
    /\ order \in Orders[a]
    /\ buffer[t] = NoStore
    /\ stores' = [stores EXCEPT ![t] = @ + 1]
    /\ atom' = [atom EXCEPT ![t] = a]
    /\ \/ /\ order = "seq_cst"
          /\ value' = [value EXCEPT ![a] = v]
          /\ UNCHANGED buffer
       \/ /\ order # "seq_cst"
          /\ buffer' = [buffer EXCEPT ![t] = [atom |-> a, value |-> v]]
          /\ UNCHANGED value
    /\ pc' = [pc EXCEPT ![t] = IF a \in Native THEN "count" ELSE "launder"]
    /\ UNCHANGED <<contentionVars, waitVars>>

\* The processor's part: the store reaches memory.
Drain(t) ==
    /\ buffer[t] # NoStore
    /\ value' = [value EXCEPT ![buffer[t].atom] = buffer[t].value]
    /\ buffer' = [buffer EXCEPT ![t] = NoStore]
    /\ UNCHANGED <<contentionVars, pc, atom, waitVars, stores>>

NotifyGlobal(t) ==
    /\ pc[t] = "launder" /\ buffer[t] = NoStore
    /\ Launder(EntryOf[atom[t]])
    /\ Goto(t, "count")
    /\ UNCHANGED <<waiter_count, asleep, value, buffer, stores>>

ContentionNotify(t) ==
    /\ pc[t] = "count"
    /\ GotoIf(t, HasWaiters(EntryOf[atom[t]]), "wake")
    /\ UNCHANGED <<contentionVars, value, buffer, stores>>

\* "when laundering, we can't handle notify_one"
WakesOneAnywhere(a, kind) == kind = "one"
WakesOne(a, kind) == kind = "one" /\ a \in Native

\* The argument of the notification matters only here.
PlatformWake(t) ==
    /\ pc[t] = "wake"
    /\ \E kind \in Kinds[atom[t]] :
          kal_task_wake(WordOf(atom[t]), WakesOne(atom[t], kind))
    /\ Return(t)
    /\ UNCHANGED <<waiter_count, platform_state, value, buffer, stores>>

Step(t) ==
    \/ Poll(t) \/ MonitorGlobal(t) \/ BackoffLoad(t) \/ ContentionWait(t)
    \/ PlatformWait(t) \/ ContentionWaitReturns(t)
    \/ NotifyGlobal(t) \/ ContentionNotify(t) \/ PlatformWake(t)

Next == \E t \in Thread :
            \/ Step(t) \/ Drain(t) \/ WaitTimesOut(t)
            \/ \E a \in Atom, v \in Value :
                  \/ Wait(t, a, v)
                  \/ \E o \in Orders[a] : Store(t, a, v, o)

Spec == Init /\ [][Next]_vars

\* The scheduler runs every thread, processors write their stores back, and a
\* wait with a timeout ends.
FairSpec == Spec /\ \A t \in Thread :
                       WF_vars(Step(t)) /\ WF_vars(Drain(t)) /\ WF_vars(WaitTimesOut(t))

-----------------------------------------------------------------------------
InWait == {"poll", "backoff", "load", "add", "platform_wait", "sub"}
InNotify == {"launder", "count", "wake"}

\* Types; a thread in kal_task_wait is in its wait and sleeps on its own word.
TypeOK ==
    /\ ContentionTypeOK(Word)
    /\ value \in [Atom -> Value]
    /\ buffer \in [Thread -> [atom : Atom, value : Value] \cup {NoStore}]
    /\ pc \in [Thread -> InWait \cup InNotify \cup {"idle"}]
    /\ atom \in [Thread -> Atom \cup {NoAtom}]
    /\ old \in [Thread -> Value]
    /\ monitor \in [Thread -> Nat]
    /\ stores \in [Thread -> 0 .. MaxStores]
    /\ \A t \in Thread : asleep[t] # Awake => pc[t] = "sub" /\ asleep[t] = WordOf(atom[t])

\* The waiter count of an entry is the number of threads between its two updates
\* in __contention_wait, so that a notifier that reads zero may skip the platform.
Counted(e) ==
    {t \in Thread : pc[t] \in {"platform_wait", "sub"} /\ EntryOf[atom[t]] = e}
CountIsExact == \A e \in Entry : waiter_count[e] = Cardinality(Counted(e))

\* A thread inside the library has an atomic, and its monitor is a state that the
\* entry was in.
CallsAreSound ==
    \A t \in Thread :
        /\ pc[t] # "idle" => atom[t] \in Atom
        /\ pc[t] \in {"load", "add", "platform_wait", "sub"} /\ atom[t] \notin Native =>
              monitor[t] <= platform_state[EntryOf[atom[t]]]
        /\ pc[t] \in {"launder", "load"} => atom[t] \notin Native

\* A store to an atomic that uses the table leaves the buffer before its entry's
\* platform state is changed.
BuffersAreAhead ==
    \A t \in Thread : buffer[t] # NoStore =>
        /\ Orders[buffer[t].atom] # {"seq_cst"}
        /\ buffer[t].atom \notin Native => pc[t] = "launder" /\ atom[t] = buffer[t].atom

\* Somebody is on the way to the threads that sleep on the word of a.
Announced(a) ==
    \E w \in Thread : /\ pc[w] \in InNotify
                      /\ IF a \in Native THEN atom[w] = a ELSE EntryOf[atom[w]] = EntryOf[a]

\* A thread that is about to sleep on the table has seen the old value since it
\* took its monitor; if memory holds another, the writer has yet to change the
\* platform state, or the state has changed and the thread will not sleep.
MonitorIsFresh ==
    \A t \in Thread :
        /\ pc[t] \in {"add", "platform_wait"} /\ atom[t] \notin Native
        /\ value[atom[t]] # old[t] /\ monitor[t] = platform_state[EntryOf[atom[t]]]
        => \E w \in Thread : pc[w] = "launder" /\ EntryOf[atom[w]] = EntryOf[atom[t]]

\* Atomics whose waiters never need the timeout: all that use the table, and
\* native ones that the program stores to in seq_cst order and notifies all of.
Reliable(a) == a \notin Native \/ (Orders[a] = {"seq_cst"} /\ Kinds[a] = {"all"})

\* The change of a value that somebody sleeps on is being announced.
ChangesAreAnnounced ==
    \A t \in Thread :
        asleep[t] # Awake /\ value[atom[t]] # old[t] /\ Reliable(atom[t]) => Announced(atom[t])

\* Whoever sleeps does so in a wait, on the word of its atomic, and is counted;
\* nobody goes to sleep on a change that is not being announced.
WaitInv == /\ TypeOK /\ CountIsExact /\ CallsAreSound
           /\ BuffersAreAhead /\ MonitorIsFresh /\ ChangesAreAnnounced

\* No thread sleeps on a value that memory no longer holds unless somebody who
\* changed it is still on the way to wake it.
NoLostWakeup ==
    \A t \in Thread : asleep[t] # Awake /\ value[atom[t]] # old[t] /\ Reliable(atom[t]) =>
        \E w \in Thread : pc[w] \in InNotify /\ EntryOf[atom[w]] = EntryOf[atom[t]]

\* Whatever the store's memory order and with notify_one too, a wait returns
\* unless the atomic has the awaited value again and again: "a wait that never
\* times out cannot notice a wake it raced with".
WaitReturns ==
    \A t \in Thread : []<>(pc[t] \notin InWait \/ value[atom[t]] = old[t])
=============================================================================
