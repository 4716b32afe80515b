------------------------------ MODULE FdeCache ------------------------------
(***************************************************************************)
(* DwarfFDECache (libunwind/src/UnwindCursor.hpp) under its pthread_rwlock *)
(* (external), with its users: the lookup for a function of a loaded       *)
(* image, which adds what it had to search for, and dynamic registration   *)
(* (libunwind.cpp), one section of frame descriptions at a time.           *)
(*                                                                         *)
(* A frame description stands for its address range, ranges are disjoint.  *)
(* The image is one without an index of its frames (the code caches        *)
(* nothing for the others, and for a PE image it never has an index), it   *)
(* has a description of each frame that is looked up in it, and no compact *)
(* table gives a hint.  A frame of a registered section belongs to no      *)
(* image and is looked up in all groups at once.                           *)
(*                                                                         *)
(* A writer's critical section is one action.  A reader holds the lock     *)
(* over several, one for each entry that it looks at.                      *)
(***************************************************************************)
EXTENDS Naturals, Sequences, FiniteSets

CONSTANTS Thread,
          image,        \* the image, whose base address is its group
          imageFde,     \* its frame description
          Section,      \* sections that are registered dynamically
          Fdes,         \* Fdes[s]: the frame descriptions in s, in sequence, up
                        \* to its end or to a record that is malformed
          InitialSize,  \* entries of _initialBuffer (64 in the code)
          None

VARIABLES buffer,      \* _buffer .. _bufferUsed: a sequence of entries
          size,        \* _bufferEnd - _buffer
          generation,  \* history: how often the buffer moved
          readers,     \* the threads that hold the lock shared
          registered,  \* the sections that are registered
          pc,          \* pc[t]
          loc          \* loc[t]: [fde, at, generation] sought, or [mh, todo] to add

vars == <<buffer, size, generation, readers, registered, pc, loc>>

NoLocals == [mh |-> None, fde |-> None, at |-> 0, generation |-> 0, todo |-> <<>>]

Init == /\ buffer = <<>> /\ size = InitialSize /\ generation = 0
        /\ readers = {} /\ registered = {}
        /\ pc = [t \in Thread |-> "idle"]
        /\ loc = [t \in Thread |-> NoLocals]

Goto(t, l) == pc' = [pc EXCEPT ![t] = l]
Done(t) == Goto(t, "idle") /\ loc' = [loc EXCEPT ![t] = NoLocals]
MayWriteAnytime == TRUE
MayWrite == readers = {}

-----------------------------------------------------------------------------
\* findFDE: a frame of the image is looked up in the image's group, one of a
\* registered section in all groups.
FindStart(t, mh, fde) ==
    /\ pc[t] = "idle"
    /\ readers' = readers \cup {t}
    /\ loc' = [loc EXCEPT ![t] = [NoLocals EXCEPT !.mh = mh, !.fde = fde, !.at = 1,
                                                  !.generation = generation]]
    /\ Goto(t, "scan")
    /\ UNCHANGED <<buffer, size, generation, registered>>

Matches(t, e) == (loc[t].mh = e.mh \/ loc[t].mh = None) /\ loc[t].fde = e.fde

FindNext(t) ==
    /\ pc[t] = "scan" /\ loc[t].at <= Len(buffer) /\ ~Matches(t, buffer[loc[t].at])
    /\ loc' = [loc EXCEPT ![t].at = @ + 1]
    /\ UNCHANGED <<buffer, size, generation, readers, registered, pc>>

FindHit(t) ==
    /\ pc[t] = "scan" /\ loc[t].at <= Len(buffer) /\ Matches(t, buffer[loc[t].at])
    /\ readers' = readers \ {t}
    /\ Done(t)
    /\ UNCHANGED <<buffer, size, generation, registered>>

\* Not there: the image's section is searched, which finds it, and the result
\* is added; for a registered function there is nowhere else to look.
FindMiss(t) ==
    /\ pc[t] = "scan" /\ loc[t].at > Len(buffer)
    /\ readers' = readers \ {t}
    /\ IF loc[t].mh = image
       THEN Goto(t, "add") /\ loc' = [loc EXCEPT ![t] = [NoLocals EXCEPT !.mh = image, !.todo = <<imageFde>>]]
       ELSE Goto(t, "missed") /\ UNCHANGED loc
    /\ UNCHANGED <<buffer, size, generation, registered>>

-----------------------------------------------------------------------------
\* A section is registered in one call; __unw_add_dynamic_fde is that of a
\* section with one frame description.
RegisterStart(t, s) ==
    /\ pc[t] = "idle" /\ s \notin registered
    /\ \A u \in Thread : loc[u].mh # s
    /\ Goto(t, "add")
    /\ loc' = [loc EXCEPT ![t] = [NoLocals EXCEPT !.mh = s, !.todo = Fdes[s]]]
    /\ UNCHANGED <<buffer, size, generation, readers, registered>>

\* add: when the buffer is full it moves to one four times as large.
IsFullLate == Len(buffer) > size
IsFull == Len(buffer) >= size

Add(t) ==
    /\ pc[t] = "add" /\ loc[t].todo # <<>> /\ MayWrite
    /\ size' = IF IsFull THEN size * 4 ELSE size
    /\ generation' = IF IsFull THEN generation + 1 ELSE generation
    /\ buffer' = Append(buffer, [mh |-> loc[t].mh, fde |-> Head(loc[t].todo)])
    /\ loc' = [loc EXCEPT ![t].todo = Tail(@)]
    /\ UNCHANGED <<readers, registered, pc>>

AddReturns(t) ==
    /\ pc[t] = "add" /\ loc[t].todo = <<>>
    /\ registered' = registered \cup ({loc[t].mh} \ {image})
    /\ Done(t)
    /\ UNCHANGED <<buffer, size, generation, readers>>

\* removeAllIn: kept[i] is what lies before d when the loop has passed i entries.
Compacted(b, s) ==
    LET kept[i \in 0 .. Len(b)] ==
            IF i = 0 THEN <<>>
            ELSE IF b[i].mh # s THEN Append(kept[i - 1], b[i]) ELSE kept[i - 1]
    IN  kept[Len(b)]
UsedNotReset(s) == LET kept == Compacted(buffer, s)
                   IN  kept \o SubSeq(buffer, Len(kept) + 1, Len(buffer))
EntriesNotIn(s) == Compacted(buffer, s)

\* What the caller must see to, for the code does not check it: a section is
\* not deregistered while a frame of it is on the stack of a thread that unwinds.
InUse(s) == \E t \in Thread : \E i \in DOMAIN Fdes[s] : pc[t] = "scan" /\ loc[t].fde = Fdes[s][i]

Deregister(t, s) ==
    /\ pc[t] = "idle" /\ s \in registered /\ ~InUse(s) /\ MayWrite
    /\ buffer' = EntriesNotIn(s)
    /\ registered' = registered \ {s}
    /\ UNCHANGED <<size, generation, readers, pc, loc>>

Next == \E t \in Thread :
    \/ FindStart(t, image, imageFde)
    \/ \E s \in registered : \E i \in DOMAIN Fdes[s] : FindStart(t, None, Fdes[s][i])
    \/ FindNext(t) \/ FindHit(t) \/ FindMiss(t)
    \/ Add(t) \/ AddReturns(t)
    \/ \E s \in Section : RegisterStart(t, s) \/ Deregister(t, s)

Spec == Init /\ [][Next]_vars

-----------------------------------------------------------------------------
Fde == {imageFde} \cup UNION {{Fdes[s][i] : i \in DOMAIN Fdes[s]} : s \in Section}
Entry == [mh : Section \cup {image}, fde : Fde]

TypeOK == /\ buffer \in Seq(Entry) /\ size \in Nat \ {0} /\ generation \in Nat
          /\ readers \subseteq Thread /\ registered \subseteq Section
          /\ pc \in [Thread -> {"idle", "scan", "add", "missed"}]
          /\ loc \in [Thread -> [mh : Section \cup {image, None}, fde : Fde \cup {None},
                                 at : Nat, generation : Nat, todo : Seq(Fde)]]

\* While a section is registered every lookup for it succeeds, whatever other
\* threads add and remove meanwhile, and no reader goes on in a buffer that
\* was replaced.
LookupFindsRegistered ==
    \A t \in Thread : /\ pc[t] # "missed"
                      /\ pc[t] = "scan" => loc[t].generation = generation

\* Entries stay inside the buffer.  The cache keeps nothing of a section that
\* is not registered, and an image's frame is there once for each thread at
\* most: those that missed it together.
CacheIsBounded ==
    LET Of(mh) == {i \in DOMAIN buffer : buffer[i].mh = mh}
    IN  /\ Len(buffer) <= size
        /\ Cardinality(Of(image)) <= Cardinality(Thread)
        /\ \A s \in Section :
               /\ s \in registered => Cardinality(Of(s)) = Len(Fdes[s])
               /\ s \notin registered /\ (\A t \in Thread : loc[t].mh # s) => Of(s) = {}
=============================================================================
