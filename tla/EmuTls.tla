-------------------------------- MODULE EmuTls --------------------------------
(***************************************************************************)
(* Emulated thread-local storage, compiler-rt/lib/builtins/emutls.c, as    *)
(* the package's PE and ok-image targets use it: every access to a         *)
(* thread_local variable is a call of __emutls_get_address with the        *)
(* variable's control block.                                               *)
(*                                                                         *)
(* The control's index is read without the lock and written under it; the  *)
(* counter of indices is only touched under the lock, so the critical      *)
(* section is one step.  The address array belongs to one thread.  What    *)
(* happens to it when the thread ends is in ThreadExit.                    *)
(***************************************************************************)
EXTENDS Naturals

CONSTANTS
    Thread,       \* threads
    Control,      \* one __emutls_control per thread_local variable
    HeaderWords,  \* words of an emutls_address_array before its data
    Chunk         \* the array grows to a multiple of this many words

ASSUME EmuTlsAssumption ==
    /\ HeaderWords \in Nat
    /\ Chunk \in Nat /\ HeaderWords < Chunk

VARIABLES
    object_index,        \* object_index[c]: control->object.index, 0 if unset
    emutls_num_object,   \* indices handed out
    emutls_key_created,  \* emutls_init has run
    array,               \* array[t]: the thread's slots; its domain is its size
    allocations,         \* allocations[t][c]: blocks t has allocated for c
    pc,                  \* pc[t]
    control,             \* control[t]: the argument of t's call
    index,               \* index[t]: the local variable
    result               \* result[t][c]: the address t was last given for c

tlsVars == <<object_index, emutls_num_object, emutls_key_created, array,
             allocations, pc, control, index, result>>

\* A slot is empty, or uninitialised memory, or holds the n-th block that the
\* thread allocated for a variable.
NullSlot == [of |-> "null", n |-> 0]
Garbage == [of |-> "garbage", n |-> 0]
Block(c, n) == [of |-> c, n |-> n]

\* An array that has not been allocated has no slots.
NoArray == [i \in {} |-> NullSlot]
Size(t) == IF array[t] = NoArray THEN 0 ELSE CHOOSE n \in DOMAIN array[t] :
                                                  \A i \in DOMAIN array[t] : i <= n

TlsInit ==
    /\ object_index = [c \in Control |-> 0]
    /\ emutls_num_object = 0
    /\ emutls_key_created = FALSE
    /\ array = [t \in Thread |-> NoArray]
    /\ allocations = [t \in Thread |-> [c \in Control |-> 0]]
    /\ pc = [t \in Thread |-> "run"]
    /\ control \in [Thread -> Control]
    /\ index = [t \in Thread |-> 0]
    /\ result = [t \in Thread |-> [c \in Control |-> NullSlot]]

-----------------------------------------------------------------------------
(***************************************************************************)
(* emutls_get_index: the unlocked load, then once, lock and second look.   *)
(***************************************************************************)
LoadIndex(t, c) ==
    /\ pc[t] = "run"
    /\ control' = [control EXCEPT ![t] = c]
    /\ index' = [index EXCEPT ![t] = object_index[c]]
    /\ pc' = [pc EXCEPT ![t] = IF object_index[c] = 0 THEN "once" ELSE "array"]
    /\ UNCHANGED <<object_index, emutls_num_object, emutls_key_created, array,
                   allocations, result>>

\* pthread_once(&once, emutls_init): the key exists when it returns.
emutls_init_once(t) ==
    /\ pc[t] = "once"
    /\ emutls_key_created' = TRUE
    /\ pc' = [pc EXCEPT ![t] = "lock"]
    /\ UNCHANGED <<object_index, emutls_num_object, array, allocations, control,
                   index, result>>

\* The second look at the index, under the lock.
NeedsIndexAlways(c) == TRUE
NeedsIndex(c) == object_index[c] = 0

\* ++emutls_num_object: indices start at 1, for 0 means unset.
NewIndex == emutls_num_object + 1

AssignIndex(t) ==
    /\ pc[t] = "lock"
    /\ \/ /\ NeedsIndex(control[t])
          /\ emutls_num_object' = emutls_num_object + 1
          /\ object_index' = [object_index EXCEPT ![control[t]] = NewIndex]
       \/ /\ ~NeedsIndex(control[t])
          /\ UNCHANGED <<emutls_num_object, object_index>>
    /\ index' = [index EXCEPT ![t] = object_index'[control[t]]]
    /\ pc' = [pc EXCEPT ![t] = "array"]
    /\ UNCHANGED <<emutls_key_created, array, allocations, control, result>>

-----------------------------------------------------------------------------
(***************************************************************************)
(* emutls_get_address_array and the end of __emutls_get_address.           *)
(***************************************************************************)

\* Rounded up to whole chunks, header included.
new_data_array_size_headerless(i) == ((i + Chunk - 1) \div Chunk) * Chunk - HeaderWords
emutls_new_data_array_size(i) ==
    ((i + HeaderWords + Chunk - 1) \div Chunk) * Chunk - HeaderWords

\* realloc keeps the first slots; memset clears the ones behind them.
ResizedUncleared(t, n) ==
    [i \in 1 .. n |-> IF i <= Size(t) THEN array[t][i] ELSE Garbage]
Resized(t, n) ==
    [i \in 1 .. n |-> IF i <= Size(t) THEN array[t][i] ELSE NullSlot]

emutls_get_address_array(t) ==
    /\ pc[t] = "array"
    /\ array' = [array EXCEPT ![t] =
                    IF index[t] > Size(t)
                    THEN Resized(t, emutls_new_data_array_size(index[t]))
                    ELSE @]
    /\ pc' = [pc EXCEPT ![t] = "object"]
    /\ UNCHANGED <<object_index, emutls_num_object, emutls_key_created,
                   allocations, control, index, result>>

\* if (array->data[index] == NULL) allocate the object; return the slot.
GetObject(t) ==
    LET c == control[t]
        i == index[t]
    IN  /\ pc[t] = "object"
        /\ i \in DOMAIN array[t]
        /\ \/ /\ array[t][i] = NullSlot
              /\ allocations' = [allocations EXCEPT ![t][c] = @ + 1]
              /\ array' = [array EXCEPT ![t][i] = Block(c, allocations'[t][c])]
           \/ /\ array[t][i] # NullSlot
              /\ UNCHANGED <<allocations, array>>
        /\ result' = [result EXCEPT ![t][c] = array'[t][i]]
        /\ pc' = [pc EXCEPT ![t] = "run"]
        /\ UNCHANGED <<object_index, emutls_num_object, emutls_key_created,
                       control, index>>

TlsNext == \E t \in Thread :
               \/ \E c \in Control : LoadIndex(t, c)
               \/ emutls_init_once(t)
               \/ AssignIndex(t)
               \/ emutls_get_address_array(t)
               \/ GetObject(t)

TlsSpec == TlsInit /\ [][TlsNext]_tlsVars

-----------------------------------------------------------------------------
\* Types, and the range of an index once emutls_get_index has returned it.
TlsTypeOK ==
    /\ object_index \in [Control -> Nat]
    /\ emutls_num_object \in Nat
    /\ emutls_key_created \in BOOLEAN
    /\ pc \in [Thread -> {"run", "once", "lock", "array", "object"}]
    /\ control \in [Thread -> Control]
    /\ index \in [Thread -> Nat]
    /\ \A t \in Thread : pc[t] \in {"array", "object"} =>
                            index[t] \in 1 .. emutls_num_object
    /\ allocations \in [Thread -> [Control -> Nat]]
    /\ result \in [Thread -> [Control -> [of : Control \cup {"null"}, n : Nat]]]
    /\ array = [t \in Thread |-> array[t]]

\* No two variables ever share an index, and each index counted belongs to a
\* variable: two threads that race for one variable's index get one.
IndicesDistinct ==
    /\ \A c, d \in Control :
          object_index[c] = object_index[d] /\ object_index[c] # 0 => c = d
    /\ \A i \in 1 .. emutls_num_object : \E c \in Control : object_index[c] = i

\* The slot that __emutls_get_address reads lies inside the thread's array and
\* was cleared or filled before, and the key exists by then, although a thread
\* that loads the index without the lock never calls pthread_once.
SlotIsReadable ==
    \A t \in Thread :
        /\ pc[t] = "object" => /\ index[t] \in DOMAIN array[t]
                               /\ array[t][index[t]] # Garbage
        /\ pc[t] \in {"array", "object"} => emutls_key_created

\* The index a thread goes on with is the one its variable will always have,
\* and nobody has an index before the key exists.
IndexIsFinal ==
    /\ \A c \in Control :
          /\ object_index[c] \in 0 .. emutls_num_object
          /\ object_index[c] # 0 => emutls_key_created
    /\ \A t \in Thread :
          /\ pc[t] \in {"array", "object"} => index[t] = object_index[control[t]]
          /\ pc[t] = "lock" => emutls_key_created

Slot == {NullSlot} \cup {Block(c, 1) : c \in Control}

\* A thread's slots hold blocks only at the indices of their variables, at most
\* one for each; a slot whose variable the thread has not used yet is empty.
SlotsAreFiled ==
    \A t \in Thread :
        /\ Size(t) \in Nat /\ array[t] \in [1 .. Size(t) -> Slot]
        /\ \A i \in DOMAIN array[t] : i > emutls_num_object => array[t][i] = NullSlot
        /\ \A c \in Control :
              /\ allocations[t][c] # 0 => object_index[c] \in DOMAIN array[t]
              /\ object_index[c] \in DOMAIN array[t] =>
                    array[t][object_index[c]] =
                        IF allocations[t][c] = 0 THEN NullSlot ELSE Block(c, 1)

\* A thread has allocated one block at most for a variable, and was given it.
OneBlockEach ==
    \A t \in Thread, c \in Control :
        /\ allocations[t][c] \in {0, 1}
        /\ result[t][c] = IF allocations[t][c] = 0 THEN NullSlot ELSE Block(c, 1)

\* Indices are distinct, final and in the arrays, and every slot holds what its
\* variable's accesses have put there: __emutls_get_address finds its slot.
EmuTlsInv == /\ TlsTypeOK /\ IndicesDistinct /\ SlotIsReadable
             /\ IndexIsFinal /\ SlotsAreFiled /\ OneBlockEach

\* What a thread is given for a variable is that variable's block in that
\* thread, and the same block at every later access: growing the array moves
\* the slots, never the objects.
AddressesAreStable ==
    [][\A t \in Thread, c \in Control :
          /\ result'[t][c] \in {NullSlot, Block(c, 1)}
          /\ result[t][c] # NullSlot => result'[t][c] = result[t][c]]_tlsVars
==============================================================================
