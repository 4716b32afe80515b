--------------------------- MODULE StorageProofs ---------------------------
(***************************************************************************)
(* The two parts of the runtime that hand out storage, which share no name *)
(* and no state: each theorem is about the specification of its own part.  *)
(*                                                                         *)
(* Emulated thread-local storage is safe for every number of threads and   *)
(* variables and every array geometry: EmuTlsInv is inductive, and every   *)
(* step it allows keeps the addresses that have been given out.            *)
(*                                                                         *)
(* The emergency heap is safe for every size, alignment and set of         *)
(* requests: blocks stay apart whatever is split, merged and freed, go     *)
(* back to the allocator they came from, and NULL means that the list had  *)
(* no room.                                                                *)
(***************************************************************************)
EXTENDS EmuTls, FallbackMalloc, Integers, WellFoundedInduction, TLAPS

-----------------------------------------------------------------------------
(***************************************************************************)
(* Emulated thread-local storage.                                          *)
(***************************************************************************)

\* The size of an array whose slots are 1 .. n is n.
LEMMA LastSlot ==
    ASSUME NEW n \in Nat, NEW S, NEW f \in [1 .. n -> S]
    PROVE  (IF f = NoArray THEN 0
            ELSE CHOOSE m \in DOMAIN f : \A i \in DOMAIN f : i <= m) = n
<1>1. CASE n = 0
  <2>1. f = NoArray
    BY <1>1 DEF NoArray
  <2> QED
    BY <1>1, <2>1
<1>2. CASE n # 0
  <2>1. f # NoArray
    <3>1. 1 \in DOMAIN f /\ DOMAIN NoArray = {}
      BY <1>2 DEF NoArray
    <3> QED
      BY <3>1
  <2>2. n \in DOMAIN f /\ \A i \in DOMAIN f : i <= n
    BY <1>2
  <2>3. \A m \in DOMAIN f : (\A i \in DOMAIN f : i <= m) => m = n
    BY <2>2
  <2> QED
    BY <2>1, <2>2, <2>3
<1> QED
  BY <1>1, <1>2

\* That is what Size computes, before and after a step.
LEMMA SizeIs ==
    ASSUME NEW t, NEW n \in Nat, NEW S, array[t] \in [1 .. n -> S]
    PROVE  Size(t) = n
  BY LastSlot DEF Size

LEMMA SizeIsNext ==
    ASSUME NEW t, NEW n \in Nat, NEW S, array'[t] \in [1 .. n -> S]
    PROVE  Size(t)' = n
<1>1. PICK f \in [1 .. n -> S] : f = array'[t]
  OBVIOUS
<1>2. (IF f = NoArray THEN 0
       ELSE CHOOSE m \in DOMAIN f : \A i \in DOMAIN f : i <= m) = n
  BY LastSlot
<1> QED
  BY <1>1, <1>2 DEF Size

\* The rounded size has room for the index, whatever the header and the chunk.
LEMMA NewSizeHolds ==
    ASSUME NEW i \in Nat \ {0}
    PROVE  /\ emutls_new_data_array_size(i) \in Nat
           /\ i <= emutls_new_data_array_size(i)
<1> DEFINE k == i + HeaderWords + Chunk - 1
           q == k \div Chunk
<1>1. k \in Nat /\ Chunk \in Nat \ {0} /\ HeaderWords \in Nat
  BY EmuTlsAssumption
<1>2. q \in Int /\ k - Chunk < q * Chunk
  BY <1>1
<1>3. emutls_new_data_array_size(i) = q * Chunk - HeaderWords
  BY DEF emutls_new_data_array_size
<1> HIDE DEF q
<1>4. q * Chunk \in Int
  BY <1>1, <1>2
<1> QED
  BY <1>1, <1>2, <1>3, <1>4

\* A block is neither an empty slot nor uninitialised memory.
LEMMA SlotsDiffer ==
    /\ \A c : Block(c, 1) # NullSlot /\ Block(c, 1) # Garbage
    /\ NullSlot # Garbage
    /\ NullSlot \in [of : Control \cup {"null"}, n : Nat]
    /\ \A c \in Control : Block(c, 1) \in [of : Control \cup {"null"}, n : Nat]
  BY DEF Block, NullSlot, Garbage

-----------------------------------------------------------------------------
\* The initial state satisfies the invariant.
LEMMA InitEmuTlsInv == TlsInit => EmuTlsInv
<1> SUFFICES ASSUME TlsInit PROVE EmuTlsInv
  OBVIOUS
<1> USE DEF TlsInit
<1>1. TlsTypeOK
  BY SlotsDiffer DEF TlsTypeOK
<1>2. IndicesDistinct /\ SlotIsReadable /\ IndexIsFinal
  BY DEF IndicesDistinct, SlotIsReadable, IndexIsFinal
<1>3. SlotsAreFiled
  <2>1. \A t \in Thread : array[t] = NoArray /\ DOMAIN array[t] = {}
    BY DEF NoArray
  <2>2. \A t \in Thread : Size(t) = 0
    BY <2>1 DEF Size
  <2>3. NoArray \in [1 .. 0 -> Slot]
    BY DEF NoArray
  <2>4. \A t \in Thread, c \in Control : allocations[t][c] = 0
    OBVIOUS
  <2> HIDE DEF TlsInit
  <2>5. \A t \in Thread : Size(t) \in Nat /\ array[t] \in [1 .. Size(t) -> Slot]
    <3> SUFFICES ASSUME NEW t \in Thread
                 PROVE  Size(t) \in Nat /\ array[t] \in [1 .. Size(t) -> Slot]
      OBVIOUS
    <3>1. Size(t) \in Nat /\ 1 .. Size(t) = 1 .. 0
      BY <2>2
    <3> QED
      BY <2>1, <2>3, <3>1, Zenon
  <2> QED
    BY <2>1, <2>4, <2>5 DEF SlotsAreFiled
<1>4. OneBlockEach
  BY DEF OneBlockEach
<1> QED
  BY <1>1, <1>2, <1>3, <1>4 DEF EmuTlsInv

\* A step that neither resizes an array nor files a block keeps what they hold.
LEMMA ArraysKept ==
    ASSUME EmuTlsInv, UNCHANGED <<array, allocations, result>>,
           \A c \in Control : object_index[c] # 0 => object_index'[c] = object_index[c],
           \A c \in Control : object_index'[c] # 0 /\ object_index[c] = 0 =>
                                 object_index'[c] > emutls_num_object,
           emutls_num_object' \in Nat, emutls_num_object' >= emutls_num_object
    PROVE  SlotsAreFiled' /\ OneBlockEach'
<1>1. \A t \in Thread : Size(t)' = Size(t)
  BY DEF Size
<1>2. TlsTypeOK /\ SlotsAreFiled /\ OneBlockEach
  BY DEF EmuTlsInv
<1>3. ASSUME NEW t \in Thread, NEW c \in Control
      PROVE  /\ allocations[t][c] # 0 => object_index'[c] \in DOMAIN array[t]
             /\ object_index'[c] \in DOMAIN array[t] =>
                   array[t][object_index'[c]] =
                       IF allocations[t][c] = 0 THEN NullSlot ELSE Block(c, 1)
  <2>1. 0 \notin DOMAIN array[t]
    BY <1>2 DEF SlotsAreFiled
  <2>2. CASE object_index'[c] = object_index[c]
    BY <1>2, <2>2 DEF SlotsAreFiled
  <2>3. CASE object_index'[c] # object_index[c]
    <3>1. object_index[c] = 0 /\ object_index'[c] # 0
      BY <2>3
    <3>2. allocations[t][c] = 0
      BY <1>2, <2>1, <3>1 DEF SlotsAreFiled
    <3> QED
      BY <1>2, <3>1, <3>2 DEF SlotsAreFiled
  <2> QED
    BY <2>2, <2>3
<1>4. \A t \in Thread : \A i \in DOMAIN array[t] :
         i > emutls_num_object' => array[t][i] = NullSlot
  <2> SUFFICES ASSUME NEW t \in Thread, NEW i \in DOMAIN array[t], i > emutls_num_object'
               PROVE  array[t][i] = NullSlot
    OBVIOUS
  <2>1. i \in Int /\ emutls_num_object \in Nat
    BY <1>2 DEF SlotsAreFiled, TlsTypeOK
  <2>2. i > emutls_num_object
    BY <2>1
  <2> QED
    BY <1>2, <2>2 DEF SlotsAreFiled
<1>5. SlotsAreFiled'
  BY <1>1, <1>2, <1>3, <1>4 DEF SlotsAreFiled
<1> QED
  BY <1>2, <1>5 DEF OneBlockEach

\* The unlocked load finds no index, or the final one.
LEMMA LoadPreserves ==
    ASSUME EmuTlsInv, NEW t \in Thread, NEW c \in Control, LoadIndex(t, c)
    PROVE  EmuTlsInv'
<1> USE DEF LoadIndex
<1>0. TlsTypeOK /\ IndexIsFinal
  BY DEF EmuTlsInv
<1>1. TlsTypeOK'
  <2>1. object_index[c] \in 0 .. emutls_num_object /\ emutls_num_object \in Nat
    BY <1>0 DEF TlsTypeOK, IndexIsFinal
  <2> QED
    BY <1>0, <2>1 DEF TlsTypeOK
<1>2. IndicesDistinct'
  BY DEF EmuTlsInv, IndicesDistinct
<1>3. SlotIsReadable' /\ IndexIsFinal'
  BY <1>0 DEF EmuTlsInv, SlotIsReadable, IndexIsFinal, TlsTypeOK
<1>4. SlotsAreFiled' /\ OneBlockEach'
  BY <1>0, ArraysKept DEF TlsTypeOK
<1> QED
  BY <1>1, <1>2, <1>3, <1>4 DEF EmuTlsInv

\* pthread_once creates the key before anybody can assign an index.
LEMMA OncePreserves ==
    ASSUME EmuTlsInv, NEW t \in Thread, emutls_init_once(t)
    PROVE  EmuTlsInv'
<1> USE DEF emutls_init_once
<1>0. TlsTypeOK /\ IndexIsFinal
  BY DEF EmuTlsInv
<1>1. TlsTypeOK'
  BY <1>0 DEF TlsTypeOK
<1>2. IndicesDistinct'
  BY DEF EmuTlsInv, IndicesDistinct
<1>3. SlotIsReadable' /\ IndexIsFinal'
  BY <1>0 DEF EmuTlsInv, SlotIsReadable, IndexIsFinal, TlsTypeOK
<1>4. SlotsAreFiled' /\ OneBlockEach'
  BY <1>0, ArraysKept DEF TlsTypeOK
<1> QED
  BY <1>1, <1>2, <1>3, <1>4 DEF EmuTlsInv

\* Under the lock the second look decides who assigns, and no index moves.
LEMMA AssignPreserves ==
    ASSUME EmuTlsInv, NEW t \in Thread, AssignIndex(t)
    PROVE  EmuTlsInv'
<1>0. TlsTypeOK /\ IndexIsFinal /\ IndicesDistinct /\ SlotIsReadable
  BY DEF EmuTlsInv
<1>1. control[t] \in Control /\ pc[t] = "lock" /\ emutls_num_object \in Nat
  BY <1>0 DEF AssignIndex, TlsTypeOK
<1> PICK c \in Control : c = control[t]
  BY <1>1
<1>2. /\ pc' = [pc EXCEPT ![t] = "array"]
      /\ index' = [index EXCEPT ![t] = object_index'[c]]
      /\ UNCHANGED <<emutls_key_created, array, allocations, control, result>>
  BY DEF AssignIndex
<1>3. \/ /\ object_index[c] = 0 /\ emutls_num_object' = emutls_num_object + 1
         /\ object_index' = [object_index EXCEPT ![c] = emutls_num_object + 1]
      \/ object_index[c] # 0 /\ UNCHANGED <<emutls_num_object, object_index>>
  BY DEF AssignIndex, NeedsIndex, NewIndex
<1>4. /\ emutls_num_object' \in Nat /\ emutls_num_object' >= emutls_num_object
      /\ object_index' \in [Control -> Nat]
      /\ object_index'[c] \in 1 .. emutls_num_object'
      /\ \A d \in Control \ {c} : object_index'[d] = object_index[d]
      /\ \A d \in Control : object_index[d] # 0 => object_index'[d] = object_index[d]
      /\ object_index[c] = 0 => object_index'[c] = emutls_num_object + 1
  BY <1>0, <1>1, <1>3 DEF TlsTypeOK, IndexIsFinal
<1>5. \A d \in Control : object_index[d] \in 0 .. emutls_num_object
  BY <1>0 DEF IndexIsFinal
<1>6. /\ pc'[t] = "array" /\ index'[t] = object_index'[c]
      /\ \A u \in Thread \ {t} : pc'[u] = pc[u] /\ index'[u] = index[u]
  BY <1>0, <1>2 DEF TlsTypeOK
<1>7. TlsTypeOK'
  <2>1. index' \in [Thread -> Nat]
    BY <1>0, <1>2, <1>4 DEF TlsTypeOK
  <2>2. pc' \in [Thread -> {"run", "once", "lock", "array", "object"}]
    BY <1>0, <1>2 DEF TlsTypeOK
  <2>3. ASSUME NEW u \in Thread, pc'[u] \in {"array", "object"}
        PROVE  index'[u] \in 1 .. emutls_num_object'
    <3>1. CASE u = t
      BY <1>4, <1>6, <3>1
    <3>2. CASE u # t
      <4>1. index[u] \in 1 .. emutls_num_object
        BY <1>0, <1>6, <2>3, <3>2 DEF TlsTypeOK
      <4> QED
        BY <1>1, <1>4, <1>6, <3>2, <4>1
    <3> QED
      BY <3>1, <3>2
  <2> QED
    BY <1>0, <1>2, <1>4, <2>1, <2>2, <2>3 DEF TlsTypeOK
<1>8. IndicesDistinct'
  <2>1. \A d, e \in Control :
           object_index'[d] = object_index'[e] /\ object_index'[d] # 0 => d = e
    <3>1. CASE object_index[c] = 0
      <4>1. \A d \in Control \ {c} : object_index'[d] # object_index'[c]
        BY <1>1, <1>4, <1>5, <3>1
      <4> QED
        BY <1>0, <1>4, <4>1 DEF IndicesDistinct
    <3>2. CASE object_index[c] # 0
      BY <1>0, <1>3, <3>2 DEF IndicesDistinct
    <3> QED
      BY <3>1, <3>2
  <2>2. ASSUME NEW i \in 1 .. emutls_num_object'
        PROVE  \E d \in Control : object_index'[d] = i
    <3>1. CASE i \in 1 .. emutls_num_object
      <4>1. PICK d \in Control : object_index[d] = i
        BY <1>0, <3>1 DEF IndicesDistinct
      <4> QED
        BY <1>1, <1>4, <3>1, <4>1
    <3>2. CASE i \notin 1 .. emutls_num_object
      <4>1. object_index'[c] = i
        BY <1>1, <1>3, <1>4, <3>2
      <4> QED
        BY <4>1
    <3> QED
      BY <3>1, <3>2
  <2> QED
    BY <2>1, <2>2 DEF IndicesDistinct
<1>9. emutls_key_created
  BY <1>0, <1>1 DEF IndexIsFinal
<1>10. SlotIsReadable'
  BY <1>0, <1>2, <1>6, <1>9 DEF SlotIsReadable
<1>11. IndexIsFinal'
  <2>1. \A d \in Control : object_index'[d] \in 0 .. emutls_num_object'
    BY <1>1, <1>4, <1>5
  <2>2. ASSUME NEW u \in Thread, pc'[u] \in {"array", "object"}
        PROVE  index'[u] = object_index'[control[u]]
    <3>1. CASE u = t
      BY <1>6, <3>1
    <3>2. CASE u # t
      <4>1. /\ index[u] = object_index[control[u]] /\ index[u] \in 1 .. emutls_num_object
            /\ control[u] \in Control
        BY <1>0, <1>6, <2>2, <3>2 DEF TlsTypeOK, IndexIsFinal
      <4> QED
        BY <1>1, <1>4, <1>6, <3>2, <4>1
    <3> QED
      BY <3>1, <3>2
  <2> QED
    BY <1>2, <1>9, <2>1, <2>2 DEF IndexIsFinal
<1>12. SlotsAreFiled' /\ OneBlockEach'
  BY <1>1, <1>2, <1>4, ArraysKept
<1> QED
  BY <1>7, <1>8, <1>10, <1>11, <1>12 DEF EmuTlsInv

\* A resized array has room for the index and keeps every slot.
LEMMA ArrayPreserves ==
    ASSUME EmuTlsInv, NEW t \in Thread, emutls_get_address_array(t)
    PROVE  EmuTlsInv'
<1>0. /\ TlsTypeOK /\ IndexIsFinal /\ IndicesDistinct /\ SlotIsReadable
      /\ SlotsAreFiled /\ OneBlockEach
  BY DEF EmuTlsInv
<1>1. /\ pc[t] = "array" /\ index[t] \in 1 .. emutls_num_object /\ index[t] \in Nat \ {0}
      /\ Size(t) \in Nat /\ array[t] \in [1 .. Size(t) -> Slot]
      /\ emutls_key_created
  BY <1>0 DEF emutls_get_address_array, TlsTypeOK, SlotsAreFiled, SlotIsReadable
<1>2. /\ array' = [array EXCEPT ![t] = IF index[t] > Size(t)
                       THEN Resized(t, emutls_new_data_array_size(index[t])) ELSE @]
      /\ pc' = [pc EXCEPT ![t] = "object"]
      /\ UNCHANGED <<object_index, emutls_num_object, emutls_key_created,
                     allocations, control, index, result>>
  BY DEF emutls_get_address_array
<1>3. /\ array' = [u \in Thread |-> array'[u]]
      /\ \A u \in Thread \ {t} : array'[u] = array[u] /\ pc'[u] = pc[u]
      /\ pc'[t] = "object"
  BY <1>0, <1>2 DEF TlsTypeOK
<1>4. PICK n \in Nat : /\ Size(t) <= n /\ index[t] <= n
                       /\ array'[t] \in [1 .. n -> Slot]
                       /\ \A i \in 1 .. n : array'[t][i] = IF i <= Size(t) THEN array[t][i]
                                                           ELSE NullSlot
  <2>1. CASE index[t] > Size(t)
    <3> DEFINE n == emutls_new_data_array_size(index[t])
    <3>1. n \in Nat /\ index[t] <= n
      BY <1>1, NewSizeHolds
    <3>2. array'[t] = [i \in 1 .. n |-> IF i <= Size(t) THEN array[t][i] ELSE NullSlot]
      BY <1>0, <1>2, <2>1 DEF Resized, TlsTypeOK
    <3> HIDE DEF n
    <3>3. \A i \in 1 .. n : (IF i <= Size(t) THEN array[t][i] ELSE NullSlot) \in Slot
      BY <1>1, <3>1 DEF Slot
    <3> QED
      BY <1>1, <2>1, <3>1, <3>2, <3>3
  <2>2. CASE ~(index[t] > Size(t))
    <3>1. array'[t] = array[t]
      BY <1>0, <1>2, <2>2 DEF TlsTypeOK
    <3> QED
      BY <1>1, <2>2, <3>1
  <2> QED
    BY <2>1, <2>2
<1>5. Size(t)' = n /\ DOMAIN array'[t] = 1 .. n
  BY <1>4, SizeIsNext
<1>6. \A u \in Thread \ {t} : Size(u)' = Size(u)
  <2>1. \A u \in Thread \ {t} : Size(u) \in Nat /\ array'[u] \in [1 .. Size(u) -> Slot]
    BY <1>0, <1>3 DEF SlotsAreFiled
  <2> QED
    BY <2>1, SizeIsNext
<1>7. TlsTypeOK'
  BY <1>0, <1>1, <1>2, <1>3 DEF TlsTypeOK
<1>8. IndicesDistinct' /\ OneBlockEach'
  BY <1>0, <1>2 DEF IndicesDistinct, OneBlockEach
<1>9. IndexIsFinal'
  BY <1>0, <1>1, <1>2, <1>3 DEF IndexIsFinal
<1>10. SlotIsReadable'
  <2>1. index[t] \in DOMAIN array'[t] /\ array'[t][index[t]] \in Slot
    BY <1>1, <1>4, <1>5
  <2>2. Garbage \notin Slot
    BY SlotsDiffer DEF Slot
  <2> QED
    BY <1>0, <1>1, <1>2, <1>3, <2>1, <2>2 DEF SlotIsReadable
<1>11. SlotsAreFiled'
  <2>1. ASSUME NEW u \in Thread \ {t}
        PROVE  /\ Size(u)' \in Nat /\ array'[u] \in [1 .. Size(u)' -> Slot]
               /\ \A i \in DOMAIN array'[u] : i > emutls_num_object' => array'[u][i] = NullSlot
               /\ \A c \in Control :
                     /\ allocations'[u][c] # 0 => object_index'[c] \in DOMAIN array'[u]
                     /\ object_index'[c] \in DOMAIN array'[u] =>
                           array'[u][object_index'[c]] =
                               IF allocations'[u][c] = 0 THEN NullSlot ELSE Block(c, 1)
    BY <1>0, <1>2, <1>3, <1>6 DEF SlotsAreFiled
  <2>2. \A i \in 1 .. n : i > emutls_num_object => array'[t][i] = NullSlot
    BY <1>0, <1>1, <1>4 DEF SlotsAreFiled
  <2>3. ASSUME NEW c \in Control
        PROVE  /\ allocations[t][c] # 0 => object_index[c] \in 1 .. n
               /\ object_index[c] \in 1 .. n =>
                     array'[t][object_index[c]] =
                         IF allocations[t][c] = 0 THEN NullSlot ELSE Block(c, 1)
    <3>1. object_index[c] \in 1 .. Size(t) => object_index[c] \in 1 .. n
      BY <1>1, <1>4
    <3>2. /\ allocations[t][c] # 0 => object_index[c] \in 1 .. Size(t)
          /\ object_index[c] \in 1 .. Size(t) =>
                array[t][object_index[c]] =
                    IF allocations[t][c] = 0 THEN NullSlot ELSE Block(c, 1)
      BY <1>0, <1>1 DEF SlotsAreFiled
    <3> QED
      BY <1>1, <1>4, <3>1, <3>2
  <2>4. /\ Size(t)' \in Nat /\ array'[t] \in [1 .. Size(t)' -> Slot]
        /\ \A i \in DOMAIN array'[t] : i > emutls_num_object' => array'[t][i] = NullSlot
        /\ \A c \in Control :
              /\ allocations'[t][c] # 0 => object_index'[c] \in DOMAIN array'[t]
              /\ object_index'[c] \in DOMAIN array'[t] =>
                    array'[t][object_index'[c]] =
                        IF allocations'[t][c] = 0 THEN NullSlot ELSE Block(c, 1)
    BY <1>2, <1>4, <1>5, <2>2, <2>3
  <2> QED
    BY <2>1, <2>4 DEF SlotsAreFiled
<1> QED
  BY <1>7, <1>8, <1>9, <1>10, <1>11 DEF EmuTlsInv

\* What an access finds and does: an empty slot is filled with the thread's
\* first block for the variable, and a filled one is handed out again.
LEMMA ObjectFound ==
    ASSUME EmuTlsInv, NEW t \in Thread, GetObject(t)
    PROVE  LET c == control[t]
               i == index[t]
           IN  /\ c \in Control /\ i = object_index[c] /\ i \in 1 .. emutls_num_object
               /\ i \in 1 .. Size(t) /\ Size(t) \in Nat
               /\ array[t] \in [1 .. Size(t) -> Slot]
               /\ allocations[t][c] \in {0, 1}
               /\ array' = [array EXCEPT ![t] = [@ EXCEPT ![i] = Block(c, 1)]]
               /\ allocations' = [allocations EXCEPT ![t] = [@ EXCEPT ![c] = 1]]
               /\ result' = [result EXCEPT ![t] = [@ EXCEPT ![c] = Block(c, 1)]]
<1>0. TlsTypeOK /\ IndexIsFinal /\ SlotsAreFiled /\ OneBlockEach
  BY DEF EmuTlsInv
<1>1. /\ pc[t] = "object" /\ control[t] \in Control /\ index[t] = object_index[control[t]]
      /\ index[t] \in 1 .. emutls_num_object
      /\ Size(t) \in Nat /\ array[t] \in [1 .. Size(t) -> Slot]
      /\ index[t] \in 1 .. Size(t)
  BY <1>0 DEF GetObject, TlsTypeOK, IndexIsFinal, SlotsAreFiled
<1> PICK c \in Control : c = control[t]
  BY <1>1
<1> PICK i \in 1 .. Size(t) : i = index[t]
  BY <1>1
<1>2. /\ allocations[t][c] \in {0, 1}
      /\ array[t][i] = IF allocations[t][c] = 0 THEN NullSlot ELSE Block(c, 1)
  BY <1>0, <1>1 DEF SlotsAreFiled, OneBlockEach
<1>3. DOMAIN array = Thread /\ allocations \in [Thread -> [Control -> Nat]]
  BY <1>0 DEF TlsTypeOK
<1>4. result' = [result EXCEPT ![t][c] = array'[t][i]]
  BY DEF GetObject
<1>5. CASE array[t][i] = NullSlot
  <2>1. allocations[t][c] = 0
    BY <1>2, <1>5, SlotsDiffer
  <2>2. allocations' = [allocations EXCEPT ![t][c] = @ + 1]
    BY <1>5 DEF GetObject
  <2>3. array' = [array EXCEPT ![t][i] = Block(c, allocations'[t][c])]
    BY <1>5 DEF GetObject
  <2>4. allocations'[t][c] = 1 /\ allocations' = [allocations EXCEPT ![t] = [@ EXCEPT ![c] = 1]]
    BY <1>3, <2>1, <2>2
  <2>5. array' = [array EXCEPT ![t] = [@ EXCEPT ![i] = Block(c, 1)]]
    BY <2>3, <2>4
  <2>6. array'[t][i] = Block(c, 1)
    BY <1>1, <1>3, <2>5
  <2> QED
    BY <1>1, <1>2, <1>4, <2>4, <2>5, <2>6
<1>6. CASE array[t][i] # NullSlot
  <2>1. allocations[t][c] = 1 /\ array[t][i] = Block(c, 1)
    BY <1>2, <1>6
  <2>2. UNCHANGED <<allocations, array>>
    BY <1>6 DEF GetObject
  <2>3. allocations' = [allocations EXCEPT ![t] = [@ EXCEPT ![c] = 1]]
    BY <1>3, <2>1, <2>2
  <2>4. array[t] = [array[t] EXCEPT ![i] = Block(c, 1)]
    BY <1>1, <2>1
  <2>5. array = [u \in Thread |-> array[u]]
    BY <1>0 DEF TlsTypeOK
  <2>6. array' = [array EXCEPT ![t] = [@ EXCEPT ![i] = Block(c, 1)]]
    BY <2>2, <2>4, <2>5
  <2> QED
    BY <1>1, <1>2, <1>4, <2>1, <2>2, <2>3, <2>6
<1> QED
  BY <1>5, <1>6

\* An access changes one slot, that of its variable in its thread.
LEMMA ObjectPreserves ==
    ASSUME EmuTlsInv, NEW t \in Thread, GetObject(t)
    PROVE  EmuTlsInv'
<1>0. /\ TlsTypeOK /\ IndexIsFinal /\ IndicesDistinct /\ SlotIsReadable
      /\ SlotsAreFiled /\ OneBlockEach
  BY DEF EmuTlsInv
<1>1. control[t] \in Control /\ index[t] \in 1 .. Size(t)
  BY ObjectFound
<1> PICK c \in Control : c = control[t]
  BY <1>1
<1> PICK i \in 1 .. Size(t) : i = index[t]
  BY <1>1
<1>2. /\ i = object_index[c] /\ i \in 1 .. emutls_num_object /\ Size(t) \in Nat
      /\ array[t] \in [1 .. Size(t) -> Slot]
      /\ array' = [array EXCEPT ![t] = [@ EXCEPT ![i] = Block(c, 1)]]
      /\ allocations' = [allocations EXCEPT ![t] = [@ EXCEPT ![c] = 1]]
      /\ result' = [result EXCEPT ![t] = [@ EXCEPT ![c] = Block(c, 1)]]
  BY ObjectFound
<1>3. /\ pc' = [pc EXCEPT ![t] = "run"]
      /\ UNCHANGED <<object_index, emutls_num_object, emutls_key_created, control, index>>
  BY DEF GetObject
<1>4. /\ array'[t] = [array[t] EXCEPT ![i] = Block(c, 1)]
      /\ array' = [u \in Thread |-> array'[u]]
      /\ \A u \in Thread \ {t} :
            /\ array'[u] = array[u] /\ pc'[u] = pc[u]
            /\ allocations'[u] = allocations[u] /\ result'[u] = result[u]
      /\ pc'[t] = "run"
  BY <1>0, <1>2, <1>3 DEF TlsTypeOK
<1>5. /\ allocations'[t][c] = 1 /\ result'[t][c] = Block(c, 1)
      /\ \A d \in Control \ {c} :
            allocations'[t][d] = allocations[t][d] /\ result'[t][d] = result[t][d]
  BY <1>0, <1>2 DEF TlsTypeOK
<1>6. array'[t] \in [1 .. Size(t) -> Slot]
  BY <1>2, <1>4 DEF Slot
<1>7. /\ array'[t][i] = Block(c, 1) /\ DOMAIN array'[t] = 1 .. Size(t)
      /\ \A j \in 1 .. Size(t) \ {i} : array'[t][j] = array[t][j]
  BY <1>2, <1>4
<1>8. \A u \in Thread : Size(u)' = Size(u)
  <2>1. \A u \in Thread : Size(u) \in Nat /\ array'[u] \in [1 .. Size(u) -> Slot]
    BY <1>0, <1>2, <1>4, <1>6 DEF SlotsAreFiled
  <2> QED
    BY <2>1, SizeIsNext
<1>9. TlsTypeOK'
  <2>1. allocations' \in [Thread -> [Control -> Nat]]
    BY <1>0, <1>2 DEF TlsTypeOK
  <2>2. result' \in [Thread -> [Control -> [of : Control \cup {"null"}, n : Nat]]]
    BY <1>0, <1>2, SlotsDiffer DEF TlsTypeOK
  <2>3. pc' \in [Thread -> {"run", "once", "lock", "array", "object"}]
    BY <1>0, <1>3 DEF TlsTypeOK
  <2>4. \A u \in Thread : pc'[u] \in {"array", "object"} => u # t
    BY <1>4
  <2> QED
    BY <1>0, <1>3, <1>4, <2>1, <2>2, <2>3, <2>4 DEF TlsTypeOK
<1>10. IndicesDistinct' /\ IndexIsFinal' /\ SlotIsReadable'
  BY <1>0, <1>3, <1>4 DEF IndicesDistinct, IndexIsFinal, SlotIsReadable
<1>11. OneBlockEach'
  <2>1. ASSUME NEW u \in Thread, NEW d \in Control
        PROVE  /\ allocations'[u][d] \in {0, 1}
               /\ result'[u][d] = IF allocations'[u][d] = 0 THEN NullSlot ELSE Block(d, 1)
    <3>1. CASE u = t /\ d = c
      BY <1>5, <3>1
    <3>2. CASE ~(u = t /\ d = c)
      BY <1>0, <1>4, <1>5, <3>2 DEF OneBlockEach
    <3> QED
      BY <3>1, <3>2
  <2> QED
    BY <2>1 DEF OneBlockEach
<1>12. SlotsAreFiled'
  <2>1. ASSUME NEW u \in Thread \ {t}
        PROVE  /\ Size(u)' \in Nat /\ array'[u] \in [1 .. Size(u)' -> Slot]
               /\ \A j \in DOMAIN array'[u] : j > emutls_num_object' => array'[u][j] = NullSlot
               /\ \A d \in Control :
                     /\ allocations'[u][d] # 0 => object_index'[d] \in DOMAIN array'[u]
                     /\ object_index'[d] \in DOMAIN array'[u] =>
                           array'[u][object_index'[d]] =
                               IF allocations'[u][d] = 0 THEN NullSlot ELSE Block(d, 1)
    BY <1>0, <1>3, <1>4, <1>8 DEF SlotsAreFiled
  <2>2. \A j \in 1 .. Size(t) : j > emutls_num_object => array'[t][j] = NullSlot
    BY <1>0, <1>2, <1>7 DEF SlotsAreFiled, TlsTypeOK
  <2>3. ASSUME NEW d \in Control
        PROVE  /\ allocations'[t][d] # 0 => object_index[d] \in 1 .. Size(t)
               /\ object_index[d] \in 1 .. Size(t) =>
                     array'[t][object_index[d]] =
                         IF allocations'[t][d] = 0 THEN NullSlot ELSE Block(d, 1)
    <3>1. CASE d = c
      BY <1>2, <1>5, <1>7, <3>1
    <3>2. CASE d # c
      <4>1. object_index[d] # i
        BY <1>0, <1>2, <3>2 DEF IndicesDistinct
      <4>2. /\ allocations[t][d] # 0 => object_index[d] \in 1 .. Size(t)
            /\ object_index[d] \in 1 .. Size(t) =>
                  array[t][object_index[d]] =
                      IF allocations[t][d] = 0 THEN NullSlot ELSE Block(d, 1)
        BY <1>0, <1>2 DEF SlotsAreFiled
      <4> QED
        BY <1>5, <1>7, <3>2, <4>1, <4>2
    <3> QED
      BY <3>1, <3>2
  <2>4. /\ Size(t)' \in Nat /\ array'[t] \in [1 .. Size(t)' -> Slot]
        /\ \A j \in DOMAIN array'[t] : j > emutls_num_object' => array'[t][j] = NullSlot
        /\ \A d \in Control :
              /\ allocations'[t][d] # 0 => object_index'[d] \in DOMAIN array'[t]
              /\ object_index'[d] \in DOMAIN array'[t] =>
                    array'[t][object_index'[d]] =
                        IF allocations'[t][d] = 0 THEN NullSlot ELSE Block(d, 1)
    BY <1>2, <1>3, <1>6, <1>7, <1>8, <2>2, <2>3
  <2> QED
    BY <2>1, <2>4 DEF SlotsAreFiled
<1> QED
  BY <1>9, <1>10, <1>11, <1>12 DEF EmuTlsInv

\* The invariant is inductive.
LEMMA NextEmuTlsInv == EmuTlsInv /\ [TlsNext]_tlsVars => EmuTlsInv'
<1> SUFFICES ASSUME EmuTlsInv, [TlsNext]_tlsVars PROVE EmuTlsInv'
  OBVIOUS
<1>1. CASE UNCHANGED tlsVars
  <2>1. TlsTypeOK /\ UNCHANGED <<object_index, emutls_num_object, emutls_key_created, array,
                              allocations, pc, control, index, result>>
    BY <1>1 DEF EmuTlsInv, tlsVars
  <2>2. TlsTypeOK' /\ IndicesDistinct' /\ SlotIsReadable' /\ IndexIsFinal'
    BY <2>1 DEF EmuTlsInv, TlsTypeOK, IndicesDistinct, SlotIsReadable, IndexIsFinal
  <2>3. SlotsAreFiled' /\ OneBlockEach'
    BY <2>1, ArraysKept DEF TlsTypeOK
  <2> QED
    BY <2>2, <2>3 DEF EmuTlsInv
<1>2. CASE TlsNext
  BY <1>2, LoadPreserves, OncePreserves, AssignPreserves, ArrayPreserves, ObjectPreserves
  DEF TlsNext
<1> QED
  BY <1>1, <1>2

\* However threads race through __emutls_get_address, no two variables share an
\* index, the slot read lies in the array and was cleared, and a thread has one
\* block at most for a variable.
THEOREM EmuTlsInvariant == TlsSpec => []EmuTlsInv
  BY InitEmuTlsInv, NextEmuTlsInv, PTL DEF TlsSpec

\* A step gives a thread no other address for a variable than before.
LEMMA StableStep ==
    ASSUME EmuTlsInv, EmuTlsInv', [TlsNext]_tlsVars
    PROVE  \A t \in Thread, c \in Control :
              /\ result'[t][c] \in {NullSlot, Block(c, 1)}
              /\ result[t][c] # NullSlot => result'[t][c] = result[t][c]
<1>1. \A t \in Thread, c \in Control :
         /\ result[t][c] \in {NullSlot, Block(c, 1)}
         /\ result'[t][c] \in {NullSlot, Block(c, 1)}
  BY DEF EmuTlsInv, OneBlockEach
<1>2. ASSUME NEW u \in Thread, GetObject(u), NEW t \in Thread, NEW c \in Control,
             result[t][c] # NullSlot
      PROVE  result'[t][c] = result[t][c]
  <2>1. /\ control[u] \in Control
        /\ result' = [result EXCEPT ![u] = [@ EXCEPT ![control[u]] = Block(control[u], 1)]]
    BY <1>2, ObjectFound
  <2>2. result \in [Thread -> [Control -> [of : Control \cup {"null"}, n : Nat]]]
    BY DEF EmuTlsInv, TlsTypeOK
  <2>3. CASE t = u /\ c = control[u]
    BY <1>1, <1>2, <2>1, <2>2, <2>3
  <2>4. CASE ~(t = u /\ c = control[u])
    BY <2>1, <2>2, <2>4
  <2> QED
    BY <2>3, <2>4
<1>3. (\E u \in Thread : GetObject(u)) \/ UNCHANGED result
  BY DEF TlsNext, tlsVars, LoadIndex, emutls_init_once, AssignIndex, emutls_get_address_array
<1> QED
  BY <1>1, <1>2, <1>3

\* What a thread is given for a variable is that variable's block, and the same
\* at every later access, however often its array is reallocated.
THEOREM AddressStability == TlsSpec => AddressesAreStable
<1>1. EmuTlsInv /\ EmuTlsInv' /\ [TlsNext]_tlsVars =>
        [\A t \in Thread, c \in Control :
            /\ result'[t][c] \in {NullSlot, Block(c, 1)}
            /\ result[t][c] # NullSlot => result'[t][c] = result[t][c]]_tlsVars
  BY StableStep
<1> QED
  BY <1>1, EmuTlsInvariant, PTL DEF TlsSpec, AddressesAreStable

-----------------------------------------------------------------------------
(***************************************************************************)
(* The emergency heap.                                                     *)
(***************************************************************************)

\* The chunks of a heap whose free ones are F: those, the blocks, and the one
\* that is being freed.
Chunks(F) == F \cup Allocated \cup {o \in {cp} : op = "free"}

Apart(o, d) == o + len[o] <= d \/ d + len[d] <= o

Placed(o) == /\ o \in getFirstAlignedNodeInHeap .. HeapNodes - 1
             /\ (o + 1) % NodesPerAlignment = 0
             /\ len[o] > 0 /\ o + len[o] <= HeapNodes

\* next_node leads from free chunk to free chunk, to each from one place only,
\* until it reaches the end or, where the list was cut, offset 0.  F may hold
\* chunks that the head does not lead to any more.
Linked(F) ==
    /\ freelist \in F \cup {0, list_end, NULL}
    /\ \A o \in F :
          /\ next_node[o] \in F \cup {0, list_end}
          /\ next_node[o] \in F => /\ next_node[o] # freelist
                                   /\ \A d \in F \ {o} : next_node[d] # next_node[o]

\* The chunks lie apart and on the grid, and offset 0 stays as it was: it is
\* no chunk, so a walk that has strayed there fits nothing and merges nothing.
Laid(F) ==
    /\ F \cap Allocated = {}
    /\ op = "free" => cp \notin F \cup Allocated
    /\ \A o \in Chunks(F) : Placed(o) /\ \A d \in Chunks(F) \ {o} : Apart(o, d)
    /\ \A o \in Chunks(F) \ F : next_node[o] = 0
    /\ \A o \in Allocated : (len[o] - 1) * NodeSize >= blocks[o]
    /\ len[0] = 0 /\ next_node[0] = 0

\* The cursor is on a free chunk or past the list, right behind prev.
Walked(F) ==
    /\ freelist = NULL => op = "none" /\ F = {} /\ Allocated = {}
    /\ op # "none" =>
          /\ p \in F \cup {0, list_end}
          /\ IF prev = NULL THEN p = freelist ELSE prev \in F \cup {0} /\ next_node[prev] = p
    /\ op = "malloc" => request > 0

\* What malloc has passed, S, leads from the head to the cursor and is too small.
Passed(S) ==
    op = "malloc" => /\ freelist \in S \cup {p}
                     /\ \A o \in S : len[o] < nelems /\ next_node[o] \in S \cup {p}

HeapIsSound(F, S) == Linked(F) /\ Laid(F) /\ Walked(F) /\ Passed(S)

\* The inductive invariant.
HeapIInv == TypeOK /\ \E F, S \in SUBSET Offset : HeapIsSound(F, S)

\* Division with a parameter as the divisor: what the provers know of it.
LEMMA ModIs ==
    ASSUME NEW N \in Nat \ {0}, NEW x \in Nat
    PROVE  /\ x % N \in 0 .. N - 1 /\ x \div N \in Nat
           /\ x = N * (x \div N) + (x % N)
  OBVIOUS

\* A product grows with its factor.
LEMMA MulMono ==
    ASSUME NEW a \in Nat, NEW b \in Nat, NEW n \in Nat, a <= b
    PROVE  a * n <= b * n
  OBVIOUS

\* A multiple of N leaves no remainder.
LEMMA ModZero ==
    ASSUME NEW N \in Nat \ {0}, NEW k \in Nat
    PROVE  (N * k) % N = 0
<1>0. N * k \in Nat
  OBVIOUS
<1>1. /\ (N * k) % N \in 0 .. N - 1 /\ (N * k) \div N \in Nat
      /\ N * k = N * ((N * k) \div N) + ((N * k) % N)
  BY <1>0, ModIs
<1> DEFINE c == (N * k) \div N
           r == (N * k) % N
<1>2. c \in Nat /\ r \in 0 .. N - 1 /\ N * k = N * c + r
  BY <1>1
<1> HIDE DEF c, r
<1>3. N * (k - c) = r
  BY <1>2
<1>4. CASE k - c >= 1
  <2>1. N * (k - c) >= N
    BY <1>2, <1>4, MulMono
  <2> QED
    BY <2>1, <1>2, <1>3
<1>5. CASE k - c <= 0
  <2>1. N * (k - c) <= 0
    BY <1>2, <1>5
  <2> QED
    BY <2>1, <1>2, <1>3 DEF r
<1> QED
  BY <1>2, <1>4, <1>5

\* Taking its remainder off a length keeps a position that it is added to
\* on the grid: why the padding aligns the tail of a chunk.
LEMMA ModSum ==
    ASSUME NEW N \in Nat \ {0}, NEW x \in Nat, NEW y \in Nat, x % N = 0
    PROVE  (x + (y - (y % N))) % N = 0
<1>1. x = N * (x \div N) /\ x \div N \in Nat
  BY ModIs
<1>2. y - (y % N) = N * (y \div N) /\ y \div N \in Nat
  BY ModIs
<1> DEFINE a == x \div N
           b == y \div N
<1>3. x + (y - (y % N)) = N * a + N * b /\ a \in Nat /\ b \in Nat
  BY <1>1, <1>2
<1> HIDE DEF a, b
<1>4. N * a + N * b = N * (a + b) /\ a + b \in Nat
  BY <1>3
<1> QED
  BY <1>3, <1>4, ModZero

\* What rounding up to whole nodes gives is enough, and not nothing.
LEMMA RoundedUp ==
    ASSUME NEW N \in Nat \ {0}, NEW x \in Nat \ {0}
    PROVE  /\ (x + N - 1) \div N \in Nat \ {0}
           /\ ((x + N - 1) \div N) * N >= x
<1>1. x + N - 1 \in Nat
  OBVIOUS
<1> DEFINE c == (x + N - 1) \div N
           r == (x + N - 1) % N
<1>2. c \in Nat /\ r \in 0 .. N - 1 /\ x + N - 1 = N * c + r
  BY <1>1, ModIs
<1> HIDE DEF c, r
<1>3. N * c >= x /\ N * c = c * N
  BY <1>2
<1>4. c # 0
  BY <1>2, <1>3
<1> QED
  BY <1>2, <1>3, <1>4 DEF c

\* What the constants say of the array.
LEMMA Grid ==
    /\ HeapNodes \in Nat /\ NodesPerAlignment \in Nat /\ NodesPerAlignment > 1
    /\ NodeSize \in Nat \ {0} /\ NULL = HeapNodes + 1 /\ list_end = HeapNodes
    /\ Offset = 0 .. HeapNodes
    /\ getFirstAlignedNodeInHeap = NodesPerAlignment - 1
    /\ getFirstAlignedNodeInHeap \in 1 .. HeapNodes - 1
  BY FallbackAssumption DEF NULL, list_end, Offset, getFirstAlignedNodeInHeap

\* The node in front of the first aligned address is on the grid.
LEMMA Aligned ==
    (getFirstAlignedNodeInHeap + 1) % NodesPerAlignment = 0
<1>1. getFirstAlignedNodeInHeap + 1 = NodesPerAlignment * 1
  BY Grid
<1> QED
  BY <1>1, ModZero, Grid


\* The nodes for a request hold it, behind the header.
LEMMA Needed ==
    ASSUME request \in Nat, request > 0
    PROVE  /\ nelems \in Nat /\ nelems > 1
           /\ (nelems - 1) * NodeSize >= request
<1> DEFINE c == (request + NodeSize - 1) \div NodeSize
<1>1. c \in Nat \ {0} /\ c * NodeSize >= request
  BY Grid, RoundedUp
<1>2. nelems = c + 1
  BY DEF nelems, alloc_size
<1> HIDE DEF c
<1> QED
  BY <1>1, <1>2

\* The types, element by element.
LEMMA Types ==
    ASSUME TypeOK
    PROVE  /\ \A o \in Offset : o \in Nat /\ len[o] \in Offset /\ next_node[o] \in Offset /\ blocks[o] \in Nat
           /\ p \in Offset /\ cp \in Offset /\ request \in Nat
<1>1. \A o \in Offset : o \in Nat
  BY Grid
<1>2. \A o \in Offset : len[o] \in Offset /\ next_node[o] \in Offset /\ blocks[o] \in Nat
  BY DEF TypeOK
<1> QED
  BY <1>1, <1>2 DEF TypeOK

\* The padded length is no shorter, and what it leaves keeps the tail on the grid.
LEMMA Padded ==
    ASSUME TypeOK, request > 0
    PROVE  /\ aligned_nelems \in Nat /\ aligned_nelems >= nelems
           /\ len[p] > nelems /\ (p + 1) % NodesPerAlignment = 0
              => (p + 1 + (len[p] - aligned_nelems)) % NodesPerAlignment = 0
<1>0. len[p] \in Nat /\ p \in Nat /\ p + 1 \in Nat /\ request \in Nat
  BY Types, Grid
<1>1. nelems \in Nat /\ len[p] \in Nat /\ p \in Nat
  BY <1>0, Needed
<1>2. CASE len[p] > nelems
  <2> DEFINE y == len[p] - nelems
  <2>1. y \in Nat
    BY <1>1, <1>2
  <2>2. y % NodesPerAlignment \in Nat
    BY <2>1, ModIs, Grid
  <2>3. aligned_nelems = nelems + (y % NodesPerAlignment)
    BY <1>2 DEF aligned_nelems
  <2>4. (p + 1) % NodesPerAlignment = 0 => (p + 1 + (y - (y % NodesPerAlignment))) % NodesPerAlignment = 0
    <3>1. NodesPerAlignment \in Nat \ {0}
      BY Grid
    <3> HIDE DEF y
    <3> QED
      BY <1>0, <2>1, <3>1, ModSum
  <2>5. len[p] - aligned_nelems = y - (y % NodesPerAlignment)
    BY <1>1, <2>2, <2>3
  <2> QED
    BY <1>1, <2>2, <2>3, <2>4, <2>5
<1>3. CASE ~(len[p] > nelems)
  BY <1>1, <1>3 DEF aligned_nelems
<1> QED
  BY <1>2, <1>3

\* The zero-initialised array has no chunks at all.
LEMMA InitIInv == Init => HeapIInv
<1> SUFFICES ASSUME Init PROVE HeapIInv
  OBVIOUS
<1> USE Grid DEF Init
<1>1. TypeOK
  BY DEF TypeOK
<1>2. Allocated = {}
  BY DEF Allocated
<1>3. HeapIsSound({}, {})
  BY <1>2 DEF HeapIsSound, Linked, Laid, Walked, Passed, Chunks
<1> QED
  BY <1>1, <1>3 DEF HeapIInv

\* What the layout says of one chunk.
LEMMA ChunkFacts ==
    ASSUME TypeOK, NEW F \in SUBSET Offset, Laid(F), NEW o \in Chunks(F)
    PROVE  /\ o \in Offset /\ o > 0 /\ o < HeapNodes /\ len[o] > 0
           /\ o \in Nat /\ len[o] \in Nat /\ o + len[o] <= HeapNodes
           /\ o + 1 \in Nat /\ o + len[o] \in Offset
           /\ (o + 1) % NodesPerAlignment = 0
           /\ o >= getFirstAlignedNodeInHeap
           /\ \A d \in Chunks(F) : d # o => Apart(o, d)
<1>1. Placed(o) /\ \A d \in Chunks(F) \ {o} : Apart(o, d)
  BY DEF Laid
<1>2. o \in Offset
  BY Types DEF Chunks, Allocated
<1>3. o >= getFirstAlignedNodeInHeap /\ o < HeapNodes
  BY <1>1, <1>2, Grid DEF Placed
<1>4. len[o] \in Nat /\ o \in Nat
  BY <1>2, Types, Grid
<1> QED
  BY <1>1, <1>2, <1>3, <1>4, Grid DEF Placed


\* A block of ::malloc is none of the heap's business.
LEMMA SystemMallocKeeps ==
    ASSUME HeapIInv, NEW ptr \in SystemPtr, SystemMalloc(ptr)
    PROVE  HeapIInv'
<1>1. PICK F \in SUBSET Offset, S \in SUBSET Offset : HeapIsSound(F, S)
  BY DEF HeapIInv
<1> USE DEF HeapIInv, SystemMalloc, heapVars
<1>2. TypeOK'
  BY DEF TypeOK
<1>3. Allocated' = Allocated
  BY DEF Allocated
<1>4. Chunks(F)' = Chunks(F)
  BY <1>3 DEF Chunks
<1>5. Linked(F)'
  BY <1>1 DEF HeapIsSound, Linked
<1>6. Laid(F)'
  BY <1>1, <1>3, <1>4 DEF HeapIsSound, Laid, Placed, Apart
<1>7. Walked(F)' /\ Passed(S)'
  BY <1>1, <1>3 DEF HeapIsSound, Walked, Passed
<1> QED
  BY <1>2, <1>5, <1>6, <1>7 DEF HeapIsSound

\* The first call lays out one chunk; every call starts its walk at the head.
LEMMA MallocKeeps ==
    ASSUME HeapIInv, NEW bytes \in Sizes, fallback_malloc(bytes)
    PROVE  HeapIInv'
<1>1. PICK F \in SUBSET Offset, S \in SUBSET Offset : HeapIsSound(F, S)
  BY DEF HeapIInv
<1>2. bytes \in Nat /\ bytes > 0
  BY FallbackAssumption
<1>3. Allocated' = Allocated
  BY DEF Allocated, fallback_malloc
<1>4. op = "none" /\ op' = "malloc" /\ request' = bytes /\ prev' = NULL
  BY DEF fallback_malloc
<1>5. CASE freelist = NULL
  <2> DEFINE f == getFirstAlignedNodeInHeap
  <2>1. freelist' = f /\ p' = f /\ UNCHANGED <<cp, blocks, system>>
    BY <1>5, Grid DEF fallback_malloc
  <2>2. next_node' = [next_node EXCEPT ![f] = list_end] /\ len' = [len EXCEPT ![f] = list_end - f]
    BY <1>5, Grid DEF fallback_malloc
  <2>3. f \in Offset /\ f > 0 /\ f < HeapNodes /\ list_end - f \in Offset /\ list_end \in Offset /\ f # list_end /\ 0 \in Offset
    BY Grid
  <2>4. TypeOK'
    BY <1>2, <1>4, <2>1, <2>2, <2>3, HeapIInv DEF TypeOK, HeapIInv
  <2>5. len'[f] = HeapNodes - f /\ next_node'[f] = HeapNodes /\ len'[0] = 0 /\ next_node'[0] = 0
    BY <1>1, <2>2, <2>3, Grid DEF HeapIInv, TypeOK, HeapIsSound, Laid
  <2>6. Allocated' = {} /\ F = {}
    BY <1>1, <1>3, <1>5 DEF HeapIsSound, Walked
  <2>7. Chunks({f})' = {f}
    BY <1>4, <2>6 DEF Chunks
  <2>8. Linked({f})'
    BY <2>1, <2>3, <2>5, Grid DEF Linked
  <2>9. Placed(f)'
    BY <2>3, <2>5, Grid, Aligned DEF Placed
  <2>10. Laid({f})'
    BY <1>4, <2>5, <2>6, <2>7, <2>9 DEF Laid
  <2>11. Walked({f})' /\ Passed({})'
    BY <1>2, <1>4, <2>1, <2>3, Grid DEF Walked, Passed
  <2> QED
    BY <2>3, <2>4, <2>8, <2>10, <2>11 DEF HeapIInv, HeapIsSound
<1>6. CASE freelist # NULL
  <2>1. p' = freelist /\ UNCHANGED <<heapVars, cp, blocks, system>>
    BY <1>6 DEF fallback_malloc
  <2> USE <2>1 DEF heapVars
  <2>2. TypeOK'
    BY <1>2, <1>4, <1>6, Grid DEF TypeOK, HeapIInv
  <2>3. Chunks(F)' = Chunks(F)
    BY <1>3, <1>4 DEF Chunks
  <2>4. Linked(F)'
    BY <1>1 DEF HeapIsSound, Linked
  <2>5. Laid(F)'
    BY <1>1, <1>3, <1>4, <2>3 DEF HeapIsSound, Laid, Placed, Apart
  <2>6. freelist \in F \cup {0, list_end}
    BY <1>1, <1>6 DEF HeapIsSound, Linked
  <2>7. Walked(F)' /\ Passed({})'
    BY <1>2, <1>4, <1>6, <2>6 DEF Walked, Passed
  <2> QED
    BY <2>2, <2>4, <2>5, <2>7 DEF HeapIInv, HeapIsSound
<1> QED
  BY <1>5, <1>6

\* malloc passes a chunk that is too small.
LEMMA MallocStepKeeps ==
    ASSUME HeapIInv, MallocStep
    PROVE  HeapIInv'
<1>1. PICK F \in SUBSET Offset, S \in SUBSET Offset : HeapIsSound(F, S)
  BY DEF HeapIInv
<1> USE DEF heapVars
<1>2. /\ op = "malloc" /\ p # list_end /\ len[p] < nelems
      /\ prev' = p /\ p' = next_node[p] /\ UNCHANGED <<heapVars, op, request, cp, blocks, system>>
  BY DEF MallocStep, Walking
<1>3. TypeOK'
  BY <1>2, Types DEF TypeOK, HeapIInv
<1>4. Allocated' = Allocated /\ Chunks(F)' = Chunks(F)
  BY <1>2 DEF Allocated, Chunks
<1>5. Linked(F)'
  BY <1>1, <1>2 DEF HeapIsSound, Linked
<1>6. Laid(F)'
  BY <1>1, <1>2, <1>4 DEF HeapIsSound, Laid, Placed, Apart
<1>7. p \in F \cup {0} /\ p # NULL
  BY <1>1, <1>2, Types, Grid DEF HeapIsSound, Walked, HeapIInv
<1>8. next_node[p] \in F \cup {0, list_end}
  BY <1>1, <1>7 DEF HeapIsSound, Linked, Laid
<1>9. Walked(F)'
  BY <1>1, <1>2, <1>4, <1>7, <1>8 DEF HeapIsSound, Walked
<1>10. nelems' = nelems
  BY <1>2 DEF nelems, alloc_size
<1>11. PICK T \in SUBSET Offset : T = S \cup {p}
  BY Types DEF HeapIInv
<1>12. Passed(T)'
  BY <1>1, <1>2, <1>10, <1>11 DEF HeapIsSound, Passed
<1> QED
  BY <1>3, <1>5, <1>6, <1>9, <1>12 DEF HeapIInv, HeapIsSound

\* malloc gives up.
LEMMA MallocNullKeeps ==
    ASSUME HeapIInv, MallocNull
    PROVE  HeapIInv'
<1>1. PICK F \in SUBSET Offset, S \in SUBSET Offset : HeapIsSound(F, S)
  BY DEF HeapIInv
<1> USE DEF heapVars
<1>2. /\ op = "malloc" /\ op' = "none" /\ request' = 0 /\ cp' = 0 /\ p' = 0 /\ prev' = NULL
      /\ UNCHANGED <<heapVars, blocks, system>>
  BY DEF MallocNull, Return
<1>3. TypeOK'
  <2>1. 0 \in Offset /\ 0 \in Nat
    BY Grid
  <2> QED
    BY <1>2, <2>1 DEF TypeOK, HeapIInv
<1>4. Allocated' = Allocated /\ Chunks(F)' = Chunks(F)
  BY <1>2 DEF Allocated, Chunks
<1>5. Linked(F)'
  BY <1>1, <1>2 DEF HeapIsSound, Linked
<1>6. Laid(F)'
  BY <1>1, <1>2, <1>4 DEF HeapIsSound, Laid, Placed, Apart
<1>7. Walked(F)' /\ Passed({})'
  BY <1>1, <1>2 DEF HeapIsSound, Walked, Passed
<1> QED
  BY <1>3, <1>5, <1>6, <1>7 DEF HeapIInv, HeapIsSound

\* free passes a chunk that is not next to the one it frees.
LEMMA FreeStepKeeps ==
    ASSUME HeapIInv, FreeStep
    PROVE  HeapIInv'
<1>1. PICK F \in SUBSET Offset, S \in SUBSET Offset : HeapIsSound(F, S)
  BY DEF HeapIInv
<1> USE DEF heapVars
<1>2. /\ op = "free" /\ p # list_end
      /\ prev' = p /\ p' = next_node[p] /\ UNCHANGED <<heapVars, op, request, cp, blocks, system>>
  BY DEF FreeStep, Walking
<1>3. TypeOK'
  BY <1>2, Types DEF TypeOK, HeapIInv
<1>4. Allocated' = Allocated /\ Chunks(F)' = Chunks(F)
  BY <1>2 DEF Allocated, Chunks
<1>5. Linked(F)'
  BY <1>1, <1>2 DEF HeapIsSound, Linked
<1>6. Laid(F)'
  BY <1>1, <1>2, <1>4 DEF HeapIsSound, Laid, Placed, Apart
<1>7. p \in F \cup {0} /\ p # NULL
  BY <1>1, <1>2, Types, Grid DEF HeapIsSound, Walked, HeapIInv
<1>8. next_node[p] \in F \cup {0, list_end}
  BY <1>1, <1>7 DEF HeapIsSound, Linked, Laid
<1>9. Walked(F)' /\ Passed({})'
  BY <1>1, <1>2, <1>4, <1>7, <1>8 DEF HeapIsSound, Walked, Passed
<1> QED
  BY <1>3, <1>5, <1>6, <1>9 DEF HeapIInv, HeapIsSound

\* The tail of a chunk becomes a block: it is on the grid and large enough, and
\* what is left of the chunk stays where it was.
LEMMA MallocSplitKeeps ==
    ASSUME HeapIInv, MallocSplit
    PROVE  HeapIInv'
<1>1. PICK F \in SUBSET Offset, S \in SUBSET Offset : HeapIsSound(F, S)
  BY DEF HeapIInv
<1>2. TypeOK /\ Linked(F) /\ Laid(F) /\ Walked(F)
  BY <1>1 DEF HeapIInv, HeapIsSound
<1>3. op = "malloc" /\ p # list_end /\ len[p] > aligned_nelems /\ request > 0
  BY <1>2 DEF MallocSplit, Walking, Walked
<1>4. PICK n \in Nat : n = aligned_nelems /\ n > 1 /\ n >= nelems /\ len[p] > n
  BY <1>2, <1>3, Types, Padded, Needed
<1>5. PICK b \in F : b = p
  BY <1>2, <1>3, <1>4 DEF Laid, Walked
<1>6. PICK size \in Nat : size = len[b]
  BY <1>2, Types, Grid
<1>7. /\ b \in Chunks(F) /\ b \in Nat /\ b > 0 /\ size > n /\ b + size <= HeapNodes
      /\ b >= getFirstAlignedNodeInHeap /\ (b + 1) % NodesPerAlignment = 0
  <2>1. b \in Chunks(F)
    BY DEF Chunks
  <2>2. /\ b \in Nat /\ b > 0 /\ b + len[b] <= HeapNodes
        /\ b >= getFirstAlignedNodeInHeap /\ (b + 1) % NodesPerAlignment = 0
    BY <1>2, <2>1, ChunkFacts
  <2> QED
    BY <1>4, <1>5, <1>6, <2>1, <2>2
<1>8. PICK q \in Nat : q = b + (size - n)
  BY <1>4, <1>7
<1>9. /\ b < q /\ q + n = b + size /\ q < HeapNodes /\ q >= getFirstAlignedNodeInHeap
      /\ size - n \in Nat /\ size - n > 0 /\ b + (size - n) = q
  BY <1>4, <1>7, <1>8, Grid
<1>10. q \in Offset /\ b \in Offset /\ size - n \in Offset /\ n \in Offset /\ 0 \in Offset
  BY <1>4, <1>7, <1>9, Grid
<1>11. /\ len' = [len EXCEPT ![b] = size - n, ![q] = n]
       /\ next_node' = [next_node EXCEPT ![q] = 0]
       /\ blocks' = [blocks EXCEPT ![q] = request]
       /\ op' = "none" /\ request' = 0 /\ cp' = 0 /\ p' = 0 /\ prev' = NULL
       /\ UNCHANGED <<freelist, system>>
  BY <1>4, <1>5, <1>6, <1>8 DEF MallocSplit, Return
<1>12. TypeOK'
  BY <1>2, <1>10, <1>11 DEF TypeOK
<1>13. /\ len'[b] = size - n /\ len'[q] = n /\ next_node'[q] = 0 /\ blocks'[q] = request
       /\ \A d \in Offset : d # q => /\ next_node'[d] = next_node[d] /\ blocks'[d] = blocks[d]
                                     /\ d # b => len'[d] = len[d]
  BY <1>2, <1>9, <1>10, <1>11 DEF TypeOK
<1>14. ASSUME NEW d \in Chunks(F), d # b
       PROVE  /\ d \in Offset /\ d \in Nat /\ len[d] \in Nat /\ len[d] > 0
              /\ d + len[d] <= b \/ b + size <= d
  <2>1. d \in Offset /\ len[d] > 0 /\ Apart(b, d)
    BY <1>2, <1>7, <1>14, ChunkFacts
  <2> QED
    BY <1>2, <1>6, <2>1, Types, Grid DEF Apart
<1>15. \A d \in Chunks(F) : d # q
  BY <1>4, <1>7, <1>9, <1>14
<1>16. Allocated' = Allocated \cup {q}
  <2>1. \A d \in Offset : d # q => (d \in Allocated' <=> d \in Allocated)
    BY <1>13 DEF Allocated
  <2>2. q \in Allocated' /\ Allocated' \subseteq Offset /\ Allocated \subseteq Offset
    BY <1>3, <1>10, <1>13 DEF Allocated
  <2> QED
    BY <2>1, <2>2
<1>17. Chunks(F)' = Chunks(F) \cup {q}
  BY <1>3, <1>11, <1>16 DEF Chunks
<1>18. Linked(F)'
  BY <1>2, <1>11, <1>13, <1>15 DEF Linked, Chunks
<1>19. (q + 1) % NodesPerAlignment = 0
  <2>1. len[p] > nelems /\ (p + 1) % NodesPerAlignment = 0
    BY <1>2, <1>3, <1>4, <1>5, <1>6, <1>7, Needed, Types
  <2>2. (p + 1 + (len[p] - aligned_nelems)) % NodesPerAlignment = 0
    BY <1>2, <1>3, <2>1, Padded
  <2>3. p + 1 + (len[p] - aligned_nelems) = q + 1
    BY <1>4, <1>5, <1>6, <1>7, <1>9
  <2> QED
    BY <2>2, <2>3
<1>20. \A d \in Chunks(F)' : Placed(d)'
  <2>1. Placed(q)'
    BY <1>4, <1>7, <1>9, <1>13, <1>19, Grid DEF Placed
  <2>2. Placed(b)'
    BY <1>7, <1>9, <1>13, Grid DEF Placed
  <2>3. ASSUME NEW d \in Chunks(F), d # b PROVE Placed(d)'
    <3>1. len'[d] = len[d] /\ Placed(d)
      BY <1>2, <1>13, <1>14, <1>15, <2>3 DEF Laid
    <3> QED
      BY <3>1 DEF Placed
  <2> QED
    BY <1>17, <2>1, <2>2, <2>3
<1>21. ASSUME NEW d \in Chunks(F)', NEW e \in Chunks(F)', d # e PROVE Apart(d, e)'
  <2>1. ASSUME NEW c \in Chunks(F), c # b PROVE len'[c] = len[c]
    BY <1>13, <1>14, <1>15, <2>1
  <2>2. ASSUME NEW c \in Chunks(F), c # b
        PROVE  Apart(c, b)' /\ Apart(b, c)' /\ Apart(c, q)' /\ Apart(q, c)'
    BY <2>1, <2>2, <1>4, <1>7, <1>9, <1>13, <1>14 DEF Apart
  <2>3. Apart(b, q)' /\ Apart(q, b)'
    BY <1>4, <1>7, <1>9, <1>13 DEF Apart
  <2>4. CASE d \in Chunks(F) \ {b} /\ e \in Chunks(F) \ {b}
    <3>1. Apart(d, e)
      BY <1>2, <1>21, <2>4 DEF Laid
    <3> QED
      BY <2>1, <2>4, <3>1 DEF Apart
  <2> QED
    BY <1>17, <1>21, <2>2, <2>3, <2>4
<1>22. Laid(F)'
  <2>1. F \cap Allocated' = {} /\ op' # "free"
    BY <1>2, <1>11, <1>15, <1>16 DEF Laid, Chunks
  <2>2. \A o \in Chunks(F)' \ F : next_node'[o] = 0
    BY <1>2, <1>5, <1>13, <1>14, <1>15, <1>17 DEF Laid
  <2>3. len'[0] = 0 /\ next_node'[0] = 0
    BY <1>2, <1>7, <1>9, <1>10, <1>13 DEF Laid
  <2>4. (n - 1) * NodeSize >= request
    <3>1. /\ (nelems - 1) * NodeSize >= request /\ nelems - 1 \in Nat /\ n - 1 \in Nat
          /\ nelems - 1 <= n - 1 /\ request \in Nat
      BY <1>2, <1>3, <1>4, Needed, Types
    <3>2. (nelems - 1) * NodeSize <= (n - 1) * NodeSize
      BY <3>1, MulMono, Grid
    <3>3. PICK x \in Int, y \in Int : x = (nelems - 1) * NodeSize /\ y = (n - 1) * NodeSize
      BY <3>1, Grid
    <3> QED
      BY <3>1, <3>2, <3>3
  <2>5. ASSUME NEW o \in Allocated' PROVE (len'[o] - 1) * NodeSize >= blocks'[o]
    <3>1. CASE o = q
      BY <1>13, <2>4, <3>1
    <3>2. CASE o # q
      <4>1. o \in Allocated /\ o # b /\ o \in Offset
        BY <1>2, <1>5, <1>16, <3>2 DEF Laid, Allocated
      <4> QED
        BY <1>2, <1>13, <3>2, <4>1 DEF Laid
    <3> QED
      BY <3>1, <3>2
  <2> QED
    BY <1>20, <1>21, <2>1, <2>2, <2>3, <2>5 DEF Laid
<1>23. Walked(F)' /\ Passed({})'
  BY <1>2, <1>3, <1>11 DEF Walked, Passed
<1> QED
  BY <1>12, <1>18, <1>22, <1>23, <1>10 DEF HeapIInv, HeapIsSound

\* A step that moves no boundary: the chunks and their lengths are the same.
LEMMA SameChunks ==
    ASSUME NEW F, NEW G, Laid(F), Chunks(G)' = Chunks(F), len' = len
    PROVE  \A o \in Chunks(G)' : Placed(o)' /\ \A d \in Chunks(G)' \ {o} : Apart(o, d)'
  BY DEF Laid, Placed, Apart

\* A chunk taken whole leaves the list, and nothing in the list still leads to it.
LEMMA MallocTakeKeeps ==
    ASSUME HeapIInv, MallocTake
    PROVE  HeapIInv'
<1>1. PICK F \in SUBSET Offset, S \in SUBSET Offset : HeapIsSound(F, S)
  BY DEF HeapIInv
<1>2. TypeOK /\ Linked(F) /\ Laid(F) /\ Walked(F)
  BY <1>1 DEF HeapIInv, HeapIsSound
<1>3. op = "malloc" /\ p # list_end /\ len[p] >= nelems /\ request > 0 /\ request \in Nat
  BY <1>2, Types DEF MallocTake, Walking, Walked
<1>4. nelems \in Nat /\ nelems > 1 /\ (nelems - 1) * NodeSize >= request
  BY <1>3, Needed
<1>5. PICK b \in F : b = p
  BY <1>2, <1>3, <1>4 DEF Laid, Walked
<1>6. PICK G \in SUBSET Offset : G = F \ {b}
  OBVIOUS
<1>7. b \in Chunks(F) /\ b \in Offset /\ b > 0 /\ b \in Nat /\ b \notin Allocated
  <2>1. b \in Chunks(F) /\ b \notin Allocated
    BY <1>2 DEF Chunks, Laid
  <2> QED
    BY <1>2, <2>1, ChunkFacts, Grid
<1>8. /\ blocks' = [blocks EXCEPT ![b] = request]
      /\ op' = "none" /\ request' = 0 /\ cp' = 0 /\ p' = 0 /\ prev' = NULL
      /\ UNCHANGED <<len, system>>
  BY <1>5 DEF MallocTake, Return
<1>9. PICK next \in Offset : next = next_node[b]
  BY <1>2, Types
<1>10. next \in F \cup {0, list_end}
  BY <1>2, <1>9 DEF Linked
<1>11. 0 \in Offset /\ 0 \in Nat /\ 0 # NULL /\ NULL \notin Offset /\ 0 # list_end
  BY Grid
<1>12. next_node'[b] = 0 /\ next_node' \in [Offset -> Offset] /\ freelist' \in Offset \cup {NULL}
  <2>1. CASE prev = NULL
    BY <1>2, <1>5, <1>7, <1>9, <1>11, <2>1 DEF MallocTake, TypeOK
  <2>2. CASE prev # NULL
    BY <1>2, <1>5, <1>7, <1>9, <1>11, <2>2 DEF MallocTake, TypeOK
  <2> QED
    BY <2>1, <2>2
<1>13. TypeOK'
  BY <1>2, <1>3, <1>8, <1>11, <1>12 DEF TypeOK
<1>14. \A d \in Offset : blocks'[d] = IF d = b THEN request ELSE blocks[d]
  BY <1>2, <1>7, <1>8 DEF TypeOK
<1>15. Allocated' = Allocated \cup {b}
  <2>1. \A d \in Offset : d # b => (d \in Allocated' <=> d \in Allocated)
    BY <1>14 DEF Allocated
  <2>2. b \in Allocated' /\ Allocated' \subseteq Offset /\ Allocated \subseteq Offset
    BY <1>3, <1>7, <1>14 DEF Allocated
  <2> QED
    BY <2>1, <2>2
<1>16. Chunks(G)' = Chunks(F)
  BY <1>3, <1>6, <1>8, <1>15 DEF Chunks
<1>17. Linked(G)' /\ next_node'[0] = 0 /\ \A d \in Offset \ F : d # b => next_node'[d] = next_node[d]
  <2>1. 0 \notin F
    BY <1>2, ChunkFacts DEF Chunks
  <2>2. CASE prev = NULL
    <3>1. freelist = b /\ freelist' = next /\ next_node' = [next_node EXCEPT ![b] = 0]
      BY <1>2, <1>3, <1>5, <1>9, <2>2 DEF MallocTake, Walked
    <3>2. \A d \in Offset : d # b => next_node'[d] = next_node[d]
      BY <1>2, <3>1 DEF TypeOK
    <3>3. \A d \in G : next_node'[d] \in F \cup {0, list_end} /\ next_node'[d] # b
      BY <1>2, <1>6, <3>1, <3>2 DEF Linked
    <3>4. next # b
      BY <1>2, <1>9, <3>1 DEF Linked
    <3>5. Linked(G)'
      BY <1>2, <1>6, <1>9, <1>10, <3>1, <3>2, <3>3, <3>4 DEF Linked
    <3> QED
      BY <1>2, <1>7, <1>11, <3>2, <3>5 DEF Laid
  <2>3. CASE prev # NULL
    <3>1. PICK a \in F \cup {0} : a = prev
      BY <1>2, <1>3, <2>3 DEF Walked
    <3>2. a \in F /\ next_node[a] = b
      BY <1>2, <1>3, <1>5, <1>7, <2>3, <3>1 DEF Walked, Laid
    <3>3. freelist' = freelist /\ next_node' = [next_node EXCEPT ![a] = next, ![b] = 0]
      BY <1>5, <1>9, <2>3, <3>1 DEF MallocTake
    <3>4. \A d \in Offset : d # b /\ d # a => next_node'[d] = next_node[d]
      BY <1>2, <3>3 DEF TypeOK
    <3>5. a # b => next_node'[a] = next
      BY <1>2, <3>2, <3>3 DEF TypeOK
    <3>6. freelist # b /\ \A d \in F : d # a => next_node[d] # b
      BY <1>2, <3>2 DEF Linked
    <3>7. a # b => next # b
      BY <1>2, <1>9, <3>2 DEF Linked
    <3>8. \A d \in G : /\ next_node'[d] \in G \cup {0, list_end}
                       /\ next_node'[d] = IF d = a THEN next ELSE next_node[d]
      BY <1>2, <1>6, <1>10, <3>4, <3>5, <3>6, <3>7 DEF Linked
    <3>9. freelist' \in G \cup {0, list_end, NULL}
      BY <1>2, <1>6, <3>3, <3>6 DEF Linked
    <3>10. next \in F => next # freelist /\ \A d \in F : d # b => next_node[d] # next
      BY <1>2, <1>9 DEF Linked
    <3>11. ASSUME NEW o \in G, next_node'[o] \in G
           PROVE  /\ next_node'[o] # freelist'
                  /\ \A d \in G \ {o} : next_node'[d] # next_node'[o]
      <4>1. CASE o = a
        <5>1. next_node'[o] = next /\ next \in F
          BY <1>6, <3>8, <3>11, <4>1
        <5>2. next # freelist /\ \A d \in F : d # b => next_node[d] # next
          BY <3>10, <5>1
        <5>3. \A d \in G \ {o} : d \in F /\ d # b /\ next_node'[d] = next_node[d]
          BY <1>6, <3>8, <4>1
        <5> QED
          BY <3>3, <5>1, <5>2, <5>3
      <4>2. CASE o # a
        <5>1. /\ next_node'[o] = next_node[o] /\ next_node[o] \in F /\ next_node[o] # freelist
              /\ \A d \in F \ {o} : next_node[d] # next_node[o]
          BY <1>2, <1>6, <3>8, <3>11, <4>2 DEF Linked
        <5>2. next_node[o] # next
          BY <1>6, <1>9, <5>1
        <5> QED
          BY <1>6, <3>3, <3>8, <5>1, <5>2
      <4> QED
        BY <4>1, <4>2
    <3>12. Linked(G)'
      BY <3>8, <3>9, <3>11 DEF Linked
    <3> QED
      BY <1>2, <1>7, <1>11, <2>1, <3>2, <3>4, <3>12 DEF Laid
  <2> QED
    BY <2>2, <2>3
<1>18. Laid(G)'
  <2>1. G \cap Allocated' = {} /\ op' # "free"
    BY <1>2, <1>6, <1>8, <1>15 DEF Laid
  <2>2. \A o \in Chunks(G)' \ G : next_node'[o] = 0
    <3>1. \A o \in Chunks(F) : o \in Offset
      BY <1>2, ChunkFacts
    <3> QED
      BY <1>2, <1>6, <1>12, <1>16, <1>17, <3>1 DEF Laid
  <2>3. len'[0] = 0 /\ next_node'[0] = 0
    BY <1>2, <1>8, <1>17 DEF Laid
  <2>4. (len[b] - 1) * NodeSize >= request
    <3>1. nelems - 1 \in Nat /\ len[b] - 1 \in Nat /\ nelems - 1 <= len[b] - 1
      BY <1>2, <1>3, <1>4, <1>5, Types, Grid
    <3>2. (nelems - 1) * NodeSize <= (len[b] - 1) * NodeSize
      BY <3>1, MulMono, Grid
    <3>3. PICK x \in Int, y \in Int : x = (nelems - 1) * NodeSize /\ y = (len[b] - 1) * NodeSize
      BY <3>1, Grid
    <3> QED
      BY <1>3, <1>4, <3>2, <3>3
  <2>5. \A o \in Allocated' : (len'[o] - 1) * NodeSize >= blocks'[o]
    BY <1>2, <1>7, <1>8, <1>14, <1>15, <2>4 DEF Laid, Allocated
  <2>6. \A o \in Chunks(G)' : Placed(o)' /\ \A d \in Chunks(G)' \ {o} : Apart(o, d)'
    BY <1>2, <1>8, <1>16, SameChunks
  <2> QED
    BY <2>1, <2>2, <2>3, <2>5, <2>6 DEF Laid
<1>19. Walked(G)' /\ Passed({})'
  <2>1. freelist' # NULL
    <3>1. CASE prev = NULL
      BY <1>5, <1>9, <1>11, <3>1 DEF MallocTake
    <3>2. CASE prev # NULL
      BY <1>2, <1>3, <3>2 DEF MallocTake, Walked
    <3> QED
      BY <3>1, <3>2
  <2> QED
    BY <1>8, <2>1 DEF Walked, Passed
<1> QED
  BY <1>13, <1>17, <1>18, <1>19 DEF HeapIInv, HeapIsSound


\* No block is at the very end of the heap, so each is recognised.
LEMMA BlocksAreRecognised ==
    ASSUME TypeOK, NEW F \in SUBSET Offset, Laid(F), NEW o \in Allocated
    PROVE  o \in Nat /\ o + 1 < HeapNodes /\ is_fallback_ptr(o + 1)
<1>1. o \in Chunks(F) /\ o \in Offset /\ blocks[o] # 0 /\ (len[o] - 1) * NodeSize >= blocks[o]
  BY DEF Laid, Chunks, Allocated
<1>2. /\ o \in Nat /\ len[o] \in Nat /\ len[o] > 0 /\ o + len[o] <= HeapNodes /\ blocks[o] \in Nat
      /\ HeapNodes \in Nat
  <2>1. o \in Offset /\ len[o] > 0 /\ o + len[o] \in Offset
    BY <1>1, ChunkFacts
  <2>2. len[o] \in Offset /\ blocks[o] \in Nat
    BY <2>1, Types
  <2> QED
    BY <2>1, <2>2, Grid
<1>3. len[o] # 1
  <2>1. SUFFICES ASSUME len[o] = 1 PROVE FALSE
    OBVIOUS
  <2>2. (len[o] - 1) * NodeSize = 0
    BY <2>1, Grid
  <2> QED
    BY <1>1, <1>2, <2>2
<1> QED
  BY <1>2, <1>3 DEF is_fallback_ptr

\* A block that is not in the heap goes back to ::free.
LEMMA SystemFreeKeeps ==
    ASSUME HeapIInv, NEW ptr \in LivePtrs, SystemFree(ptr)
    PROVE  HeapIInv'
<1>1. PICK F \in SUBSET Offset, S \in SUBSET Offset : HeapIsSound(F, S)
  BY DEF HeapIInv
<1>2. TypeOK /\ Linked(F) /\ Laid(F) /\ Walked(F)
  BY <1>1 DEF HeapIInv, HeapIsSound
<1> USE DEF heapVars
<1>3. /\ op = "none" /\ system' = system \ {ptr}
      /\ blocks' = [o \in Offset |-> IF o = ptr - 1 THEN 0 ELSE blocks[o]]
      /\ UNCHANGED <<heapVars, op, request, cp, p, prev>>
  BY DEF SystemFree, GiveUp
<1>4. ptr \in Nat
  <2>1. \A o \in Allocated : o + 1 \in Nat
    BY <1>2, BlocksAreRecognised
  <2>2. system \subseteq Nat
    BY <1>2, FallbackAssumption DEF TypeOK
  <2> QED
    BY <2>1, <2>2 DEF LivePtrs
<1>5. ptr - 1 \notin Allocated
  <2>1. SUFFICES ASSUME ptr - 1 \in Allocated PROVE FALSE
    OBVIOUS
  <2>2. is_fallback_ptr((ptr - 1) + 1) /\ (ptr - 1) + 1 = ptr
    BY <1>2, <1>4, <2>1, BlocksAreRecognised
  <2> QED
    BY <2>2 DEF SystemFree
<1>6. \A o \in Offset : blocks'[o] = blocks[o]
  BY <1>3, <1>5 DEF Allocated
<1>7. TypeOK'
  <2>1. blocks' \in [Offset -> Nat]
    BY <1>2, <1>3, Grid DEF TypeOK
  <2> QED
    BY <1>2, <1>3, <2>1 DEF TypeOK
<1>8. Allocated' = Allocated
  BY <1>6 DEF Allocated
<1>9. Chunks(F)' = Chunks(F)
  BY <1>3, <1>8 DEF Chunks
<1>10. Linked(F)'
  BY <1>2, <1>3 DEF Linked
<1>11. Laid(F)'
  <2>1. \A o \in Allocated' : (len'[o] - 1) * NodeSize >= blocks'[o]
    BY <1>2, <1>3, <1>6, <1>8 DEF Laid, Allocated
  <2>2. \A o \in Chunks(F)' : Placed(o)' /\ \A d \in Chunks(F)' \ {o} : Apart(o, d)'
    BY <1>2, <1>3, <1>9, SameChunks
  <2> QED
    BY <1>2, <1>3, <1>8, <1>9, <2>1, <2>2 DEF Laid
<1>12. Walked(F)' /\ Passed({})'
  BY <1>2, <1>3, <1>8 DEF Walked, Passed
<1> QED
  BY <1>7, <1>10, <1>11, <1>12 DEF HeapIInv, HeapIsSound

\* A block that comes back is the chunk being freed: no chunk moves.
LEMMA FallbackFreeKeeps ==
    ASSUME HeapIInv, NEW ptr \in LivePtrs, fallback_free(ptr)
    PROVE  HeapIInv'
<1>1. PICK F \in SUBSET Offset, S \in SUBSET Offset : HeapIsSound(F, S)
  BY DEF HeapIInv
<1>2. TypeOK /\ Linked(F) /\ Laid(F) /\ Walked(F)
  BY <1>1 DEF HeapIInv, HeapIsSound
<1> USE DEF heapVars
<1>3. /\ op = "none" /\ op' = "free" /\ p' = freelist /\ prev' = NULL
      /\ cp' = ptr - 1 /\ system' = system \ {ptr}
      /\ blocks' = [o \in Offset |-> IF o = ptr - 1 THEN 0 ELSE blocks[o]]
      /\ UNCHANGED <<heapVars, request>>
  BY DEF fallback_free, GiveUp
<1>4. PICK b \in Allocated : ptr = b + 1 /\ b = ptr - 1
  <2>1. ptr \notin system
    <3>1. ptr < HeapNodes /\ HeapNodes \in Nat
      BY Grid DEF fallback_free, is_fallback_ptr
    <3>2. \A s \in system : s \in Nat /\ s > HeapNodes
      BY <1>2, FallbackAssumption DEF TypeOK
    <3> QED
      BY <3>1, <3>2
  <2>2. \A o \in Allocated : o \in Nat
    BY <1>2, BlocksAreRecognised
  <2> QED
    BY <2>1, <2>2 DEF LivePtrs
<1>5. b \in Offset /\ b \notin F
  BY <1>2 DEF Laid, Allocated
<1>6. \A o \in Offset : blocks'[o] = IF o = b THEN 0 ELSE blocks[o]
  BY <1>3, <1>4
<1>7. freelist \in F \cup {0, list_end}
  BY <1>2, <1>4 DEF Linked, Walked
<1>8. TypeOK'
  <2>1. blocks' \in [Offset -> Nat]
    BY <1>2, <1>3, Grid DEF TypeOK
  <2>2. freelist \in Offset
    BY <1>7, Grid
  <2> QED
    BY <1>2, <1>3, <1>4, <1>5, <2>1, <2>2 DEF TypeOK
<1>9. Allocated' = Allocated \ {b}
  BY <1>6 DEF Allocated
<1>10. Chunks(F)' = Chunks(F)
  BY <1>3, <1>4, <1>9 DEF Chunks
<1>11. Linked(F)'
  BY <1>2, <1>3 DEF Linked
<1>12. Laid(F)'
  <2>1. \A o \in Allocated' : (len'[o] - 1) * NodeSize >= blocks'[o]
    BY <1>2, <1>3, <1>6, <1>9 DEF Laid, Allocated
  <2>2. \A o \in Chunks(F)' : Placed(o)' /\ \A d \in Chunks(F)' \ {o} : Apart(o, d)'
    BY <1>2, <1>3, <1>10, SameChunks
  <2>3. F \cap Allocated' = {} /\ cp' \notin F \cup Allocated'
    BY <1>2, <1>3, <1>4, <1>5, <1>9 DEF Laid
  <2> QED
    BY <1>2, <1>3, <1>10, <2>1, <2>2, <2>3 DEF Laid
<1>13. Walked(F)' /\ Passed({})'
  BY <1>2, <1>3, <1>4, <1>7 DEF Walked, Passed
<1> QED
  BY <1>8, <1>11, <1>12, <1>13 DEF HeapIInv, HeapIsSound

\* A chunk takes the one behind it in: what is left is still laid out.
LEMMA Merged ==
    ASSUME TypeOK, NEW F \in SUBSET Offset, NEW G, Laid(F),
           NEW x \in Chunks(F), NEW y \in Chunks(F), x + len[x] = y,
           Chunks(G)' = Chunks(F) \ {y}, len' = [len EXCEPT ![x] = len[x] + len[y]]
    PROVE  /\ len' \in [Offset -> Offset] /\ len'[0] = 0
           /\ \A d \in Offset \ {x} : len'[d] = len[d]
           /\ \A o \in Chunks(G)' : Placed(o)' /\ \A d \in Chunks(G)' \ {o} : Apart(o, d)'
<1>1. \A o \in Chunks(F) : /\ o \in Offset /\ o \in Nat /\ len[o] \in Nat /\ len[o] > 0 /\ o > 0
                           /\ o + len[o] <= HeapNodes
  BY ChunkFacts
<1>2. x # y
  BY <1>1
<1>3. len[x] + len[y] \in Offset /\ x + (len[x] + len[y]) <= HeapNodes /\ len[x] + len[y] > 0
  <2>1. y + len[y] <= HeapNodes /\ x + (len[x] + len[y]) = y + len[y]
    BY <1>1
  <2>2. len[x] + len[y] \in Nat /\ x + (len[x] + len[y]) <= HeapNodes /\ x \in Nat /\ len[x] + len[y] > 0
    BY <1>1, <2>1
  <2> QED
    BY <2>2, Grid
<1>4. len' \in [Offset -> Offset] /\ len'[x] = len[x] + len[y] /\ \A d \in Offset \ {x} : len'[d] = len[d]
  BY <1>1, <1>3 DEF TypeOK
<1>5. len'[0] = 0
  BY <1>1, <1>4, Grid DEF Laid
<1>6. \A o \in Chunks(F) : o # x => len'[o] = len[o]
  BY <1>1, <1>4
<1>7. ASSUME NEW o \in Chunks(F), o # y PROVE Placed(o)'
  <2>1. Placed(o)
    BY DEF Laid
  <2>2. CASE o = x
    BY <1>3, <1>4, <2>1, <2>2 DEF Placed
  <2>3. CASE o # x
    BY <1>6, <2>1, <2>3 DEF Placed
  <2> QED
    BY <2>2, <2>3
<1>8. ASSUME NEW o \in Chunks(F), o # x, o # y PROVE Apart(o, x)' /\ Apart(x, o)'
  <2>1. Apart(o, x) /\ Apart(o, y)
    BY <1>8 DEF Laid
  <2> QED
    BY <1>1, <1>4, <1>6, <1>8, <2>1 DEF Apart
<1>9. ASSUME NEW o \in Chunks(F), NEW d \in Chunks(F), o # d, o # x, d # x PROVE Apart(o, d)'
  <2>1. Apart(o, d)
    BY <1>9 DEF Laid
  <2> QED
    BY <1>6, <1>9, <2>1 DEF Apart
<1> QED
  BY <1>4, <1>5, <1>7, <1>8, <1>9

\* A free chunk takes in the one being freed.
LEMMA FreeAppendKeeps ==
    ASSUME HeapIInv, FreeAppend
    PROVE  HeapIInv'
<1>1. PICK F \in SUBSET Offset, S \in SUBSET Offset : HeapIsSound(F, S)
  BY DEF HeapIInv
<1>2. TypeOK /\ Linked(F) /\ Laid(F) /\ Walked(F)
  BY <1>1 DEF HeapIInv, HeapIsSound
<1>3. op = "free" /\ p # list_end /\ p + len[p] = cp
  BY DEF FreeAppend, Walking, after
<1>4. PICK c \in Chunks(F) : c = cp
  BY <1>3 DEF Chunks
<1>5. c > 0 /\ c \in Offset /\ c \notin F \cup Allocated
  BY <1>2, <1>3, <1>4, ChunkFacts DEF Laid
<1>6. PICK b \in F : b = p
  <2>1. p # 0
    <3>1. SUFFICES ASSUME p = 0 PROVE FALSE
      OBVIOUS
    <3>2. p + len[p] = 0
      BY <1>2, <3>1 DEF Laid
    <3> QED
      BY <1>3, <1>4, <1>5, <3>2, Grid
  <2> QED
    BY <1>2, <1>3, <2>1 DEF Walked
<1>7. /\ len' = [len EXCEPT ![b] = len[b] + len[c]]
      /\ op' = "none" /\ request' = 0 /\ cp' = 0 /\ p' = 0 /\ prev' = NULL
      /\ UNCHANGED <<freelist, next_node, blocks, system>>
  BY <1>4, <1>6 DEF FreeAppend, Return
<1>8. b \in Chunks(F) /\ b + len[b] = c
  BY <1>3, <1>4, <1>6 DEF Chunks
<1>9. Allocated' = Allocated
  BY <1>7 DEF Allocated
<1>10. Chunks(F)' = Chunks(F) \ {c}
  BY <1>3, <1>4, <1>5, <1>7, <1>9 DEF Chunks
<1>11. /\ len' \in [Offset -> Offset] /\ len'[0] = 0
       /\ \A d \in Offset \ {b} : len'[d] = len[d]
       /\ \A o \in Chunks(F)' : Placed(o)' /\ \A d \in Chunks(F)' \ {o} : Apart(o, d)'
  BY <1>2, <1>7, <1>8, <1>10, Merged
<1>12. TypeOK'
  <2>1. 0 \in Offset /\ 0 \in Nat
    BY Grid
  <2> QED
    BY <1>2, <1>7, <1>11, <2>1 DEF TypeOK
<1>13. Linked(F)'
  BY <1>2, <1>7 DEF Linked
<1>14. Laid(F)'
  <2>1. \A o \in Allocated' : (len'[o] - 1) * NodeSize >= blocks'[o]
    BY <1>2, <1>7, <1>9, <1>11 DEF Laid, Allocated
  <2> QED
    BY <1>2, <1>7, <1>9, <1>10, <1>11, <2>1 DEF Laid
<1>15. Walked(F)' /\ Passed({})'
  BY <1>2, <1>3, <1>7 DEF Walked, Passed
<1> QED
  BY <1>12, <1>13, <1>14, <1>15 DEF HeapIInv, HeapIsSound

\* The chunk being freed takes in a free one and its place in the list, or, in
\* the middle of the list, cuts the list off at offset 0.
LEMMA FreePrependKeeps ==
    ASSUME HeapIInv, FreePrepend
    PROVE  HeapIInv'
<1>1. PICK F \in SUBSET Offset, S \in SUBSET Offset : HeapIsSound(F, S)
  BY DEF HeapIInv
<1>2. TypeOK /\ Linked(F) /\ Laid(F) /\ Walked(F)
  BY <1>1 DEF HeapIInv, HeapIsSound
<1>3. op = "free" /\ p # list_end /\ cp + len[cp] = p
  BY DEF FreePrepend, Walking, after
<1>4. PICK c \in Chunks(F) : c = cp
  BY <1>3 DEF Chunks
<1>5. c > 0 /\ c \in Offset /\ c < HeapNodes /\ c \notin F \cup Allocated /\ next_node[c] = 0 /\ 0 \notin F
  <2>1. c > 0 /\ c \in Offset /\ c < HeapNodes
    BY <1>2, ChunkFacts
  <2>2. 0 \notin F
    BY <1>2, ChunkFacts DEF Chunks
  <2> QED
    BY <1>2, <1>3, <1>4, <2>1, <2>2 DEF Laid
<1>6. PICK b \in F : b = p
  <2>1. p # 0
    BY <1>2, <1>3, <1>4, <1>5, Types, Grid
  <2> QED
    BY <1>2, <1>3, <2>1 DEF Walked
<1>7. /\ len' = [len EXCEPT ![c] = len[c] + len[b]]
      /\ op' = "none" /\ request' = 0 /\ cp' = 0 /\ p' = 0 /\ prev' = NULL
      /\ UNCHANGED <<blocks, system>>
  BY <1>4, <1>6 DEF FreePrepend, Return
<1>8. b \in Chunks(F) /\ c + len[c] = b /\ b \notin Allocated /\ b # c /\ b \in Offset /\ b # 0
  BY <1>2, <1>3, <1>4, <1>5, <1>6 DEF Chunks, Laid
<1>9. PICK G \in SUBSET Offset : G = (F \ {b}) \cup {c}
  BY <1>5
<1>10. Allocated' = Allocated
  BY <1>7 DEF Allocated
<1>11. Chunks(G)' = Chunks(F) \ {b}
  BY <1>3, <1>4, <1>7, <1>8, <1>9, <1>10 DEF Chunks
<1>12. /\ len' \in [Offset -> Offset] /\ len'[0] = 0
       /\ \A d \in Offset \ {c} : len'[d] = len[d]
       /\ \A o \in Chunks(G)' : Placed(o)' /\ \A d \in Chunks(G)' \ {o} : Apart(o, d)'
  BY <1>2, <1>7, <1>8, <1>11, Merged
<1>13. PICK next \in Offset : next = next_node[b] /\ next \in F \cup {0, list_end}
  BY <1>2, <1>8, Types DEF Linked
<1>14. 0 \in Offset /\ 0 \in Nat /\ 0 # NULL /\ NULL \notin Offset /\ c # list_end /\ 0 # list_end /\ c # NULL
  BY <1>5, Grid
<1>15. /\ Linked(G)' /\ next_node' \in [Offset -> Offset] /\ freelist' \in Offset
       /\ next_node'[0] = 0 /\ \A d \in Offset \ F : d # c => next_node'[d] = next_node[d]
  <2>1. CASE prev = NULL
    <3>1. freelist = b /\ freelist' = c /\ next_node' = [next_node EXCEPT ![c] = next]
      BY <1>2, <1>3, <1>4, <1>6, <1>13, <2>1 DEF FreePrepend, Walked
    <3>2. /\ next_node' \in [Offset -> Offset] /\ next_node'[c] = next
          /\ \A d \in Offset : d # c => next_node'[d] = next_node[d]
      BY <1>2, <1>5, <3>1 DEF TypeOK
    <3>3. next # b /\ \A d \in F : next_node[d] # b
      BY <1>2, <1>13, <1>6, <3>1 DEF Linked
    <3>4. \A d \in G : d # c => d \in F /\ d # b /\ next_node'[d] = next_node[d]
      BY <1>9, <3>2
    <3>5. \A d \in G : next_node'[d] \in (G \ {c}) \cup {0, list_end}
      BY <1>2, <1>5, <1>9, <1>13, <3>2, <3>3, <3>4 DEF Linked
    <3>6. ASSUME NEW o \in G, next_node'[o] \in G, NEW d \in G \ {o}
          PROVE  next_node'[d] # next_node'[o]
      <4>1. next_node'[o] \in F
        BY <1>5, <1>9, <1>14, <3>5, <3>6
      <4>2. CASE o = c
        <5>1. d \in F /\ d # b /\ next_node'[d] = next_node[d]
          BY <3>4, <3>6, <4>2
        <5> QED
          BY <1>2, <1>13, <3>2, <4>1, <4>2, <5>1 DEF Linked
      <4>3. CASE d = c
        <5>1. o \in F /\ o # b /\ next_node'[o] = next_node[o]
          BY <3>4, <3>6, <4>3
        <5> QED
          BY <1>2, <1>13, <3>2, <4>1, <4>3, <5>1 DEF Linked
      <4>4. CASE o # c /\ d # c
        <5>1. o \in F /\ d \in F /\ next_node'[o] = next_node[o] /\ next_node'[d] = next_node[d]
          BY <3>4, <3>6, <4>4
        <5> QED
          BY <1>2, <3>6, <4>1, <5>1 DEF Linked
      <4> QED
        BY <4>2, <4>3, <4>4
    <3>7. Linked(G)'
      <4>1. \A d \in G : next_node'[d] \in G \cup {0, list_end} /\ next_node'[d] # c
        BY <1>5, <1>14, <3>5
      <4>2. freelist' \in G
        BY <1>9, <3>1
      <4> QED
        BY <3>1, <3>6, <4>1, <4>2 DEF Linked
    <3> QED
      BY <1>2, <1>5, <1>14, <3>1, <3>2, <3>7 DEF Laid
  <2>2. CASE prev # NULL
    <3>1. PICK a \in F : a = prev /\ next_node[a] = b
      BY <1>2, <1>3, <1>6, <1>8, <2>2 DEF Walked, Laid
    <3>2. freelist' = freelist /\ next_node' = [next_node EXCEPT ![a] = c]
      BY <1>4, <2>2, <3>1 DEF FreePrepend
    <3>3. /\ next_node' \in [Offset -> Offset] /\ next_node'[a] = c
          /\ \A d \in Offset : d # a => next_node'[d] = next_node[d]
      BY <1>2, <1>5, <3>1, <3>2 DEF TypeOK
    <3>4. freelist # b /\ freelist # NULL /\ \A d \in F : d # a => next_node[d] # b
      BY <1>2, <1>3, <1>6, <3>1 DEF Linked, Walked
    <3>5. next_node'[c] = 0 /\ c # a
      BY <1>5, <3>1, <3>3
    <3>6. \A d \in G : d # c /\ d # a => /\ d \in F /\ d # b /\ next_node'[d] = next_node[d]
                                         /\ next_node[d] \in (G \ {c}) \cup {0, list_end}
      BY <1>2, <1>5, <1>9, <1>14, <3>3, <3>4 DEF Linked
    <3>7. freelist' \in (G \ {c}) \cup {0, list_end}
      BY <1>2, <1>5, <1>9, <3>2, <3>4 DEF Linked
    <3>8. 0 \notin G /\ list_end \notin G \ {c} /\ list_end \notin F
      <4>1. list_end \notin F
        BY <1>2, ChunkFacts, Grid DEF Chunks
      <4> QED
        BY <1>5, <1>9, <4>1
    <3>9. ASSUME NEW o \in G, next_node'[o] \in G
          PROVE  /\ next_node'[o] # freelist'
                 /\ \A d \in G \ {o} : next_node'[d] # next_node'[o]
      <4>1. o # c
        BY <3>5, <3>8, <3>9
      <4>2. CASE o = a
        <5>1. freelist' # c
          BY <1>5, <1>14, <3>7
        <5>2. \A d \in G \ {o} : next_node'[d] # c
          BY <1>5, <1>14, <3>5, <3>6, <4>2
        <5> QED
          BY <3>3, <4>2, <5>1, <5>2
      <4>3. CASE o # a
        <5>1. o \in F /\ next_node'[o] = next_node[o] /\ next_node[o] \in F /\ next_node[o] # c
          <6>1. /\ o \in F /\ next_node'[o] = next_node[o]
                /\ next_node[o] \in (G \ {c}) \cup {0, list_end}
            BY <3>6, <4>1, <4>3
          <6>2. next_node[o] \in G /\ next_node[o] # 0 /\ next_node[o] # c
            BY <1>5, <1>14, <3>8, <3>9, <6>1
          <6> QED
            BY <1>9, <6>1, <6>2
        <5>2. next_node[o] # freelist /\ \A d \in F \ {o} : next_node[d] # next_node[o]
          BY <1>2, <5>1 DEF Linked
        <5>3. ASSUME NEW d \in G \ {o} PROVE next_node'[d] # next_node'[o]
          <6>1. CASE d = c
            BY <1>5, <3>5, <5>1, <6>1
          <6>2. CASE d = a
            BY <3>3, <5>1, <6>2
          <6>3. CASE d # c /\ d # a
            BY <3>6, <5>1, <5>2, <6>3
          <6> QED
            BY <6>1, <6>2, <6>3
        <5> QED
          BY <3>2, <5>1, <5>2, <5>3
      <4> QED
        BY <4>2, <4>3
    <3>10. \A d \in G : next_node'[d] \in G \cup {0, list_end}
      BY <1>9, <3>3, <3>5, <3>6
    <3>11. Linked(G)'
      BY <3>7, <3>9, <3>10 DEF Linked
    <3> QED
      BY <1>2, <1>5, <1>14, <3>1, <3>2, <3>3, <3>7, <3>11, Grid DEF Laid
  <2> QED
    BY <2>1, <2>2
<1>16. TypeOK'
  BY <1>2, <1>7, <1>12, <1>14, <1>15 DEF TypeOK
<1>17. Laid(G)'
  <2>1. \A o \in Allocated' : (len'[o] - 1) * NodeSize >= blocks'[o]
    BY <1>2, <1>5, <1>7, <1>10, <1>12 DEF Laid, Allocated
  <2>2. G \cap Allocated' = {} /\ op' # "free"
    BY <1>2, <1>5, <1>7, <1>9, <1>10 DEF Laid
  <2>3. \A o \in Chunks(G)' \ G : next_node'[o] = 0
    <3>1. \A o \in Chunks(G)' \ G : o \in Chunks(F) \ F /\ o # c /\ o \in Offset
      BY <1>2, <1>9, <1>11, ChunkFacts
    <3> QED
      BY <1>2, <1>15, <3>1 DEF Laid
  <2> QED
    BY <1>12, <1>15, <2>1, <2>2, <2>3 DEF Laid
<1>18. Walked(G)' /\ Passed({})'
  BY <1>7, <1>14, <1>15 DEF Walked, Passed
<1> QED
  BY <1>15, <1>16, <1>17, <1>18 DEF HeapIInv, HeapIsSound

\* The chunk being freed becomes the head.
LEMMA FreePushKeeps ==
    ASSUME HeapIInv, FreePush
    PROVE  HeapIInv'
<1>1. PICK F \in SUBSET Offset, S \in SUBSET Offset : HeapIsSound(F, S)
  BY DEF HeapIInv
<1>2. TypeOK /\ Linked(F) /\ Laid(F) /\ Walked(F)
  BY <1>1 DEF HeapIInv, HeapIsSound
<1>3. op = "free" /\ p = list_end
  BY DEF FreePush
<1>4. PICK c \in Chunks(F) : c = cp
  BY <1>3 DEF Chunks
<1>5. c > 0 /\ c \in Offset /\ c < HeapNodes /\ c \notin F \cup Allocated
  <2>1. c > 0 /\ c \in Offset /\ c < HeapNodes
    BY <1>2, ChunkFacts
  <2> QED
    BY <1>2, <1>3, <1>4, <2>1 DEF Laid
<1>6. PICK head \in F \cup {0, list_end} : head = freelist
  BY <1>2, <1>3 DEF Linked, Walked
<1>7. /\ freelist' = c /\ next_node' = [next_node EXCEPT ![c] = head]
      /\ op' = "none" /\ request' = 0 /\ cp' = 0 /\ p' = 0 /\ prev' = NULL
      /\ UNCHANGED <<len, blocks, system>>
  BY <1>4, <1>6 DEF FreePush, Return
<1>8. 0 \in Offset /\ 0 \in Nat /\ c # list_end /\ c # NULL /\ head \in Offset
  BY <1>5, Grid
<1>9. /\ next_node' \in [Offset -> Offset] /\ next_node'[c] = head
      /\ \A d \in Offset : d # c => next_node'[d] = next_node[d]
  BY <1>2, <1>5, <1>7, <1>8 DEF TypeOK
<1>10. TypeOK'
  BY <1>2, <1>5, <1>7, <1>8, <1>9 DEF TypeOK
<1>11. PICK G \in SUBSET Offset : G = F \cup {c}
  BY <1>5
<1>12. Allocated' = Allocated
  BY <1>7 DEF Allocated
<1>13. Chunks(G)' = Chunks(F)
  BY <1>3, <1>4, <1>7, <1>11, <1>12 DEF Chunks
<1>14. Linked(G)'
  <2>1. \A d \in F : /\ d # c /\ next_node'[d] = next_node[d]
                     /\ next_node[d] \in F \cup {0, list_end} /\ next_node[d] # c
    BY <1>2, <1>5, <1>8, <1>9 DEF Linked
  <2>2. \A d \in G : next_node'[d] \in G \cup {0, list_end} /\ next_node'[d] # c
    BY <1>5, <1>8, <1>9, <1>11, <2>1
  <2>3. ASSUME NEW o \in G, next_node'[o] \in G, NEW d \in G \ {o}
        PROVE  next_node'[d] # next_node'[o]
    <3>1. next_node'[o] \in F
      BY <1>11, <2>2, <2>3
    <3>2. CASE o = c
      BY <1>2, <1>6, <1>9, <1>11, <2>1, <3>1, <3>2 DEF Linked
    <3>3. CASE d = c
      BY <1>2, <1>6, <1>9, <1>11, <2>1, <2>3, <3>1, <3>3 DEF Linked
    <3>4. CASE o # c /\ d # c
      BY <1>2, <1>11, <2>1, <2>3, <3>1, <3>4 DEF Linked
    <3> QED
      BY <3>2, <3>3, <3>4
  <2> QED
    BY <1>7, <1>11, <2>2, <2>3 DEF Linked
<1>15. Laid(G)'
  <2>1. \A o \in Allocated' : (len'[o] - 1) * NodeSize >= blocks'[o]
    BY <1>2, <1>7, <1>12 DEF Laid
  <2>2. \A o \in Chunks(G)' : Placed(o)' /\ \A d \in Chunks(G)' \ {o} : Apart(o, d)'
    BY <1>2, <1>7, <1>13, SameChunks
  <2>3. G \cap Allocated' = {} /\ op' # "free"
    BY <1>2, <1>5, <1>7, <1>11, <1>12 DEF Laid
  <2>4. \A o \in Chunks(G)' \ G : next_node'[o] = 0
    <3>1. \A o \in Chunks(G)' \ G : o \in Chunks(F) \ F /\ o # c /\ o \in Offset
      BY <1>2, <1>11, <1>13, ChunkFacts
    <3> QED
      BY <1>2, <1>9, <3>1 DEF Laid
  <2>5. len'[0] = 0 /\ next_node'[0] = 0
    BY <1>2, <1>5, <1>7, <1>8, <1>9 DEF Laid
  <2> QED
    BY <2>1, <2>2, <2>3, <2>4, <2>5 DEF Laid
<1>16. Walked(G)' /\ Passed({})'
  BY <1>7, <1>8 DEF Walked, Passed
<1> QED
  BY <1>10, <1>14, <1>15, <1>16 DEF HeapIInv, HeapIsSound
LEMMA NoLeast ==
    ASSUME NEW T \in SUBSET Nat, 0 \notin T, \A n \in Nat : n + 1 \in T => n \in T
    PROVE  T = {}
<1>1. SUFFICES ASSUME T # {} PROVE FALSE
  OBVIOUS
<1> DEFINE R == {ss \in Nat \X Nat : ss[1] < ss[2]}
<1>2. R = OpToRel(<, Nat)
  BY DEF OpToRel
<1>3. IsWellFoundedOn(R, Nat)
  BY <1>2, NatLessThanWellFounded
<1>4. \A m, n \in Nat : <<m, n>> \in R <=> m < n
  OBVIOUS
<1> HIDE DEF R
<1>5. PICK x \in T : \A y \in T : ~(<<y, x>> \in R)
  BY <1>1, <1>3, WFMin
<1>6. x \in Nat /\ x # 0
  OBVIOUS
<1>7. x - 1 \in Nat /\ (x - 1) + 1 = x /\ x - 1 < x
  BY <1>6
<1>8. x - 1 \in T
  BY <1>7
<1> QED
  BY <1>4, <1>5, <1>6, <1>7, <1>8


\* A walk of m steps from the head that has not reached the end of the list.
Path(k, m) == /\ k \in [0 .. m -> Offset \ {list_end}] /\ k[0] = freelist
              /\ \A i \in 1 .. m : k[i] = next_node[k[i - 1]]

\* Visited satisfies the equation that it is defined by.
LEMMA VisitedIs ==
    ASSUME TypeOK
    PROVE  /\ Visited[0] = {freelist} \ {NULL, list_end}
           /\ \A n \in Nat : Visited[n + 1] = Visited[n] \cup ({next_node[o] : o \in Visited[n]} \ {list_end})
<1> DEFINE Eq(g) == g = [n \in Nat |-> IF n = 0 THEN {freelist} \ {NULL, list_end}
                                       ELSE g[n - 1] \cup ({next_node[o] : o \in g[n - 1]} \ {list_end})]
           Reach(n) == {o \in Offset : \E m \in 0 .. n : \E k : Path(k, m) /\ k[m] = o}
           g == [n \in Nat |-> Reach(n)]
<1>1. Reach(0) = {freelist} \ {NULL, list_end}
  <2>1. ASSUME NEW o \in Reach(0) PROVE o \in {freelist} \ {NULL, list_end}
    <3>1. PICK k : Path(k, 0) /\ k[0] = o
      BY <2>1
    <3> QED
      BY <3>1, Grid DEF Path
  <2>2. ASSUME freelist \notin {NULL, list_end} PROVE freelist \in Reach(0)
    <3> DEFINE k == [i \in 0 .. 0 |-> freelist]
    <3>1. freelist \in Offset \ {list_end}
      BY <2>2 DEF TypeOK
    <3>2. Path(k, 0) /\ k[0] = freelist
      BY <3>1 DEF Path
    <3> HIDE DEF k
    <3>3. 0 \in 0 .. 0
      OBVIOUS
    <3> QED
      BY <3>1, <3>2, <3>3
  <2> QED
    BY <2>1, <2>2
<1>2. ASSUME NEW n \in Nat
      PROVE  Reach(n + 1) = Reach(n) \cup ({next_node[o] : o \in Reach(n)} \ {list_end})
  <2>1. ASSUME NEW o \in Reach(n + 1)
        PROVE  o \in Reach(n) \cup ({next_node[d] : d \in Reach(n)} \ {list_end})
    <3>1. PICK m \in 0 .. n + 1 : \E k : Path(k, m) /\ k[m] = o
      BY <2>1
    <3>2. PICK k : Path(k, m) /\ k[m] = o
      BY <3>1
    <3>3. CASE m \in 0 .. n
      BY <2>1, <3>2, <3>3
    <3>4. CASE m = n + 1
      <4> DEFINE h == [i \in 0 .. n |-> k[i]]
      <4>1. k[n] \in Offset /\ o = next_node[k[n]] /\ o # list_end
        BY <3>2, <3>4 DEF Path
      <4>2. Path(h, n) /\ h[n] = k[n]
        BY <3>2, <3>4 DEF Path
      <4> HIDE DEF h
      <4>3. k[n] \in Reach(n)
        BY <4>1, <4>2
      <4> HIDE DEF Reach
      <4> QED
        BY <4>1, <4>3
    <3> QED
      BY <3>1, <3>3, <3>4
  <2>2. ASSUME NEW o \in Reach(n) PROVE o \in Reach(n + 1)
    BY <2>2
  <2>3. ASSUME NEW o \in Reach(n), next_node[o] # list_end PROVE next_node[o] \in Reach(n + 1)
    <3>1. PICK m \in 0 .. n : \E k : Path(k, m) /\ k[m] = o
      BY <2>3
    <3>2. PICK k : Path(k, m) /\ k[m] = o
      BY <3>1
    <3> DEFINE h == [i \in 0 .. m + 1 |-> IF i = m + 1 THEN next_node[o] ELSE k[i]]
    <3>3. next_node[o] \in Offset \ {list_end} /\ m \in Nat /\ m + 1 \in 0 .. n + 1
      BY <2>3, Types
    <3>4. h \in [0 .. m + 1 -> Offset \ {list_end}] /\ h[0] = freelist /\ h[m + 1] = next_node[o]
      BY <3>2, <3>3 DEF Path
    <3>5. ASSUME NEW i \in 1 .. m + 1 PROVE h[i] = next_node[h[i - 1]]
      <4>1. i - 1 \in 0 .. m /\ i - 1 # m + 1 /\ i \in 0 .. m + 1 /\ i - 1 \in 0 .. m + 1
        BY <3>3
      <4>2. CASE i = m + 1
        BY <3>2, <3>3, <4>1, <4>2
      <4>3. CASE i # m + 1
        BY <3>2, <3>3, <4>1, <4>3 DEF Path
      <4> QED
        BY <4>2, <4>3
    <3> HIDE DEF h
    <3>6. Path(h, m + 1)
      BY <3>4, <3>5 DEF Path
    <3> QED
      BY <3>3, <3>4, <3>6
  <2> HIDE DEF Reach
  <2> QED
    BY <2>1, <2>2, <2>3
<1> HIDE DEF Reach
<1>3. Eq(g)
  <2>1. ASSUME NEW n \in Nat, n # 0
        PROVE  g[n] = g[n - 1] \cup ({next_node[o] : o \in g[n - 1]} \ {list_end})
    <3>1. n - 1 \in Nat /\ (n - 1) + 1 = n
      BY <2>1
    <3>2. Reach(n) = Reach(n - 1) \cup ({next_node[o] : o \in Reach(n - 1)} \ {list_end})
      BY <1>2, <3>1
    <3>3. g[n] = Reach(n) /\ g[n - 1] = Reach(n - 1)
      BY <3>1
    <3> QED
      BY <3>2, <3>3
  <2>2. g[0] = {freelist} \ {NULL, list_end}
    BY <1>1
  <2> QED
    BY <2>1, <2>2
<1> HIDE DEF g
<1>4. Eq(Visited)
  BY <1>3 DEF Visited
<1>5. Visited[0] = {freelist} \ {NULL, list_end}
  BY <1>4
<1>6. ASSUME NEW n \in Nat
      PROVE  Visited[n + 1] = Visited[n] \cup ({next_node[o] : o \in Visited[n]} \ {list_end})
  <2>1. n + 1 \in Nat /\ n + 1 # 0 /\ (n + 1) - 1 = n
    OBVIOUS
  <2> QED
    BY <1>4, <2>1
<1> QED
  BY <1>5, <1>6

\* Whatever holds the head and is closed under next_node holds the list.
LEMMA ListWithin ==
    ASSUME TypeOK, NEW S, freelist \in S \cup {NULL, list_end},
           \A o \in S : next_node[o] \in S \cup {list_end}
    PROVE  FreeChunks \subseteq S
<1> DEFINE T == {n \in Nat : ~(Visited[n] \subseteq S)}
<1>1. 0 \notin T
  BY VisitedIs
<1>2. ASSUME NEW n \in Nat, n + 1 \in T PROVE n \in T
  BY <1>2, VisitedIs
<1> HIDE DEF T
<1>3. T = {}
  <2>1. T \in SUBSET Nat
    BY DEF T
  <2> QED
    BY <1>1, <1>2, <2>1, NoLeast
<1>4. HeapNodes \div NodesPerAlignment + 1 \in Nat
  BY Grid
<1> QED
  BY <1>3, <1>4 DEF T, FreeChunks

\* Every step keeps the invariant.
LEMMA IInvHolds == Spec => []HeapIInv
<1>1. ASSUME HeapIInv, [Next]_vars PROVE HeapIInv'
  <2>1. CASE \E ptr \in SystemPtr : SystemMalloc(ptr)
    BY <1>1, <2>1, SystemMallocKeeps
  <2>2. CASE \E bytes \in Sizes : fallback_malloc(bytes)
    BY <1>1, <2>2, MallocKeeps
  <2>3. CASE MallocSplit
    BY <1>1, <2>3, MallocSplitKeeps
  <2>4. CASE MallocTake
    BY <1>1, <2>4, MallocTakeKeeps
  <2>5. CASE MallocStep
    BY <1>1, <2>5, MallocStepKeeps
  <2>6. CASE MallocNull
    BY <1>1, <2>6, MallocNullKeeps
  <2>7. CASE \E ptr \in LivePtrs : fallback_free(ptr)
    BY <1>1, <2>7, FallbackFreeKeeps
  <2>8. CASE \E ptr \in LivePtrs : SystemFree(ptr)
    BY <1>1, <2>8, SystemFreeKeeps
  <2>9. CASE FreeAppend
    BY <1>1, <2>9, FreeAppendKeeps
  <2>10. CASE FreePrepend
    BY <1>1, <2>10, FreePrependKeeps
  <2>11. CASE FreeStep
    BY <1>1, <2>11, FreeStepKeeps
  <2>12. CASE FreePush
    BY <1>1, <2>12, FreePushKeeps
  <2>13. CASE UNCHANGED vars
    BY <1>1, <2>13 DEF HeapIInv, TypeOK, HeapIsSound, Linked, Laid, Walked, Passed, Chunks, Placed,
                       Apart, Allocated, nelems, vars, heapVars
  <2> QED
    BY <1>1, <2>1, <2>2, <2>3, <2>4, <2>5, <2>6, <2>7, <2>8, <2>9, <2>10, <2>11, <2>12, <2>13
       DEF Next
<1> QED
  BY InitIInv, <1>1, PTL DEF Spec

\* The chunks of the list, and the offset 0 that a cut list goes on at.
LEMMA ListIsLaid ==
    ASSUME TypeOK, NEW F \in SUBSET Offset, Linked(F), Laid(F)
    PROVE  FreeChunks \subseteq F \cup {0}
<1>1. \A o \in F \cup {0} : next_node[o] \in F \cup {0} \cup {list_end}
  BY DEF Linked, Laid
<1>2. freelist \in F \cup {0} \cup {NULL, list_end}
  BY DEF Linked
<1> QED
  BY <1>1, <1>2, ListWithin

\* Chunks that are apart share no node.
LEMMA ApartCells ==
    ASSUME NEW o \in Nat, NEW d \in Nat, len[o] \in Nat, len[d] \in Nat, Apart(o, d)
    PROVE  Cells(o) \cap Cells(d) = {}
  BY DEF Cells, Apart

\* The invariant says that blocks are sound.
LEMMA HeapIsOrderly == HeapIInv => HeapInv
<1> SUFFICES ASSUME HeapIInv PROVE BlocksAreSound
  BY DEF HeapIInv, HeapInv
<1>1. PICK F \in SUBSET Offset, S \in SUBSET Offset : HeapIsSound(F, S)
  BY DEF HeapIInv
<1>2. TypeOK /\ Linked(F) /\ Laid(F)
  BY <1>1 DEF HeapIInv, HeapIsSound
<1> SUFFICES ASSUME NEW o \in Allocated
             PROVE  /\ (o + 1) % NodesPerAlignment = 0
                    /\ Cells(o) \subseteq getFirstAlignedNodeInHeap .. HeapNodes - 1
                    /\ (len[o] - 1) * NodeSize >= blocks[o]
                    /\ \A d \in (Allocated \cup FreeChunks) \ {o} : Cells(o) \cap Cells(d) = {}
                    /\ op = "free" => Cells(o) \cap Cells(cp) = {}
  BY DEF BlocksAreSound
<1>3. \A d \in Chunks(F) : d \in Nat /\ len[d] \in Nat
  BY <1>2, ChunkFacts
<1>4. o \in Chunks(F)
  BY DEF Chunks
<1>5. (o + 1) % NodesPerAlignment = 0 /\ (len[o] - 1) * NodeSize >= blocks[o]
  BY <1>2, <1>4, ChunkFacts DEF Laid
<1>6. Cells(o) \subseteq getFirstAlignedNodeInHeap .. HeapNodes - 1
  <2>1. o >= getFirstAlignedNodeInHeap /\ o + len[o] <= HeapNodes
    BY <1>2, <1>4, ChunkFacts, Grid
  <2> QED
    BY <1>3, <1>4, <2>1, Grid DEF Cells
<1>7. ASSUME NEW d \in Chunks(F), d # o PROVE Cells(o) \cap Cells(d) = {}
  BY <1>2, <1>3, <1>4, <1>7, ChunkFacts, ApartCells
<1>8. Cells(0) = {}
  BY <1>2 DEF Laid, Cells
<1>9. \A d \in (Allocated \cup FreeChunks) \ {o} : Cells(o) \cap Cells(d) = {}
  <2>1. Allocated \cup FreeChunks \subseteq Chunks(F) \cup {0}
    BY <1>2, ListIsLaid DEF Chunks
  <2> QED
    BY <1>7, <1>8, <2>1
<1>10. op = "free" => Cells(o) \cap Cells(cp) = {}
  BY <1>2, <1>7 DEF Laid, Chunks
<1> QED
  BY <1>5, <1>6, <1>9, <1>10

\* Blocks are aligned, inside the heap, as large as was asked for, and share no
\* node with another block, the free list or a chunk being freed: HeapInv of
\* fallback_malloc and fallback_free, for every heap.
THEOREM HeapStaysOrderly == Spec => []HeapInv
  BY IInvHolds, HeapIsOrderly, PTL

\* Where a block goes back to is told by its address, and the address is right:
\* is_fallback_ptr as __aligned_free_with_fallback uses it.
THEOREM BlocksReturnHome == Spec => FreedWhereAllocated
<1>1. ASSUME HeapIInv, NEW ptr \in LivePtrs
      PROVE  /\ fallback_free(ptr) => ptr - 1 \in Allocated
             /\ SystemFree(ptr) => ptr \in system
  <2>1. PICK F \in SUBSET Offset, S \in SUBSET Offset : HeapIsSound(F, S)
    BY <1>1 DEF HeapIInv
  <2>2. TypeOK /\ Laid(F)
    BY <1>1, <2>1 DEF HeapIInv, HeapIsSound
  <2>3. \A o \in Allocated : o \in Nat /\ is_fallback_ptr(o + 1)
    BY <2>2, BlocksAreRecognised
  <2>4. \A s \in system : ~is_fallback_ptr(s)
    <3>1. \A s \in system : s \in Nat /\ s > HeapNodes /\ HeapNodes \in Nat
      BY <2>2, FallbackAssumption DEF TypeOK
    <3> QED
      BY <3>1 DEF is_fallback_ptr
  <2>5. CASE ptr \in system
    BY <2>4, <2>5 DEF fallback_free
  <2>6. CASE ptr \notin system
    <3>1. PICK o \in Allocated : ptr = o + 1
      BY <2>6 DEF LivePtrs
    <3>2. ptr - 1 = o /\ is_fallback_ptr(ptr)
      BY <2>3, <3>1
    <3> QED
      BY <3>2 DEF SystemFree
  <2> QED
    BY <2>5, <2>6
<1>2. HeapIInv => [ReturnedHome]_vars
  BY <1>1 DEF ReturnedHome
<1> QED
  BY IInvHolds, <1>2, PTL DEF FreedWhereAllocated

\* fallback_malloc returns NULL only after passing every chunk of the free list,
\* each too small.
THEOREM NullMeansNoRoom == Spec => NullOnlyWhenFull
<1>1. ASSUME HeapIInv, MallocNull PROVE \A o \in FreeChunks : len[o] < nelems
  <2>1. PICK F \in SUBSET Offset, S \in SUBSET Offset : HeapIsSound(F, S)
    BY <1>1 DEF HeapIInv
  <2>2. op = "malloc" /\ p = list_end /\ TypeOK
    BY <1>1 DEF MallocNull, HeapIInv
  <2>3. freelist \in S \cup {list_end} /\ \A o \in S : len[o] < nelems /\ next_node[o] \in S \cup {list_end}
    BY <2>1, <2>2 DEF HeapIsSound, Passed
  <2>4. FreeChunks \subseteq S
    BY <2>2, <2>3, ListWithin
  <2> QED
    BY <2>3, <2>4
<1>2. HeapIInv => [MallocNull => \A o \in FreeChunks : len[o] < nelems]_vars
  BY <1>1
<1> QED
  BY IInvHolds, <1>2, PTL DEF NullOnlyWhenFull
=============================================================================
