---------------------- MODULE IdentityDictionary_proofs ---------------------
(***************************************************************************)
(* Proofs about the dictionaries, for any keys, hash function, capacities  *)
(* and number of operations.                                               *)
(***************************************************************************)
EXTENDS IdentityDictionary, OpenAddressing_proofs

-----------------------------------------------------------------------------
\* The inductive invariant is the conjunction of the invariants that are
\* model-checked: none of them is inductive alone.
IInv == TypeOK /\ KeysUnique /\ Searchable /\ TallyCounts /\ HasRoom

\* The table of keys that the scans look at.
LEMMA KeyTable ==
  ASSUME TypeOK
  PROVE  /\ KeyAt \in Tables(arraySize) /\ Occupied(KeyAt, arraySize) = Used
         /\ \A i \in ArraySlots: KeyAt[i] = nil <=> array[i] = nil
         /\ \A i \in Used: KeyAt[i] = KeyOf[array[i]]
<1>1. \A i \in ArraySlots: array[i] # nil => KeyAt[i] \in Keys /\ KeyAt[i] # nil
  BY DictionaryAssumption, HashAssumption DEF KeyAt, TypeOK
<1> QED BY <1>1 DEF KeyAt, Tables, Occupied, Used, ArraySlots

LEMMA EmptyTable ==
  /\ Used = {} => Searchable
  /\ Used' = {} => Searchable'
<1>1. Used = {} => Searchable
  BY DictionaryAssumption, HashAssumption
    DEF Searchable, AllReachable, Occupied, KeyAt, Used, ArraySlots, Slots
<1>2. Used' = {} => Searchable'
  BY DictionaryAssumption, HashAssumption
    DEF Searchable, AllReachable, Occupied, KeyAt, Used, ArraySlots, Slots
<1> QED BY <1>1, <1>2

\* The array always has an empty slot, even while it grows, so a scan stops: at
\* the association of the key, or at an empty slot when it has none.
LEMMA EmptySlot ==
  ASSUME IInv
  PROVE  \E i \in ArraySlots: KeyAt[i] = nil
<1>1. tally < arraySize
  BY DEF IInv, TypeOK, HasRoom, FullCondition
<1> QED BY <1>1, KeyTable, OccupiedFinite
      DEF IInv, TypeOK, TallyCounts, ArraySlots

LEMMA ScanStops ==
  ASSUME IInv, NEW k \in Keys
  PROVE  Scan(k) \in ArraySlots
BY EmptySlot, KeyTable, ScanForFirst DEF IInv, TypeOK, Scan, ArraySlots

LEMMA KeyPresent ==
  ASSUME IInv, NEW k \in Keys, array[Scan(k)] # nil
  PROVE  Scan(k) \in Used /\ KeyOf[array[Scan(k)]] = k
<1>1. KeyAt[Scan(k)] # nil
  BY ScanStops, KeyTable DEF IInv
<1>2. Scan(k) \in Occupied(KeyAt, arraySize) /\ KeyAt[Scan(k)] = k
  BY <1>1, EmptySlot, KeyTable, ScanPresent DEF IInv, TypeOK, Scan, ArraySlots
<1> QED BY <1>2, KeyTable DEF IInv

LEMMA KeyAbsent ==
  ASSUME IInv, NEW k \in Keys, array[Scan(k)] = nil
  PROVE  \A j \in Used: KeyOf[array[j]] # k
<1>1. KeyAt[Scan(k)] = nil
  BY ScanStops, KeyTable DEF IInv
<1>2. \A j \in Occupied(KeyAt, arraySize): KeyAt[j] # k
  BY <1>1, EmptySlot, KeyTable, ScanAbsent
    DEF IInv, TypeOK, Scan, ArraySlots, Searchable
<1> QED BY <1>2, KeyTable DEF IInv

\* Storing an association where the scan for its key stops keeps the array a
\* hash table, and counts one more exactly when the slot was empty.
LEMMA StoreAssociation ==
  ASSUME IInv, NEW a \in Associations, NEW i, i = Scan(KeyOf[a]),
         arraySize' = arraySize, array' = [array EXCEPT ![i] = a]
  PROVE  /\ i \in ArraySlots
         /\ array' \in [ArraySlots -> Associations \union {nil}]
         /\ Used' = Used \union {i}
         /\ \A j, l \in Used': KeyOf[array'[j]] = KeyOf[array'[l]] => j = l
         /\ Searchable'
         /\ Cardinality(Used') = IF array[i] = nil THEN tally + 1 ELSE tally
<1>0. KeyOf[a] \in Keys /\ a # nil /\ arraySize \in Nat \ {0}
  BY DictionaryAssumption DEF IInv, TypeOK
<1>1. i \in ArraySlots
  BY <1>0, ScanStops
<1>2. array' \in [ArraySlots -> Associations \union {nil}] /\ ArraySlots' = ArraySlots
  BY <1>1 DEF IInv, TypeOK, ArraySlots
<1>3. array'[i] = a /\ \A j \in ArraySlots: j # i => array'[j] = array[j]
  BY <1>1 DEF IInv, TypeOK
<1>4. KeyAt' = Stored(KeyAt, i, KeyOf[a])
  BY <1>0, <1>1, <1>2, <1>3 DEF KeyAt, Stored
<1>5. KeysOnce(KeyAt, arraySize)
  BY KeyTable DEF IInv, KeysUnique, KeysOnce
<1>6. /\ Occupied(KeyAt', arraySize) = Occupied(KeyAt, arraySize) \union {i}
      /\ AllReachable(KeyAt', arraySize)
      /\ Cardinality(Occupied(KeyAt', arraySize)) =
           IF KeyAt[i] = nil THEN Cardinality(Occupied(KeyAt, arraySize)) + 1
                             ELSE Cardinality(Occupied(KeyAt, arraySize))
  <2>1. /\ KeyAt \in Tables(arraySize) /\ AllReachable(KeyAt, arraySize)
        /\ \E j \in Slots(arraySize): KeyAt[j] = nil
        /\ i = ScanFor(KeyOf[a], KeyAt, arraySize)
    BY EmptySlot, KeyTable DEF IInv, Scan, ArraySlots, Searchable
  <2> QED BY <1>0, <1>4, <1>5, <2>1, StoreSlot
<1>7. Used' = Used \union {i}
  BY <1>0, <1>1, <1>2, <1>3 DEF Used
<1>8. \A j \in Used: j # i => KeyOf[array[j]] # KeyOf[a]
  <2>1. CASE array[i] = nil
    BY <2>1, <1>0, KeyAbsent
  <2>2. CASE array[i] # nil
    BY <2>2, <1>0, KeyPresent DEF IInv, KeysUnique
  <2> QED BY <2>1, <2>2
<1>9. \A j, l \in Used': KeyOf[array'[j]] = KeyOf[array'[l]] => j = l
  BY <1>3, <1>7, <1>8 DEF IInv, KeysUnique, Used
<1>10. Cardinality(Used') = IF array[i] = nil THEN tally + 1 ELSE tally
  BY <1>1, <1>6, <1>7, KeyTable DEF IInv, TallyCounts
<1> QED BY <1>1, <1>2, <1>6, <1>7, <1>9, <1>10 DEF Searchable

\* The steps of the operations, on the part of the state each can disturb.
LEMMA InsertKeeps ==
  ASSUME IInv, phase = "ready", NEW a \in Associations, NEW i,
         i = Scan(KeyOf[a]), array[i] = nil, Insert(i, a),
         value' \in [Associations -> Values \union {nil}],
         answer' \in Answers
  PROVE  IInv'
<1> DEFINE filled == [array EXCEPT ![i] = a]
<1>0. KeyOf[a] \in Keys /\ a # nil
  BY DictionaryAssumption
<1>1. i \in ArraySlots
  BY <1>0, ScanStops
<1>2. Waiting = {}
  BY DEF Waiting, IInv, HasRoom, TypeOK
<1>3. CASE FullCondition(arraySize, tally + 1)
  <2>1. /\ oldArray' = filled /\ oldSize' = arraySize /\ next' = 0
        /\ phase' = "growing" /\ tally' = 0
        /\ arraySize' = GrownSize(arraySize) /\ array' = EmptyArray(GrownSize(arraySize))
    BY <1>3 DEF Insert, StartGrowth
  <2>2. GrownSize(arraySize) \in Nat \ {0} /\ GrownSize(arraySize) >= 4 /\ 2 * arraySize <= GrownSize(arraySize)
    BY DEF GrownSize, IInv, TypeOK
  <2>3. array' \in [ArraySlots' -> {nil}] /\ Used' = {}
    BY <2>1 DEF EmptyArray, ArraySlots, Slots, Used
  <2>4. filled \in [ArraySlots -> Associations \union {nil}]
    BY <1>1 DEF IInv, TypeOK
  <2>5. TypeOK'
    BY <2>1, <2>2, <2>3, <2>4 DEF IInv, TypeOK, ArraySlots, Slots
  <2>6. KeysUnique'
    <3>1. Waiting' = Used \union {i}
      BY <1>0, <1>1, <2>1, <2>4 DEF Waiting, Used, ArraySlots, Slots, IInv, TypeOK
    <3>2. \A j \in Used: KeyOf[array[j]] # KeyOf[a]
      BY <1>0, KeyAbsent
    <3>3. filled[i] = a /\ \A j \in Used: j # i => filled[j] = array[j]
      BY <1>1 DEF IInv, TypeOK, Used
    <3>4. \A j, l \in Used \union {i}: KeyOf[filled[j]] = KeyOf[filled[l]] => j = l
      BY <3>2, <3>3 DEF IInv, KeysUnique
    <3> QED BY <2>1, <2>3, <3>1, <3>4 DEF KeysUnique
  <2>7. Searchable' /\ TallyCounts'
    BY <2>1, <2>3, FS_EmptySet, EmptyTable DEF TallyCounts
  <2>8. HasRoom'
    BY <2>1, <2>2 DEF HasRoom, IInv, TypeOK
  <2> QED BY <2>5, <2>6, <2>7, <2>8 DEF IInv
<1>4. CASE ~FullCondition(arraySize, tally + 1)
  <2>1. /\ array' = filled /\ tally' = tally + 1 /\ arraySize' = arraySize
        /\ oldArray' = oldArray /\ oldSize' = oldSize
        /\ next' = next /\ phase' = phase
    BY <1>4 DEF Insert, growth
  <2>2. /\ array' \in [ArraySlots -> Associations \union {nil}]
        /\ \A j, l \in Used': KeyOf[array'[j]] = KeyOf[array'[l]] => j = l
        /\ Searchable'
        /\ Cardinality(Used') = tally + 1
    BY <2>1, StoreAssociation
  <2>3. TypeOK'
    BY <2>1, <2>2 DEF IInv, TypeOK, ArraySlots, Slots
  <2>4. KeysUnique'
    BY <1>2, <2>1, <2>2 DEF KeysUnique, Waiting
  <2>5. TallyCounts'
    BY <2>1, <2>2 DEF TallyCounts
  <2>6. HasRoom'
    BY <1>4, <2>1 DEF HasRoom, IInv, TypeOK, FullCondition
  <2> QED BY <2>2, <2>3, <2>4, <2>5, <2>6 DEF IInv
<1> QED BY <1>3, <1>4

\* Storing over the association of the same key.
LEMMA ReplaceKeeps ==
  ASSUME IInv, phase = "ready", NEW a \in Associations, NEW i,
         i = Scan(KeyOf[a]), array[i] # nil,
         array' = [array EXCEPT ![i] = a],
         UNCHANGED <<arraySize, tally, growth>>, answer' \in Answers,
         value' \in [Associations -> Values \union {nil}]
  PROVE  IInv'
<1>1. /\ arraySize' = arraySize /\ tally' = tally
      /\ oldArray' = oldArray /\ oldSize' = oldSize /\ next' = next /\ phase' = phase
  BY DEF growth
<1>2. /\ array' \in [ArraySlots -> Associations \union {nil}]
      /\ \A j, l \in Used': KeyOf[array'[j]] = KeyOf[array'[l]] => j = l
      /\ Searchable'
      /\ Cardinality(Used') = tally
  BY <1>1, StoreAssociation
<1>3. TypeOK'
  BY <1>1, <1>2 DEF IInv, TypeOK, ArraySlots, Slots
<1>4. KeysUnique'
  BY <1>1, <1>2 DEF KeysUnique, Waiting, IInv, HasRoom, TypeOK
<1>5. TallyCounts' /\ HasRoom'
  BY <1>1, <1>2 DEF TallyCounts, HasRoom, IInv
<1> QED BY <1>2, <1>3, <1>4, <1>5 DEF IInv

\* A step that touches neither the array nor a growth.
LEMMA ValueKeeps ==
  ASSUME IInv, UNCHANGED <<table, growth>>,
         value' \in [Associations -> Values \union {nil}],
         answer' \in Answers
  PROVE  IInv'
<1>1. /\ array' = array /\ arraySize' = arraySize /\ tally' = tally
      /\ oldArray' = oldArray /\ oldSize' = oldSize /\ next' = next /\ phase' = phase
  BY DEF table, growth
<1>2. TypeOK' /\ TallyCounts' /\ HasRoom'
  BY <1>1 DEF IInv, TypeOK, ArraySlots, Slots, TallyCounts, Used, HasRoom
<1>3. KeysUnique'
  BY <1>1 DEF IInv, KeysUnique, Used, ArraySlots, Slots, Waiting
<1>4. Searchable'
  BY <1>1 DEF IInv, Searchable, KeyAt, Used, ArraySlots, Slots
<1> QED BY <1>2, <1>3, <1>4 DEF IInv

\* One turn of the growth loop: the association goes into an empty slot, and
\* never fills the new array.
LEMMA ReinsertKeeps ==
  ASSUME IInv, Reinsert
  PROVE  IInv'
<1>1. /\ phase = "growing" /\ next < oldSize /\ next' = next + 1
      /\ value' = value /\ oldArray' = oldArray /\ oldSize' = oldSize
      /\ answer' = answer
  BY DEF Reinsert
<1>2. /\ next \in 0 .. oldSize - 1 /\ oldArray[next] \in Associations \union {nil}
  BY <1>1 DEF IInv, TypeOK
<1>3. Waiting' = Waiting \ {next}
  BY <1>1, <1>2 DEF Waiting, IInv, TypeOK
<1>4. CASE oldArray[next] = nil
  <2>1. UNCHANGED <<table, phase>>
    BY <1>4 DEF Reinsert
  <2>2. /\ array' = array /\ arraySize' = arraySize /\ tally' = tally /\ phase' = phase
    BY <2>1 DEF table
  <2>3. TypeOK' /\ TallyCounts' /\ HasRoom'
    BY <1>1, <1>2, <2>2 DEF IInv, TypeOK, ArraySlots, Slots, TallyCounts, Used, HasRoom
  <2>4. KeysUnique'
    BY <1>1, <1>3, <2>2 DEF IInv, KeysUnique, Used, ArraySlots, Slots
  <2>5. Searchable'
    BY <2>2 DEF IInv, Searchable, KeyAt, Used, ArraySlots, Slots
  <2> QED BY <2>3, <2>4, <2>5 DEF IInv
<1>5. CASE oldArray[next] # nil
  <2> DEFINE a == oldArray[next]
             i == Scan(KeyOf[a])
  <2>0. a \in Associations /\ KeyOf[a] \in Keys /\ next \in Waiting
    BY <1>2, <1>5, DictionaryAssumption DEF Waiting
  <2>1. /\ array' = [array EXCEPT ![i] = a] /\ arraySize' = arraySize
        /\ tally' = IF array[i] = nil THEN tally + 1 ELSE tally
        /\ phase' = IF array[i] = nil /\ FullCondition(arraySize, tally + 1)
                    THEN "nested" ELSE phase
    BY <1>5 DEF Reinsert
  <2>2. array[i] = nil
    BY <2>0, KeyPresent DEF IInv, KeysUnique
  <2>3. /\ i \in ArraySlots
        /\ array' \in [ArraySlots -> Associations \union {nil}]
        /\ Used' = Used \union {i}
        /\ \A j, l \in Used': KeyOf[array'[j]] = KeyOf[array'[l]] => j = l
        /\ Searchable'
        /\ Cardinality(Used') = tally + 1
    BY <2>0, <2>1, <2>2, StoreAssociation
  <2>4. ~FullCondition(arraySize, tally + 1)
    BY <1>1, <1>2 DEF FullCondition, IInv, HasRoom, TypeOK
  <2>5. tally' = tally + 1 /\ phase' = "growing"
    BY <1>1, <2>1, <2>2, <2>4
  <2>6. TypeOK'
    BY <1>1, <1>2, <2>1, <2>3, <2>5 DEF IInv, TypeOK, ArraySlots, Slots
  <2>7. KeysUnique'
    <3>1. array'[i] = a /\ \A j \in Used: j # i => array'[j] = array[j]
      BY <2>1, <2>3 DEF IInv, TypeOK, Used
    <3>2. \A j \in Used', l \in Waiting': KeyOf[array'[j]] # KeyOf[oldArray[l]]
      BY <1>3, <2>0, <2>3, <3>1 DEF IInv, KeysUnique
    <3> QED BY <1>1, <1>3, <2>3, <3>2 DEF IInv, KeysUnique
  <2>8. TallyCounts' /\ HasRoom'
    BY <1>1, <1>2, <2>1, <2>3, <2>5 DEF TallyCounts, HasRoom, IInv, TypeOK
  <2> QED BY <2>3, <2>6, <2>7, <2>8 DEF IInv
<1> QED BY <1>4, <1>5

LEMMA InitKeeps == Init => IInv
<1> SUFFICES ASSUME Init PROVE IInv
  OBVIOUS
<1>1. arraySize \in Nat \ {0} /\ oldSize = 0 /\ next = 0 /\ phase = "ready"
  BY DictionaryAssumption DEF Init
<1>2. array \in [ArraySlots -> {nil}] /\ Used = {} /\ Waiting = {}
  BY <1>1 DEF Init, EmptyArray, ArraySlots, Slots, Used, Waiting
<1>3. TypeOK
  BY <1>1, <1>2 DEF Init, TypeOK, EmptyArray
<1>4. KeysUnique /\ Searchable
  BY <1>2, EmptyTable DEF KeysUnique
<1>5. TallyCounts
  BY <1>2, FS_EmptySet DEF Init, TallyCounts
<1>6. HasRoom
  BY <1>1 DEF Init, HasRoom, FullCondition
<1> QED BY <1>3, <1>4, <1>5, <1>6 DEF IInv

LEMMA NextKeeps == IInv /\ [Next]_vars => IInv'
<1> SUFFICES ASSUME IInv, [Next]_vars PROVE IInv'
  OBVIOUS
<1>0. /\ value \in [Associations -> Values \union {nil}]
      /\ answer \in Answers
      /\ array \in [ArraySlots -> Associations \union {nil}]
  BY DEF IInv, TypeOK
<1>1. ASSUME NEW a \in Associations, NEW v \in Values, AddAssociation(a, v)
      PROVE  IInv'
  <2>0. answer' \in Answers
    BY <1>1, DictionaryAssumption DEF AddAssociation, Answers
  <2>1. CASE array[Scan(KeyOf[a])] # nil
    BY <1>0, <1>1, <2>0, <2>1, ReplaceKeeps DEF AddAssociation, Passed
  <2>2. CASE array[Scan(KeyOf[a])] = nil
    BY <1>0, <1>1, <2>0, <2>2, InsertKeeps DEF AddAssociation, Passed
  <2> QED BY <2>1, <2>2
<1>2. ASSUME NEW a \in Associations, NEW v \in Values,
             AddAssociationIfNotExistent(a, v)
      PROVE  IInv'
  <2>0. KeyOf[a] \in Keys
    BY DictionaryAssumption
  <2>3. answer' \in Answers
    BY <1>0, <1>2, <2>0, ScanStops DEF AddAssociationIfNotExistent, Answers
  <2>1. CASE array[Scan(KeyOf[a])] = nil
    BY <1>0, <1>2, <2>1, <2>3, InsertKeeps DEF AddAssociationIfNotExistent, Passed
  <2>2. CASE array[Scan(KeyOf[a])] # nil
    BY <1>0, <1>2, <2>2, <2>3, ValueKeeps
      DEF AddAssociationIfNotExistent, Passed
  <2> QED BY <2>1, <2>2
<1>3. ASSUME NEW k \in Keys, NEW v \in Values, AtPut(k, v)
      PROVE  IInv'
  <2>0. answer' \in Answers
    BY <1>3 DEF AtPut, Answers
  <2>1. CASE array[Scan(k)] = nil
    BY <1>0, <1>3, <2>0, <2>1, InsertKeeps DEF AtPut
  <2>2. CASE array[Scan(k)] # nil
    BY <1>0, <1>3, <2>0, <2>2, ValueKeeps DEF AtPut
  <2> QED BY <2>1, <2>2
<1>4. ASSUME NEW k \in Keys, AssociationAt(k)
      PROVE  IInv'
  <2>1. array[Scan(k)] \in Associations \union {nil}
    BY <1>0, ScanStops
  <2>2. answer' \in Answers
    BY <1>4, <2>1 DEF AssociationAt, Answers
  <2> QED BY <1>0, <1>4, <2>2, ValueKeeps DEF AssociationAt, growth, table
<1>5. ASSUME NEW k \in Keys, AtOrNil(k)
      PROVE  IInv'
  <2>1. array[Scan(k)] \in Associations \union {nil}
    BY <1>0, ScanStops
  <2>2. answer' \in Answers
    BY <1>0, <1>5, <2>1 DEF AtOrNil, Answers
  <2> QED BY <1>0, <1>5, <2>2, ValueKeeps DEF AtOrNil, growth, table
<1>6. CASE Reinsert
  BY <1>6, ReinsertKeeps
<1>7. CASE EndGrowth
  <2>1. /\ array' = array /\ arraySize' = arraySize /\ tally' = tally
        /\ value' = value /\ answer' = answer /\ phase = "growing"
        /\ next = oldSize /\ oldArray' = EmptyArray(0) /\ oldSize' = 0
        /\ next' = 0 /\ phase' = "ready"
    BY <1>7 DEF EndGrowth, table
  <2>2. TypeOK' /\ TallyCounts'
    BY <2>1 DEF IInv, TypeOK, ArraySlots, Slots, TallyCounts, Used, EmptyArray
  <2>3. KeysUnique'
    BY <2>1 DEF IInv, KeysUnique, Used, ArraySlots, Slots, Waiting
  <2>4. Searchable'
    BY <2>1 DEF IInv, Searchable, KeyAt, Used, ArraySlots, Slots
  <2>5. HasRoom'
    BY <2>1 DEF IInv, HasRoom, TypeOK, FullCondition
  <2> QED BY <2>2, <2>3, <2>4, <2>5 DEF IInv
<1>8. CASE UNCHANGED vars
  BY <1>0, <1>8, ValueKeeps DEF vars
<1> QED BY <1>1, <1>2, <1>3, <1>4, <1>5, <1>6, <1>7, <1>8 DEF Next

THEOREM Invariance == Spec => []IInv
BY InitKeeps, NextKeeps, PTL DEF Spec

\* The dictionary is always well formed: types, one association per key, none
\* hidden behind an empty slot, the tally exact, and a growth that never grows.
THEOREM WellFormed ==
  Spec => [](TypeOK /\ KeysUnique /\ Searchable /\ TallyCounts /\ HasRoom)
BY Invariance DEF IInv

\* No scan ever fails: the asserts on its index hold in every operation.
THEOREM ScansSucceed == Spec => []ScanSucceeds
<1>1. IInv => ScanSucceeds
  BY ScanStops DEF ScanSucceeds, ArraySlots, Slots, IInv, TypeOK
<1> QED BY <1>1, Invariance, PTL

-----------------------------------------------------------------------------
(***************************************************************************)
(* Refinement.  A key is bound to the one association with that key that   *)
(* the dictionary holds, in the array or in what is left of the old one.   *)
(***************************************************************************)
LEMMA HeldUnique ==
  IInv => \A a, b \in Associations:
             Held(a) /\ Held(b) /\ KeyOf[a] = KeyOf[b] => a = b
BY DEF IInv, KeysUnique, Held

BindingExact ==
  \A k \in Keys:
    /\ BindingOf(k) \in Associations \union {nil}
    /\ \A a \in Associations: BindingOf(k) = a <=> KeyOf[a] = k /\ Held(a)

LEMMA BindingIs == IInv => BindingExact
<1> SUFFICES ASSUME IInv, NEW k \in Keys
             PROVE  /\ BindingOf(k) \in Associations \union {nil}
                    /\ \A a \in Associations:
                          BindingOf(k) = a <=> KeyOf[a] = k /\ Held(a)
  BY DEF BindingExact
<1>1. CASE \E a \in Associations: KeyOf[a] = k /\ Held(a)
  <2>1. BindingOf(k) \in Associations /\ KeyOf[BindingOf(k)] = k /\ Held(BindingOf(k))
    BY <1>1 DEF BindingOf
  <2> QED BY <2>1, HeldUnique
<1>2. CASE ~\E a \in Associations: KeyOf[a] = k /\ Held(a)
  <2>1. BindingOf(k) = nil
    BY <1>2 DEF BindingOf
  <2> QED BY <1>2, <2>1, DictionaryAssumption
<1> QED BY <1>1, <1>2

\* Between operations, a scan finds what the key is bound to.
LEMMA ScanBinding ==
  ASSUME IInv, phase = "ready", NEW k \in Keys
  PROVE  array[Scan(k)] = BindingOf(k)
<1>1. Scan(k) \in ArraySlots /\ array[Scan(k)] \in Associations \union {nil}
  BY ScanStops DEF IInv, TypeOK
<1>2. CASE array[Scan(k)] # nil
  <2>1. KeyOf[array[Scan(k)]] = k /\ Held(array[Scan(k)])
    BY <1>2, KeyPresent DEF Held
  <2> QED BY <1>1, <1>2, <2>1, BindingIs DEF BindingExact
<1>3. CASE array[Scan(k)] = nil
  <2>1. Waiting = {}
    BY DEF IInv, TypeOK, HasRoom, Waiting
  <2>2. \A a \in Associations: Held(a) => KeyOf[a] # k
    BY <1>3, <2>1, KeyAbsent DEF Held
  <2> QED BY <1>3, <2>2 DEF BindingOf
<1> QED BY <1>2, <1>3

LEMMA SameBinding ==
  ASSUME IInv, IInv', \A b \in Associations: Held(b)' <=> Held(b)
  PROVE  Binding' = Binding
<1>1. \A k \in Keys: BindingOf(k)' = BindingOf(k)
  BY DEF BindingOf
<1> QED BY <1>1 DEF Binding

LEMMA NewBinding ==
  ASSUME IInv, IInv', NEW a \in Associations,
         \A b \in Associations:
            Held(b)' <=> (b = a \/ (Held(b) /\ KeyOf[b] # KeyOf[a]))
  PROVE  Binding' = [Binding EXCEPT ![KeyOf[a]] = a]
<1>0. BindingExact'
  BY BindingIs, PTL
<1>1. \A k \in Keys:
        /\ BindingOf(k)' \in Associations \union {nil}
        /\ \A b \in Associations: BindingOf(k)' = b <=> KeyOf[b] = k /\ Held(b)'
  BY <1>0 DEF BindingExact
<1>2. KeyOf[a] \in Keys
  BY DictionaryAssumption
<1>3. BindingOf(KeyOf[a])' = a
  BY <1>1, <1>2
<1>4. ASSUME NEW k \in Keys, k # KeyOf[a]
      PROVE  BindingOf(k)' = BindingOf(k)
  BY <1>1, <1>4, BindingIs DEF BindingExact
<1> QED BY <1>2, <1>3, <1>4 DEF Binding

\* What the dictionary holds after an association is stored where the scan for
\* its key stops, in an empty slot or over the one with the same key.
LEMMA StoreHolds ==
  ASSUME IInv, phase = "ready", NEW a \in Associations, NEW i,
         i = Scan(KeyOf[a]),
         \/ array[i] = nil /\ Insert(i, a)
         \/ /\ array[i] # nil /\ array' = [array EXCEPT ![i] = a]
            /\ UNCHANGED <<arraySize, tally, growth>>
  PROVE  \A b \in Associations:
            Held(b)' <=> (b = a \/ (Held(b) /\ KeyOf[b] # KeyOf[a]))
<1> DEFINE filled == [array EXCEPT ![i] = a]
<1>0. KeyOf[a] \in Keys /\ a # nil
  BY DictionaryAssumption
<1>1. i \in ArraySlots /\ Waiting = {}
  BY <1>0, ScanStops DEF IInv, TypeOK, HasRoom, Waiting
<1>2. filled[i] = a /\ \A j \in ArraySlots: j # i => filled[j] = array[j]
  BY <1>1 DEF IInv, TypeOK
<1>3. \A j \in Used: j # i => KeyOf[array[j]] # KeyOf[a]
  BY <1>0, KeyAbsent, KeyPresent DEF IInv, KeysUnique
<1>4. i \in Used => KeyOf[array[i]] = KeyOf[a]
  BY <1>0, KeyPresent DEF Used
<1>5. \A b \in Associations:
        (\E j \in Used \union {i}: filled[j] = b)
          <=> (b = a \/ (Held(b) /\ KeyOf[b] # KeyOf[a]))
  BY <1>1, <1>2, <1>3, <1>4 DEF Held, Used
<1>6. CASE array[i] = nil /\ FullCondition(arraySize, tally + 1) /\ Insert(i, a)
  <2>1. /\ oldArray' = filled /\ oldSize' = arraySize /\ next' = 0
        /\ arraySize' = GrownSize(arraySize) /\ array' = EmptyArray(GrownSize(arraySize))
    BY <1>6 DEF Insert, StartGrowth
  <2>2. Used' = {}
    BY <2>1 DEF Used, ArraySlots, Slots, EmptyArray
  <2>3. Waiting' = Used \union {i}
    BY <1>0, <1>1, <1>2, <2>1 DEF Waiting, Used, ArraySlots, Slots, IInv, TypeOK
  <2> QED BY <1>5, <2>1, <2>2, <2>3 DEF Held
<1>7. CASE array' = filled /\ UNCHANGED <<arraySize, growth>>
  <2>1. Used' = Used \union {i}
    BY <1>7, StoreAssociation
  <2>2. Waiting' = {}
    BY <1>1, <1>7 DEF Waiting, growth
  <2> HIDE DEF filled
  <2> QED BY <1>5, <1>7, <2>1, <2>2 DEF Held
<1> QED BY <1>6, <1>7 DEF Insert

LEMMA ReinsertHolds ==
  ASSUME IInv, Reinsert
  PROVE  \A b \in Associations: Held(b)' <=> Held(b)
<1>1. /\ next \in 0 .. oldSize - 1 /\ next' = next + 1
      /\ oldArray' = oldArray /\ oldSize' = oldSize
      /\ oldArray[next] \in Associations \union {nil}
  BY DEF Reinsert, IInv, TypeOK
<1>2. Waiting' = Waiting \ {next}
  BY <1>1 DEF Waiting, IInv, TypeOK
<1>3. CASE oldArray[next] = nil
  <2>1. array' = array /\ arraySize' = arraySize /\ Waiting' = Waiting
    BY <1>2, <1>3 DEF Reinsert, table, Waiting
  <2> QED BY <1>1, <2>1 DEF Held, Used, ArraySlots, Slots
<1>4. CASE oldArray[next] # nil
  <2> DEFINE a == oldArray[next]
             i == Scan(KeyOf[a])
  <2>0. a \in Associations /\ KeyOf[a] \in Keys /\ next \in Waiting
    BY <1>1, <1>4, DictionaryAssumption DEF Waiting
  <2>1. array' = [array EXCEPT ![i] = a] /\ arraySize' = arraySize
    BY <1>4 DEF Reinsert
  <2>2. array[i] = nil
    BY <2>0, KeyPresent DEF IInv, KeysUnique
  <2>3. i \in ArraySlots /\ Used' = Used \union {i} /\ i \notin Used
    BY <2>0, <2>1, <2>2, StoreAssociation DEF Used
  <2>4. array'[i] = a /\ \A j \in Used: array'[j] = array[j]
    BY <2>1, <2>3 DEF IInv, TypeOK, Used
  <2> HIDE DEF i
  <2> QED BY <1>1, <1>2, <2>0, <2>3, <2>4 DEF Held
<1> QED BY <1>3, <1>4

\* The initial states are empty maps.
LEMMA InitMaps == Init => Map!Init
<1> SUFFICES ASSUME Init PROVE Map!Init
  OBVIOUS
<1>1. \A b \in Associations: ~Held(b)
  BY DictionaryAssumption DEF Init, EmptyArray, Held, Used, ArraySlots, Slots, Waiting
<1>2. \A k \in Keys: BindingOf(k) = nil
  BY <1>1 DEF BindingOf
<1> QED BY <1>2 DEF Init, Map!Init, Binding

\* Every step is the operation of the map it belongs to; growing is a stutter.
LEMMA NextMaps == IInv /\ IInv' /\ [Next]_vars => [Map!Next]_(Map!vars)
<1> SUFFICES ASSUME IInv, IInv', [Next]_vars PROVE [Map!Next]_(Map!vars)
  OBVIOUS
<1>0. \A a \in Associations: KeyOf[a] \in Keys /\ a # nil
  BY DictionaryAssumption
<1>1. ASSUME NEW a \in Associations, NEW v \in Values, AddAssociation(a, v)
      PROVE  Map!Add(a, v)
  <2>1. Binding' = [Binding EXCEPT ![KeyOf[a]] = a]
    BY <1>1, StoreHolds, NewBinding DEF AddAssociation
  <2> QED BY <1>1, <2>1 DEF AddAssociation, Passed, Map!Add, Map!Passed
<1>2. ASSUME NEW a \in Associations, NEW v \in Values,
             AddAssociationIfNotExistent(a, v)
      PROVE  Map!AddIfNotExistent(a, v)
  <2>1. phase = "ready" /\ Map!Passed(a, v)
    BY <1>2 DEF AddAssociationIfNotExistent, Passed, Map!Passed
  <2>2. Binding[KeyOf[a]] = array[Scan(KeyOf[a])]
    BY <1>0, <2>1, ScanBinding DEF Binding
  <2>3. CASE array[Scan(KeyOf[a])] = nil
    <3>1. Insert(Scan(KeyOf[a]), a) /\ answer' = <<KeyOf[a], a>>
      BY <1>2, <2>3 DEF AddAssociationIfNotExistent
    <3>2. Binding' = [Binding EXCEPT ![KeyOf[a]] = a]
      BY <2>1, <2>3, <3>1, StoreHolds, NewBinding
    <3> QED BY <1>0, <2>1, <2>2, <2>3, <3>1, <3>2 DEF Map!AddIfNotExistent, Binding
  <2>4. CASE array[Scan(KeyOf[a])] # nil
    <3>1. answer' = <<KeyOf[a], Binding[KeyOf[a]]>> /\ UNCHANGED <<table, growth>>
      BY <1>2, <2>2, <2>4 DEF AddAssociationIfNotExistent
    <3>2. \A b \in Associations: Held(b)' <=> Held(b)
      BY <3>1 DEF Held, Used, ArraySlots, Slots, Waiting, table, growth
    <3>3. Binding' = Binding
      BY <3>2, SameBinding
    <3> QED BY <1>0, <2>1, <2>2, <2>4, <3>1, <3>3 DEF Map!AddIfNotExistent, Binding
  <2> QED BY <2>3, <2>4
<1>3. ASSUME NEW k \in Keys, NEW v \in Values, AtPut(k, v)
      PROVE  Map!AtPut(k, v)
  <2>1. phase = "ready" /\ Binding[k] = array[Scan(k)] /\ answer' = <<k, v>>
    BY <1>3, ScanBinding DEF AtPut, Binding
  <2>2. CASE array[Scan(k)] = nil
    <3>1. PICK a \in Associations: /\ value[a] = nil /\ KeyOf[a] = k
                                   /\ Insert(Scan(k), a)
                                   /\ value' = [value EXCEPT ![a] = v]
      BY <1>3, <2>2 DEF AtPut
    <3>2. Binding' = [Binding EXCEPT ![k] = a]
      BY <2>1, <2>2, <3>1, StoreHolds, NewBinding
    <3> QED BY <2>1, <2>2, <3>1, <3>2 DEF Map!AtPut
  <2>3. CASE array[Scan(k)] # nil
    <3>1. value' = [value EXCEPT ![Binding[k]] = v] /\ UNCHANGED <<table, growth>>
      BY <1>3, <2>1, <2>3 DEF AtPut
    <3>2. \A b \in Associations: Held(b)' <=> Held(b)
      BY <3>1 DEF Held, Used, ArraySlots, Slots, Waiting, table, growth
    <3>3. Binding' = Binding
      BY <3>2, SameBinding
    <3> QED BY <2>1, <2>3, <3>1, <3>3 DEF Map!AtPut
  <2> QED BY <2>2, <2>3
<1>4. ASSUME NEW k \in Keys, AssociationAt(k)
      PROVE  Map!AssociationAt(k)
  <2>1. \A b \in Associations: Held(b)' <=> Held(b)
    BY <1>4 DEF AssociationAt, Held, Used, ArraySlots, Slots, Waiting, table, growth
  <2>2. Binding' = Binding
    BY <2>1, SameBinding
  <2> QED BY <1>4, <2>2, ScanBinding DEF AssociationAt, Map!AssociationAt, Binding
<1>5. ASSUME NEW k \in Keys, AtOrNil(k)
      PROVE  Map!AtOrNil(k)
  <2>1. \A b \in Associations: Held(b)' <=> Held(b)
    BY <1>5 DEF AtOrNil, Held, Used, ArraySlots, Slots, Waiting, table, growth
  <2>2. Binding' = Binding
    BY <2>1, SameBinding
  <2> QED BY <1>5, <2>2, ScanBinding DEF AtOrNil, Map!AtOrNil, Binding
<1>6. CASE Reinsert
  <2>1. Binding' = Binding
    BY <1>6, ReinsertHolds, SameBinding
  <2> QED BY <1>6, <2>1 DEF Reinsert, Map!vars
<1>7. CASE EndGrowth
  <2>1. /\ array' = array /\ arraySize' = arraySize /\ oldSize' = 0 /\ next' = 0
        /\ next = oldSize
    BY <1>7 DEF EndGrowth, table
  <2>2. Waiting = {} /\ Waiting' = {}
    BY <2>1 DEF Waiting, IInv, TypeOK
  <2>3. \A b \in Associations: Held(b)' <=> Held(b)
    BY <2>1, <2>2 DEF Held, Used, ArraySlots, Slots
  <2>4. Binding' = Binding
    BY <2>3, SameBinding
  <2> QED BY <1>7, <2>4 DEF EndGrowth, Map!vars
<1>8. CASE UNCHANGED vars
  <2>1. \A b \in Associations: Held(b)' <=> Held(b)
    BY <1>8 DEF vars, Held, Used, ArraySlots, Slots, Waiting, table, growth
  <2>2. Binding' = Binding
    BY <2>1, SameBinding
  <2> QED BY <1>8, <2>2 DEF vars, Map!vars
<1> QED BY <1>1, <1>2, <1>3, <1>4, <1>5, <1>6, <1>7, <1>8 DEF Next, Map!Next

\* The dictionaries implement the map of associations: an operation returns and
\* changes what the map's does, whatever the hashes collide into and whenever
\* the array grows; in particular no binding is lost and only addAssociation
\* replaces the association a key is bound to.
THEOREM Implements == Spec => MapSpec
BY InitMaps, NextMaps, Invariance, PTL DEF Spec, MapSpec, Map!Spec
=============================================================================
