----------------------- MODULE MethodDictionary_proofs ----------------------
(***************************************************************************)
(* Proofs about the method dictionaries, for any selectors, hash function, *)
(* capacities and number of operations.                                    *)
(***************************************************************************)
EXTENDS MethodDictionary, OpenAddressing_proofs

\* The inductive invariant is the conjunction of the invariants that are
\* model-checked: none of them is inductive alone.
IInv == TypeOK /\ SelectorsUnique /\ Searchable /\ NoStrayMethod /\ HasRoom

LEMMA EmptyTable ==
  ASSUME NEW n \in Nat
  PROVE  /\ Occupied(EmptyArray(n), n) = {}
         /\ KeysOnce(EmptyArray(n), n) /\ AllReachable(EmptyArray(n), n)
         /\ EmptyArray(n) \in [Slots(n) -> {nil}]
         /\ Cardinality(Occupied(EmptyArray(n), n)) = 0
<1>1. Occupied(EmptyArray(n), n) = {} /\ EmptyArray(n) \in [Slots(n) -> {nil}]
  BY DEF Occupied, EmptyArray
<1> QED BY <1>1, FS_EmptySet DEF KeysOnce, AllReachable

LEMMA Growing ==
  ASSUME NEW n \in Nat
  PROVE  GrownSize(n) \in Nat /\ GrownSize(n) >= 4 /\ 2 * n <= GrownSize(n)
BY DEF GrownSize

\* Arrays that are not of size 0 always have an empty slot, even while they grow.
LEMMA EmptySlot ==
  ASSUME IInv, arraySize # 0
  PROVE  /\ arraySize \in Nat \ {0} /\ keys \in Tables(arraySize)
         /\ \E i \in Slots(arraySize): keys[i] = nil
<1>1. arraySize \in Nat \ {0} /\ keys \in Tables(arraySize)
  BY DEF IInv, TypeOK, Tables
<1>2. tally < arraySize
  BY <1>1 DEF IInv, TypeOK, HasRoom, FullCondition
<1> QED BY <1>1, <1>2, OccupiedFinite DEF IInv, HasRoom, Used

\* So a scan stops in them, and with size 0 it fails.
LEMMA ScanStops ==
  ASSUME IInv, NEW k \in Keys
  PROVE  IF arraySize = 0 THEN Scan(k) = -1 ELSE Scan(k) \in Slots(arraySize)
<1>1. CASE arraySize = 0
  <2>1. Slots(arraySize) = {}
    BY <1>1 DEF Slots
  <2> QED BY <1>1, <2>1 DEF Scan, ScanFor
<1>2. CASE arraySize # 0
  BY <1>2, EmptySlot, ScanForFirst DEF Scan
<1> QED BY <1>1, <1>2

LEMMA ScanNatural ==
  ASSUME IInv, NEW k \in Keys, ~(Scan(k) < 0)
  PROVE  arraySize # 0 /\ Scan(k) \in Slots(arraySize)
BY ScanStops

LEMMA KeyPresent ==
  ASSUME IInv, NEW k \in Keys, ~(Scan(k) < 0), keys[Scan(k)] # nil
  PROVE  Scan(k) \in Used /\ keys[Scan(k)] = k
BY EmptySlot, ScanNatural, ScanPresent DEF Scan, Used

LEMMA KeyAbsent ==
  ASSUME IInv, NEW k \in Keys, Scan(k) < 0 \/ keys[Scan(k)] = nil
  PROVE  \A j \in Used: keys[j] # k
<1>1. CASE arraySize = 0
  BY <1>1 DEF Used, Occupied, Slots
<1>2. CASE arraySize # 0
  <2>1. keys[Scan(k)] = nil
    BY <1>2, ScanStops DEF Slots
  <2> QED BY <1>2, <2>1, EmptySlot, ScanAbsent DEF Scan, Used, IInv, Searchable
<1> QED BY <1>1, <1>2

\* Storing a selector where the scan for it stops keeps the table searchable,
\* and counts one more exactly when the slot was empty.
LEMMA StoreSelector ==
  ASSUME IInv, NEW k \in Keys, NEW i, i = Scan(k), ~(i < 0),
         NEW stored, stored = [keys EXCEPT ![i] = k]
  PROVE  /\ i \in Slots(arraySize) /\ stored \in Tables(arraySize)
         /\ Occupied(stored, arraySize) = Used \union {i}
         /\ KeysOnce(stored, arraySize) /\ AllReachable(stored, arraySize)
         /\ Cardinality(Occupied(stored, arraySize)) =
              IF keys[i] = nil THEN tally + 1 ELSE tally
<1>1. stored = Stored(keys, i, k)
  BY DEF Stored
<1>2. arraySize # 0
  BY ScanNatural
<1>3. KeysOnce(keys, arraySize) /\ AllReachable(keys, arraySize)
  BY DEF IInv, SelectorsUnique, Searchable
<1>4. /\ i \in Slots(arraySize) /\ stored \in Tables(arraySize)
      /\ Occupied(stored, arraySize) = Occupied(keys, arraySize) \union {i}
      /\ KeysOnce(stored, arraySize) /\ AllReachable(stored, arraySize)
      /\ Cardinality(Occupied(stored, arraySize)) =
           IF keys[i] = nil THEN Cardinality(Occupied(keys, arraySize)) + 1
                            ELSE Cardinality(Occupied(keys, arraySize))
  <2>1. /\ arraySize \in Nat \ {0} /\ keys \in Tables(arraySize)
        /\ \E j \in Slots(arraySize): keys[j] = nil
        /\ i = ScanFor(k, keys, arraySize)
    BY <1>2, EmptySlot DEF Scan
  <2>2. k \in Keys
    OBVIOUS
  <2> QED BY ONLY <1>1, <1>3, <2>1, <2>2, StoreSlot
<1> QED BY <1>4 DEF Used, IInv, HasRoom

\* The steps of the operations, on the part of the state each can disturb.
LEMMA InsertKeeps ==
  ASSUME IInv, phase = "ready", NEW k \in Keys, NEW m \in Methods, NEW i,
         i = Scan(k), ~(i < 0), keys[i] = nil, Insert(i, k, m),
         pending' = NoCall, answer' \in Answers
  PROVE  IInv'
<1> DEFINE stored == [keys EXCEPT ![i] = k]
           filled == [array EXCEPT ![i] = m]
<1>0. k # nil /\ m # nil
  BY HashAssumption, MethodDictionaryAssumption
<1>1. /\ i \in Slots(arraySize) /\ stored \in Tables(arraySize)
      /\ Occupied(stored, arraySize) = Used \union {i}
      /\ KeysOnce(stored, arraySize) /\ AllReachable(stored, arraySize)
      /\ Cardinality(Occupied(stored, arraySize)) = tally + 1
  BY StoreSelector
<1>2. filled \in [Slots(arraySize) -> Methods \union {nil}]
  BY <1>1 DEF IInv, TypeOK
<1>3. \A j \in Slots(arraySize): stored[j] = nil <=> filled[j] = nil
  BY <1>0, <1>1 DEF IInv, TypeOK, NoStrayMethod
<1>4. Waiting = {}
  BY DEF Waiting, IInv, HasRoom, TypeOK
<1>5. CASE FullCondition(arraySize, tally + 1)
  <2>1. /\ oldKeys' = stored /\ oldArray' = filled /\ oldSize' = arraySize
        /\ next' = 0 /\ phase' = "growing" /\ tally' = 0
        /\ arraySize' = GrownSize(arraySize)
        /\ keys' = EmptyArray(arraySize') /\ array' = EmptyArray(arraySize')
    BY <1>5 DEF Insert, StartGrowth
  <2>2. arraySize' \in Nat /\ arraySize' >= 4 /\ 2 * arraySize <= arraySize'
    BY <2>1, Growing DEF IInv, TypeOK
  <2>3. /\ Used' = {} /\ KeysOnce(keys', arraySize') /\ AllReachable(keys', arraySize')
        /\ keys' \in [Slots(arraySize') -> {nil}]
        /\ array' \in [Slots(arraySize') -> {nil}]
        /\ Cardinality(Used') = 0
    BY <2>1, <2>2, EmptyTable DEF Used
  <2> HIDE DEF stored, filled
  <2>4. TypeOK'
    BY <1>1, <1>2, <2>1, <2>2, <2>3 DEF IInv, TypeOK, Tables
  <2>5. SelectorsUnique'
    <3>1. Waiting' = Occupied(stored, arraySize)
      BY <2>1 DEF Waiting, Occupied, Slots
    <3> QED BY <1>1, <2>1, <2>3, <3>1 DEF SelectorsUnique, KeysOnce
  <2>6. NoStrayMethod'
    BY <1>3, <2>1, <2>3 DEF NoStrayMethod
  <2>7. HasRoom'
    BY <2>1, <2>2, <2>3 DEF HasRoom, IInv, TypeOK
  <2> QED BY <2>3, <2>4, <2>5, <2>6, <2>7 DEF IInv, Searchable
<1>6. CASE ~FullCondition(arraySize, tally + 1)
  <2>1. /\ keys' = stored /\ array' = filled /\ tally' = tally + 1
        /\ arraySize' = arraySize /\ oldKeys' = oldKeys /\ oldArray' = oldArray
        /\ oldSize' = oldSize /\ next' = next /\ phase' = phase
    BY <1>6 DEF Insert, growth
  <2> HIDE DEF stored, filled
  <2>2. TypeOK'
    BY <1>1, <1>2, <2>1 DEF IInv, TypeOK, Tables
  <2>3. SelectorsUnique'
    BY <1>1, <1>4, <2>1 DEF SelectorsUnique, Waiting
  <2>4. NoStrayMethod'
    BY <1>3, <2>1 DEF NoStrayMethod, IInv
  <2>5. HasRoom'
    BY <1>1, <1>6, <2>1 DEF HasRoom, IInv, TypeOK, FullCondition, Used
  <2> QED BY <1>1, <2>1, <2>2, <2>3, <2>4, <2>5 DEF IInv, Searchable
<1> QED BY <1>5, <1>6

LEMMA ReplaceKeeps ==
  ASSUME IInv, phase = "ready", NEW k \in Keys, NEW m \in Methods, NEW i,
         i = Scan(k), ~(i < 0), keys[i] # nil, Replace(i, m),
         pending' = NoCall, answer' \in Answers
  PROVE  IInv'
<1>1. /\ keys' = keys /\ array' = [array EXCEPT ![i] = m] /\ tally' = tally
      /\ arraySize' = arraySize /\ oldKeys' = oldKeys /\ oldArray' = oldArray
      /\ oldSize' = oldSize /\ next' = next /\ phase' = phase
  BY DEF Replace, growth
<1>2. i \in Slots(arraySize) /\ m # nil
  BY ScanNatural, MethodDictionaryAssumption
<1>3. TypeOK' /\ NoStrayMethod'
  BY <1>1, <1>2 DEF IInv, TypeOK, NoStrayMethod
<1>4. SelectorsUnique' /\ Searchable'
  BY <1>1 DEF IInv, SelectorsUnique, Searchable, Used, Waiting
<1>5. HasRoom'
  BY <1>1 DEF IInv, HasRoom, Used
<1> QED BY <1>3, <1>4, <1>5 DEF IInv

\* The scan fails with arrays of size 0 only: they grow before the atPut.
LEMMA GrowFirstKeeps ==
  ASSUME IInv, phase = "ready", NEW k \in Keys, NEW m \in Methods,
         Scan(k) < 0, StartGrowth(keys, array),
         pending' = <<k, m>>, answer' = answer
  PROVE  IInv'
<1>1. arraySize = 0 /\ Slots(arraySize) = {}
  BY ScanStops DEF Slots
<1>2. /\ oldKeys' = keys /\ oldArray' = array /\ oldSize' = 0
      /\ next' = 0 /\ phase' = "growing" /\ tally' = 0
      /\ arraySize' = GrownSize(arraySize)
      /\ keys' = EmptyArray(arraySize') /\ array' = EmptyArray(arraySize')
  BY <1>1 DEF StartGrowth
<1>3. arraySize' \in Nat /\ arraySize' >= 4
  BY <1>1, <1>2, Growing
<1>4. /\ Used' = {} /\ KeysOnce(keys', arraySize') /\ AllReachable(keys', arraySize')
      /\ keys' \in [Slots(arraySize') -> {nil}] /\ array' \in [Slots(arraySize') -> {nil}]
      /\ Cardinality(Used') = 0
  BY <1>2, <1>3, EmptyTable DEF Used
<1>5. TypeOK'
  BY <1>1, <1>2, <1>3, <1>4 DEF IInv, TypeOK
<1>6. SelectorsUnique' /\ NoStrayMethod'
  BY <1>1, <1>2, <1>4 DEF SelectorsUnique, Waiting, NoStrayMethod, Slots
<1>7. HasRoom'
  BY <1>2, <1>3, <1>4 DEF HasRoom
<1> QED BY <1>4, <1>5, <1>6, <1>7 DEF IInv, Searchable

LEMMA StoreKeeps ==
  ASSUME IInv, phase = "ready", NEW k \in Keys, NEW m \in Methods, Store(k, m)
  PROVE  IInv'
<1>0. <<k, m>> \in Answers
  BY DEF Answers
<1>1. CASE Scan(k) < 0
  BY <1>1, GrowFirstKeeps DEF Store
<1>2. CASE ~(Scan(k) < 0) /\ keys[Scan(k)] = nil
  BY <1>0, <1>2, InsertKeeps DEF Store
<1>3. CASE ~(Scan(k) < 0) /\ keys[Scan(k)] # nil
  BY <1>0, <1>3, ReplaceKeeps DEF Store
<1> QED BY <1>1, <1>2, <1>3

\* One turn of the growth loop: the selector goes into an empty slot, and never
\* fills the new arrays.
LEMMA ReinsertKeeps ==
  ASSUME IInv, Reinsert
  PROVE  IInv'
<1> DEFINE k == oldKeys[next]
           i == Scan(k)
<1>1. /\ phase = "growing" /\ next < oldSize /\ next' = next + 1
      /\ oldKeys' = oldKeys /\ oldArray' = oldArray /\ oldSize' = oldSize
      /\ pending' = pending /\ answer' = answer
  BY DEF Reinsert
<1>2. /\ next \in 0 .. oldSize - 1 /\ next \in Slots(oldSize)
      /\ k \in Keys \union {nil} /\ oldArray[next] \in Methods \union {nil}
  BY <1>1 DEF IInv, TypeOK, Slots
<1>3. Waiting' = Waiting \ {next}
  BY <1>1, <1>2 DEF Waiting, IInv, TypeOK
<1>4. CASE k = nil
  <2>1. UNCHANGED <<table, phase>>
    BY <1>4 DEF Reinsert
  <2>2. /\ keys' = keys /\ array' = array /\ arraySize' = arraySize
        /\ tally' = tally /\ phase' = phase
    BY <2>1 DEF table
  <2>3. TypeOK' /\ NoStrayMethod'
    BY <1>1, <1>2, <2>2 DEF IInv, TypeOK, NoStrayMethod
  <2>4. SelectorsUnique' /\ Searchable'
    BY <1>1, <1>3, <2>2 DEF IInv, SelectorsUnique, Searchable, Used
  <2>5. HasRoom'
    BY <1>1, <1>2, <2>2 DEF IInv, HasRoom, Used, TypeOK
  <2> QED BY <2>3, <2>4, <2>5 DEF IInv
<1>5. CASE k # nil
  <2>0. k \in Keys /\ next \in Waiting /\ ~(i < 0)
    <3>1. k \in Keys /\ next \in Waiting
      BY <1>2, <1>5 DEF Waiting
    <3>2. arraySize # 0
      BY <1>1 DEF IInv, HasRoom
    <3> HIDE DEF k
    <3> QED BY <3>1, <3>2, ScanStops DEF Slots, IInv, TypeOK
  <2> DEFINE stored == [keys EXCEPT ![i] = k]
             filled == [array EXCEPT ![i] = oldArray[next]]
             added == IF keys[i] = nil THEN 1 ELSE 0
  <2>1. /\ keys' = stored /\ array' = filled /\ arraySize' = arraySize
        /\ tally' = tally + added
        /\ phase' = IF added = 1 /\ FullCondition(arraySize, tally + 1)
                    THEN "nested" ELSE phase
    BY <1>5, <2>0 DEF Reinsert
  <2>2. keys[i] = nil
    BY <2>0, KeyPresent DEF IInv, SelectorsUnique
  <2>3. /\ i \in Slots(arraySize) /\ stored \in Tables(arraySize)
        /\ Occupied(stored, arraySize) = Used \union {i}
        /\ KeysOnce(stored, arraySize) /\ AllReachable(stored, arraySize)
        /\ Cardinality(Occupied(stored, arraySize)) = tally + 1
    <3> HIDE DEF k
    <3> QED BY <2>0, <2>2, StoreSelector
  <2>4. ~FullCondition(arraySize, tally + 1)
    BY <1>1, <1>2 DEF FullCondition, IInv, HasRoom, TypeOK
  <2>5. tally' = tally + 1 /\ phase' = "growing" /\ Used' = Used \union {i}
    BY <1>1, <2>1, <2>2, <2>3, <2>4 DEF Used
  <2>6. oldArray[next] # nil /\ k # nil
    BY <1>2, <1>5 DEF IInv, NoStrayMethod
  <2>7. /\ stored[i] = k /\ filled[i] = oldArray[next]
        /\ \A j \in Slots(arraySize): j # i => stored[j] = keys[j] /\ filled[j] = array[j]
        /\ filled \in [Slots(arraySize) -> Methods \union {nil}]
    BY <1>2, <2>3 DEF IInv, TypeOK
  <2> HIDE DEF stored, filled, k, i, added
  <2>8. TypeOK'
    BY <1>1, <1>2, <2>1, <2>3, <2>5, <2>7 DEF IInv, TypeOK, Tables
  <2>9. SelectorsUnique'
    <3>1. \A l \in Waiting': oldKeys[l] # k
      BY <1>3, <2>0 DEF k, IInv, SelectorsUnique
    <3>2. \A j \in Used', l \in Waiting': keys'[j] # oldKeys[l]
      BY <1>3, <2>1, <2>3, <2>5, <2>7, <3>1 DEF IInv, SelectorsUnique, Used, Occupied
    <3> QED BY <1>1, <1>3, <2>1, <2>3, <3>2 DEF IInv, SelectorsUnique
  <2>10. NoStrayMethod'
    BY <1>1, <2>1, <2>6, <2>7 DEF IInv, NoStrayMethod
  <2>11. HasRoom'
    BY <1>1, <1>2, <2>1, <2>3, <2>5 DEF HasRoom, IInv, TypeOK, Used
  <2> QED BY <2>1, <2>3, <2>8, <2>9, <2>10, <2>11 DEF IInv, Searchable
<1> QED BY <1>4, <1>5

LEMMA EndGrowthKeeps ==
  ASSUME IInv, EndGrowth
  PROVE  IInv'
<1>1. /\ keys' = keys /\ array' = array /\ arraySize' = arraySize /\ tally' = tally
      /\ phase = "growing" /\ next = oldSize /\ phase' = "ready"
      /\ oldSize' = 0 /\ next' = 0
      /\ oldKeys' = EmptyArray(0) /\ oldArray' = EmptyArray(0)
      /\ pending' = pending /\ answer' = answer
  BY DEF EndGrowth, table
<1>2. Slots(0) = {} /\ EmptyArray(0) \in [Slots(0) -> {nil}]
  BY DEF Slots, EmptyArray
<1>3. TypeOK' /\ NoStrayMethod'
  BY <1>1, <1>2 DEF IInv, TypeOK, NoStrayMethod
<1>4. SelectorsUnique' /\ Searchable'
  BY <1>1 DEF IInv, SelectorsUnique, Searchable, Used, Waiting
<1>5. HasRoom'
  BY <1>1 DEF IInv, HasRoom, Used, TypeOK, FullCondition
<1> QED BY <1>3, <1>4, <1>5 DEF IInv

LEMMA LookupKeeps ==
  ASSUME IInv, UNCHANGED <<table, growth, pending>>, answer' \in Answers
  PROVE  IInv'
<1>1. /\ keys' = keys /\ array' = array /\ arraySize' = arraySize /\ tally' = tally
      /\ oldKeys' = oldKeys /\ oldArray' = oldArray /\ oldSize' = oldSize
      /\ next' = next /\ phase' = phase /\ pending' = pending
  BY DEF table, growth
<1>2. TypeOK' /\ NoStrayMethod'
  BY <1>1 DEF IInv, TypeOK, NoStrayMethod
<1>3. SelectorsUnique' /\ Searchable'
  BY <1>1 DEF IInv, SelectorsUnique, Searchable, Used, Waiting
<1>4. HasRoom'
  BY <1>1 DEF IInv, HasRoom, Used
<1> QED BY <1>2, <1>3, <1>4 DEF IInv

LEMMA InitKeeps == Init => IInv
<1> SUFFICES ASSUME Init PROVE IInv
  OBVIOUS
<1>1. arraySize \in Nat /\ oldSize = 0 /\ next = 0 /\ phase = "ready"
  BY MethodDictionaryAssumption DEF Init
<1>2. /\ keys = EmptyArray(arraySize) /\ array = EmptyArray(arraySize)
      /\ oldKeys = EmptyArray(oldSize) /\ oldArray = EmptyArray(oldSize)
      /\ tally = 0 /\ pending = NoCall /\ answer = NoCall
  BY DEF Init
<1>3. /\ Used = {} /\ Cardinality(Used) = 0 /\ KeysOnce(keys, arraySize)
      /\ AllReachable(keys, arraySize) /\ Waiting = {}
  BY <1>1, <1>2, EmptyTable DEF Used, Waiting
<1>4. /\ keys \in [Slots(arraySize) -> {nil}] /\ array \in [Slots(arraySize) -> {nil}]
      /\ oldKeys \in [Slots(oldSize) -> {nil}] /\ oldArray \in [Slots(oldSize) -> {nil}]
  BY <1>1, <1>2, EmptyTable
<1>5. TypeOK /\ NoStrayMethod
  BY <1>1, <1>2, <1>4 DEF TypeOK, NoStrayMethod, Answers
<1>6. SelectorsUnique /\ Searchable
  BY <1>3 DEF SelectorsUnique, Searchable
<1>7. HasRoom
  BY <1>1, <1>2, <1>3 DEF HasRoom, FullCondition
<1> QED BY <1>5, <1>6, <1>7 DEF IInv

LEMMA LookupType ==
  ASSUME IInv, NEW k \in Keys
  PROVE  (IF Scan(k) < 0 THEN nil ELSE array[Scan(k)]) \in Methods \union {nil}
BY ScanNatural DEF IInv, TypeOK

LEMMA NextKeeps == IInv /\ [Next]_vars => IInv'
<1> SUFFICES ASSUME IInv, [Next]_vars PROVE IInv'
  OBVIOUS
<1>1. ASSUME NEW k \in Keys, NEW m \in Methods, AtPut(k, m) PROVE IInv'
  BY <1>1, StoreKeeps DEF AtPut, Idle
<1>2. ASSUME NEW k \in Keys, AtOrNil(k) PROVE IInv'
  <2>1. answer' \in Answers
    BY <1>2, LookupType DEF AtOrNil, Answers
  <2> QED BY <1>2, <2>1, LookupKeeps DEF AtOrNil
<1>3. CASE Retry
  <2>1. pending[1] \in Keys /\ pending[2] \in Methods
    BY <1>3 DEF Retry, IInv, TypeOK
  <2> QED BY <1>3, <2>1, StoreKeeps DEF Retry
<1>4. CASE Reinsert
  BY <1>4, ReinsertKeeps
<1>5. CASE EndGrowth
  BY <1>5, EndGrowthKeeps
<1>6. CASE UNCHANGED vars
  BY <1>6, LookupKeeps DEF vars, IInv, TypeOK
<1> QED BY <1>1, <1>2, <1>3, <1>4, <1>5, <1>6 DEF Next

THEOREM Invariance == Spec => []IInv
BY InitKeeps, NextKeeps, PTL DEF Spec

\* The dictionary is always well formed: no selector twice, none hidden from a
\* lookup, no method without one, and a growth that never grows.
THEOREM WellFormed ==
  Spec => [](TypeOK /\ SelectorsUnique /\ Searchable /\ NoStrayMethod /\ HasRoom)
BY Invariance DEF IInv

-----------------------------------------------------------------------------
(***************************************************************************)
(* Refinement.                                                             *)
(***************************************************************************)
Method == [k \in Keys |-> MethodOf(k)]

\* The selectors and methods the dictionary holds.
Holds(k, m) ==
  \/ \E i \in Used: keys[i] = k /\ array[i] = m
  \/ \E i \in Waiting: oldKeys[i] = k /\ oldArray[i] = m

MethodExact ==
  \A k \in Keys:
    /\ MethodOf(k) \in Methods \union {nil}
    /\ \A m \in Methods: MethodOf(k) = m <=> Holds(k, m)

LEMMA MethodIs == IInv => MethodExact
<1> SUFFICES ASSUME IInv, NEW k \in Keys
             PROVE  /\ MethodOf(k) \in Methods \union {nil}
                    /\ \A m \in Methods: MethodOf(k) = m <=> Holds(k, m)
  BY DEF MethodExact
<1>0. /\ \A i \in Used: i \in Slots(arraySize) /\ array[i] \in Methods
      /\ \A i \in Waiting: oldArray[i] \in Methods
  <2>1. \A i \in Used: i \in Slots(arraySize) /\ array[i] \in Methods
    BY DEF Used, Occupied, IInv, TypeOK, NoStrayMethod
  <2>2. \A i \in Waiting: i \in Slots(oldSize)
    BY DEF Waiting, Slots, IInv, TypeOK
  <2>3. \A i \in Waiting: oldArray[i] \in Methods
    BY <2>2 DEF Waiting, IInv, TypeOK, NoStrayMethod
  <2> QED BY <2>1, <2>3
<1>1. CASE \E i \in Used: keys[i] = k
  <2>1. PICK i \in Used: keys[i] = k /\ MethodOf(k) = array[i]
    BY <1>1 DEF MethodOf
  <2>2. \A j \in Used: keys[j] = k => j = i
    BY <2>1 DEF IInv, SelectorsUnique, KeysOnce, Used
  <2>3. \A j \in Waiting: oldKeys[j] # k
    BY <2>1 DEF IInv, SelectorsUnique
  <2> QED BY <1>0, <2>1, <2>2, <2>3 DEF Holds
<1>2. CASE (~\E i \in Used: keys[i] = k) /\ \E i \in Waiting: oldKeys[i] = k
  <2>1. PICK i \in Waiting: oldKeys[i] = k /\ MethodOf(k) = oldArray[i]
    BY <1>2 DEF MethodOf
  <2>2. \A j \in Waiting: oldKeys[j] = k => j = i
    BY <2>1 DEF IInv, SelectorsUnique
  <2> QED BY <1>0, <1>2, <2>1, <2>2 DEF Holds
<1>3. CASE (~\E i \in Used: keys[i] = k) /\ ~\E i \in Waiting: oldKeys[i] = k
  <2>1. MethodOf(k) = nil
    BY <1>3 DEF MethodOf
  <2> QED BY <1>3, <2>1, MethodDictionaryAssumption DEF Holds
<1> QED BY <1>1, <1>2, <1>3

\* Between operations, a lookup finds the method of the selector.
LEMMA LookupMethod ==
  ASSUME IInv, phase = "ready", NEW k \in Keys
  PROVE  (IF Scan(k) < 0 THEN nil ELSE array[Scan(k)]) = MethodOf(k)
<1>1. Waiting = {}
  BY DEF IInv, TypeOK, HasRoom, Waiting
<1>2. CASE ~(Scan(k) < 0) /\ keys[Scan(k)] # nil
  <2>1. Scan(k) \in Used /\ keys[Scan(k)] = k
    BY <1>2, KeyPresent
  <2>2. array[Scan(k)] \in Methods
    BY <2>1 DEF Used, Occupied, IInv, TypeOK, NoStrayMethod
  <2>3. Holds(k, array[Scan(k)])
    BY <2>1 DEF Holds
  <2> QED BY <1>2, <2>2, <2>3, MethodIs DEF MethodExact
<1>3. CASE Scan(k) < 0 \/ keys[Scan(k)] = nil
  <2>1. MethodOf(k) = nil
    BY <1>1, <1>3, KeyAbsent DEF MethodOf
  <2>2. (IF Scan(k) < 0 THEN nil ELSE array[Scan(k)]) = nil
    BY <1>3, ScanNatural DEF IInv, NoStrayMethod
  <2> QED BY <2>1, <2>2
<1> QED BY <1>2, <1>3

LEMMA SameMethods ==
  ASSUME IInv, IInv', \A k \in Keys, m \in Methods: Holds(k, m)' <=> Holds(k, m)
  PROVE  Method' = Method
<1>1. MethodExact /\ MethodExact'
  BY MethodIs, PTL
<1>2. \A k \in Keys: MethodOf(k)' = MethodOf(k)
  <2> SUFFICES ASSUME NEW k \in Keys PROVE MethodOf(k)' = MethodOf(k)
    OBVIOUS
  <2>1. \A m \in Methods: MethodOf(k)' = m <=> MethodOf(k) = m
    BY <1>1 DEF MethodExact
  <2> QED BY <1>1, <2>1 DEF MethodExact
<1> QED BY <1>2 DEF Method

\* Storing a method where the scan for the selector stops: in an empty slot,
\* perhaps filling the arrays, or over the method that is there.
LEMMA StoreMaps ==
  ASSUME IInv, IInv', phase = "ready", NEW k \in Keys, NEW m \in Methods,
         ~(Scan(k) < 0),
         IF keys[Scan(k)] = nil THEN Insert(Scan(k), k, m) ELSE Replace(Scan(k), m)
  PROVE  Method' = [Method EXCEPT ![k] = m]
<1> DEFINE i == Scan(k)
           stored == [keys EXCEPT ![i] = k]
           filled == [array EXCEPT ![i] = m]
           After(l, n) == IF l = k THEN n = m ELSE Holds(l, n)
<1>0. k # nil /\ m # nil /\ Waiting = {} /\ i \in Slots(arraySize)
  BY HashAssumption, MethodDictionaryAssumption, ScanNatural
    DEF IInv, TypeOK, HasRoom, Waiting
<1>1. /\ stored[i] = k /\ filled[i] = m
      /\ \A j \in Slots(arraySize): j # i => stored[j] = keys[j] /\ filled[j] = array[j]
      /\ Occupied(stored, arraySize) = Used \union {i}
  BY <1>0, StoreSelector DEF IInv, TypeOK
<1>2. \A j \in Used: j # i => keys[j] # k
  BY KeyAbsent, KeyPresent DEF IInv, SelectorsUnique, KeysOnce, Used
<1>3. i \in Used => keys[i] = k
  BY KeyPresent DEF Used, Occupied
<1>4. \A l \in Keys, n \in Methods:
        (\E j \in Used \union {i}: stored[j] = l /\ filled[j] = n) <=> After(l, n)
  <2> HIDE DEF i, stored, filled
  <2> QED BY <1>0, <1>1, <1>2, <1>3 DEF Holds, Used, Occupied
<1>5. \A l \in Keys, n \in Methods: Holds(l, n)' <=> After(l, n)
  <2>1. CASE keys[i] = nil /\ FullCondition(arraySize, tally + 1)
    <3>1. /\ oldKeys' = stored /\ oldArray' = filled /\ oldSize' = arraySize
          /\ next' = 0 /\ arraySize' = GrownSize(arraySize)
          /\ keys' = EmptyArray(arraySize')
      BY <2>1 DEF Insert, StartGrowth
    <3>2. Used' = {}
      BY <3>1, EmptyTable, Growing DEF Used, IInv, TypeOK
    <3>3. Waiting' = Used \union {i}
      BY <1>1, <3>1 DEF Waiting, Occupied, Slots
    <3> HIDE DEF i, stored, filled, After
    <3> QED BY <1>4, <3>1, <3>2, <3>3 DEF Holds
  <2>2. CASE keys[i] = nil /\ ~FullCondition(arraySize, tally + 1)
    <3>1. /\ keys' = stored /\ array' = filled /\ UNCHANGED <<arraySize, growth>>
      BY <2>2 DEF Insert
    <3>2. Used' = Used \union {i} /\ Waiting' = {}
      BY <1>0, <1>1, <3>1 DEF Used, Waiting, growth
    <3> HIDE DEF i, stored, filled, After
    <3> QED BY <1>4, <3>1, <3>2 DEF Holds
  <2>3. CASE keys[i] # nil
    <3>1. keys' = keys /\ array' = filled /\ UNCHANGED <<arraySize, growth>>
      BY <2>3 DEF Replace
    <3>2. i \in Used /\ Used' = Used \union {i} /\ Waiting' = {}
      BY <1>0, <2>3, <3>1 DEF Used, Occupied, Waiting, growth
    <3>3. \A j \in Used: keys[j] = stored[j]
      BY <1>1, <1>3, <3>2 DEF Used, Occupied
    <3> HIDE DEF i, stored, filled, After
    <3> QED BY <1>4, <3>1, <3>2, <3>3 DEF Holds
  <2> QED BY <2>1, <2>2, <2>3
<1>6. MethodExact /\ MethodExact'
  BY MethodIs, PTL
<1>7. \A l \in Keys: MethodOf(l)' = IF l = k THEN m ELSE MethodOf(l)
  <2> SUFFICES ASSUME NEW l \in Keys
               PROVE  MethodOf(l)' = IF l = k THEN m ELSE MethodOf(l)
    OBVIOUS
  <2>1. /\ MethodOf(l)' \in Methods \union {nil}
        /\ \A n \in Methods: MethodOf(l)' = n <=> After(l, n)
    BY <1>5, <1>6 DEF MethodExact
  <2>2. /\ MethodOf(l) \in Methods \union {nil}
        /\ \A n \in Methods: MethodOf(l) = n <=> Holds(l, n)
    BY <1>6 DEF MethodExact
  <2> HIDE DEF i, stored, filled
  <2> QED BY <2>1, <2>2
<1> HIDE DEF i, stored, filled, After
<1> QED BY <1>7 DEF Method

LEMMA ReinsertHolds ==
  ASSUME IInv, Reinsert
  PROVE  \A l \in Keys, n \in Methods: Holds(l, n)' <=> Holds(l, n)
<1> DEFINE k == oldKeys[next]
           i == Scan(k)
<1>1. /\ phase = "growing" /\ next \in 0 .. oldSize - 1 /\ next' = next + 1
      /\ oldKeys' = oldKeys /\ oldArray' = oldArray /\ oldSize' = oldSize
      /\ next \in Slots(oldSize) /\ k \in Keys \union {nil}
  BY DEF Reinsert, IInv, TypeOK, Slots
<1>2. Waiting' = Waiting \ {next}
  BY <1>1 DEF Waiting, IInv, TypeOK
<1>3. CASE k = nil
  <2>1. /\ keys' = keys /\ array' = array /\ arraySize' = arraySize
        /\ Waiting' = Waiting
    BY <1>2, <1>3 DEF Reinsert, table, Waiting
  <2> QED BY <1>1, <2>1 DEF Holds, Used
<1>4. CASE k # nil
  <2> DEFINE stored == [keys EXCEPT ![i] = k]
             filled == [array EXCEPT ![i] = oldArray[next]]
  <2>0. k \in Keys /\ next \in Waiting /\ ~(i < 0)
    <3>1. k \in Keys /\ next \in Waiting
      BY <1>1, <1>4 DEF Waiting
    <3>2. arraySize # 0
      BY <1>1 DEF IInv, HasRoom
    <3> HIDE DEF k
    <3> QED BY <3>1, <3>2, ScanStops DEF Slots, IInv, TypeOK
  <2>1. keys' = stored /\ array' = filled /\ arraySize' = arraySize
    BY <1>4, <2>0 DEF Reinsert
  <2>2. keys[i] = nil
    BY <2>0, KeyPresent DEF IInv, SelectorsUnique
  <2>3. i \in Slots(arraySize) /\ Occupied(stored, arraySize) = Used \union {i}
    <3> HIDE DEF k
    <3> QED BY <2>0, <2>2, StoreSelector
  <2>4. i \notin Used /\ Used' = Used \union {i}
    BY <2>1, <2>2, <2>3 DEF Used, Occupied
  <2>5. /\ stored[i] = k /\ filled[i] = oldArray[next]
        /\ \A j \in Used: stored[j] = keys[j] /\ filled[j] = array[j]
    BY <2>3, <2>4 DEF IInv, TypeOK, Used, Occupied
  <2> HIDE DEF i, stored, filled
  <2> QED BY <1>1, <1>2, <2>0, <2>1, <2>4, <2>5 DEF Holds
<1> QED BY <1>3, <1>4

\* The initial states are empty maps.
LEMMA InitMaps == Init => Map!Init
<1> SUFFICES ASSUME Init PROVE Map!Init
  OBVIOUS
<1>1. Used = {} /\ Waiting = {} /\ answer = <<>>
  BY MethodDictionaryAssumption, EmptyTable DEF Init, Used, Waiting, NoCall
<1>2. \A k \in Keys: MethodOf(k) = nil
  BY <1>1 DEF MethodOf
<1> QED BY <1>1, <1>2 DEF Map!Init

LEMMA AtPutMaps ==
  ASSUME IInv, IInv', phase = "ready", NEW k \in Keys, NEW m \in Methods,
         Store(k, m)
  PROVE  Map!AtPut(k, m) \/ UNCHANGED Map!vars
<1>1. CASE ~(Scan(k) < 0)
  <2>1. Method' = [Method EXCEPT ![k] = m] /\ answer' = <<k, m>>
    BY <1>1, StoreMaps DEF Store
  <2> QED BY <2>1 DEF Map!AtPut, Method
<1>2. CASE Scan(k) < 0
  <2>1. arraySize = 0
    BY <1>2, ScanStops DEF Slots
  <2>2. /\ arraySize' = GrownSize(0) /\ keys' = EmptyArray(arraySize')
        /\ oldSize' = 0 /\ next' = 0
    BY <1>2, <2>1 DEF Store, StartGrowth
  <2>3. Used = {} /\ Waiting = {} /\ Used' = {} /\ Waiting' = {}
    <3>1. Used = {} /\ Waiting = {}
      BY <2>1 DEF Used, Waiting, Occupied, Slots, IInv, TypeOK, HasRoom
    <3>2. Used' = {}
      BY <2>2, EmptyTable, Growing DEF Used
    <3>3. Waiting' = {}
      BY <2>2 DEF Waiting
    <3> QED BY <3>1, <3>2, <3>3
  <2>4. \A l \in Keys, n \in Methods: Holds(l, n)' <=> Holds(l, n)
    BY <2>3 DEF Holds
  <2>5. Method' = Method /\ answer' = answer
    BY <1>2, <2>4, SameMethods DEF Store
  <2> QED BY <2>5 DEF Map!vars, Method
<1> QED BY <1>1, <1>2

\* Every step is the operation it belongs to, where the atPut is the step that
\* stores; growing, before or after it, is a stutter.
LEMMA NextMaps == IInv /\ IInv' /\ [Next]_vars => [Map!Next]_(Map!vars)
<1> SUFFICES ASSUME IInv, IInv', [Next]_vars PROVE [Map!Next]_(Map!vars)
  OBVIOUS
<1>1. ASSUME NEW k \in Keys, NEW m \in Methods, AtPut(k, m)
      PROVE  Map!AtPut(k, m) \/ UNCHANGED Map!vars
  BY <1>1, AtPutMaps DEF AtPut, Idle
<1>2. ASSUME NEW k \in Keys, AtOrNil(k) PROVE Map!AtOrNil(k)
  <2>1. phase = "ready"
    BY <1>2 DEF AtOrNil, Idle
  <2>2. \A l \in Keys, n \in Methods: Holds(l, n)' <=> Holds(l, n)
    BY <1>2 DEF AtOrNil, Holds, Used, Waiting, table, growth
  <2>3. Method' = Method
    BY <2>2, SameMethods
  <2>4. answer' = <<k, Method[k]>>
    BY <1>2, <2>1, LookupMethod DEF AtOrNil, Method
  <2> QED BY <2>3, <2>4 DEF Map!AtOrNil, Method
<1>3. CASE Retry
  <2>1. pending[1] \in Keys /\ pending[2] \in Methods /\ phase = "ready"
    BY <1>3 DEF Retry, IInv, TypeOK
  <2>2. Map!AtPut(pending[1], pending[2]) \/ UNCHANGED Map!vars
    BY <1>3, <2>1, AtPutMaps DEF Retry
  <2> QED BY <2>1, <2>2 DEF Map!Next
<1>4. CASE Reinsert
  <2>1. Method' = Method
    BY <1>4, ReinsertHolds, SameMethods
  <2> QED BY <1>4, <2>1 DEF Reinsert, Map!vars, Method
<1>5. CASE EndGrowth
  <2>1. /\ keys' = keys /\ array' = array /\ arraySize' = arraySize
        /\ oldSize' = 0 /\ next' = 0 /\ next = oldSize
    BY <1>5 DEF EndGrowth, table
  <2>2. Waiting = {} /\ Waiting' = {}
    BY <2>1 DEF Waiting, IInv, TypeOK
  <2>3. \A l \in Keys, n \in Methods: Holds(l, n)' <=> Holds(l, n)
    BY <2>1, <2>2 DEF Holds, Used
  <2>4. Method' = Method
    BY <2>3, SameMethods
  <2> QED BY <1>5, <2>4 DEF EndGrowth, Map!vars, Method
<1>6. CASE UNCHANGED vars
  <2>1. \A l \in Keys, n \in Methods: Holds(l, n)' <=> Holds(l, n)
    BY <1>6 DEF vars, Holds, Used, Waiting, table, growth
  <2>2. Method' = Method
    BY <2>1, SameMethods
  <2> QED BY <1>6, <2>2 DEF vars, Map!vars, Method
<1> QED BY <1>1, <1>2, <1>3, <1>4, <1>5, <1>6 DEF Next, Map!Next

\* The method dictionary implements the map from selectors to methods: a lookup
\* returns the method last stored, whatever selectors collide and whenever the
\* arrays grow, also when an atPut has to grow them before it can store.
THEOREM Implements == Spec => MapSpec
BY InitMaps, NextMaps, Invariance, PTL DEF Spec, MapSpec, Map!Spec
=============================================================================
