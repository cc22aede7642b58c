------------------------- MODULE SymbolTable_proofs -------------------------
(***************************************************************************)
(* Proofs about the symbol table, for any texts, symbols and size of the   *)
(* set, as long as equality tells the texts apart (EqualityAssumption).    *)
(***************************************************************************)
EXTENDS SymbolTable, OpenAddressing_proofs

-----------------------------------------------------------------------------
\* No text has two symbols, in the array and in what is left of the old one.
SymbolsUnique ==
  /\ \A i, j \in Used: TextOf[array[i]] = TextOf[array[j]] => i = j
  /\ \A i, j \in Waiting: TextOf[oldArray[i]] = TextOf[oldArray[j]] => i = j
  /\ \A i \in Used, j \in Waiting: TextOf[array[i]] # TextOf[oldArray[j]]

TallyCounts == tally = Cardinality(Used)

\* Between calls the array is not full; while it is filled again, it holds no more
\* than the old slots already passed.
HasRoom ==
  /\ arraySize >= 4
  /\ phase = "ready" => oldSize = 0 /\ ~FullCondition(arraySize, tally)
  /\ phase # "ready" => tally <= next
  /\ phase = "recreating" => arraySize = oldSize
  /\ phase = "growing" => 2 * oldSize <= arraySize

\* The inductive invariant: Searchable alone is not inductive.
IInv == TypeOK /\ SymbolsUnique /\ Searchable /\ TallyCounts /\ HasRoom

Interned == Strings \union Symbols

LEMMA TextsOfSymbols ==
  /\ nil \notin Keys /\ nil \notin Symbols /\ Symbols \intersect Keys = {}
  /\ \A o \in Interned: TextOf[o] \in Keys
  /\ \A o \in Interned, s \in Symbols: Equals(o, s) <=> TextOf[o] = TextOf[s]
BY HashAssumption, SymbolAssumption, EqualityAssumption DEF Interned

\* The table of texts that the scans look at.
LEMMA KeyTable ==
  ASSUME TypeOK
  PROVE  /\ KeyAt \in Tables(arraySize) /\ Occupied(KeyAt, arraySize) = Used
         /\ \A i \in ArraySlots: KeyAt[i] = nil <=> array[i] = nil
         /\ \A i \in Used: KeyAt[i] = TextOf[array[i]]
<1>1. \A i \in ArraySlots: array[i] # nil => KeyAt[i] \in Keys /\ KeyAt[i] # nil
  BY TextsOfSymbols DEF KeyAt, TypeOK, Interned
<1> QED BY <1>1 DEF KeyAt, Tables, Occupied, Used, ArraySlots

\* Comparing with slvm_String_equals, a scan for a string or a symbol stops where a
\* scan for its text would.
LEMMA ScanText ==
  ASSUME TypeOK, NEW o \in Interned
  PROVE  Scan(o) = ScanFor(TextOf[o], KeyAt, arraySize)
<1>0. arraySize \in Nat \ {0} /\ TextOf[o] \in Keys
  BY TextsOfSymbols DEF TypeOK
<1>1. \A i \in ArraySlots: SeenBy(o)[i] \in {nil, TextOf[o]} <=> KeyAt[i] \in {nil, TextOf[o]}
  BY TextsOfSymbols DEF SeenBy, KeyAt, TypeOK, Interned
<1>2. \A d \in Slots(arraySize):
        Stops(TextOf[o], SeenBy(o), arraySize, d) <=> Stops(TextOf[o], KeyAt, arraySize, d)
  BY <1>0, <1>1, ProbeVisits DEF Stops, ArraySlots
<1> DEFINE stops(keyAt) == {d \in Slots(arraySize): Stops(TextOf[o], keyAt, arraySize, d)}
           First(S) == IF S = {} THEN -1
                       ELSE Probe(TextOf[o], arraySize, CHOOSE d \in S: \A e \in S: d <= e)
<1>3. stops(SeenBy(o)) = stops(KeyAt)
  BY <1>2
<1>4. \A keyAt: ScanFor(TextOf[o], keyAt, arraySize) = First(stops(keyAt))
  BY DEF ScanFor
<1> HIDE DEF stops, First
<1> QED BY <1>3, <1>4 DEF Scan

LEMMA EmptyTable ==
  /\ Used = {} => Searchable
  /\ Used' = {} => Searchable'
<1>1. Used = {} => Searchable
  BY TextsOfSymbols DEF Searchable, AllReachable, Occupied, KeyAt, Used, ArraySlots, Slots
<1>2. Used' = {} => Searchable'
  BY TextsOfSymbols DEF Searchable, AllReachable, Occupied, KeyAt, Used, ArraySlots, Slots
<1> QED BY <1>1, <1>2

\* An operation, and the reinsertion of a symbol, find an empty slot.
LEMMA EmptySlot ==
  ASSUME IInv, phase = "ready" \/ next < oldSize
  PROVE  \E i \in ArraySlots: KeyAt[i] = nil
<1>1. tally < arraySize
  BY DEF IInv, TypeOK, HasRoom, FullCondition
<1> QED BY <1>1, KeyTable, OccupiedFinite
      DEF IInv, TypeOK, TallyCounts, ArraySlots

LEMMA ScanStops ==
  ASSUME IInv, phase = "ready" \/ next < oldSize, NEW o \in Interned
  PROVE  Scan(o) \in ArraySlots
<1>1. TextOf[o] \in Keys
  BY TextsOfSymbols
<1> QED BY <1>1, EmptySlot, KeyTable, ScanForFirst, ScanText DEF IInv, TypeOK, ArraySlots

LEMMA KeyPresent ==
  ASSUME IInv, phase = "ready" \/ next < oldSize, NEW o \in Interned, array[Scan(o)] # nil
  PROVE  Scan(o) \in Used /\ TextOf[array[Scan(o)]] = TextOf[o]
<1>1. KeyAt[Scan(o)] # nil
  BY ScanStops, KeyTable DEF IInv
<1>2. Scan(o) \in Occupied(KeyAt, arraySize) /\ KeyAt[Scan(o)] = TextOf[o]
  BY <1>1, TextsOfSymbols, EmptySlot, KeyTable, ScanPresent, ScanText
    DEF IInv, TypeOK, ArraySlots
<1> QED BY <1>2, KeyTable DEF IInv

LEMMA KeyAbsent ==
  ASSUME IInv, phase = "ready" \/ next < oldSize, NEW o \in Interned, array[Scan(o)] = nil
  PROVE  \A j \in Used: TextOf[array[j]] # TextOf[o]
<1>1. KeyAt[Scan(o)] = nil
  BY ScanStops, KeyTable DEF IInv
<1>2. \A j \in Occupied(KeyAt, arraySize): KeyAt[j] # TextOf[o]
  BY <1>1, TextsOfSymbols, EmptySlot, KeyTable, ScanAbsent, ScanText
    DEF IInv, TypeOK, ArraySlots, Searchable
<1> QED BY <1>2, KeyTable DEF IInv

\* Storing a symbol where the scan for it stops, in an empty slot, keeps the array a
\* hash table with one more symbol.
LEMMA StoreSymbol ==
  ASSUME IInv, phase = "ready" \/ next < oldSize, NEW s \in Symbols, NEW i, i = Scan(s),
         array[i] = nil, arraySize' = arraySize, array' = [array EXCEPT ![i] = s]
  PROVE  /\ i \in ArraySlots
         /\ array' \in [ArraySlots -> Symbols \union {nil}]
         /\ Used' = Used \union {i} /\ array'[i] = s
         /\ \A j \in Used: array'[j] = array[j]
         /\ \A j, l \in Used': TextOf[array'[j]] = TextOf[array'[l]] => j = l
         /\ Searchable'
         /\ Cardinality(Used') = tally + 1
<1>0. s \in Interned /\ TextOf[s] \in Keys /\ s # nil /\ arraySize \in Nat \ {0}
  BY TextsOfSymbols DEF IInv, TypeOK, Interned
<1>1. i \in ArraySlots
  BY <1>0, ScanStops
<1>2. array' \in [ArraySlots -> Symbols \union {nil}] /\ ArraySlots' = ArraySlots
  BY <1>1 DEF IInv, TypeOK, ArraySlots
<1>3. array'[i] = s /\ \A j \in ArraySlots: j # i => array'[j] = array[j]
  BY <1>1 DEF IInv, TypeOK
<1>4. KeyAt' = Stored(KeyAt, i, TextOf[s])
  BY <1>0, <1>1, <1>2, <1>3 DEF KeyAt, Stored
<1>5. KeysOnce(KeyAt, arraySize)
  BY KeyTable DEF IInv, SymbolsUnique, KeysOnce
<1>6. /\ AllReachable(KeyAt', arraySize)
      /\ Occupied(KeyAt', arraySize) = Occupied(KeyAt, arraySize) \union {i}
      /\ Cardinality(Occupied(KeyAt', arraySize)) =
           IF KeyAt[i] = nil THEN Cardinality(Occupied(KeyAt, arraySize)) + 1
                             ELSE Cardinality(Occupied(KeyAt, arraySize))
  <2>1. /\ KeyAt \in Tables(arraySize) /\ AllReachable(KeyAt, arraySize)
        /\ \E j \in Slots(arraySize): KeyAt[j] = nil
        /\ i = ScanFor(TextOf[s], KeyAt, arraySize)
    BY <1>0, EmptySlot, KeyTable, ScanText DEF IInv, ArraySlots, Searchable
  <2> QED BY <1>0, <1>4, <1>5, <2>1, StoreSlot
<1>7. Used' = Used \union {i} /\ i \notin Used
  BY <1>0, <1>1, <1>2, <1>3 DEF Used
<1>8. \A j \in Used: TextOf[array[j]] # TextOf[s]
  BY <1>0, KeyAbsent
<1>9. \A j, l \in Used': TextOf[array'[j]] = TextOf[array'[l]] => j = l
  BY <1>3, <1>7, <1>8 DEF IInv, SymbolsUnique, Used
<1>10. Cardinality(Used') = tally + 1
  BY <1>1, <1>6, <1>7, KeyTable DEF IInv, TallyCounts
<1> QED BY <1>1, <1>2, <1>3, <1>6, <1>7, <1>9, <1>10 DEF Searchable, Used

\* The steps, on the part of the state each can disturb.
Answered == answer' \in (Keys \X Symbols) \union {<<>>}

\* What a growth starts with is what the invariant says of an emptied array.
LEMMA StartKeeps ==
  ASSUME NEW filled, NEW n, NEW newPhase, StartGrowth(filled, n, newPhase), Answered,
         n \in Nat, n >= 4, arraySize \in Nat \ {0},
         filled \in [ArraySlots -> Symbols \union {nil}],
         \A j, l \in ArraySlots:
            filled[j] # nil /\ filled[l] # nil /\ TextOf[filled[j]] = TextOf[filled[l]] => j = l,
         \/ newPhase = "recreating" /\ n = arraySize
         \/ newPhase = "growing" /\ 2 * arraySize <= n
  PROVE  IInv'
<1>1. /\ oldArray' = filled /\ oldSize' = arraySize /\ next' = 0 /\ phase' = newPhase
      /\ tally' = 0 /\ arraySize' = n /\ array' = FlaggedArray(n)
  BY DEF StartGrowth
<1>2. array' \in [ArraySlots' -> {nil}] /\ Used' = {}
  BY <1>1 DEF FlaggedArray, ArraySlots, Slots, Used
<1>3. TypeOK'
  BY <1>1, <1>2 DEF TypeOK, ArraySlots, Slots, Answered
<1>4. SymbolsUnique'
  BY <1>1, <1>2 DEF SymbolsUnique, Waiting, ArraySlots, Slots
<1>5. Searchable' /\ TallyCounts'
  BY <1>1, <1>2, FS_EmptySet, EmptyTable DEF TallyCounts
<1>6. HasRoom'
  BY <1>1 DEF HasRoom
<1> QED BY <1>3, <1>4, <1>5, <1>6 DEF IInv

LEMMA AddKeeps ==
  ASSUME IInv, phase = "ready", NEW s \in Symbols, array[Scan(s)] = nil,
         Add(Scan(s), s), Answered
  PROVE  IInv'
<1> DEFINE i == Scan(s)
           filled == [array EXCEPT ![i] = s]
<1>0. s \in Interned /\ s # nil /\ i \in ArraySlots
  BY TextsOfSymbols, ScanStops DEF Interned
<1>1. CASE FullCondition(arraySize, tally + 1)
  <2>1. StartGrowth(filled, arraySize, "recreating")
    BY <1>0, <1>1 DEF Add
  <2>2. filled \in [ArraySlots -> Symbols \union {nil}]
    BY <1>0 DEF IInv, TypeOK
  <2>3. filled[i] = s /\ \A j \in ArraySlots: j # i => filled[j] = array[j]
    BY <1>0 DEF IInv, TypeOK
  <2>4. \A j \in Used: TextOf[array[j]] # TextOf[s]
    BY <1>0, KeyAbsent
  <2>5. \A j, l \in ArraySlots:
          filled[j] # nil /\ filled[l] # nil /\ TextOf[filled[j]] = TextOf[filled[l]] => j = l
    BY <2>3, <2>4 DEF IInv, SymbolsUnique, Used
  <2>6. arraySize \in Nat \ {0} /\ arraySize >= 4
    BY DEF IInv, TypeOK, HasRoom
  <2> HIDE DEF filled
  <2> QED BY <2>1, <2>2, <2>5, <2>6, StartKeeps
<1>2. CASE ~FullCondition(arraySize, tally + 1)
  <2>1. /\ array' = filled /\ tally' = tally + 1 /\ arraySize' = arraySize
        /\ oldArray' = oldArray /\ oldSize' = oldSize /\ next' = next /\ phase' = phase
    BY <1>0, <1>2 DEF Add, growth
  <2>2. /\ array' \in [ArraySlots -> Symbols \union {nil}]
        /\ \A j, l \in Used': TextOf[array'[j]] = TextOf[array'[l]] => j = l
        /\ Searchable'
        /\ Cardinality(Used') = tally + 1
    BY <2>1, StoreSymbol
  <2>3. TypeOK'
    BY <2>1, <2>2 DEF IInv, TypeOK, ArraySlots, Slots, Answered
  <2>4. SymbolsUnique'
    BY <2>1, <2>2 DEF SymbolsUnique, Waiting, IInv, TypeOK, HasRoom
  <2>5. TallyCounts' /\ HasRoom'
    BY <1>2, <2>1, <2>2 DEF TallyCounts, HasRoom, IInv
  <2> QED BY <2>2, <2>3, <2>4, <2>5 DEF IInv
<1> QED BY <1>1, <1>2

\* A request for a text that has a symbol, or no step at all.
LEMMA AnswerKeeps ==
  ASSUME IInv, UNCHANGED <<table, growth>>, Answered
  PROVE  IInv'
<1>1. /\ array' = array /\ arraySize' = arraySize /\ tally' = tally
      /\ oldArray' = oldArray /\ oldSize' = oldSize /\ next' = next /\ phase' = phase
  BY DEF table, growth
<1>2. TypeOK' /\ TallyCounts' /\ HasRoom'
  BY <1>1 DEF IInv, TypeOK, ArraySlots, Slots, TallyCounts, Used, HasRoom, Answered
<1>3. SymbolsUnique' /\ Searchable'
  BY <1>1 DEF IInv, SymbolsUnique, Searchable, KeyAt, Used, ArraySlots, Slots, Waiting
<1> QED BY <1>2, <1>3 DEF IInv

\* One turn of the loop: the symbol goes into an empty slot, also when the array
\* that is filled again is no larger than before.
LEMMA ReinsertKeeps ==
  ASSUME IInv, Reinsert
  PROVE  IInv'
<1>1. /\ phase \in {"recreating", "growing"} /\ next < oldSize /\ next' = next + 1
      /\ oldArray' = oldArray /\ oldSize' = oldSize /\ phase' = phase /\ answer' = answer
  BY DEF Reinsert, IInv, TypeOK
<1>2. next \in 0 .. oldSize - 1 /\ oldArray[next] \in Symbols \union {nil}
  BY <1>1 DEF IInv, TypeOK
<1>3. Waiting' = Waiting \ {next}
  BY <1>1, <1>2 DEF Waiting, IInv, TypeOK
<1>4. CASE oldArray[next] = nil
  <2>1. array' = array /\ arraySize' = arraySize /\ tally' = tally
    BY <1>4 DEF Reinsert, table
  <2>2. TypeOK' /\ TallyCounts' /\ HasRoom'
    BY <1>1, <1>2, <2>1 DEF IInv, TypeOK, ArraySlots, Slots, TallyCounts, Used, HasRoom
  <2>3. SymbolsUnique'
    BY <1>1, <1>3, <2>1 DEF IInv, SymbolsUnique, Used, ArraySlots, Slots
  <2>4. Searchable'
    BY <2>1 DEF IInv, Searchable, KeyAt, Used, ArraySlots, Slots
  <2> QED BY <2>2, <2>3, <2>4 DEF IInv
<1>5. CASE oldArray[next] # nil
  <2> DEFINE s == oldArray[next]
             i == Scan(s)
  <2>0. s \in Symbols /\ s \in Interned /\ s # nil /\ next \in Waiting
    BY <1>2, <1>5 DEF Waiting, Interned
  <2>1. array[i] = nil
    BY <1>1, <2>0, KeyPresent DEF IInv, SymbolsUnique
  <2>2. array' = [array EXCEPT ![i] = s] /\ arraySize' = arraySize /\ tally' = tally + 1
    BY <1>5, <2>0, <2>1 DEF Reinsert
  <2>3. /\ i \in ArraySlots
        /\ array' \in [ArraySlots -> Symbols \union {nil}]
        /\ Used' = Used \union {i} /\ array'[i] = s
        /\ \A j \in Used: array'[j] = array[j]
        /\ \A j, l \in Used': TextOf[array'[j]] = TextOf[array'[l]] => j = l
        /\ Searchable'
        /\ Cardinality(Used') = tally + 1
    BY <1>1, <2>0, <2>1, <2>2, StoreSymbol
  <2>4. TypeOK'
    BY <1>1, <1>2, <2>2, <2>3 DEF IInv, TypeOK, ArraySlots, Slots
  <2>5. SymbolsUnique'
    <3>1. \A j \in Used', l \in Waiting': TextOf[array'[j]] # TextOf[oldArray[l]]
      BY <1>3, <2>0, <2>3 DEF IInv, SymbolsUnique
    <3> QED BY <1>1, <1>3, <2>3, <3>1 DEF IInv, SymbolsUnique
  <2>6. TallyCounts' /\ HasRoom'
    BY <1>1, <1>2, <2>2, <2>3 DEF TallyCounts, HasRoom, IInv, TypeOK
  <2> QED BY <2>3, <2>4, <2>5, <2>6 DEF IInv
<1> QED BY <1>4, <1>5

\* The end of a growth, in an array that has room.
LEMMA ReadyKeeps ==
  ASSUME IInv, Ready, answer' = answer, ~FullCondition(arraySize, tally)
  PROVE  IInv'
<1>1. /\ array' = array /\ arraySize' = arraySize /\ tally' = tally
      /\ oldArray' = FlaggedArray(0) /\ oldSize' = 0 /\ next' = 0 /\ phase' = "ready"
  BY DEF Ready, table
<1>2. TypeOK' /\ TallyCounts' /\ HasRoom'
  BY <1>1 DEF IInv, TypeOK, ArraySlots, Slots, TallyCounts, Used, FlaggedArray, HasRoom
<1>3. SymbolsUnique' /\ Searchable'
  BY <1>1 DEF IInv, SymbolsUnique, Searchable, KeyAt, Used, ArraySlots, Slots, Waiting
<1> QED BY <1>2, <1>3 DEF IInv

LEMMA InitKeeps == Init => IInv
<1> SUFFICES ASSUME Init PROVE IInv
  OBVIOUS
<1>1. /\ arraySize \in Nat \ {0} /\ arraySize >= 4 /\ tally = 0
      /\ oldSize = 0 /\ next = 0 /\ phase = "ready"
  BY SymbolAssumption DEF Init
<1>2. array \in [ArraySlots -> {nil}] /\ Used = {} /\ Waiting = {}
  BY <1>1 DEF Init, FlaggedArray, ArraySlots, Slots, Used, Waiting
<1>3. TypeOK
  BY <1>1, <1>2 DEF Init, TypeOK, FlaggedArray
<1>4. SymbolsUnique /\ Searchable
  BY <1>2, EmptyTable DEF SymbolsUnique
<1>5. TallyCounts
  BY <1>1, <1>2, FS_EmptySet DEF TallyCounts
<1>6. HasRoom
  BY <1>1 DEF HasRoom, FullCondition
<1> QED BY <1>3, <1>4, <1>5, <1>6 DEF IInv

\* The symbol that is added for a text is one of that text, in the slot where the
\* scan for what was asked for has stopped.
LEMMA SymbolsForText ==
  ASSUME IInv, phase = "ready", NEW o \in Interned, NEW s \in SymbolsFor(o), Find(o) = nil
  PROVE  s \in Symbols /\ TextOf[s] = TextOf[o] /\ Scan(s) = Scan(o) /\ array[Scan(s)] = nil
<1>1. s \in Symbols /\ s \in Interned /\ TextOf[s] = TextOf[o]
  BY DEF SymbolsFor, Interned
<1>2. Scan(s) = Scan(o)
  BY <1>1, ScanText DEF IInv
<1>3. Scan(o) \in ArraySlots /\ Scan(o) \in Nat
  BY ScanStops DEF ArraySlots, Slots, IInv, TypeOK
<1> QED BY <1>1, <1>2, <1>3 DEF Find

LEMMA FoundSymbol ==
  ASSUME IInv, phase = "ready", NEW o \in Interned, Find(o) # nil
  PROVE  /\ Find(o) \in Symbols /\ TextOf[Find(o)] = TextOf[o]
         /\ \E i \in Used: array[i] = Find(o)
<1>1. Scan(o) \in ArraySlots /\ Scan(o) \in Nat
  BY ScanStops DEF ArraySlots, Slots, IInv, TypeOK
<1>2. Find(o) = array[Scan(o)]
  BY <1>1 DEF Find
<1> QED BY <1>1, <1>2, KeyPresent DEF IInv, TypeOK

LEMMA NextKeeps == IInv /\ [Next]_vars => IInv'
<1> SUFFICES ASSUME IInv, [Next]_vars PROVE IInv'
  OBVIOUS
<1>1. ASSUME NEW o \in Strings \union Symbols, InternString(o)
      PROVE  IInv'
  <2>0. phase = "ready" /\ o \in Interned /\ TextOf[o] \in Keys
    BY <1>1, TextsOfSymbols DEF InternString, Interned
  <2>1. CASE Find(o) # nil
    <3>1. Answered /\ UNCHANGED <<table, growth>>
      BY <1>1, <2>0, <2>1, FoundSymbol DEF InternString, Answered
    <3> QED BY <3>1, AnswerKeeps
  <2>2. CASE Find(o) = nil
    <3>1. PICK s \in SymbolsFor(o): Add(Scan(s), s) /\ answer' = <<TextOf[o], s>>
      BY <1>1, <2>2 DEF InternString
    <3>2. s \in Symbols /\ array[Scan(s)] = nil /\ Answered
      BY <2>0, <2>2, <3>1, SymbolsForText DEF Answered
    <3> QED BY <2>0, <3>1, <3>2, AddKeeps
  <2> QED BY <2>1, <2>2
<1>2. CASE Reinsert
  BY <1>2, ReinsertKeeps
<1>3. CASE EndRecreation
  <2>1. CASE FullCondition(arraySize, tally)
    <3>1. StartGrowth(array, GrownSize(arraySize), "growing") /\ Answered
      BY <1>3, <2>1 DEF EndRecreation, IInv, TypeOK, Answered
    <3>2. /\ GrownSize(arraySize) \in Nat /\ GrownSize(arraySize) >= 4
          /\ 2 * arraySize <= GrownSize(arraySize) /\ arraySize \in Nat \ {0}
      BY DEF GrownSize, IInv, TypeOK
    <3>3. \A j, l \in ArraySlots:
            array[j] # nil /\ array[l] # nil /\ TextOf[array[j]] = TextOf[array[l]] => j = l
      BY DEF IInv, SymbolsUnique, Used
    <3> QED BY <3>1, <3>2, <3>3, StartKeeps DEF IInv, TypeOK
  <2>2. CASE ~FullCondition(arraySize, tally)
    BY <1>3, <2>2, ReadyKeeps DEF EndRecreation
  <2> QED BY <2>1, <2>2
<1>4. CASE EndGrowth
  <2>1. ~FullCondition(arraySize, tally)
    BY <1>4 DEF EndGrowth, FullCondition, IInv, TypeOK, HasRoom
  <2> QED BY <1>4, <2>1, ReadyKeeps DEF EndGrowth
<1>5. CASE UNCHANGED vars
  BY <1>5, AnswerKeeps DEF vars, IInv, TypeOK, Answered
<1> QED BY <1>1, <1>2, <1>3, <1>4, <1>5 DEF Next

THEOREM Invariance == Spec => []IInv
BY InitKeeps, NextKeeps, PTL DEF Spec

\* The set holds symbols only, and every one can be found: also while it is filled
\* again in an array of the same size, in which the last symbol takes the last slot.
THEOREM WellFormed == Spec => [](TypeOK /\ Searchable)
BY Invariance, PTL DEF IInv

\* No scan ever fails: the assert of slvm_WeakSet_doAdd holds in every call, and in
\* every turn of the loop.
THEOREM ScansSucceed == Spec => []ScanSucceeds
<1>1. IInv => ScanSucceeds
  <2> SUFFICES ASSUME IInv PROVE ScanSucceeds
    OBVIOUS
  <2>1. \A i \in ArraySlots: i >= 0
    BY DEF ArraySlots, Slots, IInv, TypeOK
  <2>2. ASSUME NEW i \in Waiting PROVE next < oldSize /\ oldArray[i] \in Interned
    BY DEF Waiting, IInv, TypeOK, Interned
  <2> QED BY <2>1, <2>2, ScanStops DEF ScanSucceeds, Interned
<1> QED BY <1>1, Invariance, PTL

-----------------------------------------------------------------------------
(***************************************************************************)
(* Refinement.  The symbol of a text is the one that the set holds, in the *)
(* array or in what is left of the old one.                                *)
(***************************************************************************)
LEMMA HeldUnique ==
  IInv => \A a, b \in Symbols: Held(a) /\ Held(b) /\ TextOf[a] = TextOf[b] => a = b
BY DEF IInv, SymbolsUnique, Held

SymbolsExact ==
  \A t \in Keys:
    /\ SymbolOf(t) \in Symbols \union {nil}
    /\ \A s \in Symbols: SymbolOf(t) = s <=> TextOf[s] = t /\ Held(s)

LEMMA SymbolIs == IInv => SymbolsExact
<1> SUFFICES ASSUME IInv, NEW t \in Keys
             PROVE  /\ SymbolOf(t) \in Symbols \union {nil}
                    /\ \A s \in Symbols: SymbolOf(t) = s <=> TextOf[s] = t /\ Held(s)
  BY DEF SymbolsExact
<1>1. CASE \E s \in Symbols: TextOf[s] = t /\ Held(s)
  <2>1. SymbolOf(t) \in Symbols /\ TextOf[SymbolOf(t)] = t /\ Held(SymbolOf(t))
    BY <1>1 DEF SymbolOf
  <2> QED BY <2>1, HeldUnique
<1>2. CASE ~\E s \in Symbols: TextOf[s] = t /\ Held(s)
  <2>1. SymbolOf(t) = nil
    BY <1>2 DEF SymbolOf
  <2> QED BY <1>2, <2>1, TextsOfSymbols
<1> QED BY <1>1, <1>2

\* Between calls, what is found for a string or a symbol is the symbol of its text.
LEMMA FindSymbol ==
  ASSUME IInv, phase = "ready", NEW o \in Interned
  PROVE  Find(o) = SymbolOf(TextOf[o])
<1>1. TextOf[o] \in Keys
  BY TextsOfSymbols
<1>2. CASE Find(o) # nil
  <2>1. Find(o) \in Symbols /\ TextOf[Find(o)] = TextOf[o] /\ Held(Find(o))
    BY <1>2, FoundSymbol DEF Held
  <2> QED BY <1>1, <2>1, SymbolIs DEF SymbolsExact
<1>3. CASE Find(o) = nil
  <2>1. Waiting = {}
    BY DEF IInv, TypeOK, HasRoom, Waiting
  <2>2. array[Scan(o)] = nil
    BY <1>3, ScanStops DEF Find, ArraySlots, Slots, IInv, TypeOK
  <2>3. \A s \in Symbols: Held(s) => TextOf[s] # TextOf[o]
    BY <2>1, <2>2, KeyAbsent DEF Held
  <2> QED BY <1>3, <2>3 DEF SymbolOf
<1> QED BY <1>2, <1>3

SymbolMap == [t \in Keys |-> SymbolOf(t)]

LEMMA SameSymbols ==
  ASSUME IInv, IInv', \A s \in Symbols: Held(s)' <=> Held(s)
  PROVE  SymbolMap' = SymbolMap
<1>1. \A t \in Keys: SymbolOf(t)' = SymbolOf(t)
  BY DEF SymbolOf
<1> QED BY <1>1 DEF SymbolMap

LEMMA NewSymbol ==
  ASSUME IInv, IInv', NEW s \in Symbols, \A b \in Symbols: Held(b)' <=> b = s \/ Held(b)
  PROVE  SymbolMap' = [SymbolMap EXCEPT ![TextOf[s]] = s]
<1>0. SymbolsExact'
  BY SymbolIs, PTL
<1>1. \A t \in Keys:
        /\ SymbolOf(t)' \in Symbols \union {nil}
        /\ \A b \in Symbols: SymbolOf(t)' = b <=> TextOf[b] = t /\ Held(b)'
  BY <1>0 DEF SymbolsExact
<1>2. TextOf[s] \in Keys
  BY TextsOfSymbols DEF Interned
<1>3. SymbolOf(TextOf[s])' = s
  BY <1>1, <1>2
<1>4. ASSUME NEW t \in Keys, t # TextOf[s]
      PROVE  SymbolOf(t)' = SymbolOf(t)
  BY <1>1, <1>4, SymbolIs DEF SymbolsExact
<1> QED BY <1>2, <1>3, <1>4 DEF SymbolMap

\* A symbol that is added joins those that are held: in the array, or in the array
\* that is to be filled again.
LEMMA AddHolds ==
  ASSUME IInv, phase = "ready", NEW s \in Symbols, array[Scan(s)] = nil, Add(Scan(s), s)
  PROVE  \A b \in Symbols: Held(b)' <=> b = s \/ Held(b)
<1> DEFINE i == Scan(s)
           filled == [array EXCEPT ![i] = s]
<1>1. s # nil /\ i \in ArraySlots /\ Waiting = {} /\ arraySize \in Nat
  BY TextsOfSymbols, ScanStops DEF Interned, IInv, TypeOK, HasRoom, Waiting
<1>2. filled[i] = s /\ \A j \in ArraySlots: j # i => filled[j] = array[j]
  BY <1>1 DEF IInv, TypeOK
<1>3. \A b \in Symbols: (\E j \in Used \union {i}: filled[j] = b) <=> b = s \/ Held(b)
  BY <1>1, <1>2 DEF Held, Used
<1>4. CASE StartGrowth(filled, arraySize, "recreating")
  <2>1. /\ oldArray' = filled /\ oldSize' = arraySize /\ next' = 0
        /\ arraySize' = arraySize /\ array' = FlaggedArray(arraySize)
    BY <1>4 DEF StartGrowth
  <2>2. Used' = {}
    BY <2>1 DEF Used, ArraySlots, Slots, FlaggedArray
  <2>3. Waiting' = Used \union {i}
    BY <1>1, <1>2, <2>1 DEF Waiting, Used, ArraySlots, Slots
  <2> QED BY <1>3, <2>1, <2>2, <2>3 DEF Held
<1>5. CASE array' = filled /\ UNCHANGED <<arraySize, growth>>
  <2>1. Used' = Used \union {i}
    BY <1>5, StoreSymbol
  <2>2. Waiting' = {}
    BY <1>1, <1>5 DEF Waiting, growth
  <2> HIDE DEF filled
  <2> QED BY <1>3, <1>5, <2>1, <2>2 DEF Held
<1> QED BY <1>4, <1>5 DEF Add

LEMMA ReinsertHolds ==
  ASSUME IInv, Reinsert
  PROVE  \A b \in Symbols: Held(b)' <=> Held(b)
<1>1. /\ next \in 0 .. oldSize - 1 /\ next < oldSize /\ next' = next + 1
      /\ oldArray' = oldArray /\ oldSize' = oldSize
      /\ oldArray[next] \in Symbols \union {nil}
  BY DEF Reinsert, IInv, TypeOK
<1>2. Waiting' = Waiting \ {next}
  BY <1>1 DEF Waiting, IInv, TypeOK
<1>3. CASE oldArray[next] = nil
  <2>1. array' = array /\ arraySize' = arraySize /\ Waiting' = Waiting
    BY <1>2, <1>3 DEF Reinsert, table, Waiting
  <2> QED BY <1>1, <2>1 DEF Held, Used, ArraySlots, Slots
<1>4. CASE oldArray[next] # nil
  <2> DEFINE s == oldArray[next]
             i == Scan(s)
  <2>0. s \in Symbols /\ s \in Interned /\ next \in Waiting
    BY <1>1, <1>4 DEF Waiting, Interned
  <2>1. array[i] = nil /\ array' = [array EXCEPT ![i] = s] /\ arraySize' = arraySize
    BY <1>1, <1>4, <2>0, KeyPresent DEF Reinsert, IInv, SymbolsUnique
  <2>2. /\ i \in ArraySlots /\ Used' = Used \union {i} /\ array'[i] = s
        /\ \A j \in Used: array'[j] = array[j]
    BY <1>1, <2>0, <2>1, StoreSymbol
  <2>3. i \notin Used
    BY <2>1 DEF Used
  <2> HIDE DEF i
  <2> QED BY <1>1, <1>2, <2>0, <2>2, <2>3 DEF Held
<1> QED BY <1>3, <1>4

\* At the end of a loop nothing waits, so the old array can be let go, or the one
\* that has been filled take its place.
LEMMA EndHolds ==
  ASSUME IInv, EndRecreation \/ EndGrowth
  PROVE  \A b \in Symbols: Held(b)' <=> Held(b)
<1>1. Waiting = {}
  BY DEF EndRecreation, EndGrowth, Waiting, IInv, TypeOK
<1>2. CASE Ready
  <2>1. array' = array /\ arraySize' = arraySize /\ Waiting' = {}
    BY <1>2 DEF Ready, table, Waiting
  <2> QED BY <1>1, <2>1 DEF Held, Used, ArraySlots, Slots
<1>3. CASE StartGrowth(array, GrownSize(arraySize), "growing")
  <2>1. /\ oldArray' = array /\ oldSize' = arraySize /\ next' = 0
        /\ arraySize' = GrownSize(arraySize) /\ array' = FlaggedArray(GrownSize(arraySize))
    BY <1>3 DEF StartGrowth
  <2>2. Used' = {} /\ Waiting' = Used
    BY <2>1 DEF Used, Waiting, ArraySlots, Slots, FlaggedArray
  <2> QED BY <1>1, <2>1, <2>2 DEF Held
<1> QED BY <1>2, <1>3 DEF EndRecreation, EndGrowth

\* At first no text has a symbol.
LEMMA InitInterns == Init => Interning!Init
<1> SUFFICES ASSUME Init PROVE Interning!Init
  OBVIOUS
<1>1. \A b \in Symbols: ~Held(b)
  BY TextsOfSymbols DEF Init, FlaggedArray, Held, Used, ArraySlots, Slots, Waiting
<1>2. \A t \in Keys: SymbolOf(t) = nil
  BY <1>1 DEF SymbolOf
<1> QED BY <1>2 DEF Init, Interning!Init

\* Every call interns the text it is given; growing is a stutter.
LEMMA NextInterns == IInv /\ IInv' /\ [Next]_vars => [Interning!Next]_(Interning!vars)
<1> SUFFICES ASSUME IInv, IInv', [Next]_vars PROVE [Interning!Next]_(Interning!vars)
  OBVIOUS
<1>1. ASSUME NEW o \in Strings \union Symbols, InternString(o)
      PROVE  Interning!Intern(TextOf[o])
  <2>0. phase = "ready" /\ o \in Interned /\ TextOf[o] \in Keys
    BY <1>1, TextsOfSymbols DEF InternString, Interned
  <2>1. Find(o) = SymbolMap[TextOf[o]]
    BY <2>0, FindSymbol DEF SymbolMap
  <2>2. CASE Find(o) # nil
    <3>1. answer' = <<TextOf[o], Find(o)>> /\ UNCHANGED <<table, growth>>
      BY <1>1, <2>2 DEF InternString
    <3>2. \A b \in Symbols: Held(b)' <=> Held(b)
      BY <3>1 DEF Held, Used, ArraySlots, Slots, Waiting, table, growth
    <3>3. SymbolMap' = SymbolMap
      BY <3>2, SameSymbols
    <3> QED BY <2>1, <2>2, <3>1, <3>3 DEF Interning!Intern, SymbolMap
  <2>3. CASE Find(o) = nil
    <3>1. PICK s \in SymbolsFor(o): Add(Scan(s), s) /\ answer' = <<TextOf[o], s>>
      BY <1>1, <2>3 DEF InternString
    <3>2. s \in Symbols /\ TextOf[s] = TextOf[o] /\ array[Scan(s)] = nil
      BY <2>0, <2>3, <3>1, SymbolsForText
    <3>3. \A b \in Symbols: Held(b)' <=> b = s \/ Held(b)
      BY <2>0, <3>1, <3>2, AddHolds
    <3>4. SymbolMap' = [SymbolMap EXCEPT ![TextOf[o]] = s]
      BY <3>2, <3>3, NewSymbol
    <3>5. SymbolMap'[TextOf[o]] = s
      BY <2>0, <3>4 DEF SymbolMap
    <3> QED BY <2>1, <2>3, <3>1, <3>2, <3>4, <3>5 DEF Interning!Intern, SymbolMap
  <2> QED BY <2>2, <2>3
<1>2. CASE Reinsert \/ EndRecreation \/ EndGrowth
  <2>1. \A b \in Symbols: Held(b)' <=> Held(b)
    BY <1>2, ReinsertHolds, EndHolds
  <2>2. SymbolMap' = SymbolMap
    BY <2>1, SameSymbols
  <2>3. answer' = answer
    BY <1>2 DEF Reinsert, EndRecreation, EndGrowth
  <2> QED BY <2>2, <2>3 DEF Interning!vars, SymbolMap
<1>3. CASE UNCHANGED vars
  <2>1. \A b \in Symbols: Held(b)' <=> Held(b)
    BY <1>3 DEF vars, Held, Used, ArraySlots, Slots, Waiting, table, growth
  <2>2. SymbolMap' = SymbolMap
    BY <2>1, SameSymbols
  <2> QED BY <1>3, <2>2 DEF vars, Interning!vars, SymbolMap
<1>4. ASSUME NEW o \in Strings \union Symbols, InternString(o)
      PROVE  Interning!Next
  <2>1. TextOf[o] \in Keys
    BY TextsOfSymbols DEF Interned
  <2> QED BY <1>1, <1>4, <2>1 DEF Interning!Next
<1> QED BY <1>2, <1>3, <1>4 DEF Next

\* The symbol table gives a text one symbol for ever: whatever string or symbol the
\* text is asked for with, whatever the hashes collide into, and however often the
\* set is filled again in between, no symbol is lost and none is made twice.
THEOREM Implements == Spec => InternSpec
BY InitInterns, NextInterns, Invariance, PTL DEF Spec, InternSpec, Interning!Spec
=============================================================================
