-------------------------- MODULE MethodDictionary --------------------------
(***************************************************************************)
(* The method dictionaries of src/src/classes/collections.c: selectors and *)
(* methods in two arrays of the same size.  An operation is one step, but  *)
(* growing is a loop of steps, one per slot of the old arrays; an atPut    *)
(* that finds no slot grows first and then starts again.                   *)
(***************************************************************************)
EXTENDS OpenAddressing

CONSTANTS Methods,
          Capacities   \* the capacities dictionaries are created with

ASSUME MethodDictionaryAssumption ==
  Capacities \subseteq Nat /\ nil \notin Methods

VARIABLES keys, array, \* the slots 0 .. arraySize - 1
          arraySize,
          tally,
          oldKeys, oldArray, oldSize,   \* while growing: the old arrays,
          next,        \*   and their next slot to reinsert
          phase,       \* "ready" between operations, or "growing"
          pending,     \* the atPut to start again, as <<key, method>>
          answer       \* the selector of the last call, and what it stored or found

table == <<keys, array, arraySize, tally>>
growth == <<oldKeys, oldArray, oldSize, next, phase>>
vars == <<table, growth, pending, answer>>

NoCall == <<>>
Answers == (Keys \X (Methods \union {nil})) \union {NoCall}

EmptyArray(n) == [i \in Slots(n) |-> nil]

\* slvm_MethodDictionary_scanFor.
Scan(k) == ScanFor(k, keys, arraySize)

Init ==
  /\ arraySize \in Capacities
  /\ keys = EmptyArray(arraySize) /\ array = EmptyArray(arraySize) /\ tally = 0
  /\ oldKeys = EmptyArray(0) /\ oldArray = EmptyArray(0)
  /\ oldSize = 0 /\ next = 0 /\ phase = "ready"
  /\ pending = NoCall /\ answer = NoCall

\* Mutant of StartGrowth: the tally goes on counting.
TallyGoesOn(filledKeys, filledArray) ==
  /\ oldKeys' = filledKeys /\ oldArray' = filledArray
  /\ oldSize' = arraySize /\ next' = 0 /\ phase' = "growing"
  /\ tally' = tally + 1
  /\ arraySize' = GrownSize(arraySize)
  /\ keys' = EmptyArray(GrownSize(arraySize))
  /\ array' = EmptyArray(GrownSize(arraySize))

\* slvm_MethodDictionary_grow up to its loop, with the arrays as they are then.
StartGrowth(filledKeys, filledArray) ==
  /\ oldKeys' = filledKeys /\ oldArray' = filledArray
  /\ oldSize' = arraySize /\ next' = 0 /\ phase' = "growing"
  /\ tally' = 0
  /\ arraySize' = GrownSize(arraySize)
  /\ keys' = EmptyArray(GrownSize(arraySize))
  /\ array' = EmptyArray(GrownSize(arraySize))

\* Mutant of Insert: it grows with the selector in place but not the method.
GrowBeforeMethod(i, k, m) ==
  LET filledKeys  == [keys EXCEPT ![i] = k]
      filledArray == [array EXCEPT ![i] = m] IN
  IF FullCondition(arraySize, tally + 1)
  THEN StartGrowth(filledKeys, array)
  ELSE /\ keys' = filledKeys /\ array' = filledArray /\ tally' = tally + 1
       /\ UNCHANGED <<arraySize, growth>>

\* slvm_MethodDictionary_atPut with the slot found: a new selector, or a new
\* method for the one that is there.
Insert(i, k, m) ==
  LET filledKeys  == [keys EXCEPT ![i] = k]
      filledArray == [array EXCEPT ![i] = m] IN
  IF FullCondition(arraySize, tally + 1)
  THEN StartGrowth(filledKeys, filledArray)
  ELSE /\ keys' = filledKeys /\ array' = filledArray /\ tally' = tally + 1
       /\ UNCHANGED <<arraySize, growth>>

\* Mutant of Replace: the first method stays.
KeepMethod(i, m) == UNCHANGED <<table, growth>>

Replace(i, m) ==
  /\ array' = [array EXCEPT ![i] = m]
  /\ UNCHANGED <<keys, arraySize, tally, growth>>

Store(k, m) ==
  LET i == Scan(k) IN
  IF i < 0
  THEN StartGrowth(keys, array) /\ pending' = <<k, m>> /\ UNCHANGED answer
  ELSE /\ IF keys[i] = nil THEN Insert(i, k, m) ELSE Replace(i, m)
       /\ pending' = NoCall /\ answer' = <<k, m>>

Idle == phase = "ready" /\ pending = NoCall

AtPut(k, m) == Idle /\ Store(k, m)

\* slvm_MethodDictionary_atPut calls itself after growing.
Retry ==
  /\ phase = "ready" /\ pending # NoCall
  /\ Store(pending[1], pending[2])

\* Unlike the other dictionaries', it returns the slot's value unconditionally.
AtOrNil(k) ==
  /\ Idle
  /\ answer' = <<k, IF Scan(k) < 0 THEN nil ELSE array[Scan(k)]>>
  /\ UNCHANGED <<table, growth, pending>>

\* Mutant of Reinsert: the slots are copied as they are.
CopySlot ==
  /\ phase = "growing" /\ next < oldSize
  /\ next' = next + 1
  /\ IF oldKeys[next] = nil THEN UNCHANGED table
     ELSE /\ keys' = [keys EXCEPT ![next] = oldKeys[next]]
          /\ array' = [array EXCEPT ![next] = oldArray[next]]
          /\ tally' = tally + 1
          /\ UNCHANGED arraySize
  /\ UNCHANGED <<oldKeys, oldArray, oldSize, phase, pending, answer>>

\* One turn of the loop of slvm_MethodDictionary_grow: atPut again.  Were there
\* no slot, or the new arrays full, they would grow in the loop ("nested").
Reinsert ==
  /\ phase = "growing" /\ next < oldSize
  /\ next' = next + 1
  /\ LET k == oldKeys[next]
         i == Scan(k)
         added == IF keys[i] = nil THEN 1 ELSE 0
     IN
     IF k = nil THEN UNCHANGED <<table, phase>>
     ELSE IF i < 0 THEN phase' = "nested" /\ UNCHANGED table
     ELSE /\ keys' = [keys EXCEPT ![i] = k]
          /\ array' = [array EXCEPT ![i] = oldArray[next]]
          /\ tally' = tally + added
          /\ phase' = IF added = 1 /\ FullCondition(arraySize, tally + 1)
                      THEN "nested" ELSE phase
          /\ UNCHANGED arraySize
  /\ UNCHANGED <<oldKeys, oldArray, oldSize, pending, answer>>

EndGrowth ==
  /\ phase = "growing" /\ next = oldSize
  /\ phase' = "ready" /\ oldSize' = 0 /\ next' = 0
  /\ oldKeys' = EmptyArray(0) /\ oldArray' = EmptyArray(0)
  /\ UNCHANGED <<table, pending, answer>>

Next ==
  \/ \E k \in Keys: AtOrNil(k) \/ \E m \in Methods: AtPut(k, m)
  \/ Retry \/ Reinsert \/ EndGrowth

\* An atPut is never abandoned.
Spec == Init /\ [][Next]_vars /\ WF_vars(Retry \/ Reinsert \/ EndGrowth)
-----------------------------------------------------------------------------
Used    == Occupied(keys, arraySize)
\* The old slots that are still to be moved to the new arrays.
Waiting == {i \in next .. oldSize - 1: oldKeys[i] # nil}

TypeOK ==
  /\ arraySize \in Nat /\ oldSize \in Nat /\ next \in 0 .. oldSize
  /\ keys \in [Slots(arraySize) -> Keys \union {nil}]
  /\ array \in [Slots(arraySize) -> Methods \union {nil}]
  /\ oldKeys \in [Slots(oldSize) -> Keys \union {nil}]
  /\ oldArray \in [Slots(oldSize) -> Methods \union {nil}]
  /\ tally \in Nat
  /\ phase \in {"ready", "growing"}
  /\ pending \in (Keys \X Methods) \union {NoCall}
  /\ answer \in Answers

\* No selector has two slots, in the arrays, in what is left of the old ones,
\* or in both: a lookup cannot find a method that was replaced.
SelectorsUnique ==
  /\ KeysOnce(keys, arraySize)
  /\ \A i, j \in Waiting: oldKeys[i] = oldKeys[j] => i = j
  /\ \A i \in Used, j \in Waiting: keys[i] # oldKeys[j]

\* No scan can miss a selector: a lookup never goes on to the superclass, or
\* to doesNotUnderstand:, although the class has the method.
Searchable == AllReachable(keys, arraySize)

\* A slot has a method exactly when it has a selector: atOrNil, which does not
\* look at the selector again, returns no method for a selector that is absent.
NoStrayMethod ==
  /\ \A i \in Slots(arraySize): keys[i] = nil <=> array[i] = nil
  /\ \A i \in Slots(oldSize): oldKeys[i] = nil <=> oldArray[i] = nil

\* The tally is the number of selectors, and between operations the arrays have
\* room; an atPut that finds no slot is only met with empty arrays of size 0,
\* and growing never makes the new arrays grow in turn.
HasRoom ==
  /\ tally = Cardinality(Used)
  /\ phase = "ready" =>
       /\ oldSize = 0
       /\ IF arraySize < 4 THEN tally = 0 ELSE ~FullCondition(arraySize, tally)
       /\ pending # NoCall => arraySize >= 4
  /\ phase = "growing" =>
       /\ arraySize >= 4 /\ 2 * oldSize <= arraySize
       /\ tally <= next
       /\ pending # NoCall => oldSize = 0

\* Every atPut ends.
CallsEnd == (pending # NoCall \/ phase = "growing") ~> Idle

(***************************************************************************)
(* The dictionary implements the map from selectors to methods.            *)
(***************************************************************************)
MethodOf(k) ==
  IF \E i \in Used: keys[i] = k THEN array[CHOOSE i \in Used: keys[i] = k]
  ELSE IF \E i \in Waiting: oldKeys[i] = k
       THEN oldArray[CHOOSE i \in Waiting: oldKeys[i] = k]
       ELSE nil

Map == INSTANCE SelectorMap WITH methodAt <- [k \in Keys |-> MethodOf(k)]

MapSpec == Map!Spec
=============================================================================
