------------------------- MODULE IdentityDictionary -------------------------
(***************************************************************************)
(* The open-addressing dictionaries of src/src/classes/collections.c:      *)
(* slvm_Dictionary_*, with a hash and an equality given by the caller, and *)
(* slvm_IdentityDictionary_*, the same code with the identity of the key.  *)
(* A key stands here for a class of equal key objects, and Hash for the    *)
(* hash function the dictionary is always used with.                       *)
(*                                                                         *)
(* An operation is one step, except that growing the array is a loop of    *)
(* steps, one per slot of the old array, before the next operation starts: *)
(* the program is sequential.                                              *)
(***************************************************************************)
EXTENDS OpenAddressing

CONSTANTS Values, Associations, KeyOf,
          Capacities   \* the capacities dictionaries are created with

ASSUME DictionaryAssumption ==
  /\ KeyOf \in [Associations -> Keys]
  /\ Capacities \subseteq Nat \ {0}     \* every caller passes one; Dictionary_new, 5
  /\ nil \notin Associations /\ nil \notin Values

VARIABLES array,       \* the slots 0 .. arraySize - 1: an association or nil
          arraySize,
          tally,
          value,       \* the value of each association, nil before it is made
          oldArray,    \* while growing: the old array,
          oldSize,     \*   its size,
          next,        \*   the next slot of it to reinsert,
          phase,       \* "ready" between operations, or "growing"
          answer       \* the key of the last call, and what it stored or found

table == <<array, arraySize, tally>>
growth == <<oldArray, oldSize, next, phase>>
vars == <<table, value, growth, answer>>

Answers == (Keys \X (Associations \union Values \union {nil})) \union {<<>>}

EmptyArray(n) == [i \in 0 .. n - 1 |-> nil]

\* The keys in the slots, and slvm_Dictionary_scanFor among them.
ArraySlots == Slots(arraySize)
KeyAt == [i \in ArraySlots |-> IF array[i] = nil THEN nil ELSE KeyOf[array[i]]]
Scan(k) == ScanFor(k, KeyAt, arraySize)

Init ==
  /\ arraySize \in Capacities
  /\ array = EmptyArray(arraySize)
  /\ tally = 0
  /\ value = [a \in Associations |-> nil]
  /\ oldArray = EmptyArray(0) /\ oldSize = 0 /\ next = 0 /\ phase = "ready"
  /\ answer = <<>>

\* Mutant of StartGrowth: the tally goes on counting.
TallyGoesOn(filled) ==
  /\ oldArray' = filled /\ oldSize' = arraySize /\ next' = 0
  /\ phase' = "growing"
  /\ tally' = tally + 1
  /\ arraySize' = GrownSize(arraySize)
  /\ array' = EmptyArray(GrownSize(arraySize))

\* slvm_Dictionary_grow up to its loop, with the array the caller just filled.
StartGrowth(filled) ==
  /\ oldArray' = filled /\ oldSize' = arraySize /\ next' = 0
  /\ phase' = "growing"
  /\ tally' = 0
  /\ arraySize' = GrownSize(arraySize)
  /\ array' = EmptyArray(GrownSize(arraySize))

\* An association goes into an empty slot, and the array grows if it is full.
Insert(i, a) ==
  LET filled == [array EXCEPT ![i] = a] IN
  IF FullCondition(arraySize, tally + 1)
  THEN StartGrowth(filled)
  ELSE /\ array' = filled /\ tally' = tally + 1
       /\ UNCHANGED <<arraySize, growth>>

\* The caller passes an association it has made before, or makes one.
Passed(a, v) == value[a] \in {nil, v} /\ value' = [value EXCEPT ![a] = v]

AddAssociation(a, v) ==
  /\ phase = "ready" /\ Passed(a, v)
  /\ LET i == Scan(KeyOf[a]) IN
     /\ i >= 0
     /\ IF array[i] # nil
        THEN array' = [array EXCEPT ![i] = a] /\ UNCHANGED <<arraySize, tally, growth>>
        ELSE Insert(i, a)
  /\ answer' = <<KeyOf[a], a>>

\* Mutant of AddAssociationIfNotExistent: the new association wins.
AddAssociationAnyway(a, v) ==
  /\ phase = "ready" /\ Passed(a, v)
  /\ LET i == Scan(KeyOf[a]) IN
     /\ i >= 0
     /\ IF array[i] = nil
        THEN Insert(i, a) /\ answer' = <<KeyOf[a], a>>
        ELSE /\ array' = [array EXCEPT ![i] = a] /\ answer' = <<KeyOf[a], array[i]>>
             /\ UNCHANGED <<arraySize, tally, growth>>

AddAssociationIfNotExistent(a, v) ==
  /\ phase = "ready" /\ Passed(a, v)
  /\ LET i == Scan(KeyOf[a]) IN
     /\ i >= 0
     /\ IF array[i] = nil
        THEN Insert(i, a) /\ answer' = <<KeyOf[a], a>>
        ELSE answer' = <<KeyOf[a], array[i]>> /\ UNCHANGED <<table, growth>>

\* slvm_IdentityDictionary_atPutWithAssociationClass.
AtPut(k, v) ==
  /\ phase = "ready"
  /\ LET i == Scan(k) IN
     /\ i >= 0
     /\ IF array[i] = nil
        THEN \E a \in Associations:
               /\ value[a] = nil /\ KeyOf[a] = k
               /\ Insert(i, a)
               /\ value' = [value EXCEPT ![a] = v]
        ELSE value' = [value EXCEPT ![array[i]] = v] /\ UNCHANGED <<table, growth>>
  /\ answer' = <<k, v>>

AssociationAt(k) ==
  /\ phase = "ready"
  /\ Scan(k) >= 0
  /\ answer' = <<k, array[Scan(k)]>>
  /\ UNCHANGED <<table, value, growth>>

AtOrNil(k) ==
  /\ phase = "ready"
  /\ LET i == Scan(k) IN
     /\ i >= 0
     /\ answer' = <<k, IF array[i] = nil THEN nil ELSE value[array[i]]>>
  /\ UNCHANGED <<table, value, growth>>

\* Mutants of Reinsert: the slots are copied as they are; the loop does not get
\* past an empty slot.
CopySlot ==
  /\ phase = "growing" /\ next < oldSize
  /\ next' = next + 1
  /\ IF oldArray[next] = nil THEN UNCHANGED table
     ELSE /\ array' = [array EXCEPT ![next] = oldArray[next]]
          /\ tally' = tally + 1
          /\ UNCHANGED arraySize
  /\ UNCHANGED <<value, oldArray, oldSize, phase, answer>>

StayAtEmptySlot ==
  /\ phase = "growing" /\ next < oldSize
  /\ LET a == oldArray[next] IN
     IF a = nil THEN UNCHANGED <<table, next>>
     ELSE /\ next' = next + 1
          /\ array' = [array EXCEPT ![Scan(KeyOf[a])] = a]
          /\ tally' = tally + 1
          /\ UNCHANGED arraySize
  /\ UNCHANGED <<value, oldArray, oldSize, phase, answer>>

\* One turn of the loop of slvm_Dictionary_grow: addAssociation again.  Were
\* the new array full in turn, it would grow inside the loop ("nested").
Reinsert ==
  /\ phase = "growing" /\ next < oldSize
  /\ next' = next + 1
  /\ LET a == oldArray[next]
         i == Scan(KeyOf[a])
     IN
     IF a = nil THEN UNCHANGED <<table, phase>>
     ELSE /\ i >= 0
          /\ array' = [array EXCEPT ![i] = a]
          /\ tally' = IF array[i] = nil THEN tally + 1 ELSE tally
          /\ phase' = IF array[i] = nil /\ FullCondition(arraySize, tally + 1)
                      THEN "nested" ELSE phase
          /\ UNCHANGED arraySize
  /\ UNCHANGED <<value, oldArray, oldSize, answer>>

EndGrowth ==
  /\ phase = "growing" /\ next = oldSize
  /\ phase' = "ready" /\ oldArray' = EmptyArray(0) /\ oldSize' = 0 /\ next' = 0
  /\ UNCHANGED <<table, value, answer>>

Next ==
  \/ \E a \in Associations, v \in Values:
        AddAssociation(a, v) \/ AddAssociationIfNotExistent(a, v)
  \/ \E k \in Keys, v \in Values: AtPut(k, v)
  \/ \E k \in Keys: AssociationAt(k) \/ AtOrNil(k)
  \/ Reinsert \/ EndGrowth

\* The loop that grows the array is never abandoned.
Spec == Init /\ [][Next]_vars /\ WF_vars(Reinsert \/ EndGrowth)
-----------------------------------------------------------------------------
Used == {i \in ArraySlots: array[i] # nil}

TypeOK ==
  /\ arraySize \in Nat \ {0} /\ oldSize \in Nat /\ next \in 0 .. oldSize
  /\ array \in [ArraySlots -> Associations \union {nil}]
  /\ oldArray \in [0 .. oldSize - 1 -> Associations \union {nil}]
  /\ tally \in Nat
  /\ value \in [Associations -> Values \union {nil}]
  /\ phase \in {"ready", "growing"}
  /\ answer \in Answers

\* The old slots that are still to be moved to the new array.
Waiting == {i \in next .. oldSize - 1: oldArray[i] # nil}

\* No key has two associations, in the array, in what is left of the old one,
\* or in both.
KeysUnique ==
  /\ \A i, j \in Used: KeyOf[array[i]] = KeyOf[array[j]] => i = j
  /\ \A i, j \in Waiting: KeyOf[oldArray[i]] = KeyOf[oldArray[j]] => i = j
  /\ \A i \in Used, j \in Waiting: KeyOf[array[i]] # KeyOf[oldArray[j]]

\* Every association is where the probe sequence of its key gets to before it
\* meets an empty slot: no operation can miss a key that is there.
Searchable == AllReachable(KeyAt, arraySize)

\* The tally is the number of associations, and the array has room: every scan
\* ends at a slot, so the asserts on its index hold (collections.c:393, 409,
\* 493, 508, 538, 568, 603).
TallyCounts == tally = Cardinality(Used)
ScanSucceeds == \A k \in Keys: Scan(k) >= 0

\* Between operations an array of 4 slots or more is not full, and a smaller
\* one is empty; while it grows, the array holds at most the associations the
\* loop has passed, half its slots or fewer.
HasRoom ==
  /\ phase = "ready" =>
       /\ oldSize = 0
       /\ IF arraySize < 4 THEN tally = 0 ELSE ~FullCondition(arraySize, tally)
  /\ phase = "growing" =>
       /\ arraySize >= 4 /\ 2 * oldSize <= arraySize
       /\ tally <= next

\* Growth ends, with every association in the new array.
GrowthEnds == phase = "growing" ~> phase = "ready"

(***************************************************************************)
(* The dictionary implements the map of associations.                      *)
(***************************************************************************)
Held(a) == (\E i \in Used: array[i] = a) \/ (\E i \in Waiting: oldArray[i] = a)

BindingOf(k) ==
  IF \E a \in Associations: KeyOf[a] = k /\ Held(a)
  THEN CHOOSE a \in Associations: KeyOf[a] = k /\ Held(a)
  ELSE nil

Binding == [k \in Keys |-> BindingOf(k)]

Map == INSTANCE AssociationMap WITH binding <- Binding

MapSpec == Map!Spec
=============================================================================
