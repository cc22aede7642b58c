---------------------------- MODULE SymbolTable -----------------------------
(***************************************************************************)
(* The interning of symbols in src/src/classes/collections.c: the weak set *)
(* newSymbols and slvm_Symbol_internString.  The set symbolTable, which is *)
(* searched first, is never filled by this code.                           *)
(*                                                                         *)
(* Keys are the texts, and Hash the hash of each; the slots are compared   *)
(* with slvm_String_equals (Strings).  Symbols may be wide, strings may    *)
(* not: the size of a wide string made at run time is garbage, see         *)
(* ObjectHeap.  Growing the set is a loop of steps, one per slot of the    *)
(* old array: first into an array of the same size, then, if it is full    *)
(* again, into a larger one.                                               *)
(***************************************************************************)
EXTENDS OpenAddressing, Strings

CONSTANT Capacity     \* newSymbols is created with 128 slots

ASSUME SymbolAssumption ==
  /\ TextOf \in [Strings \union Symbols -> Keys]
  /\ Strings \intersect Wide = {}
  /\ \A o \in Strings \union Symbols:
       \E s \in Symbols: TextOf[s] = TextOf[o] /\ (s \in Wide => o \in Wide)
  /\ nil \notin Strings \union Symbols /\ Symbols \intersect Keys = {}
  /\ Capacity \in Nat /\ Capacity >= 4

\* The symbols are equal to what has their text, and to nothing else.  Not all
\* texts are so: a wide symbol of one character is equal to the byte symbol of its
\* low byte, and shares its probe sequence in arrays of up to 256 slots.
ASSUME EqualityAssumption ==
  /\ \A o \in Strings \union Symbols, s \in Symbols: Equals(o, s) <=> TextOf[o] = TextOf[s]
  /\ \A t \in Keys: Hash[t] = TextHash(t)

VARIABLES array,       \* the slots 0 .. arraySize - 1: a symbol, or nil for the flag
          arraySize,
          tally,
          oldArray,    \* while growing: the old array,
          oldSize,     \*   its size,
          next,        \*   the next slot of it to reinsert,
          phase,       \* "ready", "recreating" at the same size, or "growing"
          answer       \* the text last interned, and the symbol returned

table == <<array, arraySize, tally>>
growth == <<oldArray, oldSize, next, phase>>
vars == <<table, growth, answer>>

FlaggedArray(n) == [i \in 0 .. n - 1 |-> nil]

\* slvm_WeakSet_scanFor with the string hash and equality: the slots with an equal
\* symbol have the key that it looks for.
ArraySlots == Slots(arraySize)
KeyAt == [i \in ArraySlots |-> IF array[i] = nil THEN nil ELSE TextOf[array[i]]]
SeenBy(o) ==
  [i \in ArraySlots |-> IF array[i] # nil /\ Equals(o, array[i]) THEN TextOf[o] ELSE array[i]]
Scan(o) == ScanFor(TextOf[o], SeenBy(o), arraySize)

Init ==
  /\ arraySize = Capacity
  /\ array = FlaggedArray(arraySize)
  /\ tally = 0
  /\ oldArray = FlaggedArray(0) /\ oldSize = 0 /\ next = 0 /\ phase = "ready"
  /\ answer = <<>>

\* Mutant of Find: only the set symbolTable is searched.
FindInSymbolTable(o) == nil

\* slvm_WeakSet_find.
Find(o) == IF Scan(o) < 0 THEN nil ELSE array[Scan(o)]

\* Mutant of SymbolsFor: the string is not converted.
Unconverted(o) == {o}

\* A symbol is interned itself; a string is converted into a new symbol.
SymbolsFor(o) ==
  IF o \in Symbols THEN {o} ELSE {s \in Symbols \ Wide: TextOf[s] = TextOf[o]}

\* slvm_WeakSet_doGrow up to its loop, with the array to be emptied.
StartGrowth(filled, n, newPhase) ==
  /\ oldArray' = filled /\ oldSize' = arraySize /\ next' = 0
  /\ phase' = newPhase
  /\ tally' = 0
  /\ arraySize' = n
  /\ array' = FlaggedArray(n)

\* slvm_WeakSet_add, with the index that doAdd has found.
Add(i, s) ==
  LET filled == [array EXCEPT ![i] = s]
      counted == IF array[i] = s THEN tally ELSE tally + 1
  IN
  IF FullCondition(arraySize, counted)
  THEN StartGrowth(filled, arraySize, "recreating")
  ELSE array' = filled /\ tally' = counted /\ UNCHANGED <<arraySize, growth>>

\* slvm_Symbol_internString; internCString passes it a new symbol.
InternString(o) ==
  /\ phase = "ready"
  /\ IF Find(o) # nil
     THEN answer' = <<TextOf[o], Find(o)>> /\ UNCHANGED <<table, growth>>
     ELSE \E s \in SymbolsFor(o):
            /\ Scan(s) >= 0
            /\ Add(Scan(s), s)
            /\ answer' = <<TextOf[o], s>>

\* Mutant of Reinsert: the slots are copied as they are.
CopySlot ==
  /\ phase # "ready" /\ next < oldSize
  /\ next' = next + 1
  /\ IF oldArray[next] = nil THEN UNCHANGED table
     ELSE /\ array' = [array EXCEPT ![next] = oldArray[next]]
          /\ tally' = tally + 1
          /\ UNCHANGED arraySize
  /\ UNCHANGED <<oldArray, oldSize, phase, answer>>

\* One turn of the loop of slvm_WeakSet_doGrow: doAdd again.
Reinsert ==
  /\ phase # "ready" /\ next < oldSize
  /\ next' = next + 1
  /\ LET s == oldArray[next]
         i == Scan(s)
     IN
     IF s = nil THEN UNCHANGED table
     ELSE /\ i >= 0
          /\ array' = [array EXCEPT ![i] = s]
          /\ tally' = IF array[i] = s THEN tally ELSE tally + 1
          /\ UNCHANGED arraySize
  /\ UNCHANGED <<oldArray, oldSize, phase, answer>>

Ready == /\ phase' = "ready" /\ oldArray' = FlaggedArray(0) /\ oldSize' = 0 /\ next' = 0
         /\ UNCHANGED table

\* Mutant of EndRecreation: an array of the same size is taken for enough.
NeverLarger ==
  /\ phase = "recreating" /\ next = oldSize
  /\ Ready
  /\ UNCHANGED answer

\* slvm_WeakSet_grow: unless recreating the set has made room, it is enlarged.
EndRecreation ==
  /\ phase = "recreating" /\ next = oldSize
  /\ IF FullCondition(arraySize, tally)
     THEN StartGrowth(array, GrownSize(arraySize), "growing")
     ELSE Ready
  /\ UNCHANGED answer

EndGrowth ==
  /\ phase = "growing" /\ next = oldSize
  /\ Ready
  /\ UNCHANGED answer

Next ==
  \/ \E o \in Strings \union Symbols: InternString(o)
  \/ Reinsert \/ EndRecreation \/ EndGrowth

Spec == Init /\ [][Next]_vars
-----------------------------------------------------------------------------
Used == {i \in ArraySlots: array[i] # nil}

\* The old slots that are still to be moved to the new array.
Waiting == {i \in next .. oldSize - 1: oldArray[i] # nil}

\* Only symbols are interned, never the strings they were made of.
TypeOK ==
  /\ arraySize \in Nat \ {0} /\ oldSize \in Nat /\ next \in 0 .. oldSize
  /\ array \in [ArraySlots -> Symbols \union {nil}]
  /\ oldArray \in [0 .. oldSize - 1 -> Symbols \union {nil}]
  /\ tally \in Nat
  /\ phase \in {"ready", "recreating", "growing"}
  /\ answer \in (Keys \X Symbols) \union {<<>>}

\* Every symbol is where the probe sequence of its text gets to before it meets
\* an empty slot, in the array that is full to the last slot too: internString
\* can miss no symbol and make a second one for its text.
Searchable == AllReachable(KeyAt, arraySize)

\* The assert of slvm_WeakSet_doAdd holds (collections.c:805): between calls
\* every text has a slot, and while the set is recreated, at the same size and
\* full as it is, the symbol that is next to be reinserted has one.
ScanSucceeds ==
  /\ phase = "ready" => \A o \in Strings \union Symbols: Scan(o) >= 0
  /\ phase # "ready" => \A i \in Waiting: Scan(oldArray[i]) >= 0

(***************************************************************************)
(* Interning gives every text one symbol for ever.                         *)
(***************************************************************************)
Held(s) == (\E i \in Used: array[i] = s) \/ (\E i \in Waiting: oldArray[i] = s)

SymbolOf(t) ==
  IF \E s \in Symbols: TextOf[s] = t /\ Held(s)
  THEN CHOOSE s \in Symbols: TextOf[s] = t /\ Held(s)
  ELSE nil

Interning == INSTANCE SymbolInterning
  WITH Texts <- Keys, symbolOf <- [t \in Keys |-> SymbolOf(t)]

\* All requests for one text, by whatever string or symbol and however the set
\* grows in between, are answered with the same symbol.
InternSpec == Interning!Spec
=============================================================================
