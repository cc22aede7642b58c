------------------------- MODULE ObjectHeap_proofs -------------------------
(***************************************************************************)
(* Proofs about the object heap, for any formats, sizes, number of objects *)
(* and page size (HeapAssumption).                                         *)
(***************************************************************************)
EXTENDS ObjectHeap, Integers, TLAPS

-----------------------------------------------------------------------------
Objects == [start : Nat, header : Nat, slots : Nat, oops : Nat, class : 0 .. 31, size : Nat]

Big(o) == IsBig(o.class = OF_MIXED_OBJECT, o.slots)
End(o) == o.header + 1 + o.slots

\* What is true of the format in the header of an object, whose padding it holds:
\* only an object of 32 bit elements may be taken for a mixed one, and but for 16
\* and 32 bit elements it gives the size that was asked for.
Sound(o, format) ==
  /\ format \in 0 .. 31
  /\ IF o.class = OF_MIXED_OBJECT THEN o.oops * 8 <= o.size ELSE o.oops = o.slots
  /\ o.class = OF_MIXED_OBJECT => format >= 24
  /\ o.class \notin {OF_MIXED_OBJECT, OF_INDEXABLE_32} => format < 24
  /\ o.class \notin {OF_INDEXABLE_32, OF_INDEXABLE_16} =>
       /\ o.slots * Multiplier(format) - ExtraSize(format) = o.size
       /\ format \in o.class .. o.class + Multiplier(o.class) - 1

\* The words of an object are those its allocation wrote.
Written(o) ==
  /\ o.start \in DOMAIN memory /\ memory[o.start] = Flag(Big(o))
  /\ o.header \in DOMAIN memory
  /\ \E format \in 0 .. 31 :
       /\ memory[o.header] = Header(IF Big(o) THEN 255 ELSE o.slots, format)
       /\ Sound(o, format)
  /\ Big(o) =>
       /\ o.start + 2 \in DOMAIN memory
       /\ memory[o.start + 2] =
            Counts(IF o.class = OF_MIXED_OBJECT THEN o.oops ELSE 0, o.slots)

\* The objects lie one behind the other, up to the end of the heap.
Placed(o) ==
  /\ o.start % 2 = 0
  /\ o.header = o.start + PreHeader(Big(o))
  /\ End(o) <= size

Chained ==
  \A i \in 1 .. Len(objects) :
    /\ \A j \in 1 .. i - 1 : End(objects[j]) <= objects[i].start
    /\ IF i = Len(objects) THEN End(objects[i]) = size
                           ELSE RoundUp(End(objects[i]), 2) = objects[i + 1].start

HeapBounds ==
  /\ size \in Nat /\ committed \in Nat
  /\ size <= committed /\ committed % PageWords = 0
  /\ DOMAIN memory \subseteq 0 .. size - 1

\* The inductive invariant.
IInv ==
  /\ objects \in Seq(Objects)
  /\ HeapBounds
  /\ \A i \in 1 .. Len(objects) : Placed(objects[i]) /\ Written(objects[i])
  /\ Chained

-----------------------------------------------------------------------------
LEMMA MultipleMod ==
  ASSUME NEW q \in Nat, NEW unit \in Nat \ {0}
  PROVE  (q * unit) % unit = 0
OBVIOUS

\* Rounding up to a unit gives the first multiple of it that is not less.
LEMMA RoundUpProps ==
  ASSUME NEW n \in Nat, NEW unit \in Nat \ {0}
  PROVE  RoundUp(n, unit) \in Nat /\ RoundUp(n, unit) >= n /\ RoundUp(n, unit) % unit = 0
<1> DEFINE x == n + unit - 1
           q == x \div unit
<1>1. x \in Nat /\ q \in Nat
  OBVIOUS
<1>2. x < unit * q + unit
  BY <1>1
<1>3. q * unit \in Nat /\ q * unit = unit * q
  BY <1>1
<1>4. (q * unit) % unit = 0
  BY <1>1, MultipleMod
<1> QED BY <1>1, <1>2, <1>3, <1>4 DEF RoundUp

\* An object starts at the first even word past the heap.
LEMMA AllocateAtProps ==
  ASSUME size \in Nat
  PROVE  AllocateAt \in Nat /\ AllocateAt >= size /\ AllocateAt % 2 = 0
BY RoundUpProps DEF AllocateAt

\* What is committed covers what is allocated, in whole pages.
LEMMA CommitProps ==
  ASSUME HeapBounds, NEW words \in Nat
  PROVE  /\ Commit(words) \in Nat /\ Commit(words) % PageWords = 0
         /\ AllocateAt + words <= Commit(words)
<1>1. AllocateAt + words \in Nat
  BY AllocateAtProps DEF HeapBounds
<1>2. /\ RoundUp(AllocateAt + words, PageWords) \in Nat
      /\ RoundUp(AllocateAt + words, PageWords) >= AllocateAt + words
      /\ RoundUp(AllocateAt + words, PageWords) % PageWords = 0
  BY <1>1, RoundUpProps, HeapAssumption
<1> QED BY <1>1, <1>2 DEF Commit, HeapBounds

\* The bytes that the last of the slots of a content lacks.
LEMMA Padding ==
  ASSUME NEW content \in Nat
  PROVE  /\ (content + 7) \div 8 \in Nat
         /\ ((content + 7) \div 8) * 8 - content \in 0 .. 7
OBVIOUS

LEMMA InitIInv == Init => IInv
<1> SUFFICES ASSUME Init PROVE IInv
  OBVIOUS
<1>1. objects \in Seq(Objects) /\ Len(objects) = 0
  BY DEF Init
<1>2. DOMAIN memory = {}
  BY DEF Init
<1>3. HeapBounds
  BY <1>2, HeapAssumption DEF Init, HeapBounds
<1> QED BY <1>1, <1>3 DEF IInv, Chained

\* What slvm_Behavior_basicNew asks for is sound.
LEMMA BasicNewSound ==
  ASSUME NEW class \in Formats, class # OF_MIXED_OBJECT,
         NEW fixedSlots \in Nat, NEW variableSize \in Nat,
         HasShape(class, fixedSlots, variableSize),
         NEW o, NEW extra, NEW remaining,
         extra = ExtraSlots(class, variableSize),
         remaining = extra * 8 - variableSize * ElementSize(class),
         o.class = class, o.slots = fixedSlots + extra, o.oops = o.slots,
         o.size = fixedSlots + variableSize
  PROVE  extra \in Nat /\ Sound(o, (class + remaining) % 32)
<1>1. CASE class = OF_INDEXABLE_32
  <2>1. extra \in Nat /\ remaining \in Int
    <3>1. extra = (variableSize * 4 + 7) \div 4
      BY <1>1 DEF ExtraSlots, OF_INDEXABLE_32, OF_INDEXABLE_16, OF_INDEXABLE_8
    <3>2. ElementSize(class) = 4
      BY <1>1 DEF ElementSize, OF_INDEXABLE_32, OF_INDEXABLE_16, OF_INDEXABLE_8
    <3> QED BY <3>1, <3>2
  <2>2. (class + remaining) % 32 \in 0 .. 31
    BY <1>1, <2>1 DEF OF_INDEXABLE_32
  <2> QED BY <1>1, <2>1, <2>2 DEF Sound, OF_INDEXABLE_32, OF_INDEXABLE_16, OF_MIXED_OBJECT
<1>2. CASE class = OF_INDEXABLE_16
  <2>1. extra \in Nat /\ remaining \in 0 .. 7
    <3>1. extra = (variableSize * 2 + 7) \div 8
      BY <1>2 DEF ExtraSlots, OF_INDEXABLE_32, OF_INDEXABLE_16, OF_INDEXABLE_8
    <3>2. ElementSize(class) = 2
      BY <1>2 DEF ElementSize, OF_INDEXABLE_32, OF_INDEXABLE_16, OF_INDEXABLE_8
    <3>3. variableSize * 2 \in Nat
      OBVIOUS
    <3> QED BY <3>1, <3>2, <3>3, Padding
  <2>2. (class + remaining) % 32 \in 12 .. 19
    BY <1>2, <2>1 DEF OF_INDEXABLE_16
  <2> QED BY <1>2, <2>1, <2>2 DEF Sound, OF_INDEXABLE_32, OF_INDEXABLE_16, OF_MIXED_OBJECT
<1>3. CASE class = OF_INDEXABLE_8
  <2>1. /\ extra = (variableSize + 7) \div 8
        /\ remaining = extra * 8 - variableSize
    BY <1>3 DEF ExtraSlots, ElementSize, OF_INDEXABLE_32, OF_INDEXABLE_16, OF_INDEXABLE_8
  <2>2. extra \in Nat /\ remaining \in 0 .. 7
    BY <2>1, Padding
  <2>3. (class + remaining) % 32 = 16 + remaining
    BY <1>3, <2>2 DEF OF_INDEXABLE_8
  <2>4. fixedSlots = 0
    BY <1>3 DEF HasShape, RawIndexable
  <2>5. Multiplier(16 + remaining) = 8 /\ ExtraSize(16 + remaining) = remaining
    BY <2>2 DEF Multiplier, ExtraSize
  <2>6. Multiplier(class) = 8
    BY <1>3 DEF Multiplier, OF_INDEXABLE_8
  <2>7. o.slots * Multiplier(16 + remaining) - ExtraSize(16 + remaining) = o.size
    BY <2>1, <2>2, <2>4, <2>5
  <2> QED BY <1>3, <2>2, <2>3, <2>6, <2>7
          DEF Sound, OF_INDEXABLE_32, OF_INDEXABLE_8, OF_INDEXABLE_16, OF_MIXED_OBJECT
<1>4. CASE class \in Fixed \union OopsIndexable \union {OF_INDEXABLE_64}
  <2>1. class \in {0, 1, 2, 3, 4, 5, 9}
    BY <1>4 DEF Fixed, OopsIndexable, OF_INDEXABLE_64
  <2>2. extra = variableSize /\ remaining = 0
    BY <2>1 DEF ExtraSlots, ElementSize, OF_INDEXABLE_32, OF_INDEXABLE_16, OF_INDEXABLE_8
  <2>3. (class + remaining) % 32 = class
    BY <2>1, <2>2
  <2>4. Multiplier(class) = 1 /\ ExtraSize(class) = 0
    BY <2>1 DEF Multiplier, ExtraSize
  <2>5. o.slots * Multiplier(class) - ExtraSize(class) = o.size
    BY <2>2, <2>4
  <2>6. class \in class .. class + Multiplier(class) - 1
    BY <2>1, <2>4
  <2>7. (class + remaining) % 32 \in 0 .. 31 /\ (class + remaining) % 32 < 24
    BY <2>1, <2>3
  <2> QED BY <2>2, <2>3, <2>5, <2>6, <2>7
          DEF Sound, OF_INDEXABLE_32, OF_INDEXABLE_16, OF_MIXED_OBJECT
<1> QED BY <1>1, <1>2, <1>3, <1>4, HeapAssumption DEF RawIndexable

\* So is what slvm_Behavior_basicNewMixedNative asks for.
LEMMA BasicNewMixedSound ==
  ASSUME NEW fixedSlots \in Nat, NEW variableSize \in Nat, NEW nativeSize \in Nat,
         NEW o, NEW content, NEW extra, NEW remaining,
         content = variableSize * 8 + nativeSize,
         extra = (content + 7) \div 8,
         remaining = extra * 8 - content,
         o.class = OF_MIXED_OBJECT, o.slots = fixedSlots + extra,
         o.oops = fixedSlots + variableSize, o.size = fixedSlots * 8 + content
  PROVE  extra \in Nat /\ Sound(o, (OF_MIXED_OBJECT + remaining) % 32)
<1>1. content \in Nat
  OBVIOUS
<1>2. extra \in Nat /\ remaining \in 0 .. 7
  BY <1>1, Padding
<1>3. (OF_MIXED_OBJECT + remaining) % 32 = 24 + remaining
  BY <1>2 DEF OF_MIXED_OBJECT
<1>4. Multiplier(24 + remaining) = 8 /\ ExtraSize(24 + remaining) = remaining
  BY <1>2 DEF Multiplier, ExtraSize
<1>5. Multiplier(OF_MIXED_OBJECT) = 8
  BY DEF Multiplier, OF_MIXED_OBJECT
<1>6. o.oops * 8 <= o.size
  OBVIOUS
<1>7. o.slots * 8 - remaining = o.size
  BY <1>1, <1>2
<1> QED BY <1>2, <1>3, <1>4, <1>5, <1>6, <1>7
        DEF Sound, OF_INDEXABLE_32, OF_INDEXABLE_16, OF_MIXED_OBJECT

\* The words written are kept.
WordsKept == \A w \in DOMAIN memory : w \in DOMAIN memory' /\ memory'[w] = memory[w]

\* Allocating writes past all that was written before, and goes on with the chain.
LEMMA InstantiateKeeps ==
  ASSUME IInv,
         NEW mixed \in BOOLEAN, NEW oops \in Nat, NEW slots \in Nat, NEW format, NEW asked,
         asked.class \in 0 .. 31, asked.size \in Nat,
         mixed <=> asked.class = OF_MIXED_OBJECT,
         NEW o,
         o = [start |-> AllocateAt, header |-> AllocateAt + PreHeader(IsBig(mixed, slots)),
              slots |-> slots, oops |-> oops, class |-> asked.class, size |-> asked.size],
         Sound(o, format),
         Instantiate(mixed, oops, slots, format, asked)
  PROVE  IInv' /\ WordsKept
<1> DEFINE start == AllocateAt
           big == IsBig(mixed, slots)
           header == start + PreHeader(big)
           written == {start, header} \union (IF big THEN {start + 2} ELSE {})
           n == Len(objects)
<1>1. big \in BOOLEAN /\ big = Big(o) /\ (mixed => big) /\ (~big => slots < 255)
  BY DEF Big, IsBig
<1>2. PreHeader(big) = IF big THEN 3 ELSE 1
  BY DEF PreHeader
<1>3. start \in Nat /\ start >= size /\ start % 2 = 0 /\ size \in Nat
  BY AllocateAtProps DEF IInv, HeapBounds
<1>4. header \in Nat /\ header > start
  BY <1>2, <1>3
<1>5. \A w \in written : w \in Nat /\ start <= w /\ w <= header
  BY <1>2, <1>3, <1>4
<1>6. \A w \in DOMAIN memory : w \in Nat /\ w < size
  BY <1>3 DEF IInv, HeapBounds
<1>7. /\ DOMAIN memory' = DOMAIN memory \union written
      /\ \A w \in DOMAIN memory' :
           memory'[w] = IF w \in written
                        THEN IF w = header THEN Header(IF big THEN 255 ELSE slots, format)
                             ELSE IF w = start THEN Flag(big)
                             ELSE Counts(IF mixed THEN oops ELSE 0, slots)
                        ELSE memory[w]
  BY DEF Instantiate
<1>8. WordsKept
  BY <1>3, <1>5, <1>6, <1>7 DEF WordsKept
<1>9. /\ start \in DOMAIN memory' /\ memory'[start] = Flag(big)
      /\ header \in DOMAIN memory'
      /\ memory'[header] = Header(IF big THEN 255 ELSE slots, format)
      /\ big => /\ start + 2 \in DOMAIN memory'
                /\ memory'[start + 2] = Counts(IF mixed THEN oops ELSE 0, slots)
  BY <1>2, <1>3, <1>4, <1>7
<1> HIDE DEF start, big, header, written
<1>10. size' = header + 1 + slots /\ size' \in Nat
  BY <1>2, <1>3, <1>4 DEF Instantiate, TotalWords, start, big, header
<1>11. HeapBounds'
  <2>1. TotalWords(big, slots) \in Nat
    BY <1>2 DEF TotalWords
  <2>2. committed' = Commit(TotalWords(big, slots)) /\ size' = start + TotalWords(big, slots)
    BY DEF Instantiate, start, big
  <2>3. /\ committed' \in Nat /\ committed' % PageWords = 0 /\ size' <= committed'
    BY <2>1, <2>2, CommitProps DEF IInv, start
  <2>4. \A w \in DOMAIN memory' : w \in Nat /\ w < size'
    BY <1>3, <1>4, <1>5, <1>6, <1>7, <1>10
  <2>5. DOMAIN memory' \subseteq 0 .. size' - 1
    BY <1>10, <2>4
  <2> QED BY <1>10, <2>3, <2>5 DEF HeapBounds
<1>12. /\ objects' \in Seq(Objects) /\ Len(objects') = n + 1 /\ n \in Nat
       /\ \A i \in 1 .. n : objects'[i] = objects[i] /\ objects[i] \in Objects
       /\ objects'[n + 1] = o
  <2>1. o \in Objects
    BY <1>3, <1>4 DEF Objects, start, header, big
  <2>2. objects' = Append(objects, o)
    BY DEF Instantiate
  <2> QED BY <2>1, <2>2 DEF IInv
<1>13. Placed(o)' /\ Written(o)'
  <2>1. /\ o.start = start /\ o.header = header /\ o.slots = slots /\ o.oops = oops
        /\ o.class = asked.class
    BY DEF start, header, big
  <2>2. Placed(o)'
    BY <1>1, <1>3, <1>10, <2>1 DEF Placed, End, Big, header
  <2>3. format \in 0 .. 31
    BY DEF Sound
  <2> QED BY <1>1, <1>9, <2>1, <2>2, <2>3 DEF Written, Big, Sound
<1>14. \A i \in 1 .. n : Placed(objects[i])' /\ Written(objects[i])'
  <2> SUFFICES ASSUME NEW p \in Objects, Placed(p), Written(p)
               PROVE  (p.start % 2 = 0 /\ p.header = p.start + PreHeader(Big(p))
                       /\ End(p) <= size') /\ Written(p)'
    BY <1>12 DEF IInv, Placed
  <2>1. End(p) \in Nat
    BY DEF Objects, End
  <2>2. End(p) <= size'
    BY <1>3, <1>4, <1>10, <2>1 DEF Placed
  <2>3. Written(p)'
    BY <1>8 DEF Written, WordsKept, Sound
  <2> QED BY <2>2, <2>3 DEF Placed
<1>15. Chained'
  <2> SUFFICES ASSUME NEW i \in 1 .. n + 1
               PROVE  /\ \A j \in 1 .. i - 1 : End(objects'[j]) <= objects'[i].start
                      /\ IF i = n + 1 THEN End(objects'[i]) = size'
                         ELSE RoundUp(End(objects'[i]), 2) = objects'[i + 1].start
    BY <1>12 DEF Chained, End, RoundUp
  <2>1. \A j \in 1 .. n : End(objects[j]) \in Nat /\ End(objects[j]) <= start
    <3> SUFFICES ASSUME NEW p \in Objects, Placed(p)
                 PROVE  End(p) \in Nat /\ End(p) <= start
      BY <1>12 DEF IInv
    <3>1. End(p) \in Nat
      BY DEF Objects, End
    <3> QED BY <1>3, <3>1 DEF Placed
  <2>2. o.start = start /\ End(o) = size'
    BY <1>10 DEF End, start, header, big
  <2>3. CASE i = n + 1
    BY <1>12, <2>1, <2>2, <2>3
  <2>4. CASE i = n
    <3>1. End(objects[i]) = size
      BY <1>12, <2>4 DEF IInv, Chained
    <3>2. RoundUp(End(objects'[i]), 2) = objects'[i + 1].start
      BY <1>12, <2>2, <2>4, <3>1 DEF AllocateAt, start
    <3>3. \A j \in 1 .. i - 1 : End(objects'[j]) <= objects'[i].start
      BY <1>12, <2>4 DEF IInv, Chained
    <3> QED BY <1>12, <2>4, <3>2, <3>3
  <2>5. CASE i < n
    <3>1. i \in 1 .. n /\ i + 1 \in 1 .. n /\ i # n + 1 /\ i # n
      BY <1>12, <2>5
    <3>2. /\ \A j \in 1 .. i - 1 : End(objects[j]) <= objects[i].start
          /\ RoundUp(End(objects[i]), 2) = objects[i + 1].start
      BY <3>1 DEF IInv, Chained
    <3>3. \A j \in 1 .. i - 1 : j \in 1 .. n
      BY <1>12, <3>1
    <3> QED BY <1>12, <3>1, <3>2, <3>3
  <2> QED BY <1>12, <2>3, <2>4, <2>5
<1> QED BY <1>8, <1>11, <1>12, <1>13, <1>14, <1>15 DEF IInv

\* Every allocation keeps the invariant, and the words already written.
LEMMA NextIInv == IInv /\ [Next]_vars => IInv' /\ WordsKept
<1> SUFFICES ASSUME IInv, [Next]_vars PROVE IInv' /\ WordsKept
  OBVIOUS
<1> USE DEF vars
<1>1. ASSUME NEW class \in Formats, NEW fixedSlots \in FixedSizes,
             NEW variableSize \in VariableSizes,
             HasShape(class, fixedSlots, variableSize),
             BasicNew(class, fixedSlots, variableSize)
      PROVE  IInv' /\ WordsKept
  <2> DEFINE extra == ExtraSlots(class, variableSize)
             slots == fixedSlots + extra
             remaining == extra * 8 - variableSize * ElementSize(class)
             asked == [class |-> class, size |-> fixedSlots + variableSize]
             o == [start |-> AllocateAt, header |-> AllocateAt + PreHeader(IsBig(FALSE, slots)),
                   slots |-> slots, oops |-> slots, class |-> asked.class, size |-> asked.size]
  <2>1. fixedSlots \in Nat /\ variableSize \in Nat
    BY HeapAssumption
  <2>2. class # OF_MIXED_OBJECT
    BY <1>1 DEF BasicNew
  <2>3. extra \in Nat /\ Sound(o, (class + remaining) % 32)
    <3>1. o.class = class /\ o.slots = slots /\ o.oops = o.slots
          /\ o.size = fixedSlots + variableSize
      OBVIOUS
    <3> HIDE DEF o
    <3> QED BY <1>1, <2>1, <2>2, <3>1, BasicNewSound
  <2>4. Instantiate(FALSE, slots, slots, (class + remaining) % 32, asked)
    BY <1>1 DEF BasicNew
  <2>5. asked.class \in 0 .. 31 /\ asked.size \in Nat /\ asked.class # OF_MIXED_OBJECT
    BY <2>1, <2>2, HeapAssumption
       DEF Fixed, OopsIndexable, RawIndexable, OF_INDEXABLE_64, OF_INDEXABLE_32,
           OF_INDEXABLE_16, OF_INDEXABLE_8, OF_MIXED_OBJECT
  <2>6. slots \in Nat
    BY <2>1, <2>3
  <2> HIDE DEF extra, slots, remaining, asked
  <2> QED BY <2>3, <2>4, <2>5, <2>6, InstantiateKeeps
<1>2. ASSUME NEW fixedSlots \in FixedSizes, NEW variableSize \in VariableSizes,
             NEW nativeSize \in NativeSizes,
             BasicNewMixedNative(fixedSlots, variableSize, nativeSize)
      PROVE  IInv' /\ WordsKept
  <2> DEFINE content == variableSize * 8 + nativeSize
             extra == (content + 7) \div 8
             slots == fixedSlots + extra
             oops == fixedSlots + variableSize
             remaining == extra * 8 - content
             asked == [class |-> OF_MIXED_OBJECT, size |-> fixedSlots * 8 + content]
             o == [start |-> AllocateAt, header |-> AllocateAt + PreHeader(IsBig(TRUE, slots)),
                   slots |-> slots, oops |-> oops, class |-> asked.class, size |-> asked.size]
  <2>1. fixedSlots \in Nat /\ variableSize \in Nat /\ nativeSize \in Nat
    BY HeapAssumption
  <2>2. content \in Nat
    BY <2>1
  <2>3. extra \in Nat /\ Sound(o, (OF_MIXED_OBJECT + remaining) % 32)
    <3>1. o.class = OF_MIXED_OBJECT /\ o.slots = slots /\ o.oops = oops
          /\ o.size = fixedSlots * 8 + content
      OBVIOUS
    <3> HIDE DEF o
    <3> QED BY <2>1, <3>1, BasicNewMixedSound
  <2>4. Instantiate(TRUE, oops, slots, (OF_MIXED_OBJECT + remaining) % 32, asked)
    BY <1>2 DEF BasicNewMixedNative
  <2>5. asked.class \in 0 .. 31 /\ asked.size \in Nat /\ asked.class = OF_MIXED_OBJECT
    BY <2>1, <2>2 DEF OF_MIXED_OBJECT
  <2>6. slots \in Nat /\ oops \in Nat
    BY <2>1, <2>3
  <2> HIDE DEF content, extra, slots, oops, remaining, asked
  <2> QED BY <2>3, <2>4, <2>5, <2>6, InstantiateKeeps
<1>3. CASE UNCHANGED vars
  <2>1. UNCHANGED <<memory, size, committed, objects>>
    BY <1>3
  <2>2. HeapBounds' /\ Chained' /\ WordsKept
    BY <2>1 DEF IInv, HeapBounds, Chained, WordsKept
  <2>3. \A o : Placed(o)' = Placed(o) /\ Written(o)' = Written(o)
    BY <2>1 DEF Placed, Written, Sound, Big, End
  <2> QED BY <2>1, <2>2, <2>3 DEF IInv
<1>4. CASE Full
  BY <1>3, <1>4 DEF Full
<1> QED BY <1>1, <1>2, <1>3, <1>4 DEF Next

LEMMA Invariance == Spec => []IInv
BY InitIInv, NextIInv, PTL DEF Spec

-----------------------------------------------------------------------------
\* What a walk reads back from the words of one object.
LEMMA ReadBack ==
  ASSUME NEW o \in Objects, Placed(o), Written(o), HeapBounds
  PROVE  /\ memory[o.start].big = Big(o) /\ Big(o) \in BOOLEAN
         /\ memory[o.header].slotCount = (IF Big(o) THEN 255 ELSE o.slots)
         /\ ~Big(o) => o.slots < 255
         /\ Sound(o, memory[o.header].objectFormat)
         /\ HeaderAt(o.start) = o.header
         /\ CountsAt(o.start).total = o.slots
         /\ o.class # OF_INDEXABLE_32 => CountsAt(o.start).oops = o.oops
         /\ After(o.start) = RoundUp(End(o), 2)
<1>1. memory[o.start].big = Big(o) /\ Big(o) \in BOOLEAN
  BY DEF Written, Flag, Big, IsBig
<1>2. PICK format \in 0 .. 31 :
        /\ memory[o.header] = Header(IF Big(o) THEN 255 ELSE o.slots, format)
        /\ Sound(o, format)
  BY DEF Written
<1>3. /\ memory[o.header].slotCount = (IF Big(o) THEN 255 ELSE o.slots)
      /\ memory[o.header].objectFormat = format
  BY <1>2 DEF Header
<1>4. (~Big(o) => o.slots < 255) /\ (o.class = OF_MIXED_OBJECT => Big(o))
  BY DEF Big, IsBig, Objects
<1>5. HeaderAt(o.start) = o.header
  BY <1>1 DEF HeaderAt, PreHeader, Placed
<1>6. /\ CountsAt(o.start).total = o.slots
      /\ o.class # OF_INDEXABLE_32 => CountsAt(o.start).oops = o.oops
  <2>1. CASE ~Big(o)
    <3>1. CountsAt(o.start) = Counts(o.slots, o.slots)
      BY <1>1, <1>3, <1>5, <2>1 DEF CountsAt
    <3>2. o.oops = o.slots
      BY <1>2, <1>4, <2>1 DEF Sound
    <3> QED BY <3>1, <3>2 DEF Counts
  <2>2. CASE Big(o)
    <3>1. memory[o.start + 2] = Counts(IF o.class = OF_MIXED_OBJECT THEN o.oops ELSE 0, o.slots)
      BY <2>2 DEF Written
    <3>2. memory[o.start + 2].total = o.slots
      BY <3>1 DEF Counts
    <3>3. CASE format >= OF_MIXED_OBJECT
      <4>1. CountsAt(o.start) = memory[o.start + 2]
        BY <1>1, <1>3, <1>5, <2>2, <3>3 DEF CountsAt
      <4>2. o.class \in {OF_MIXED_OBJECT, OF_INDEXABLE_32}
        BY <1>2, <3>3 DEF Sound, OF_MIXED_OBJECT
      <4> QED BY <3>1, <4>1, <4>2 DEF Counts
    <3>4. CASE ~(format >= OF_MIXED_OBJECT)
      <4>1. CountsAt(o.start) = Counts(o.slots, o.slots)
        BY <1>1, <1>3, <1>5, <2>2, <3>2, <3>4 DEF CountsAt
      <4>2. o.oops = o.slots
        BY <1>2, <3>4 DEF Sound, OF_MIXED_OBJECT
      <4> QED BY <4>1, <4>2 DEF Counts
    <3> QED BY <3>3, <3>4
  <2> QED BY <1>1, <2>1, <2>2
<1>7. After(o.start) = RoundUp(End(o), 2)
  BY <1>5, <1>6 DEF After, End
<1> QED BY <1>1, <1>2, <1>3, <1>4, <1>5, <1>6, <1>7

\* Every object has been placed and written.
LEMMA EachObject ==
  ASSUME IInv
  PROVE  /\ DOMAIN objects = 1 .. Len(objects) /\ Len(objects) \in Nat
         /\ \A i \in DOMAIN objects :
              objects[i] \in Objects /\ Placed(objects[i]) /\ Written(objects[i])
BY DEF IInv

\* The types of what an allocation keeps, for any sizes (TypeOK).
THEOREM TypeCorrect == Spec => []TypeOK
<1>1. IInv => TypeOK
  <2> SUFFICES ASSUME IInv PROVE TypeOK
    OBVIOUS
  <2>1. HeapBounds
    BY DEF IInv
  <2> SUFFICES ASSUME NEW o \in Objects, Placed(o), Written(o)
               PROVE  /\ {o.start, o.header} \subseteq DOMAIN memory
                      /\ memory[o.start].big \in BOOLEAN
                      /\ memory[o.header].slotCount \in 0 .. 255
                      /\ memory[o.header].objectFormat \in 0 .. 31
    BY <2>1, EachObject DEF TypeOK, HeapBounds
  <2> QED BY <2>1, ReadBack DEF Written, Sound, Objects
<1> QED BY <1>1, Invariance, PTL

\* All the words of the objects lie in committed pages (slvm_StackHeap_allocate).
THEOREM Committed == Spec => []ObjectsCommitted
<1>1. IInv => ObjectsCommitted
  <2> SUFFICES ASSUME IInv PROVE ObjectsCommitted
    OBVIOUS
  <2>1. size \in Nat /\ committed \in Nat /\ size <= committed /\ committed % PageWords = 0
    BY DEF IInv, HeapBounds
  <2> SUFFICES ASSUME NEW o \in Objects, Placed(o)
               PROVE  o.header + 1 + o.slots <= committed
    BY <2>1, EachObject DEF ObjectsCommitted
  <2>2. End(o) \in Nat
    BY DEF Objects, End
  <2> QED BY <2>1, <2>2 DEF Placed, End
<1> QED BY <1>1, Invariance, PTL

\* Objects never overlap, and no allocation writes into an object that is there
\* (slvm_spur_instantiate_object, slvm_spur_instantiate_mixed_object).
THEOREM Apart == Spec => []ObjectsApart
<1>1. IInv => ObjectsApart
  <2> SUFFICES ASSUME IInv, NEW i \in DOMAIN objects
               PROVE  LET o == objects[i] IN
                      /\ o.start % 2 = 0
                      /\ \A j \in 1 .. i - 1 : objects[j].header + objects[j].slots < o.start
                      /\ memory[o.header].slotCount =
                           (IF memory[o.start].big THEN 255 ELSE o.slots)
    BY DEF ObjectsApart
  <2>1. objects[i] \in Objects /\ Placed(objects[i]) /\ Written(objects[i]) /\ HeapBounds
    BY EachObject DEF IInv
  <2>2. ASSUME NEW j \in 1 .. i - 1
        PROVE  objects[j].header + objects[j].slots < objects[i].start
    <3>1. j \in DOMAIN objects
      BY EachObject
    <3>2. End(objects[j]) <= objects[i].start
      BY EachObject DEF IInv, Chained
    <3>3. objects[j].header \in Nat /\ objects[j].slots \in Nat /\ objects[i].start \in Nat
      BY <2>1, <3>1, EachObject DEF Objects
    <3> QED BY <3>2, <3>3 DEF End
  <2> QED BY <2>1, <2>2, ReadBack DEF Placed
<1> QED BY <1>1, Invariance, PTL

\* A walk of the heap meets every object with its slots, one after the other, whatever
\* their sizes (slvm_spur_heap_iterate).
THEOREM WalkComplete == Spec => []WalkFindsObjects
<1>1. IInv => WalkFindsObjects
  <2> SUFFICES ASSUME IInv, NEW i \in DOMAIN objects
               PROVE  LET o == objects[i] IN
                      /\ HeaderAt(o.start) = o.header
                      /\ CountsAt(o.start).total = o.slots
                      /\ o.class # OF_INDEXABLE_32 => CountsAt(o.start).oops = o.oops
                      /\ memory[o.start].big <=> memory[o.header].slotCount = 255
                      /\ After(o.start) = IF i = Len(objects) THEN RoundUp(size, 2)
                                          ELSE objects[i + 1].start
    BY DEF WalkFindsObjects
  <2>1. objects[i] \in Objects /\ Placed(objects[i]) /\ Written(objects[i]) /\ HeapBounds
    BY EachObject DEF IInv
  <2>2. After(objects[i].start) = IF i = Len(objects) THEN RoundUp(size, 2)
                                  ELSE objects[i + 1].start
    BY <2>1, EachObject, ReadBack DEF IInv, Chained
  <2>3. objects[i].slots \in Nat
    BY <2>1 DEF Objects
  <2>4. memory[objects[i].start].big <=> memory[objects[i].header].slotCount = 255
    BY <2>1, <2>3, ReadBack
  <2> QED BY <2>1, <2>2, <2>4, ReadBack
<1> QED BY <1>1, Invariance, PTL

\* An object's size and, in a mixed object, its native data, read back as they were
\* asked for (slvm_basicSize, slvm_firstNativeDataPointer).
THEOREM SizesReadBack == Spec => []SizesKept
<1>1. IInv => SizesKept
  <2> SUFFICES ASSUME IInv, NEW o \in Objects, Placed(o), Written(o),
                      o.class \notin {OF_INDEXABLE_32, OF_INDEXABLE_16}
               PROVE  /\ BasicSize(o.header) = o.size
                      /\ o.class = OF_MIXED_OBJECT =>
                           /\ FirstNativeData(o.header) = o.header + 1 + o.oops
                           /\ (FirstNativeData(o.header) - (o.header + 1)) * 8
                                <= BasicSize(o.header)
    BY EachObject DEF SizesKept
  <2> DEFINE format == memory[o.header].objectFormat
  <2>1. HeapBounds /\ o.start \in Nat /\ o.header \in Nat /\ o.slots \in Nat /\ o.oops \in Nat
    BY DEF IInv, Objects
  <2>2. Sound(o, format) /\ Big(o) \in BOOLEAN /\ (~Big(o) => o.slots < 255)
        /\ memory[o.header].slotCount = (IF Big(o) THEN 255 ELSE o.slots)
    BY <2>1, ReadBack
  <2>3. ASSUME Big(o)
        PROVE  memory[o.header - 1] =
                 Counts(IF o.class = OF_MIXED_OBJECT THEN o.oops ELSE 0, o.slots)
    <3>1. o.header - 1 = o.start + 2
      BY <2>1, <2>3 DEF Placed, PreHeader
    <3> QED BY <2>3, <3>1 DEF Written
  <2>4. BasicSize(o.header) = o.slots * Multiplier(format) - ExtraSize(format)
    <3>1. CASE Big(o)
      BY <2>2, <2>3, <3>1 DEF BasicSize, Counts
    <3>2. CASE ~Big(o)
      BY <2>1, <2>2, <3>2 DEF BasicSize
    <3> QED BY <2>2, <3>1, <3>2
  <2>5. BasicSize(o.header) = o.size
    BY <2>2, <2>4 DEF Sound
  <2>6. ASSUME o.class = OF_MIXED_OBJECT
        PROVE  /\ FirstNativeData(o.header) = o.header + 1 + o.oops
               /\ o.oops * 8 <= o.size
    <3>1. Big(o)
      BY <2>6 DEF Big, IsBig
    <3> QED BY <2>2, <2>3, <2>6, <3>1 DEF FirstNativeData, Counts, Sound
  <2> QED BY <2>1, <2>5, <2>6
<1> QED BY <1>1, Invariance, PTL

\* But for elements of 16 and 32 bits, the padding leaves an object a format of its
\* class: what the comment at objectmodel.c:394 says is true of the others.
NarrowPaddingKeepsFormat ==
  \A i \in DOMAIN objects :
    LET o == objects[i] IN
    o.class \notin {OF_INDEXABLE_32, OF_INDEXABLE_16} =>
      memory[o.header].objectFormat \in o.class .. o.class + Multiplier(o.class) - 1

THEOREM PaddingKept == Spec => []NarrowPaddingKeepsFormat
<1>1. IInv => NarrowPaddingKeepsFormat
  BY EachObject, ReadBack DEF IInv, NarrowPaddingKeepsFormat, Sound
<1> QED BY <1>1, Invariance, PTL

\* An allocation changes no word that was written before it
\* (slvm_StackHeap_allocate, slvm_spur_instantiate_object).
THEOREM WordsStay == Spec => [][WordsKept]_vars
BY Invariance, NextIInv, PTL DEF Spec

=============================================================================
