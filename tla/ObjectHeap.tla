----------------------------- MODULE ObjectHeap -----------------------------
(***************************************************************************)
(* The Spur object heap of src/src/spur/objectmodel.c on the 64-bit model: *)
(* objects are carved out of a growing heap (slvm_StackHeap_allocate in    *)
(* memory.c), each with a pre-header, a header and its slots, and a heap   *)
(* is walked from one object to the next by what these words hold.         *)
(*                                                                         *)
(* Addresses and sizes are in words of 8 bytes (sizeof(SLVM_Oop)) from the *)
(* start of the heap, a page boundary.  Of an object's words, only those   *)
(* that say how large it is are kept; the contents of its slots are not.   *)
(***************************************************************************)
EXTENDS Naturals, Sequences

CONSTANTS
  Formats,        \* the formats of the classes that are instantiated
  FixedSizes,     \* the numbers of instance variables
  VariableSizes,  \* the variable sizes asked for
  NativeSizes,    \* the native bytes asked for, in mixed objects
  MaxObjects,     \* bound: objects allocated
  PageWords       \* SLVM_PAGE_SIZE

\* enum ObjectFormat, the formats a class may have: objects with no indexable
\* part, with an indexable part of oops, of raw elements, and of both.
OF_INDEXABLE_64 == 9
OF_INDEXABLE_32 == 10
OF_INDEXABLE_16 == 12
OF_INDEXABLE_8 == 16
OF_MIXED_OBJECT == 24
Fixed == {0, 1, 5}
OopsIndexable == {2, 3, 4}
RawIndexable == {OF_INDEXABLE_64, OF_INDEXABLE_32, OF_INDEXABLE_16, OF_INDEXABLE_8}

ASSUME HeapAssumption ==
  /\ Formats \subseteq Fixed \union OopsIndexable \union RawIndexable \union {OF_MIXED_OBJECT}
  /\ FixedSizes \subseteq Nat /\ VariableSizes \subseteq Nat /\ NativeSizes \subseteq Nat
  /\ MaxObjects \in Nat /\ PageWords \in Nat \ {0}

VARIABLES memory,     \* the words written: pre-headers and headers
          size,       \* compactingHeap.base.size
          committed,  \* compactingHeap.commitedCapacity
          objects     \* history: the objects allocated, in order, as asked for

vars == <<memory, size, committed, objects>>

\* The words: the forwarding pointer with the big object flag, the slot counts
\* of a big object (the oops in the upper half), and the object header.
Flag(big)             == [big |-> big]
Counts(oops, total)   == [oops |-> oops, total |-> total]
Header(slots, format) == [slotCount |-> slots, objectFormat |-> format]

RoundUp(n, unit) == ((n + unit - 1) \div unit) * unit

(***************************************************************************)
(* What is read back from an object's words.                               *)
(***************************************************************************)
\* slvm_spur_format_multiplier: the elements in a slot.
Multiplier(format) ==
  CASE format \in 10 .. 11 -> 2
    [] format \in 12 .. 15 -> 4
    [] format \in 16 .. 31 -> 8
    [] OTHER               -> 1

\* slvm_spur_formatExtraSize: the elements the last slot lacks.
\* Mutant: the last format of each group is forgotten.
ExtraSizeShort(format) ==
  CASE format \in 12 .. 14 -> format - 12
    [] format \in 16 .. 22 -> format - 16
    [] format \in 24 .. 30 -> format - 24
    [] OTHER               -> 0

ExtraSize(format) ==
  CASE format = 11         -> 1
    [] format \in 12 .. 15 -> format - 12
    [] format \in 16 .. 23 -> format - 16
    [] format \in 24 .. 31 -> format - 24
    [] OTHER               -> 0

\* slvm_basicSize of the object whose header is at an address.
BasicSize(header) ==
  LET format == memory[header].objectFormat
      slots  == IF memory[header].slotCount = 255
                THEN memory[header - 1].total ELSE memory[header].slotCount
  IN  slots * Multiplier(format) - ExtraSize(format)

\* slvm_firstNativeDataPointer.
FirstNativeData(header) == header + 1 + memory[header - 1].oops

\* slvm_spur_heap_iterate: what it passes to the iterator for the object at a
\* position, and the position it goes on to.
HeaderAt(position) == position + (IF memory[position].big THEN 3 ELSE 1)

CountsAt(position) ==
  LET header == memory[HeaderAt(position)]
      counts == memory[position + 2]
  IN  IF ~memory[position].big THEN Counts(header.slotCount, header.slotCount)
      ELSE IF header.objectFormat >= OF_MIXED_OBJECT THEN counts
      ELSE Counts(counts.total, counts.total)

After(position) == RoundUp(HeaderAt(position) + 1 + CountsAt(position).total, 2)

(***************************************************************************)
(* Allocation.                                                             *)
(***************************************************************************)
\* The start slvm_StackHeap_allocate gives an object: aligned to 16 bytes.
\* Mutant: not aligned.
NotAligned == size

AllocateAt == RoundUp(size, 2)

\* The capacity it has committed for that many words more.
\* Mutant: for the pages the heap already uses.
CommitUsed(words) == IF committed < RoundUp(size, PageWords) THEN RoundUp(size, PageWords)
                                                             ELSE committed

Commit(words) ==
  LET required == RoundUp(AllocateAt + words, PageWords)
  IN  IF committed < required THEN required ELSE committed

\* The words and the sizes that slvm_spur_instantiate_object (not mixed) and
\* slvm_spur_instantiate_mixed_object (always big) allocate and write.
\* Mutant: an object of 255 slots is not big.
BigFrom256(mixed, slots) == mixed \/ slots > 255

IsBig(mixed, slots) == mixed \/ slots >= 255

PreHeader(big) == IF big THEN 3 ELSE 1

\* Mutant: the header is not counted.
WithoutHeader(big, slots) == PreHeader(big) + slots

TotalWords(big, slots) == PreHeader(big) + 1 + slots

Instantiate(mixed, oops, slots, format, asked) ==
  LET start  == AllocateAt
      big    == IsBig(mixed, slots)
      header == start + PreHeader(big)
      Written(w) ==
        IF w = header THEN Header(IF big THEN 255 ELSE slots, format)
        ELSE IF w = start THEN Flag(big)
        ELSE Counts(IF mixed THEN oops ELSE 0, slots)
      written == {start, header} \union (IF big THEN {start + 2} ELSE {})
  IN
  /\ memory' = [w \in DOMAIN memory \union written |->
                  IF w \in written THEN Written(w) ELSE memory[w]]
  /\ size' = start + TotalWords(big, slots)
  /\ committed' = Commit(TotalWords(big, slots))
  /\ objects' = Append(objects, [start |-> start, header |-> header, slots |-> slots,
                                 oops |-> oops, class |-> asked.class, size |-> asked.size])

\* The slots of the indexable part, by the class's format, and the bytes of an
\* element of it.
ExtraSlots(format, variableSize) ==
  CASE format = OF_INDEXABLE_32 -> (variableSize * 4 + 7) \div 4
    [] format = OF_INDEXABLE_16 -> (variableSize * 2 + 7) \div 8
    [] format = OF_INDEXABLE_8  -> (variableSize + 7) \div 8
    [] OTHER                    -> variableSize

ElementSize(format) ==
  CASE format = OF_INDEXABLE_32 -> 4
    [] format = OF_INDEXABLE_16 -> 2
    [] format = OF_INDEXABLE_8  -> 1
    [] OTHER                    -> 8

\* slvm_Behavior_basicNew.  The padding of the last slot, in bytes, is added to
\* the format, a field of 5 bits.
BasicNew(format, fixedSlots, variableSize) ==
  LET extra     == ExtraSlots(format, variableSize)
      slots     == fixedSlots + extra
      remaining == extra * 8 - variableSize * ElementSize(format)
  IN
  /\ format # OF_MIXED_OBJECT
  /\ Len(objects) < MaxObjects
  /\ Instantiate(FALSE, slots, slots, (format + remaining) % 32,
                 [class |-> format, size |-> fixedSlots + variableSize])

\* slvm_Behavior_basicNewMixedNative.
BasicNewMixedNative(fixedSlots, variableSize, nativeSize) ==
  LET content   == variableSize * 8 + nativeSize
      extra     == (content + 7) \div 8
      remaining == extra * 8 - content
  IN
  /\ Len(objects) < MaxObjects
  /\ Instantiate(TRUE, fixedSlots + variableSize, fixedSlots + extra,
                 (OF_MIXED_OBJECT + remaining) % 32,
                 [class |-> OF_MIXED_OBJECT, size |-> fixedSlots * 8 + content])

Init ==
  /\ memory = [w \in {} |-> Flag(FALSE)]
  /\ size = 0
  /\ committed = 0
  /\ objects = <<>>

\* What the callers of slvm_Behavior_basicNew ask for: a class has the instance
\* variables and the indexable part its format allows.  The code does not check it
\* (the TODO of kernel.c:352).
HasShape(format, fixedSlots, variableSize) ==
  /\ format \in Fixed => variableSize = 0
  /\ format \in RawIndexable \union {2} => fixedSlots = 0

\* The bound on the objects is reached.
Full == Len(objects) = MaxObjects /\ UNCHANGED vars

Next ==
  \/ \E format \in Formats, fixedSlots \in FixedSizes, variableSize \in VariableSizes :
       /\ HasShape(format, fixedSlots, variableSize)
       /\ BasicNew(format, fixedSlots, variableSize)
  \/ /\ OF_MIXED_OBJECT \in Formats
     /\ \E fixedSlots \in FixedSizes, variableSize \in VariableSizes, nativeSize \in NativeSizes :
          BasicNewMixedNative(fixedSlots, variableSize, nativeSize)
  \/ Full

Spec == Init /\ [][Next]_vars

-----------------------------------------------------------------------------
(***************************************************************************)
(* Properties.                                                             *)
(***************************************************************************)
\* The words written are those of the objects' headers and pre-headers, inside
\* the heap, and the header holds a size of 8 bits and a format of 5.
TypeOK ==
  /\ size \in Nat /\ committed \in Nat
  /\ DOMAIN memory \subseteq 0 .. size - 1
  /\ \A i \in DOMAIN objects :
       LET o == objects[i] IN
       /\ {o.start, o.header} \subseteq DOMAIN memory
       /\ memory[o.start].big \in BOOLEAN
       /\ memory[o.header].slotCount \in 0 .. 255
       /\ memory[o.header].objectFormat \in 0 .. 31

\* Every word of the objects lies in memory that has been committed, and what is
\* committed is whole pages (slvm_StackHeap_allocate).
ObjectsCommitted ==
  /\ committed % PageWords = 0
  /\ \A i \in DOMAIN objects : objects[i].header + 1 + objects[i].slots <= committed

\* Objects never overlap, each starts where the allocator aligned it, and each
\* keeps the header that its own allocation wrote: nothing that is allocated
\* later writes into it (slvm_spur_instantiate_object and the mixed one).
ObjectsApart ==
  \A i \in DOMAIN objects :
    LET o == objects[i] IN
    /\ o.start % 2 = 0
    /\ \A j \in 1 .. i - 1 : objects[j].header + objects[j].slots < o.start
    /\ memory[o.header].slotCount = (IF memory[o.start].big THEN 255 ELSE o.slots)

\* A walk of the heap meets every object: from an object's start the iterator
\* finds its header and the slots it was given, and goes on to the start of the
\* next object.  The two ways of writing a pre-header and the one way of reading
\* it agree, whatever the sizes, on what is big too, as the iterator asserts
\* (slvm_spur_heap_iterate, lines 52 and 59).  The number of oops is found too,
\* but for 32 bit elements: the padding can turn their format into a mixed one
\* (see PaddingKeepsFormat), whose oops are then read as 0.
WalkFindsObjects ==
  \A i \in DOMAIN objects :
    LET o == objects[i] IN
    /\ HeaderAt(o.start) = o.header
    /\ CountsAt(o.start).total = o.slots
    /\ o.class # OF_INDEXABLE_32 => CountsAt(o.start).oops = o.oops
    /\ memory[o.start].big <=> memory[o.header].slotCount = 255
    /\ After(o.start) = IF i = Len(objects) THEN RoundUp(size, 2) ELSE objects[i + 1].start

\* An object's size is the one asked for, in elements of its class, and in a mixed
\* object, whose size is in bytes, the native data begins right after its oops
\* and ends inside the object (slvm_basicSize, slvm_firstNativeDataPointer).
\* Of 16 and 32 bit elements this does not hold: see PaddingKeepsFormat.
SizesKept ==
  \A i \in DOMAIN objects :
    LET o == objects[i] IN
    o.class \notin {OF_INDEXABLE_32, OF_INDEXABLE_16} =>
      /\ BasicSize(o.header) = o.size
      /\ o.class = OF_MIXED_OBJECT =>
           /\ FirstNativeData(o.header) = o.header + 1 + o.oops
           /\ (FirstNativeData(o.header) - (o.header + 1)) * 8 <= BasicSize(o.header)

\* "Extra padding elements are encoded in the object format"
\* (objectmodel.c:394): an object's format is the class's with the number of
\* missing elements added, so it is still a format of elements of that size.
PaddingKeepsFormat ==
  \A i \in DOMAIN objects :
    memory[objects[i].header].objectFormat
      \in objects[i].class .. objects[i].class + Multiplier(objects[i].class) - 1
=============================================================================
