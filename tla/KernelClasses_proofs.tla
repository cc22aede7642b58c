------------------------ MODULE KernelClasses_proofs ------------------------
(***************************************************************************)
(* Proofs about the classes and the class table, for any classes, packages *)
(* and methods, as long as the behaviors registered fit on the first page  *)
(* of the table (FirstPageHolds): run known_classes shows that the code    *)
(* goes wrong after that.                                                  *)
(***************************************************************************)
EXTENDS KernelClasses, FiniteSetTheorems, SequenceTheorems, TLAPS

-----------------------------------------------------------------------------
FirstPageHolds == BaseSize + MaxRegistered <= PageElements

\* The names of the classes that exist, and their behaviors.
Existing == DOMAIN parent
Indices == 1 .. BaseSize + MaxRegistered - 1

\* The class of a behavior.
ClassOf(b) == IF b[2] = "instance" THEN <<b[1], "class">> ELSE <<MetaclassName, "instance">>

DictionaryClass == <<MethodDictionaryName, "instance">>

Pages(S) == [Elements -> S]
Dictionaries == [Selectors -> Methods \union {nil}]
Behaviors ==
  [classIndex : Nat, identityHash : Nat,
   superclass : (Names \X Sides) \union {nil}, methodDict : Dictionaries \union {nil},
   dictIndex : Nat \union {nil}]

\* The classes are a tree, and every class has its metaclass.
Tree ==
  /\ KernelNames \subseteq Existing /\ Existing \subseteq Names
  /\ behaviors \in [Existing \X Sides -> Behaviors]
  /\ \A name \in Existing : parent[name] = nil <=> name = Root
  /\ \A name \in Existing : parent[name] \in Existing \union {nil}
  /\ \A S \in SUBSET Existing : S # {} => \E name \in S : parent[name] \notin S
  /\ globals = [name \in Names |-> IF name \in Existing THEN <<name, "instance">> ELSE nil]

\* The fields of the behaviors are what the packages declared.
Realized ==
  /\ \A b \in Existing \X Sides :
       behaviors[b].superclass = IF b = <<Root, "instance">> THEN nil ELSE Declared!Up(b)
  /\ defined \in [Existing \X Sides -> Dictionaries]
  /\ \A b \in Existing \X Sides, selector \in Selectors :
       defined[b][selector] = IF behaviors[b].methodDict = nil THEN nil
                              ELSE behaviors[b].methodDict[selector]

\* Every index issued is on the first page, at the behavior that it was issued for;
\* the objects hold indices of their classes, and the compact classes' dictionaries
\* the first one of MethodDictionary.
Indexed ==
  /\ tableSize \in 0 .. MaxRegistered
  /\ table \in Seq(Pages((Existing \X Sides) \union {nil})) /\ Len(table) = 1
  /\ issued \in [Existing \X Sides -> SUBSET Indices]
  /\ \A index \in DOMAIN CompactAt :
       /\ table[1][index] = <<CompactAt[index], "instance">>
       /\ table[1][index + MetaOffset] = <<CompactAt[index], "class">>
  /\ \A b \in Existing \X Sides :
       /\ behaviors[b].identityHash \in issued[b]
       /\ behaviors[b].classIndex \in issued[ClassOf(b)]
       /\ behaviors[b].dictIndex \in issued[DictionaryClass] \union {nil}
       /\ behaviors[b].methodDict # nil => behaviors[b].dictIndex \in issued[DictionaryClass]
       /\ IsStrange(b) => b[1] \notin KernelNames
       /\ \A classIndex \in issued[b] :
            classIndex < BaseSize + tableSize /\ table[1][classIndex] = b

\* The inductive invariant.
IInv == Tree /\ Realized /\ Indexed /\ status \in {"running", "aborted", "undefined"}

-----------------------------------------------------------------------------
\* On the first page, an index is an element.
LEMMA FirstPageIndex ==
  ASSUME FirstPageHolds, NEW classIndex \in 0 .. BaseSize + MaxRegistered - 1
  PROVE  /\ classIndex \div PageSpan = 0 /\ classIndex % PageElements = classIndex
         /\ classIndex \in Elements
BY ClassesAssumption DEF FirstPageHolds, Elements

LEMMA ClassAtFirstPage ==
  ASSUME FirstPageHolds, NEW pages, NEW classIndex \in Indices
  PROVE  ClassAt(pages, classIndex) = pages[1][classIndex] /\ classIndex \in Elements
<1>1. classIndex \in 0 .. BaseSize + MaxRegistered - 1
  BY DEF Indices
<1> QED BY <1>1, FirstPageIndex DEF ClassAt

\* Entering a behavior on the first page changes that element only.
LEMMA EnteredFirstPage ==
  ASSUME FirstPageHolds, NEW T, NEW pages \in Seq(Pages(T)), Len(pages) = 1,
         NEW classIndex \in Indices, NEW b \in T
  PROVE  /\ Entered(pages, classIndex, b) \in Seq(Pages(T))
         /\ Len(Entered(pages, classIndex, b)) = 1
         /\ \A element \in Elements :
              Entered(pages, classIndex, b)[1][element]
                = IF element = classIndex THEN b ELSE pages[1][element]
<1>1. classIndex \div PageSpan = 0 /\ classIndex % PageElements = classIndex
      /\ classIndex \in Elements
  BY FirstPageIndex DEF Indices
<1>2. Entered(pages, classIndex, b) = [pages EXCEPT ![1][classIndex] = b]
  <2>1. ~(classIndex \div PageSpan >= Len(pages)) /\ classIndex \div PageSpan + 1 = 1
    BY <1>1
  <2> QED BY <1>1, <2>1 DEF Entered
<1>3. pages[1] \in Pages(T)
  OBVIOUS
<1> DEFINE entry == [pages[1] EXCEPT ![classIndex] = b]
<1>4. entry \in Pages(T)
  BY <1>1, <1>3 DEF Pages
<1>5. \A element \in Elements :
        entry[element] = IF element = classIndex THEN b ELSE pages[1][element]
  BY <1>1, <1>3 DEF Pages
<1>6. Entered(pages, classIndex, b) = [pages EXCEPT ![1] = entry]
  BY <1>2
<1> HIDE DEF entry
<1> DEFINE grown == [pages EXCEPT ![1] = entry]
<1>7. grown \in Seq(Pages(T)) /\ Len(grown) = 1 /\ grown[1] = entry
  BY <1>4, ExceptSeq
<1> QED BY <1>5, <1>6, <1>7

\* A page of some behaviors is a page of more of them.
LEMMA PagesOfMore ==
  ASSUME NEW S, NEW T, S \subseteq T, NEW pages \in Seq(Pages(S)), Len(pages) = 1
  PROVE  pages \in Seq(Pages(T))
<1>1. pages[1] \in Pages(T)
  <2>1. pages[1] \in Pages(S)
    OBVIOUS
  <2> QED BY <2>1 DEF Pages
<1>2. \A i \in 1 .. 1 : pages[i] \in Pages(T)
  BY <1>1
<1>3. DOMAIN pages = 1 .. 1 /\ pages = [i \in 1 .. 1 |-> pages[i]]
  OBVIOUS
<1> QED BY <1>2, <1>3

\* The root is the only compact class without a superclass.
LEMMA RootProps ==
  /\ Root \in KernelNames
  /\ \A k \in KernelNames : SuperName[k] = nil <=> k = Root
<1>1. \E k \in KernelNames : SuperName[k] = nil
  <2>1. KernelNames # {} /\ KernelNames \in SUBSET KernelNames
    BY ClassesAssumption
  <2>2. PICK k \in KernelNames : SuperName[k] \notin KernelNames
    BY <2>1, ClassesAssumption
  <2> QED BY <2>2, ClassesAssumption
<1>2. Root \in KernelNames /\ SuperName[Root] = nil
  BY <1>1 DEF Root
<1> QED BY <1>2, ClassesAssumption

\* The compact classes are where the table of known classes has them.
LEMMA FirstPageKnown ==
  /\ FirstPage \in [Elements -> (KernelNames \X Sides) \union {nil}]
  /\ \A element \in Elements : FirstPage[element] # nil => element \in 1 .. BaseSize - 1
  /\ \A index \in DOMAIN CompactAt :
       /\ index \in 1 .. BaseSize - 1 /\ index + MetaOffset \in 1 .. BaseSize - 1
       /\ index \in Elements /\ index + MetaOffset \in Elements
       /\ FirstPage[index] = <<CompactAt[index], "instance">>
       /\ FirstPage[index + MetaOffset] = <<CompactAt[index], "class">>
<1> DEFINE Metas == {index + MetaOffset : index \in DOMAIN CompactAt}
<1>1. /\ MetaOffset \in Nat /\ BaseSize \in Nat /\ PageElements \in Nat
      /\ 2 * MetaOffset < BaseSize /\ BaseSize <= PageElements
  BY ClassesAssumption
<1>2. /\ \A index \in DOMAIN CompactAt : index \in 1 .. MetaOffset
      /\ \A index \in DOMAIN CompactAt : CompactAt[index] \in KernelNames
  BY ClassesAssumption
<1>3. \A index \in DOMAIN CompactAt :
        /\ index \in 1 .. BaseSize - 1 /\ index + MetaOffset \in 1 .. BaseSize - 1
        /\ index \in Elements /\ index + MetaOffset \in Elements
        /\ index + MetaOffset \notin DOMAIN CompactAt
        /\ (index + MetaOffset) - MetaOffset = index
  BY <1>1, <1>2 DEF Elements
<1>4. \A element \in Elements :
        FirstPage[element] = IF element \in DOMAIN CompactAt
                             THEN <<CompactAt[element], "instance">>
                             ELSE IF element \in Metas
                             THEN <<CompactAt[element - MetaOffset], "class">> ELSE nil
  BY DEF FirstPage
<1>5. \A element \in Metas : /\ element - MetaOffset \in DOMAIN CompactAt
                             /\ element \in 1 .. BaseSize - 1
  BY <1>3
<1>6. FirstPage \in [Elements -> (KernelNames \X Sides) \union {nil}]
  <2>1. ASSUME NEW element \in Elements
        PROVE  FirstPage[element] \in (KernelNames \X Sides) \union {nil}
    <3>1. element \in DOMAIN CompactAt => CompactAt[element] \in KernelNames
      BY <1>2
    <3>2. element \in Metas => CompactAt[element - MetaOffset] \in KernelNames
      BY <1>2, <1>5
    <3> HIDE DEF Metas
    <3>3. CASE element \in DOMAIN CompactAt
      <4>1. FirstPage[element] = <<CompactAt[element], "instance">>
        BY <1>4, <3>3
      <4>2. <<CompactAt[element], "instance">> \in KernelNames \X Sides
        BY <3>1, <3>3 DEF Sides
      <4> QED BY <4>1, <4>2
    <3>4. CASE element \notin DOMAIN CompactAt /\ element \in Metas
      <4>1. FirstPage[element] = <<CompactAt[element - MetaOffset], "class">>
        BY <1>4, <3>4
      <4>2. <<CompactAt[element - MetaOffset], "class">> \in KernelNames \X Sides
        BY <3>2, <3>4 DEF Sides
      <4> QED BY <4>1, <4>2
    <3>5. CASE element \notin DOMAIN CompactAt /\ element \notin Metas
      BY <1>4, <3>5
    <3> QED BY <3>3, <3>4, <3>5
  <2>2. FirstPage = [element \in Elements |-> FirstPage[element]]
    BY DEF FirstPage
  <2> QED BY <2>1, <2>2
<1>7. \A element \in Elements : FirstPage[element] # nil => element \in 1 .. BaseSize - 1
  BY <1>3, <1>4, <1>5
<1>8. ASSUME NEW index \in DOMAIN CompactAt
      PROVE  /\ FirstPage[index] = <<CompactAt[index], "instance">>
             /\ FirstPage[index + MetaOffset] = <<CompactAt[index], "class">>
  <2>1. index + MetaOffset \in Metas
    OBVIOUS
  <2> HIDE DEF Metas
  <2> QED BY <1>3, <1>4, <2>1
<1> QED BY <1>3, <1>6, <1>7, <1>8

\* The index of a compact class, and that of its metaclass.
LEMMA KnownIndexProps ==
  ASSUME NEW k \in KernelNames
  PROVE  /\ KnownIndex[k] \in Elements \intersect Nat
         /\ KnownIndex[k] + MetaOffset \in Elements \intersect Nat
         /\ FirstPage[KnownIndex[k]] = <<k, "instance">>
         /\ FirstPage[KnownIndex[k] + MetaOffset] = <<k, "class">>
<1>1. KnownIndex[k] \in DOMAIN CompactAt /\ CompactAt[KnownIndex[k]] = k
  BY ClassesAssumption
<1>2. Elements \subseteq Nat
  BY ClassesAssumption DEF Elements
<1> QED BY <1>1, <1>2, FirstPageKnown

\* What an initial behavior holds.
LEMMA KernelFields ==
  ASSUME NEW k \in KernelNames
  PROVE  /\ KernelBehavior(k, "instance").classIndex = KnownIndex[k] + MetaOffset
         /\ KernelBehavior(k, "instance").identityHash = KnownIndex[k]
         /\ KernelBehavior(k, "instance").superclass
              = IF k = Root THEN nil ELSE <<SuperName[k], "instance">>
         /\ KernelBehavior(k, "instance").methodDict = NoMethods
         /\ KernelBehavior(k, "instance").dictIndex = KnownIndex[MethodDictionaryName]
         /\ KernelBehavior(k, "class").classIndex = KnownIndex[MetaclassName]
         /\ KernelBehavior(k, "class").identityHash = KnownIndex[k] + MetaOffset
         /\ KernelBehavior(k, "class").superclass
              = IF k = Root THEN <<ClassName, "instance">> ELSE <<SuperName[k], "class">>
         /\ KernelBehavior(k, "class").methodDict = nil
         /\ KernelBehavior(k, "class").dictIndex = nil
<1>1. SuperName[k] = nil <=> k = Root
  BY RootProps
<1>2. \A ci, ih, su, md, di : /\ Behavior(ci, ih, su, md, di).classIndex = ci
                              /\ Behavior(ci, ih, su, md, di).identityHash = ih
                              /\ Behavior(ci, ih, su, md, di).superclass = su
                              /\ Behavior(ci, ih, su, md, di).methodDict = md
                              /\ Behavior(ci, ih, su, md, di).dictIndex = di
  BY DEF Behavior
<1> QED BY <1>1, <1>2 DEF KernelBehavior

\* One step up, on each side.
LEMMA UpSides ==
  ASSUME NEW name
  PROVE  /\ Declared!Up(<<name, "instance">>)
              = IF name = Root THEN <<name, "instance">> ELSE <<parent[name], "instance">>
         /\ Declared!Up(<<name, "class">>)
              = IF name = Root THEN <<ClassName, "instance">> ELSE <<parent[name], "class">>
BY DEF Declared!Up

LEMMA BehaviorSides ==
  ASSUME NEW S, NEW b \in S \X Sides
  PROVE  \E k \in S : b = <<k, "instance">> \/ b = <<k, "class">>
BY DEF Sides

LEMMA InitIInv == Init => IInv
<1> SUFFICES ASSUME Init PROVE IInv
  OBVIOUS
<1>1. parent = SuperName /\ Existing = KernelNames
  BY ClassesAssumption DEF Init, Declared!Start, Existing
<1>2. \A k \in KernelNames :
        /\ behaviors[<<k, "instance">>] = KernelBehavior(k, "instance")
        /\ behaviors[<<k, "class">>] = KernelBehavior(k, "class")
  BY DEF Init, Sides
<1>3. \A b \in KernelNames \X Sides :
        \E k \in KernelNames : b = <<k, "instance">> \/ b = <<k, "class">>
  BY BehaviorSides
<1>4. nil \notin Names \X Sides /\ KernelNames \subseteq Names
  BY ClassesAssumption DEF Names
<1>5. behaviors \in [KernelNames \X Sides -> Behaviors]
  <2> SUFFICES ASSUME NEW k \in KernelNames, NEW side \in Sides
               PROVE  KernelBehavior(k, side) \in Behaviors
    BY DEF Init
  <2>1. KnownIndex[k] \in Nat /\ KnownIndex[k] + MetaOffset \in Nat
        /\ KnownIndex[MetaclassName] \in Nat /\ KnownIndex[MethodDictionaryName] \in Nat
    BY KnownIndexProps, ClassesAssumption
  <2>2. SuperName[k] \in KernelNames \union {nil} /\ ClassName \in KernelNames
    BY ClassesAssumption
  <2>3. NoMethods \in Dictionaries
    BY DEF NoMethods, Dictionaries
  <2>4. CASE side = "instance"
    BY <1>4, <2>1, <2>2, <2>3, <2>4 DEF KernelBehavior, Behavior, Behaviors, Sides
  <2>5. CASE side = "class"
    BY <1>4, <2>1, <2>2, <2>3, <2>5 DEF KernelBehavior, Behavior, Behaviors, Sides
  <2> QED BY <2>4, <2>5 DEF Sides
<1>6. Tree
  <2>1. \A name \in Existing : parent[name] = nil <=> name = Root
    BY <1>1, RootProps
  <2>2. \A name \in Existing : parent[name] \in Existing \union {nil}
    BY <1>1, ClassesAssumption
  <2>3. \A S \in SUBSET Existing : S # {} => \E name \in S : parent[name] \notin S
    BY <1>1, ClassesAssumption
  <2>4. globals = [name \in Names |-> IF name \in Existing THEN <<name, "instance">> ELSE nil]
    BY <1>1 DEF Init
  <2> QED BY <1>1, <1>4, <1>5, <2>1, <2>2, <2>3, <2>4 DEF Tree
<1>7. Realized
  <2>1. ASSUME NEW b \in KernelNames \X Sides
        PROVE  behaviors[b].superclass = IF b = <<Root, "instance">> THEN nil ELSE Declared!Up(b)
    <3>1. PICK k \in KernelNames : b = <<k, "instance">> \/ b = <<k, "class">>
      BY <1>3
    <3>2. CASE b = <<k, "instance">>
      BY <1>1, <1>2, <3>2, KernelFields, UpSides
    <3>3. CASE b = <<k, "class">>
      BY <1>1, <1>2, <3>3, KernelFields, UpSides
    <3> QED BY <3>1, <3>2, <3>3
  <2>2. defined = [b \in Existing \X Sides |-> [selector \in Selectors |-> nil]]
    <3>1. Declared!Start(SuperName)
      BY DEF Init
    <3>2. defined = [b \in Declared!Exists \X Declared!Sides |-> [s \in Selectors |-> nil]]
      BY <3>1, Zenon DEF Declared!Start
    <3> QED BY <3>2, Zenon DEF Existing, Sides, Declared!Exists, Declared!Sides
  <2>3. ASSUME NEW b \in KernelNames \X Sides, NEW selector \in Selectors,
               behaviors[b].methodDict # nil
        PROVE  behaviors[b].methodDict[selector] = nil
    <3>1. PICK k \in KernelNames : b = <<k, "instance">> \/ b = <<k, "class">>
      BY <1>3
    <3>2. behaviors[b].methodDict = NoMethods
      <4>1. behaviors[<<k, "class">>].methodDict = nil
        BY <1>2, KernelFields
      <4>2. behaviors[<<k, "instance">>].methodDict = NoMethods
        BY <1>2, KernelFields
      <4> QED BY <2>3, <3>1, <4>1, <4>2
    <3> QED BY <3>2 DEF NoMethods
  <2>4. defined \in [Existing \X Sides -> Dictionaries]
    BY <2>2 DEF Dictionaries
  <2> QED BY <1>1, <2>1, <2>2, <2>3, <2>4 DEF Realized
<1>8. Indexed
  <2>1. tableSize \in 0 .. MaxRegistered
    BY ClassesAssumption DEF Init
  <2>2. table \in Seq(Pages((Existing \X Sides) \union {nil})) /\ Len(table) = 1
        /\ table[1] = FirstPage
    <3>1. KernelNames # {}
      BY ClassesAssumption
    <3>2. FirstPage \in Pages((KernelNames \X Sides) \union {nil})
      BY <3>1, FirstPageKnown DEF Pages
    <3> QED BY <1>1, <3>2 DEF Init
  <2>3. \A b \in KernelNames \X Sides : issued[b] = {index \in Elements : FirstPage[index] = b}
    BY <1>5 DEF Init
  <2>4. ASSUME NEW b \in KernelNames \X Sides, NEW index \in issued[b]
        PROVE  index \in Indices /\ index < BaseSize + tableSize /\ table[1][index] = b
    <3>1. index \in Elements /\ FirstPage[index] = b /\ b # nil
      BY <1>4, <2>3
    <3>2. index \in 1 .. BaseSize - 1
      BY <3>1, FirstPageKnown
    <3>3. BaseSize \in Nat /\ MaxRegistered \in Nat /\ tableSize = 0
      BY ClassesAssumption DEF Init
    <3> QED BY <2>2, <3>1, <3>2, <3>3 DEF Indices
  <2>5. \A k \in KernelNames :
          /\ KnownIndex[k] \in issued[<<k, "instance">>]
          /\ KnownIndex[k] + MetaOffset \in issued[<<k, "class">>]
    BY <2>3, KnownIndexProps DEF Sides
  <2>6. \A k \in KernelNames :
          /\ behaviors[<<k, "instance">>].identityHash = KnownIndex[k]
          /\ behaviors[<<k, "instance">>].classIndex = KnownIndex[k] + MetaOffset
          /\ behaviors[<<k, "instance">>].dictIndex = KnownIndex[MethodDictionaryName]
          /\ behaviors[<<k, "class">>].identityHash = KnownIndex[k] + MetaOffset
          /\ behaviors[<<k, "class">>].classIndex = KnownIndex[MetaclassName]
          /\ behaviors[<<k, "class">>].methodDict = nil
          /\ behaviors[<<k, "class">>].dictIndex = nil
    BY <1>2, KernelFields
  <2>7. ASSUME NEW b \in KernelNames \X Sides
        PROVE  /\ behaviors[b].identityHash \in issued[b]
               /\ behaviors[b].classIndex \in issued[ClassOf(b)]
               /\ behaviors[b].dictIndex \in issued[DictionaryClass] \union {nil}
               /\ behaviors[b].methodDict # nil =>
                    behaviors[b].dictIndex \in issued[DictionaryClass]
               /\ ~IsStrange(b)
    <3>1. PICK k \in KernelNames : b = <<k, "instance">> \/ b = <<k, "class">>
      BY <1>3
    <3>2. MetaclassName \in KernelNames /\ MethodDictionaryName \in KernelNames
      BY ClassesAssumption
    <3>3. CASE b = <<k, "instance">>
      <4>1. ClassOf(b) = <<k, "class">>
        BY <3>3 DEF ClassOf
      <4> QED BY <2>5, <2>6, <3>2, <3>3, <4>1 DEF DictionaryClass, IsStrange
    <3>4. CASE b = <<k, "class">>
      <4>1. ClassOf(b) = <<MetaclassName, "instance">>
        BY <3>4 DEF ClassOf
      <4> QED BY <2>5, <2>6, <3>2, <3>4, <4>1 DEF IsStrange
    <3> QED BY <3>1, <3>3, <3>4
  <2>8. issued \in [Existing \X Sides -> SUBSET Indices]
    <3>1. DOMAIN behaviors = KernelNames \X Sides
      BY <1>5
    <3>2. issued = [b \in KernelNames \X Sides |-> issued[b]]
      BY <3>1 DEF Init
    <3>3. \A b \in KernelNames \X Sides : issued[b] \in SUBSET Indices
      BY <2>4
    <3> QED BY <1>1, <3>2, <3>3
  <2>9. \A index \in DOMAIN CompactAt :
          /\ table[1][index] = <<CompactAt[index], "instance">>
          /\ table[1][index + MetaOffset] = <<CompactAt[index], "class">>
    BY <2>2, FirstPageKnown
  <2> QED BY <1>1, <2>1, <2>2, <2>4, <2>7, <2>8, <2>9 DEF Indexed
<1> QED BY <1>6, <1>7, <1>8 DEF IInv, Init

\* A class and its class index lead to each other.
LEMMA ClassAtProps ==
  ASSUME FirstPageHolds, IInv, NEW b \in Existing \X Sides
  PROVE  /\ ClassOf(b) \in Existing \X Sides
         /\ behaviors[b].classIndex \in Indices
         /\ ClassAt(table, behaviors[b].classIndex) = ClassOf(b)
         /\ \A classIndex \in issued[b] :
              classIndex \in Indices /\ ClassAt(table, classIndex) = b
<1>1. ClassOf(b) \in Existing \X Sides
  BY ClassesAssumption DEF IInv, Tree, ClassOf, Sides
<1>2. ASSUME NEW c \in Existing \X Sides, NEW classIndex \in issued[c]
      PROVE  classIndex \in Indices /\ ClassAt(table, classIndex) = c
  <2>1. classIndex \in Indices /\ table[1][classIndex] = c
    BY DEF IInv, Indexed
  <2> QED BY <2>1, ClassAtFirstPage
<1>3. behaviors[b].classIndex \in issued[ClassOf(b)]
  BY DEF IInv, Indexed
<1> QED BY <1>1, <1>2, <1>3

\* A class is global as soon as it exists.
LEMMA GlobalProps ==
  ASSUME IInv, NEW name \in Names
  PROVE  /\ globals[name] # nil <=> name \in Existing
         /\ name \in Existing => globals[name] = <<name, "instance">>
<1>1. <<name, "instance">> # nil
  BY ClassesAssumption DEF Sides
<1> QED BY <1>1 DEF IInv, Tree

\* An object that is made of a compact class gets an index that the class was given.
LEMMA NewIndexProps ==
  ASSUME IInv
  PROVE  /\ DictionaryClass \in Existing \X Sides
         /\ \A k \in KernelNames :
              /\ <<k, "instance">> \in Existing \X Sides
              /\ NewIndex(k) \in issued[<<k, "instance">>] /\ NewIndex(k) \in Indices
<1>1. \A k \in KernelNames : <<k, "instance">> \in Existing \X Sides
  BY DEF IInv, Tree, Sides
<1>2. DictionaryClass \in Existing \X Sides
  BY <1>1, ClassesAssumption DEF DictionaryClass
<1> QED BY <1>1, <1>2 DEF NewIndex, IInv, Indexed

\* Registering a class keeps the invariant: it is a new leaf of the tree.
LEMMA SubclassKeeps ==
  ASSUME FirstPageHolds, IInv, NEW superName \in Names, NEW name \in Names,
         SubclassWithSomeNames(superName, name)
  PROVE  IInv'
<1> DEFINE super == globals[superName]
           metaclass == <<name, "class">>
           class == <<name, "instance">>
           metaIndex == NextIndex(tableSize)
           classIndex == NextIndex(tableSize + 1)
           dictIndex == NewIndex(MethodDictionaryName)
           theMetaclass == Behavior(NewIndex(MetaclassName), metaIndex,
                                    SuperMetaclass(super), NoMethods, dictIndex)
           theClass == Behavior(metaIndex, classIndex, super, NoMethods, dictIndex)
<1>1. name \notin Existing /\ superName \in Existing /\ super = <<superName, "instance">>
  BY GlobalProps DEF SubclassWithSomeNames
<1>2. /\ tableSize \in Nat /\ BaseSize \in Nat /\ MaxRegistered \in Nat /\ BaseSize > 0
      /\ tableSize + 2 <= MaxRegistered /\ tableSize' = tableSize + 2
  BY ClassesAssumption DEF SubclassWithSomeNames, IInv, Indexed
<1>3. /\ metaIndex = BaseSize + tableSize /\ classIndex = BaseSize + tableSize + 1
      /\ metaIndex \in Indices /\ classIndex \in Indices
      /\ metaIndex \in Nat /\ classIndex \in Nat /\ metaIndex # classIndex
  BY <1>2 DEF NextIndex, Indices
<1>4. SuperMetaclass(super) = <<superName, "class">>
  <2>1. super \in Existing \X Sides /\ ClassOf(super) = <<superName, "class">>
    BY <1>1 DEF Sides, ClassOf
  <2> QED BY <2>1, ClassAtProps DEF SuperMetaclass
<1>5. /\ parent' = [n \in Existing \union {name} |-> IF n = name THEN superName ELSE parent[n]]
      /\ defined' = [b \in (Existing \union {name}) \X Sides |->
                      IF b[1] = name THEN [s \in Selectors |-> nil] ELSE defined[b]]
  <2>1. Declared!AddClass(name, superName)
    BY DEF SubclassWithSomeNames
  <2>2. Declared!Exists = Existing /\ Declared!Sides = Sides
    BY DEF Declared!Exists, Existing, Declared!Sides, Sides
  <2> QED BY <2>1, <2>2 DEF Declared!AddClass
<1>6. Existing' = Existing \union {name}
  BY <1>5 DEF Existing
<1>7. Existing' \X Sides = (Existing \X Sides) \union {metaclass, class}
  BY <1>6 DEF Sides
<1>8. DOMAIN behaviors = Existing \X Sides
  BY DEF IInv, Tree
<1>9. behaviors' = [b \in (Existing \X Sides) \union {metaclass, class} |->
                     IF b = metaclass THEN theMetaclass
                     ELSE IF b = class THEN theClass ELSE behaviors[b]]
  <2> DEFINE created == [b \in {metaclass, class} |->
                           IF b = metaclass THEN theMetaclass ELSE theClass]
  <2>1. behaviors' = [b \in (Existing \X Sides) \union DOMAIN created |->
                       IF b \in DOMAIN created THEN created[b] ELSE behaviors[b]]
    BY <1>8 DEF SubclassWithSomeNames
  <2>2. DOMAIN created = {metaclass, class}
    OBVIOUS
  <2>3. created[metaclass] = theMetaclass /\ created[class] = theClass
    BY metaclass # class
  <2> HIDE DEF created, theMetaclass, theClass, metaclass, class
  <2> QED BY <2>1, <2>2, <2>3
<1>10. /\ \A b \in Existing \X Sides : behaviors'[b] = behaviors[b]
       /\ behaviors'[metaclass] = theMetaclass
       /\ behaviors'[class] = theClass
       /\ metaclass # class
       /\ metaclass \notin Existing \X Sides /\ class \notin Existing \X Sides
  <2>1. metaclass \notin Existing \X Sides /\ class \notin Existing \X Sides /\ metaclass # class
    BY <1>1
  <2> HIDE DEF theMetaclass, theClass, metaclass, class
  <2> QED BY <1>9, <2>1
<1>11. /\ theMetaclass.classIndex = NewIndex(MetaclassName)
       /\ theMetaclass.dictIndex = dictIndex /\ theClass.dictIndex = dictIndex
       /\ theMetaclass.identityHash = metaIndex
       /\ theMetaclass.superclass = <<superName, "class">>
       /\ theMetaclass.methodDict = NoMethods
       /\ theClass.classIndex = metaIndex
       /\ theClass.identityHash = classIndex
       /\ theClass.superclass = <<superName, "instance">>
       /\ theClass.methodDict = NoMethods
       /\ theMetaclass \in Behaviors /\ theClass \in Behaviors
  <2>1. NewIndex(MetaclassName) \in Nat /\ dictIndex \in Nat
    <3>1. NewIndex(MetaclassName) \in Indices /\ dictIndex \in Indices
      BY NewIndexProps, ClassesAssumption
    <3> HIDE DEF dictIndex
    <3> QED BY <1>2, <3>1 DEF Indices
  <2>2. NoMethods \in Dictionaries
    BY DEF NoMethods, Dictionaries
  <2>3. <<superName, "class">> \in Names \X Sides /\ <<superName, "instance">> \in Names \X Sides
    BY DEF Sides
  <2> HIDE DEF metaIndex, classIndex, super, dictIndex
  <2> QED BY <1>1, <1>3, <1>4, <2>1, <2>2, <2>3 DEF Behavior, Behaviors
<1>12. status' = status
  BY DEF SubclassWithSomeNames
<1> HIDE DEF theMetaclass, theClass, metaIndex, classIndex, super, dictIndex
<1>13. Tree'
  <2>1. KernelNames \subseteq Existing' /\ Existing' \subseteq Names
    BY <1>6 DEF IInv, Tree
  <2>2. behaviors' \in [Existing' \X Sides -> Behaviors]
    <3>1. \A b \in Existing \X Sides : behaviors[b] \in Behaviors
      BY DEF IInv, Tree
    <3> HIDE DEF metaclass, class
    <3> QED BY <1>7, <1>9, <1>11, <3>1
  <2>3. superName # nil /\ name # Root
    BY <1>1, RootProps, ClassesAssumption DEF IInv, Tree
  <2>4. \A n \in Existing' : parent'[n] = IF n = name THEN superName ELSE parent[n]
    BY <1>5, <1>6
  <2>5. \A n \in Existing' : parent'[n] = nil <=> n = Root
    BY <1>6, <2>3, <2>4 DEF IInv, Tree
  <2>6. \A n \in Existing' : parent'[n] \in Existing' \union {nil}
    BY <1>1, <1>6, <2>4 DEF IInv, Tree
  <2>7. ASSUME NEW S \in SUBSET Existing', S # {}
        PROVE  \E n \in S : parent'[n] \notin S
    <3>1. CASE S \ {name} = {}
      <4>1. S = {name}
        BY <2>7, <3>1
      <4> QED BY <1>1, <1>6, <2>4, <4>1
    <3>2. CASE S \ {name} # {}
      <4>1. PICK n \in S \ {name} : parent[n] \notin S \ {name}
        BY <1>6, <3>2 DEF IInv, Tree
      <4>2. n \in Existing /\ n # name
        BY <1>6
      <4>3. parent[n] # name
        BY <1>1, <4>2, ClassesAssumption DEF IInv, Tree
      <4> QED BY <1>6, <2>4, <4>1, <4>2, <4>3
    <3> QED BY <3>1, <3>2
  <2>8. globals' = [n \in Names |-> IF n \in Existing' THEN <<n, "instance">> ELSE nil]
    <3>1. globals' = [globals EXCEPT ![name] = class]
      BY DEF SubclassWithSomeNames
    <3> QED BY <1>6, <3>1 DEF IInv, Tree
  <2> QED BY <2>1, <2>2, <2>5, <2>6, <2>7, <2>8 DEF Tree
<1>14. Realized'
  <2>1. ASSUME NEW b \in Existing' \X Sides
        PROVE  behaviors'[b].superclass
                 = IF b = <<Root, "instance">> THEN nil ELSE Declared!Up(b)'
    <3>1. \A n \in Existing \union {name} : parent'[n] = IF n = name THEN superName ELSE parent[n]
      BY <1>5
    <3>2. name # Root
      BY <1>1, RootProps DEF IInv, Tree
    <3>3. \A n : /\ Declared!Up(<<n, "instance">>)'
                     = IF n = Root THEN <<n, "instance">> ELSE <<parent'[n], "instance">>
                 /\ Declared!Up(<<n, "class">>)'
                     = IF n = Root THEN <<ClassName, "instance">> ELSE <<parent'[n], "class">>
      BY DEF Declared!Up
    <3>4. CASE b = metaclass
      BY <1>10, <1>11, <3>1, <3>2, <3>3, <3>4
    <3>5. CASE b = class
      BY <1>10, <1>11, <3>1, <3>2, <3>3, <3>5
    <3>6. CASE b \in Existing \X Sides
      <4>1. behaviors[b].superclass = IF b = <<Root, "instance">> THEN nil ELSE Declared!Up(b)
        BY <3>6 DEF IInv, Realized
      <4>2. Declared!Up(b)' = Declared!Up(b)
        <5>1. PICK n \in Existing : b = <<n, "instance">> \/ b = <<n, "class">>
          BY <3>6, BehaviorSides
        <5>2. parent'[n] = parent[n]
          BY <1>1, <3>1, <5>1
        <5> QED BY <3>3, <5>1, <5>2, UpSides
      <4> QED BY <1>10, <3>6, <4>1, <4>2
    <3> QED BY <1>7, <3>4, <3>5, <3>6
  <2>2. \A b \in (Existing \union {name}) \X Sides :
          defined'[b] = IF b[1] = name THEN [s \in Selectors |-> nil] ELSE defined[b]
    BY <1>5
  <2>3. \A b \in (Existing \union {name}) \X Sides :
          b[1] # name => b \in Existing \X Sides
    BY DEF Sides
  <2>4. defined' \in [Existing' \X Sides -> Dictionaries]
    <3>1. [s \in Selectors |-> nil] \in Dictionaries
      BY DEF Dictionaries
    <3>2. \A b \in (Existing \union {name}) \X Sides : defined'[b] \in Dictionaries
      BY <2>2, <2>3, <3>1 DEF IInv, Realized
    <3> QED BY <1>5, <1>6, <3>2
  <2>5. ASSUME NEW b \in Existing' \X Sides, NEW selector \in Selectors
        PROVE  defined'[b][selector] = IF behaviors'[b].methodDict = nil THEN nil
                                       ELSE behaviors'[b].methodDict[selector]
    <3>1. CASE b \in Existing \X Sides
      <4>1. b[1] # name
        BY <1>1, <3>1
      <4> QED BY <1>6, <1>10, <2>2, <3>1, <4>1 DEF IInv, Realized
    <3>2. CASE b \in {metaclass, class}
      <4>1. behaviors'[b].methodDict = NoMethods
        BY <1>10, <1>11, <3>2
      <4>2. defined'[b] = [s \in Selectors |-> nil]
        BY <1>6, <2>2, <3>2
      <4> QED BY <4>1, <4>2 DEF NoMethods
    <3> QED BY <1>7, <3>1, <3>2
  <2> QED BY <2>1, <2>4, <2>5 DEF Realized
<1>15. Indexed'
  <2> DEFINE E == Existing \X Sides
             S == E \union {nil}
             T == (Existing' \X Sides) \union {nil}
             once == Entered(table, metaIndex, metaclass)
  <2>1. table' = Entered(once, classIndex, class)
    BY DEF SubclassWithSomeNames, metaIndex, classIndex
  <2>2. once \in Seq(Pages(T)) /\ Len(once) = 1
        /\ \A element \in Elements :
             once[1][element] = IF element = metaIndex THEN metaclass ELSE table[1][element]
    <3>1. S \subseteq T /\ metaclass \in T
      BY <1>7
    <3>2. table \in Seq(Pages(T)) /\ Len(table) = 1
      BY <3>1, PagesOfMore DEF IInv, Indexed
    <3> HIDE DEF S, T, metaclass
    <3>3. metaIndex \in Indices
      BY <1>3
    <3> QED BY <3>1, <3>2, <3>3, EnteredFirstPage
  <2>3. table' \in Seq(Pages(T)) /\ Len(table') = 1
        /\ \A element \in Elements :
             table'[1][element] = IF element = classIndex THEN class ELSE once[1][element]
    <3>1. class \in T
      BY <1>7
    <3>2. once \in Seq(Pages(T)) /\ Len(once) = 1 /\ classIndex \in Indices
      BY <1>3, <2>2
    <3> HIDE DEF T, class, once
    <3> QED BY <2>1, <3>1, <3>2, EnteredFirstPage
  <2>4. \A index \in Indices : index \in Elements
    BY ClassAtFirstPage
  <2>5. \A index \in Indices :
          table'[1][index] = IF index = classIndex THEN class
                             ELSE IF index = metaIndex THEN metaclass ELSE table[1][index]
    BY <2>2, <2>3, <2>4
  <2>6. /\ \A b \in E : issued'[b] = issued[b]
        /\ issued'[metaclass] = {metaIndex} /\ issued'[class] = {classIndex}
        /\ DOMAIN issued' = Existing' \X Sides
    <3> DEFINE created == [b \in {metaclass, class} |->
                             IF b = metaclass THEN theMetaclass ELSE theClass]
    <3>1. issued' = [b \in DOMAIN behaviors' |->
                      IF b \in DOMAIN created THEN {created[b].identityHash} ELSE issued[b]]
      BY DEF SubclassWithSomeNames, theMetaclass, theClass, metaIndex, classIndex, super,
             dictIndex
    <3>2. DOMAIN behaviors' = E \union {metaclass, class}
      BY <1>9
    <3>3. DOMAIN created = {metaclass, class} /\ created[metaclass] = theMetaclass
          /\ created[class] = theClass
      BY <1>10
    <3> HIDE DEF created, metaclass, class, E
    <3> QED BY <1>7, <1>10, <1>11, <3>1, <3>2, <3>3 DEF E
  <2>7. \A b \in E : issued[b] \in SUBSET Indices
    BY DEF IInv, Indexed
  <2>8. issued' \in [Existing' \X Sides -> SUBSET Indices]
    <3>1. issued' = [b \in Existing' \X Sides |-> issued'[b]]
      BY <2>6 DEF SubclassWithSomeNames
    <3>2. \A b \in Existing' \X Sides : issued'[b] \in SUBSET Indices
      BY <1>3, <1>7, <2>6, <2>7
    <3> QED BY <3>1, <3>2
  <2>9. ASSUME NEW b \in E
        PROVE  /\ behaviors'[b].identityHash \in issued'[b]
               /\ behaviors'[b].classIndex \in issued'[ClassOf(b)]
               /\ behaviors'[b].dictIndex \in issued'[DictionaryClass] \union {nil}
               /\ behaviors'[b].methodDict # nil =>
                    behaviors'[b].dictIndex \in issued'[DictionaryClass]
               /\ IsStrange(b)' => b[1] \notin KernelNames
               /\ \A index \in issued'[b] :
                    index < BaseSize + tableSize' /\ table'[1][index] = b
    <3>1. ClassOf(b) \in E
      BY ClassAtProps
    <3>2. \A index \in issued[b] :
            index \in Indices /\ index < BaseSize + tableSize /\ table[1][index] = b
      BY <2>7 DEF IInv, Indexed
    <3>3. \A index \in issued[b] : index # classIndex /\ index # metaIndex
                                  /\ index < BaseSize + tableSize'
      BY <1>2, <1>3, <3>2 DEF Indices
    <3>4. DictionaryClass \in E
      BY NewIndexProps
    <3>5. IsStrange(b)' = IsStrange(b) /\ behaviors'[b] = behaviors[b]
      BY <1>10 DEF IsStrange
    <3>6. /\ behaviors[b].identityHash \in issued[b]
          /\ behaviors[b].classIndex \in issued[ClassOf(b)]
          /\ behaviors[b].dictIndex \in issued[DictionaryClass] \union {nil}
          /\ behaviors[b].methodDict # nil => behaviors[b].dictIndex \in issued[DictionaryClass]
          /\ IsStrange(b) => b[1] \notin KernelNames
      BY DEF IInv, Indexed
    <3>7. issued'[b] = issued[b] /\ issued'[ClassOf(b)] = issued[ClassOf(b)]
          /\ issued'[DictionaryClass] = issued[DictionaryClass]
      BY <2>6, <3>1, <3>4
    <3>8. \A index \in issued[b] : table'[1][index] = b
      BY <2>5, <3>2, <3>3
    <3> HIDE DEF E
    <3> QED BY <3>3, <3>5, <3>6, <3>7, <3>8
  <2>14. dictIndex \in issued'[DictionaryClass] /\ name \notin KernelNames
    <3>1. DictionaryClass \in E /\ dictIndex \in issued[DictionaryClass]
      BY NewIndexProps, ClassesAssumption DEF dictIndex, DictionaryClass
    <3> QED BY <1>1, <2>6, <3>1 DEF IInv, Tree
  <2>10. /\ behaviors'[class].identityHash \in issued'[class]
         /\ behaviors'[class].classIndex \in issued'[ClassOf(class)]
         /\ behaviors'[class].dictIndex \in issued'[DictionaryClass]
         /\ \A index \in issued'[class] :
              index < BaseSize + tableSize' /\ table'[1][index] = class
    <3>1. ClassOf(class) = metaclass
      BY DEF ClassOf
    <3> QED BY <1>2, <1>3, <1>10, <1>11, <2>5, <2>6, <2>14, <3>1
  <2>11. /\ behaviors'[metaclass].identityHash \in issued'[metaclass]
         /\ behaviors'[metaclass].classIndex \in issued'[ClassOf(metaclass)]
         /\ behaviors'[metaclass].dictIndex \in issued'[DictionaryClass]
         /\ \A index \in issued'[metaclass] :
              index < BaseSize + tableSize' /\ table'[1][index] = metaclass
    <3>1. ClassOf(metaclass) = <<MetaclassName, "instance">>
      BY DEF ClassOf
    <3>2. <<MetaclassName, "instance">> \in E
          /\ NewIndex(MetaclassName) \in issued[<<MetaclassName, "instance">>]
      BY NewIndexProps, ClassesAssumption
    <3>4. issued'[ClassOf(metaclass)] = issued[<<MetaclassName, "instance">>]
      BY <2>6, <3>1, <3>2
    <3> QED BY <1>2, <1>3, <1>10, <1>11, <2>5, <2>6, <2>14, <3>2, <3>4
  <2>12. tableSize' \in 0 .. MaxRegistered
    BY <1>2
  <2>13. ASSUME NEW index \in DOMAIN CompactAt
         PROVE  /\ table'[1][index] = <<CompactAt[index], "instance">>
                /\ table'[1][index + MetaOffset] = <<CompactAt[index], "class">>
    <3>1. index \in 1 .. BaseSize - 1 /\ index + MetaOffset \in 1 .. BaseSize - 1
      BY FirstPageKnown
    <3>2. \A i \in 1 .. BaseSize - 1 : i \in Indices /\ i # metaIndex /\ i # classIndex
      BY <1>2, <1>3 DEF Indices
    <3> QED BY <2>5, <3>1, <3>2 DEF IInv, Indexed
  <2>15. \A b \in {metaclass, class} : b[1] \notin KernelNames
    BY <2>14
  <2> QED BY <1>7, <2>3, <2>8, <2>9, <2>10, <2>11, <2>12, <2>13, <2>15 DEF Indexed
<1> QED BY <1>12, <1>13, <1>14, <1>15 DEF IInv

\* Registering a behavior again gives it one more index.
LEMMA RegisterAgainKeeps ==
  ASSUME FirstPageHolds, IInv, NEW behavior \in DOMAIN behaviors, RegisterAsBehavior(behavior)
  PROVE  IInv'
<1> DEFINE index == NextIndex(tableSize)
           S == (Existing \X Sides) \union {nil}
<1>1. behavior \in Existing \X Sides /\ behaviors \in [Existing \X Sides -> Behaviors]
  BY DEF IInv, Tree
<1>2. /\ tableSize \in Nat /\ BaseSize \in Nat /\ MaxRegistered \in Nat /\ BaseSize > 0
      /\ tableSize + 1 <= MaxRegistered /\ tableSize' = tableSize + 1
  BY ClassesAssumption DEF RegisterAsBehavior, IInv, Indexed
<1>3. index = BaseSize + tableSize /\ index \in Indices /\ index \in Nat
  BY <1>2 DEF NextIndex, Indices
<1>4. UNCHANGED <<globals, status, parent, defined>>
  BY DEF RegisterAsBehavior, declared
<1>5. /\ behaviors' = [behaviors EXCEPT ![behavior].identityHash = index]
      /\ issued' = [issued EXCEPT ![behavior] = @ \union {index}]
      /\ table' = Entered(table, index, behavior)
  BY DEF RegisterAsBehavior
<1> HIDE DEF index
<1>6. /\ behaviors' \in [Existing \X Sides -> Behaviors]
      /\ \A b \in Existing \X Sides :
           /\ behaviors'[b].classIndex = behaviors[b].classIndex
           /\ behaviors'[b].superclass = behaviors[b].superclass
           /\ behaviors'[b].methodDict = behaviors[b].methodDict
           /\ behaviors'[b].dictIndex = behaviors[b].dictIndex
           /\ behaviors'[b].identityHash = IF b = behavior THEN index ELSE behaviors[b].identityHash
  BY <1>1, <1>3, <1>5 DEF Behaviors
<1>7. Existing' = Existing
  BY <1>4 DEF Existing
<1>8. Tree'
  BY <1>4, <1>6, <1>7 DEF IInv, Tree
<1>9. Realized'
  <2>1. \A b : Declared!Up(b)' = Declared!Up(b)
    BY <1>4 DEF Declared!Up
  <2> QED BY <1>4, <1>6, <1>7, <2>1 DEF IInv, Realized
<1>10. Indexed'
  <2>1. table' \in Seq(Pages(S)) /\ Len(table') = 1
        /\ \A element \in Elements :
             table'[1][element] = IF element = index THEN behavior ELSE table[1][element]
    <3>1. table \in Seq(Pages(S)) /\ Len(table) = 1 /\ behavior \in S
      BY <1>1 DEF IInv, Indexed
    <3> HIDE DEF S
    <3> QED BY <1>3, <1>5, <3>1, EnteredFirstPage
  <2>2. \A i \in Indices : i \in Elements
    BY ClassAtFirstPage
  <2>3. /\ issued \in [Existing \X Sides -> SUBSET Indices]
        /\ issued' \in [Existing \X Sides -> SUBSET Indices]
        /\ \A b \in Existing \X Sides :
             issued'[b] = IF b = behavior THEN issued[b] \union {index} ELSE issued[b]
    <3>1. issued \in [Existing \X Sides -> SUBSET Indices]
      BY DEF IInv, Indexed
    <3>2. issued[behavior] \union {index} \in SUBSET Indices
      BY <1>1, <1>3, <3>1
    <3> DEFINE more == issued[behavior] \union {index}
    <3>3. issued' = [issued EXCEPT ![behavior] = more]
      BY <1>5
    <3> HIDE DEF more
    <3>4. more \in SUBSET Indices
      BY <3>2 DEF more
    <3>5. /\ issued' \in [Existing \X Sides -> SUBSET Indices]
          /\ \A b \in Existing \X Sides : issued'[b] = IF b = behavior THEN more ELSE issued[b]
      BY <1>1, <3>1, <3>3, <3>4
    <3> QED BY <3>1, <3>5 DEF more
  <2>4. \A b \in Existing \X Sides : ClassOf(b) \in Existing \X Sides
    BY ClassAtProps
  <2>5. DictionaryClass \in Existing \X Sides
    BY NewIndexProps
  <2>6. ASSUME NEW b \in Existing \X Sides, NEW i \in issued'[b]
        PROVE  i < BaseSize + tableSize' /\ table'[1][i] = b
    <3>1. CASE i \in issued[b]
      <4>1. i \in Indices /\ i < BaseSize + tableSize /\ table[1][i] = b
        BY <2>3, <3>1 DEF IInv, Indexed
      <4>2. i # index /\ i < BaseSize + tableSize'
        BY <1>2, <1>3, <4>1 DEF Indices
      <4> QED BY <2>1, <2>2, <4>1, <4>2
    <3>2. CASE i \notin issued[b]
      <4>1. b = behavior /\ i = index
        BY <2>3, <3>2
      <4> QED BY <1>2, <1>3, <2>1, <2>2, <4>1
    <3> QED BY <3>1, <3>2
  <2>7. \A b \in Existing \X Sides : issued[b] \subseteq issued'[b]
    BY <2>3
  <2>8. ASSUME NEW b \in Existing \X Sides
        PROVE  /\ behaviors'[b].identityHash \in issued'[b]
               /\ behaviors'[b].classIndex \in issued'[ClassOf(b)]
               /\ behaviors'[b].dictIndex \in issued'[DictionaryClass] \union {nil}
               /\ behaviors'[b].methodDict # nil =>
                    behaviors'[b].dictIndex \in issued'[DictionaryClass]
               /\ IsStrange(b)' => b[1] \notin KernelNames
    <3>1. IsStrange(b)' = IsStrange(b)
      BY <1>6 DEF IsStrange
    <3> QED BY <1>6, <2>3, <2>4, <2>5, <2>7, <3>1 DEF IInv, Indexed
  <2>9. ASSUME NEW i \in DOMAIN CompactAt
        PROVE  /\ table'[1][i] = <<CompactAt[i], "instance">>
               /\ table'[1][i + MetaOffset] = <<CompactAt[i], "class">>
    <3>1. i \in 1 .. BaseSize - 1 /\ i + MetaOffset \in 1 .. BaseSize - 1
          /\ i \in Elements /\ i + MetaOffset \in Elements
      BY FirstPageKnown
    <3>2. i # index /\ i + MetaOffset # index
      BY <1>2, <1>3, <3>1
    <3> QED BY <2>1, <3>1, <3>2 DEF IInv, Indexed
  <2>10. tableSize' \in 0 .. MaxRegistered
    BY <1>2
  <2> QED BY <1>7, <2>1, <2>3, <2>6, <2>8, <2>9, <2>10 DEF Indexed
<1> QED BY <1>4, <1>8, <1>9, <1>10 DEF IInv

\* A method is added to the behavior of the side that it was declared on.
LEMMA MethodHolderProps ==
  ASSUME FirstPageHolds, IInv, NEW name \in Existing, NEW side \in Sides
  PROVE  MethodHolder(globals[name], side) = <<name, side>>
<1>1. globals[name] = <<name, "instance">>
  BY GlobalProps DEF IInv, Tree
<1>2. <<name, "instance">> \in Existing \X Sides
  BY DEF Sides
<1>3. ClassAt(table, behaviors[<<name, "instance">>].classIndex) = <<name, "class">>
  BY <1>2, ClassAtProps DEF ClassOf
<1> QED BY <1>1, <1>3 DEF MethodHolder, Sides

\* Nothing but the status changes.
LEMMA StatusOnly ==
  ASSUME IInv, UNCHANGED <<table, tableSize, behaviors, globals, issued, parent, defined>>,
         status' \in {"running", "aborted", "undefined"}
  PROVE  IInv'
<1>1. Existing' = Existing
  BY DEF Existing
<1>2. \A b : Declared!Up(b)' = Declared!Up(b)
  BY DEF Declared!Up
<1>3. Tree'
  BY <1>1 DEF IInv, Tree
<1>4. Realized'
  BY <1>1, <1>2 DEF IInv, Realized
<1>5. Indexed'
  BY <1>1 DEF IInv, Indexed, IsStrange
<1> QED BY <1>3, <1>4, <1>5 DEF IInv

LEMMA RegisterMethodKeeps ==
  ASSUME FirstPageHolds, IInv, NEW method \in Methods, NEW selector \in Selectors,
         NEW name \in Names, NEW side \in Sides,
         RegisterMethodWithNames(method, selector, name, side)
  PROVE  IInv'
<1> DEFINE holder == <<name, side>>
<1>1. name \in Existing
  BY GlobalProps DEF RegisterMethodWithNames
<1>2. MethodHolder(globals[name], side) = holder /\ holder \in Existing \X Sides
  BY <1>1, MethodHolderProps
<1>3. UNCHANGED <<table, tableSize, globals, issued>>
  BY DEF RegisterMethodWithNames
<1>4. CASE ~AddMethod(method, selector, name, side)
  <2>1. status' = "aborted" /\ UNCHANGED <<behaviors, parent, defined>>
    BY <1>4 DEF RegisterMethodWithNames, declared
  <2> QED BY <1>3, <2>1, StatusOnly
<1>5. CASE AddMethod(method, selector, name, side) /\ behaviors[holder].methodDict = nil
  <2>1. status' \in {"aborted", "undefined"} /\ UNCHANGED <<behaviors, parent, defined>>
    BY <1>2, <1>5 DEF AddMethod, declared
  <2> QED BY <1>3, <2>1, StatusOnly
<1>6. CASE AddMethod(method, selector, name, side) /\ behaviors[holder].methodDict # nil
  <2>1. /\ Declared!AddMethod(holder, selector, method)
        /\ behaviors' = [behaviors EXCEPT ![holder].methodDict[selector] = method]
        /\ UNCHANGED status
    BY <1>2, <1>6 DEF AddMethod
  <2>2. defined' = [defined EXCEPT ![holder][selector] = method] /\ UNCHANGED parent
    BY <2>1 DEF Declared!AddMethod
  <2>3. Existing' = Existing /\ behaviors \in [Existing \X Sides -> Behaviors]
    BY <2>2 DEF Existing, IInv, Tree
  <2> DEFINE methods == behaviors[holder].methodDict
             more == [methods EXCEPT ![selector] = method]
  <2>4. methods \in Dictionaries /\ behaviors[holder] \in Behaviors
    BY <1>2, <1>6, <2>3 DEF Behaviors
  <2>5. /\ more \in Dictionaries /\ more # nil
        /\ \A s \in Selectors : more[s] = IF s = selector THEN method ELSE methods[s]
    BY <2>4, ClassesAssumption DEF Dictionaries
  <2>6. behaviors' = [behaviors EXCEPT ![holder] = [@ EXCEPT !.methodDict = more]]
    BY <2>1
  <2> HIDE DEF more, methods
  <2>7. /\ behaviors' \in [Existing \X Sides -> Behaviors]
        /\ \A b \in Existing \X Sides :
             /\ behaviors'[b].classIndex = behaviors[b].classIndex
             /\ behaviors'[b].superclass = behaviors[b].superclass
             /\ behaviors'[b].identityHash = behaviors[b].identityHash
             /\ behaviors'[b].dictIndex = behaviors[b].dictIndex
             /\ behaviors'[b].methodDict = IF b = holder THEN more ELSE behaviors[b].methodDict
    BY <1>2, <2>3, <2>4, <2>5, <2>6 DEF Behaviors
  <2>8. Tree'
    BY <1>3, <2>2, <2>3, <2>7 DEF IInv, Tree
  <2>9. Realized'
    <3>1. \A b : Declared!Up(b)' = Declared!Up(b)
      BY <2>2 DEF Declared!Up
    <3>2. defined \in [Existing \X Sides -> Dictionaries]
      BY DEF IInv, Realized
    <3>3. defined[holder] \in Dictionaries
      BY <1>2, <3>2
    <3>4. [defined[holder] EXCEPT ![selector] = method] \in Dictionaries
      BY <3>3 DEF Dictionaries
    <3>5. defined' \in [Existing \X Sides -> Dictionaries]
      BY <1>2, <2>2, <3>2, <3>4
    <3>6. ASSUME NEW b \in Existing \X Sides, NEW s \in Selectors
          PROVE  defined'[b][s] = IF b = holder /\ s = selector THEN method ELSE defined[b][s]
      BY <1>2, <2>2, <3>2, <3>3 DEF Dictionaries
    <3>7. ASSUME NEW b \in Existing \X Sides, NEW s \in Selectors
          PROVE  defined'[b][s] = IF behaviors'[b].methodDict = nil THEN nil
                                  ELSE behaviors'[b].methodDict[s]
      <4>1. defined[b][s] = IF behaviors[b].methodDict = nil THEN nil
                            ELSE behaviors[b].methodDict[s]
        BY DEF IInv, Realized
      <4> QED BY <1>6, <2>5, <2>7, <3>6, <4>1 DEF methods
    <3> QED BY <2>3, <2>7, <3>1, <3>5, <3>7 DEF IInv, Realized
  <2>10. Indexed'
    <3>1. \A b \in Existing \X Sides : /\ behaviors'[b].methodDict = nil
                                            <=> behaviors[b].methodDict = nil
                                       /\ IsStrange(b)' = IsStrange(b)
      BY <1>6, <2>5, <2>7 DEF IsStrange
    <3> QED BY <1>3, <2>3, <2>7, <3>1 DEF IInv, Indexed
  <2> QED BY <2>1, <2>8, <2>9, <2>10 DEF IInv
<1> QED BY <1>4, <1>5, <1>6

LEMMA NextIInv == FirstPageHolds /\ IInv /\ [Next]_vars => IInv'
<1> SUFFICES ASSUME FirstPageHolds, IInv, [Next]_vars PROVE IInv'
  OBVIOUS
<1>1. ASSUME UNCHANGED <<table, tableSize, behaviors, globals, issued, parent, defined>>,
             status' \in {"running", "aborted", "undefined"}
      PROVE  IInv'
  BY <1>1, StatusOnly
<1>2. ASSUME UNCHANGED vars PROVE IInv'
  BY <1>1, <1>2 DEF vars, IInv
<1>3. ASSUME NEW superName \in Names, NEW name \in Names, SuperclassMissing(superName, name)
      PROVE  IInv'
  BY <1>1, <1>3 DEF SuperclassMissing, declared
<1>4. ASSUME NEW method, Activate(method) PROVE IInv'
  BY <1>1, <1>4 DEF Activate, declared, IInv
<1>5. CASE Register
  BY <1>2, <1>3, <1>5, SubclassKeeps, RegisterAgainKeeps, RegisterMethodKeeps
     DEF Register, SubclassExists, ClassMissing
<1>6. CASE Send
  BY <1>4, <1>6 DEF Send, SendDispatch, SupersendDispatch
<1>7. CASE Stopped
  BY <1>2, <1>7 DEF Stopped
<1> QED BY <1>2, <1>5, <1>6, <1>7 DEF Next

LEMMA Invariance == ASSUME FirstPageHolds PROVE Spec => []IInv
BY InitIInv, NextIInv, PTL DEF Spec

-----------------------------------------------------------------------------
\* The types of the table, the behaviors and the globals, for any classes and packages
\* whose behaviors fit on the first page (TypeOK).
THEOREM TypeCorrect == ASSUME FirstPageHolds PROVE Spec => []TypeOK
<1>1. IInv => TypeOK
  <2> SUFFICES ASSUME IInv PROVE TypeOK
    OBVIOUS
  <2>1. DOMAIN behaviors = Existing \X Sides /\ behaviors \in [Existing \X Sides -> Behaviors]
    BY DEF IInv, Tree
  <2>2. KernelNames \X Sides \subseteq DOMAIN behaviors /\ DOMAIN behaviors \subseteq Names \X Sides
    BY <2>1 DEF IInv, Tree
  <2>3. ASSUME NEW b \in Existing \X Sides
        PROVE  /\ behaviors[b].identityHash \in 1 .. BaseSize + MaxRegistered - 1
               /\ behaviors[b].superclass \in (Existing \X Sides) \union {nil}
               /\ behaviors[b].methodDict \in [Selectors -> Methods \union {nil}] \union {nil}
               /\ behaviors[b].dictIndex \in 1 .. BaseSize + MaxRegistered - 1 \union {nil}
    <3>1. behaviors[b].identityHash \in Indices /\ behaviors[b].dictIndex \in Indices \union {nil}
      BY NewIndexProps DEF IInv, Indexed
    <3>2. behaviors[b].superclass \in (Existing \X Sides) \union {nil}
      <4>1. PICK n \in Existing : b = <<n, "instance">> \/ b = <<n, "class">>
        BY BehaviorSides
      <4>2. n # Root => parent[n] \in Existing
        BY DEF IInv, Tree
      <4>3. ClassName \in Existing
        BY ClassesAssumption DEF IInv, Tree
      <4>4. behaviors[b].superclass = IF b = <<Root, "instance">> THEN nil ELSE Declared!Up(b)
        BY DEF IInv, Realized
      <4>5. CASE b = <<n, "instance">>
        <5>1. behaviors[b].superclass = IF n = Root THEN nil ELSE <<parent[n], "instance">>
          BY <4>4, <4>5, UpSides
        <5> QED BY <4>2, <5>1 DEF Sides
      <4>6. CASE b = <<n, "class">>
        <5>1. behaviors[b].superclass
                = IF n = Root THEN <<ClassName, "instance">> ELSE <<parent[n], "class">>
          BY <4>4, <4>6, UpSides
        <5> QED BY <4>2, <4>3, <5>1 DEF Sides
      <4> QED BY <4>1, <4>5, <4>6
    <3> QED BY <2>1, <3>1, <3>2 DEF Indices, Behaviors, Dictionaries
  <2>4. \A page \in DOMAIN table : table[page] \in [Elements -> DOMAIN behaviors \union {nil}]
    <3> DEFINE P == Pages((Existing \X Sides) \union {nil})
    <3>1. \A page \in DOMAIN table : table[page] \in P
      <4>1. table \in Seq(P)
        BY DEF IInv, Indexed
      <4> HIDE DEF P
      <4> QED BY <4>1
    <3>2. \A page \in DOMAIN table : table[page] \in Pages(DOMAIN behaviors \union {nil})
      BY <2>1, <3>1
    <3> QED BY <3>2, Zenon DEF Pages
  <2>5. globals \in [Names -> DOMAIN behaviors \union {nil}]
    <3>1. globals = [n \in Names |-> IF n \in Existing THEN <<n, "instance">> ELSE nil]
      BY DEF IInv, Tree
    <3>2. \A n \in Existing : <<n, "instance">> \in Existing \X Sides
      BY DEF Sides
    <3> QED BY <2>1, <3>1, <3>2
  <2> QED BY <2>1, <2>2, <2>3, <2>4, <2>5 DEF TypeOK, IInv, Indexed
<1> QED BY <1>1, Invariance, PTL

\* The class index that an object holds leads to its class for ever, however many
\* classes are registered after it, as long as they fit on the first page, and is
\* one that the class was given, also that of a metaclass after Metaclass was given
\* another (slvm_getClassFromOop, slvm_objectmodel_registerBehavior).
THEOREM IndicesResolve == ASSUME FirstPageHolds PROVE Spec => []ClassIndexResolves
<1>1. IInv => ClassIndexResolves
  <2> SUFFICES ASSUME IInv, NEW b \in Existing \X Sides
               PROVE  /\ behaviors[b].identityHash \in issued[b]
                      /\ \A classIndex \in issued[b] : ClassAt(table, classIndex) = b
                      /\ behaviors[b].classIndex \in issued[ClassOf(b)]
                      /\ ClassAt(table, behaviors[b].classIndex) = ClassOf(b)
    BY DEF ClassIndexResolves, ClassOf, IInv, Tree
  <2> QED BY ClassAtProps DEF IInv, Indexed
<1> QED BY <1>1, Invariance, PTL

\* As long as they fit, registering behaviors never changes the class of a compact
\* class's index (objectmodel.c:89, which run known_classes refutes without the hypothesis).
THEOREM KnownKept == ASSUME FirstPageHolds PROVE Spec => []KnownClassesKept
<1>1. IInv => KnownClassesKept
  <2> SUFFICES ASSUME IInv, NEW index \in DOMAIN CompactAt
               PROVE  /\ ClassAt(table, index) = <<CompactAt[index], "instance">>
                      /\ ClassAt(table, index + MetaOffset) = <<CompactAt[index], "class">>
    BY DEF KnownClassesKept
  <2>1. index \in 1 .. BaseSize - 1 /\ index + MetaOffset \in 1 .. BaseSize - 1
    BY FirstPageKnown
  <2>2. 1 .. BaseSize - 1 \subseteq Indices
    BY ClassesAssumption DEF Indices
  <2>3. /\ ClassAt(table, index) = table[1][index]
        /\ ClassAt(table, index + MetaOffset) = table[1][index + MetaOffset]
    BY <2>1, <2>2, ClassAtFirstPage
  <2> QED BY <2>3 DEF IInv, Indexed
<1> QED BY <1>1, Invariance, PTL

-----------------------------------------------------------------------------
(***************************************************************************)
(* The tree of classes: what a behavior inherits from.                     *)
(***************************************************************************)
Realm == Existing \X Sides
TopBehavior == <<Root, "instance">>

\* One more step of Declared!Ancestors, and its steps.
Step(S) == S \union {Declared!Up(x) : x \in S}

Chain(b, depth) ==
  CHOOSE f : f = [n \in 0 .. depth |-> IF n = 0 THEN {b} ELSE Step(f[n - 1])]

LEMMA Least ==
  ASSUME NEW T \in SUBSET Nat, T # {}
  PROVE  \E n \in T : n = 0 \/ n - 1 \notin T
<1>1. PICK n \in T : \A m \in T : ~(<<m, n>> \in OpToRel(<, Nat))
  BY NatLessThanWellFounded, WFMin
<1>2. ASSUME n # 0, n - 1 \in T PROVE FALSE
  <2>1. ~(<<n - 1, n>> \in {ss \in Nat \X Nat : ss[1] < ss[2]})
    BY <1>1, <1>2 DEF OpToRel
  <2>2. <<n - 1, n>> \in Nat \X Nat /\ <<n - 1, n>>[1] = n - 1 /\ <<n - 1, n>>[2] = n
    BY <1>2
  <2> QED BY <2>1, <2>2
<1> QED BY <1>2

\* The steps are the sets that the recursive function is defined to be.
LEMMA ChainExists ==
  ASSUME NEW b, NEW depth \in Nat
  PROVE  Chain(b, depth) = [n \in 0 .. depth |-> IF n = 0 THEN {b} ELSE Step(Chain(b, depth)[n - 1])]
<1> DEFINE Is(f, n) == f = [k \in 0 .. n |-> IF k = 0 THEN {b} ELSE Step(f[k - 1])]
           T == {n \in Nat : ~\E f : Is(f, n)}
<1>1. 0 \notin T
  <2>1. Is([k \in 0 .. 0 |-> {b}], 0)
    OBVIOUS
  <2> QED BY <2>1
<1>2. ASSUME NEW n \in Nat, n # 0, n - 1 \notin T PROVE n \notin T
  <2>1. PICK f : Is(f, n - 1)
    BY <1>2
  <2> DEFINE g == [k \in 0 .. n |-> IF k < n THEN f[k] ELSE Step(f[n - 1])]
  <2>2. ASSUME NEW k \in 0 .. n PROVE g[k] = IF k = 0 THEN {b} ELSE Step(g[k - 1])
    <3>1. CASE k < n
      <4>1. k \in 0 .. n - 1 /\ (k # 0 => k - 1 \in 0 .. n /\ k - 1 < n)
        BY <1>2, <3>1
      <4> QED BY <2>1, <3>1, <4>1
    <3>2. CASE k = n
      <4>1. k # 0 /\ n - 1 \in 0 .. n /\ n - 1 < n
        BY <1>2, <3>2
      <4> QED BY <3>2, <4>1
    <3> QED BY <3>1, <3>2
  <2>3. Is(g, n)
    BY <2>2
  <2> QED BY <2>3
<1>3. T = {}
  <2> HIDE DEF T
  <2>1. T \subseteq Nat
    BY DEF T
  <2> QED BY <1>1, <1>2, <2>1, Least
<1>4. \E f : Is(f, depth)
  BY <1>3
<1> QED BY <1>4 DEF Chain

LEMMA AncestorsChain ==
  ASSUME NEW b
  PROVE  Declared!Ancestors(b)
           = Chain(b, 2 * Cardinality(Existing))[2 * Cardinality(Existing)]
<1>1. \A S : Declared!Cardinality(S) = Cardinality(S)
  BY DEF Declared!Cardinality, Cardinality
<1> QED BY <1>1 DEF Declared!Ancestors, Declared!Exists, Existing, Chain, Step

\* Going up ends at the root's instance side.
LEMMA UpProps ==
  ASSUME Tree
  PROVE  /\ TopBehavior \in Realm /\ Declared!Up(TopBehavior) = TopBehavior
         /\ \A b \in Realm : Declared!Up(b) \in Realm
         /\ \A S \in SUBSET Realm : S # {} =>
              \E b \in S : b = TopBehavior \/ Declared!Up(b) \notin S
<1>1. Root \in Existing /\ ClassName \in Existing
  BY RootProps, ClassesAssumption DEF Tree
<1>2. \A n \in Existing : n # Root => parent[n] \in Existing
  BY DEF Tree
<1>3. TopBehavior \in Realm /\ Declared!Up(TopBehavior) = TopBehavior
  BY <1>1, UpSides DEF TopBehavior, Realm, Sides
<1>4. ASSUME NEW b \in Realm PROVE Declared!Up(b) \in Realm
  <2>1. PICK n \in Existing : b = <<n, "instance">> \/ b = <<n, "class">>
    BY BehaviorSides DEF Realm
  <2>2. \/ Declared!Up(b) = b
        \/ Declared!Up(b) = <<ClassName, "instance">>
        \/ n # Root /\ Declared!Up(b) \in {<<parent[n], "instance">>, <<parent[n], "class">>}
    BY <2>1, UpSides
  <2> QED BY <1>1, <1>2, <2>2 DEF Realm, Sides
<1>5. ASSUME NEW S \in SUBSET Realm, S # {}
      PROVE  \E b \in S : b = TopBehavior \/ Declared!Up(b) \notin S
  <2> DEFINE Of(side) == {n \in Existing : <<n, side>> \in S}
  <2>1. ASSUME NEW side, Of(side) # {}
        PROVE  \E n \in Of(side) : parent[n] \notin Of(side)
    <3>1. Of(side) \in SUBSET Existing
      OBVIOUS
    <3> HIDE DEF Of
    <3> QED BY <2>1, <3>1 DEF Tree
  <2>2. CASE Of("instance") # {}
    <3>1. PICK n \in Of("instance") : parent[n] \notin Of("instance")
      BY <2>1, <2>2
    <3>2. n = Root \/ (Declared!Up(<<n, "instance">>) = <<parent[n], "instance">>
                       /\ parent[n] \in Existing)
      BY <1>2, <3>1, UpSides
    <3> QED BY <3>1, <3>2 DEF TopBehavior
  <2>3. CASE Of("instance") = {}
    <3>1. PICK b \in S : b \in Realm
      BY <1>5
    <3>2. PICK m \in Existing : b = <<m, "class">>
      BY <2>3, <3>1, BehaviorSides DEF Realm
    <3>3. m \in Of("class")
      BY <3>1, <3>2
    <3>4. PICK n \in Of("class") : parent[n] \notin Of("class")
      BY <2>1, <3>3
    <3>5. Declared!Up(<<n, "class">>) = IF n = Root THEN <<ClassName, "instance">>
                                        ELSE <<parent[n], "class">>
      BY UpSides
    <3>6. Declared!Up(<<n, "class">>) \notin S
      BY <1>1, <1>2, <2>3, <3>4, <3>5
    <3> QED BY <3>4, <3>6
  <2> QED BY <2>2, <2>3
<1> QED BY <1>3, <1>4, <1>5

\* There are too few behaviors for the steps to go on growing.
LEMMA AncestorsProps ==
  ASSUME Tree, NEW b \in Realm
  PROVE  /\ b \in Declared!Ancestors(b) /\ Declared!Ancestors(b) \subseteq Realm
         /\ \A x \in Declared!Ancestors(b) : Declared!Up(x) \in Declared!Ancestors(b)
         /\ \A S : b \in S /\ (\A x \in S : Declared!Up(x) \in S) => Declared!Ancestors(b) \subseteq S
<1> DEFINE depth == 2 * Cardinality(Existing)
           f == Chain(b, depth)
<1>1. IsFiniteSet(Realm) /\ Cardinality(Realm) = depth /\ depth \in Nat
  <2>1. IsFiniteSet(Existing)
    BY FS_Subset, ClassesAssumption DEF Tree
  <2>2. IsFiniteSet(Sides) /\ Cardinality(Sides) = 2
    <3>1. IsFiniteSet({"instance"}) /\ Cardinality({"instance"}) = 1
      BY FS_Singleton
    <3>2. Sides = {"instance"} \cup {"class"} /\ "class" \notin {"instance"}
      BY DEF Sides
    <3> QED BY <3>1, <3>2, FS_AddElement
  <2>3. IsFiniteSet(Realm) /\ Cardinality(Realm) = Cardinality(Existing) * Cardinality(Sides)
    BY <2>1, <2>2, FS_Product DEF Realm
  <2>4. Cardinality(Existing) \in Nat
    BY <2>1, FS_CardinalityType
  <2> QED BY <2>2, <2>3, <2>4
<1>2. Declared!Ancestors(b) = f[depth]
  BY AncestorsChain
<1> HIDE DEF depth
<1>3. f = [n \in 0 .. depth |-> IF n = 0 THEN {b} ELSE Step(f[n - 1])]
  BY <1>1, ChainExists
<1> HIDE DEF f
<1>4. /\ f[0] = {b}
      /\ \A n \in 0 .. depth : n # 0 => n - 1 \in 0 .. depth /\ f[n] = Step(f[n - 1])
  <2>1. 0 \in 0 .. depth
    BY <1>1
  <2>2. \A n \in 0 .. depth : n # 0 => n - 1 \in 0 .. depth
    BY <1>1
  <2> QED BY <1>3, <2>1, <2>2
<1>5. ASSUME NEW S, b \in S, \A x \in S : Declared!Up(x) \in S
      PROVE  \A n \in 0 .. depth : f[n] \subseteq S
  <2> DEFINE T == {n \in 0 .. depth : ~(f[n] \subseteq S)}
  <2>1. SUFFICES ASSUME T # {} PROVE FALSE
    OBVIOUS
  <2>2. T \in SUBSET Nat
    BY <1>1
  <2> HIDE DEF T
  <2>3. PICK n \in T : n = 0 \/ n - 1 \notin T
    BY <2>1, <2>2, Least
  <2>4. n \in 0 .. depth /\ ~(f[n] \subseteq S) /\ n # 0
    BY <1>4, <1>5, <2>3 DEF T
  <2>5. f[n - 1] \subseteq S /\ f[n] = Step(f[n - 1])
    BY <1>4, <2>3, <2>4 DEF T
  <2> QED BY <1>5, <2>4, <2>5 DEF Step
<1>6. \A n \in 0 .. depth : f[n] \subseteq Realm
  BY <1>5, UpProps
<1>7. \A n \in 0 .. depth : b \in f[n]
  <2> DEFINE T == {n \in 0 .. depth : b \notin f[n]}
  <2>1. SUFFICES ASSUME T # {} PROVE FALSE
    OBVIOUS
  <2>2. T \in SUBSET Nat
    BY <1>1
  <2> HIDE DEF T
  <2>3. PICK n \in T : n = 0 \/ n - 1 \notin T
    BY <2>1, <2>2, Least
  <2>4. n \in 0 .. depth /\ b \notin f[n] /\ n # 0
    BY <1>4, <2>3 DEF T
  <2>5. b \in f[n - 1] /\ f[n] = Step(f[n - 1])
    BY <1>4, <2>3, <2>4 DEF T
  <2> QED BY <2>4, <2>5 DEF Step
<1> DEFINE Closed(n) == \A x \in f[n] : Declared!Up(x) \in f[n]
<1>8. \A n \in 0 .. depth : Closed(n) \/ Cardinality(f[n]) >= n + 1
  <2> DEFINE T == {n \in 0 .. depth : ~(Closed(n) \/ Cardinality(f[n]) >= n + 1)}
  <2>1. SUFFICES ASSUME T # {} PROVE FALSE
    OBVIOUS
  <2>2. T \in SUBSET Nat
    BY <1>1
  <2> HIDE DEF T
  <2>3. PICK n \in T : n = 0 \/ n - 1 \notin T
    BY <2>1, <2>2, Least
  <2>4. n \in 0 .. depth /\ ~Closed(n) /\ ~(Cardinality(f[n]) >= n + 1)
    BY <2>3 DEF T
  <2>5. n # 0
    <3>1. Cardinality({b}) = 1
      BY FS_Singleton
    <3>2. Cardinality(f[0]) = 1
      BY <1>4, <3>1
    <3> HIDE DEF Closed
    <3> QED BY <2>4, <3>2
  <2>6. n - 1 \in 0 .. depth /\ f[n] = Step(f[n - 1])
    BY <1>4, <2>4, <2>5
  <2>7. ~Closed(n - 1)
    <3>1. ASSUME Closed(n - 1) PROVE f[n] = f[n - 1]
      BY <2>6, <3>1 DEF Step
    <3> QED BY <2>4, <3>1
  <2>8. Cardinality(f[n - 1]) >= n
    BY <1>1, <2>3, <2>5, <2>6, <2>7 DEF T
  <2>9. PICK x \in f[n - 1] : Declared!Up(x) \notin f[n - 1]
    BY <2>7
  <2>10. IsFiniteSet(f[n - 1]) /\ IsFiniteSet(f[n])
    BY <1>1, <1>6, <2>4, <2>6, FS_Subset
  <2>11. f[n - 1] \in SUBSET f[n] /\ f[n - 1] # f[n]
    BY <2>6, <2>9 DEF Step
  <2>12. /\ Cardinality(f[n - 1]) <= Cardinality(f[n])
         /\ Cardinality(f[n - 1]) # Cardinality(f[n])
    BY <2>10, <2>11, FS_Subset
  <2>13. Cardinality(f[n - 1]) \in Nat /\ Cardinality(f[n]) \in Nat
    BY <2>10, FS_CardinalityType
  <2> QED BY <1>1, <2>4, <2>8, <2>12, <2>13
<1>9. depth \in 0 .. depth
  BY <1>1
<1>10. Closed(depth)
  <2>1. Cardinality(f[depth]) <= depth /\ Cardinality(f[depth]) \in Nat
    BY <1>1, <1>6, <1>9, FS_Subset, FS_CardinalityType
  <2> QED BY <1>1, <1>8, <1>9, <2>1
<1> QED BY <1>2, <1>5, <1>6, <1>7, <1>9, <1>10

\* What a behavior inherits from is itself and what the one above it does; nothing
\* inherits from itself.
LEMMA AncestorsStep ==
  ASSUME Tree, NEW b \in Realm
  PROVE  /\ Declared!Ancestors(b) = {b} \union Declared!Ancestors(Declared!Up(b))
         /\ b # TopBehavior => b \notin Declared!Ancestors(Declared!Up(b))
         /\ b = TopBehavior => Declared!Ancestors(b) = {b}
<1> DEFINE A(x) == Declared!Ancestors(x)
           U(x) == Declared!Up(x)
<1>1. \A x \in Realm :
        /\ U(x) \in Realm /\ x \in A(x) /\ A(x) \subseteq Realm /\ (\A y \in A(x) : U(y) \in A(x))
        /\ \A S : x \in S /\ (\A y \in S : U(y) \in S) => A(x) \subseteq S
  BY UpProps, AncestorsProps
<1>2. /\ TopBehavior \in Realm /\ U(TopBehavior) = TopBehavior
      /\ \A S \in SUBSET Realm : S # {} => \E x \in S : x = TopBehavior \/ U(x) \notin S
  BY UpProps
<1> HIDE DEF A, U
<1>3. ASSUME NEW x \in Realm PROVE A(x) = {x} \union A(U(x))
  <2>1. A(U(x)) \subseteq A(x)
    BY <1>1
  <2>2. A(x) \subseteq {x} \union A(U(x))
    <3> DEFINE S == {x} \union A(U(x))
    <3>1. x \in S /\ \A y \in S : U(y) \in S
      BY <1>1
    <3> HIDE DEF S
    <3>2. A(x) \subseteq S
      BY <1>1, <3>1
    <3> QED BY <3>2 DEF S
  <2> QED BY <1>1, <2>1, <2>2
<1>4. A(TopBehavior) = {TopBehavior}
  <2> DEFINE S == {TopBehavior}
  <2>1. TopBehavior \in S /\ \A y \in S : U(y) \in S
    BY <1>2
  <2> HIDE DEF S
  <2>2. A(TopBehavior) \subseteq S
    BY <1>1, <1>2, <2>1
  <2> QED BY <1>1, <1>2, <2>2 DEF S
<1>5. ASSUME b # TopBehavior, b \in A(U(b)) PROVE FALSE
  <2> DEFINE S == {x \in A(b) : b \in A(x)}
  <2>1. S \in SUBSET Realm /\ b \in S
    BY <1>1
  <2>2. PICK x \in S : x = TopBehavior \/ U(x) \notin S
    BY <1>2, <2>1
  <2>3. x \in A(b) /\ b \in A(x) /\ x \in Realm
    BY <2>1, <2>2
  <2>4. x # TopBehavior
    BY <1>4, <1>5, <2>3
  <2>5. U(x) \in A(b)
    BY <1>1, <2>3
  <2>6. b \notin A(U(x))
    BY <2>2, <2>4, <2>5
  <2>7. b = x
    BY <1>3, <2>3, <2>6
  <2> QED BY <1>5, <2>6, <2>7
<1> QED BY <1>3, <1>4, <1>5 DEF A, U

-----------------------------------------------------------------------------
(***************************************************************************)
(* The lookup.                                                             *)
(***************************************************************************)
LEMMA DefinersProps ==
  ASSUME NEW b, NEW selector
  PROVE  /\ Declared!Definers(b, selector)
              = {x \in Declared!Ancestors(b) : defined[x][selector] # nil}
         /\ Declared!MostSpecific(b, selector) =
              IF Declared!Definers(b, selector) = {} THEN nil
              ELSE defined[CHOOSE x \in Declared!Definers(b, selector) :
                             Declared!Definers(b, selector) \subseteq Declared!Ancestors(x)][selector]
BY DEF Declared!MostSpecific, Declared!Definers

\* Two behaviors do not inherit from each other.
LEMMA AncestorsAntisymmetric ==
  ASSUME Tree, NEW b \in Realm, NEW x \in Declared!Ancestors(b), b \in Declared!Ancestors(x)
  PROVE  x = b
<1> SUFFICES ASSUME x # b PROVE FALSE
  OBVIOUS
<1> DEFINE u == Declared!Up(b)
           S == Declared!Ancestors(u)
<1>1. b # TopBehavior /\ b \notin S /\ x \in S
  BY AncestorsStep
<1>2. u \in Realm /\ x \in Realm
  BY UpProps, AncestorsProps
<1>3. \A y \in S : Declared!Up(y) \in S
  BY <1>2, AncestorsProps
<1> HIDE DEF S
<1>4. Declared!Ancestors(x) \subseteq S
  BY <1>1, <1>2, <1>3, AncestorsProps
<1> QED BY <1>1, <1>4

\* The most specific method is the behavior's own, or the one of the behavior above.
LEMMA MostSpecificStep ==
  ASSUME Tree, NEW b \in Realm, NEW selector
  PROVE  Declared!MostSpecific(b, selector) =
           IF defined[b][selector] # nil THEN defined[b][selector]
           ELSE IF b = TopBehavior THEN nil
           ELSE Declared!MostSpecific(Declared!Up(b), selector)
<1> DEFINE D(x) == Declared!Definers(x, selector)
           A(x) == Declared!Ancestors(x)
           Nearest(x) == CHOOSE y \in D(x) : D(x) \subseteq A(y)
           M(x) == Declared!MostSpecific(x, selector)
           u == Declared!Up(b)
<1>1. /\ A(b) = {b} \union A(u) /\ b \in A(b) /\ A(b) \subseteq Realm
      /\ b # TopBehavior => b \notin A(u)
      /\ b = TopBehavior => A(b) = {b}
  BY AncestorsStep, AncestorsProps
<1>2. \A x : D(x) = {y \in A(x) : defined[y][selector] # nil}
  BY DefinersProps
<1>3. \A x : M(x) = IF D(x) = {} THEN nil ELSE defined[Nearest(x)][selector]
  BY DefinersProps
<1>4. ASSUME defined[b][selector] # nil PROVE M(b) = defined[b][selector]
  <2>1. b \in D(b) /\ D(b) \subseteq A(b)
    BY <1>1, <1>2, <1>4
  <2>2. ASSUME NEW x \in D(b), D(b) \subseteq A(x) PROVE x = b
    BY <1>2, <2>1, <2>2, AncestorsAntisymmetric
  <2> HIDE DEF D, A, M
  <2>3. Nearest(b) = b
    BY <2>1, <2>2
  <2> QED BY <1>3, <2>1, <2>3
<1>5. ASSUME defined[b][selector] = nil, b = TopBehavior PROVE M(b) = nil
  <2>1. D(b) = {}
    BY <1>1, <1>2, <1>5
  <2> HIDE DEF D, M
  <2> QED BY <1>3, <2>1
<1>6. ASSUME defined[b][selector] = nil, b # TopBehavior PROVE M(b) = M(u)
  <2>1. D(b) = D(u)
    BY <1>1, <1>2, <1>6
  <2>2. Nearest(b) = Nearest(u)
    BY <2>1
  <2> HIDE DEF D, M, u, Nearest
  <2> QED BY <1>3, <2>1, <2>2
<1> QED BY <1>4, <1>5, <1>6

\* What the search along the chain of superclasses should answer.
Found(b, selector) ==
  IF ComesToStrange(b, selector) THEN strange ELSE Declared!MostSpecific(b, selector)

\* It is decided by the behavior itself, or by the one above it.
LEMMA FoundStep ==
  ASSUME Tree, NEW b \in Realm, NEW selector
  PROVE  Found(b, selector) =
           IF IsStrange(b) THEN strange
           ELSE IF defined[b][selector] # nil THEN defined[b][selector]
           ELSE IF b = TopBehavior THEN nil
           ELSE Found(Declared!Up(b), selector)
<1> DEFINE D(x) == Declared!Definers(x, selector)
           A(x) == Declared!Ancestors(x)
           M(x) == Declared!MostSpecific(x, selector)
           u == Declared!Up(b)
<1>1. \A x : ComesToStrange(x, selector) <=>
              \E a \in Realm : IsStrange(a) /\ a \in A(x) /\ D(x) \subseteq A(a)
  BY DEF ComesToStrange, Tree, Realm
<1>2. \A x : D(x) = {y \in A(x) : defined[y][selector] # nil}
  BY DefinersProps
<1>3. /\ A(b) = {b} \union A(u) /\ b \in A(b)
      /\ b = TopBehavior => A(b) = {b}
  BY AncestorsStep, AncestorsProps
<1>4. M(b) = IF defined[b][selector] # nil THEN defined[b][selector]
             ELSE IF b = TopBehavior THEN nil ELSE M(u)
  BY MostSpecificStep
<1>5. \A a \in A(b) : b \in A(a) => a = b
  BY AncestorsAntisymmetric
<1> HIDE DEF D, A, M, u
<1>6. CASE IsStrange(b)
  <2>1. D(b) \subseteq A(b)
    BY <1>2
  <2>2. ComesToStrange(b, selector)
    BY <1>1, <1>3, <1>6, <2>1
  <2> QED BY <1>6, <2>2 DEF Found
<1>7. CASE ~IsStrange(b) /\ defined[b][selector] # nil
  <2>1. b \in D(b)
    BY <1>2, <1>3, <1>7
  <2>2. ~ComesToStrange(b, selector)
    BY <1>1, <1>5, <1>7, <2>1
  <2> QED BY <1>4, <1>7, <2>2 DEF Found, M
<1>8. CASE ~IsStrange(b) /\ defined[b][selector] = nil /\ b = TopBehavior
  <2>1. ~ComesToStrange(b, selector)
    BY <1>1, <1>3, <1>8
  <2> QED BY <1>4, <1>8, <2>1 DEF Found, M
<1>9. CASE ~IsStrange(b) /\ defined[b][selector] = nil /\ b # TopBehavior
  <2>1. D(b) = D(u)
    BY <1>2, <1>3, <1>9
  <2>2. ComesToStrange(b, selector) <=> ComesToStrange(u, selector)
    BY <1>1, <1>3, <1>9, <2>1
  <2> QED BY <1>4, <1>9, <2>2 DEF Found, M, u
<1> QED BY <1>6, <1>7, <1>8, <1>9

\* The search answers what it should, from every behavior.
LEMMA LookupFinds ==
  ASSUME Tree, Realized, NEW selector \in Selectors, NEW b \in Realm
  PROVE  Lookup(selector)[b] = Found(b, selector)
<1> DEFINE M(x) == Found(x, selector)
           Has(x) == Holds(x, selector)
           Is(f) == f = [x \in DOMAIN behaviors \union {nil} |->
                           IF x = nil THEN nil
                           ELSE IF IsStrange(x) THEN strange
                           ELSE IF Has(x) THEN behaviors[x].methodDict[selector]
                           ELSE f[behaviors[x].superclass]]
           g == [x \in Realm \union {nil} |-> IF x = nil THEN nil ELSE M(x)]
<1>1. DOMAIN behaviors = Realm /\ nil \notin Realm
  BY ClassesAssumption DEF Tree, Realm
<1>2. \A x \in Realm :
        /\ behaviors[x].superclass = IF x = TopBehavior THEN nil ELSE Declared!Up(x)
        /\ Has(x) <=> defined[x][selector] # nil
        /\ Has(x) => behaviors[x].methodDict[selector] = defined[x][selector]
  BY DEF Realized, Realm, TopBehavior, Holds
<1>3. \A x \in Realm : Declared!Up(x) \in Realm
  BY UpProps
<1>4. \A x \in Realm : M(x) = IF IsStrange(x) THEN strange
                              ELSE IF defined[x][selector] # nil THEN defined[x][selector]
                              ELSE IF x = TopBehavior THEN nil ELSE M(Declared!Up(x))
  BY FoundStep
<1> HIDE DEF M, Has
<1>5. Is(g)
  <2>1. ASSUME NEW x \in Realm \union {nil}
        PROVE  g[x] = IF x = nil THEN nil
                      ELSE IF IsStrange(x) THEN strange
                      ELSE IF Has(x) THEN behaviors[x].methodDict[selector]
                      ELSE g[behaviors[x].superclass]
    <3>1. CASE x = nil
      BY <3>1
    <3>2. CASE x # nil /\ (IsStrange(x) \/ Has(x))
      BY <1>2, <1>4, <3>2
    <3>3. CASE x # nil /\ ~IsStrange(x) /\ ~Has(x) /\ x = TopBehavior
      BY <1>2, <1>4, <3>3
    <3>4. CASE x # nil /\ ~IsStrange(x) /\ ~Has(x) /\ x # TopBehavior
      <4>1. x \in Realm /\ behaviors[x].superclass = Declared!Up(x)
            /\ Declared!Up(x) \in Realm /\ M(x) = M(Declared!Up(x))
        BY <1>2, <1>3, <1>4, <3>4
      <4> QED BY <1>1, <3>4, <4>1
    <3> QED BY <3>1, <3>2, <3>3, <3>4
  <2> QED BY <1>1, <2>1
<1>6. ASSUME NEW f, Is(f) PROVE f[b] = M(b)
  <2> DEFINE S == {x \in Realm : f[x] # M(x)}
  <2>1. SUFFICES ASSUME S # {} PROVE FALSE
    OBVIOUS
  <2>2. S \in SUBSET Realm
    OBVIOUS
  <2> HIDE DEF S
  <2>3. PICK x \in S : x = TopBehavior \/ Declared!Up(x) \notin S
    BY <2>1, <2>2, UpProps
  <2>4. x \in Realm /\ f[x] # M(x)
    BY <2>3 DEF S
  <2>5. /\ f[nil] = nil
        /\ f[x] = IF IsStrange(x) THEN strange
                  ELSE IF Has(x) THEN behaviors[x].methodDict[selector]
                  ELSE f[behaviors[x].superclass]
    BY <1>1, <1>6, <2>4
  <2> HIDE DEF Is
  <2>6. ~IsStrange(x) /\ ~Has(x) /\ x # TopBehavior
    BY <1>2, <1>4, <2>4, <2>5
  <2>7. f[Declared!Up(x)] = M(Declared!Up(x))
    BY <1>3, <2>3, <2>4, <2>6 DEF S
  <2> QED BY <1>2, <1>4, <2>4, <2>5, <2>6, <2>7
<1>7. Lookup(selector) = CHOOSE f : Is(f)
  BY DEF Lookup, Has
<1> HIDE DEF Is, g
<1>8. Is(Lookup(selector))
  BY <1>5, <1>7
<1> QED BY <1>6, <1>8 DEF M

\* A message finds the most specific method of its receiver's class in the tree of
\* classes that the packages declared, whatever the tree and however many methods:
\* the class table, the metaclasses, the dictionaries that are nil and the chain of
\* superclasses come to the same.  It aborts if and only if a strange dictionary comes
\* before that method, and only a class of a package, registered after MethodDictionary
\* was given another index, has one (slvm_Behavior_lookup).
THEOREM MessagesFind == ASSUME FirstPageHolds PROVE Spec => []MessagesFindDeclared
<1>1. IInv => MessagesFindDeclared
  <2> SUFFICES ASSUME IInv, NEW selector \in Selectors, NEW b \in Realm
               PROVE  /\ \A classIndex \in issued[b] :
                           Lookup(selector)[ClassAt(table, classIndex)] = Found(b, selector)
                      /\ IsStrange(b) => /\ b[1] \in UserNames
                                         /\ behaviors[b].dictIndex \in issued[DictionaryClass]
    BY DEF MessagesFindDeclared, IInv, Tree, Realm, Found, DictionaryClass
  <2>1. \A classIndex \in issued[b] : ClassAt(table, classIndex) = b
    BY ClassAtProps DEF IInv, Indexed, Realm
  <2>2. Lookup(selector)[b] = Found(b, selector)
    BY LookupFinds DEF IInv
  <2>3. ASSUME IsStrange(b)
        PROVE  b[1] \in UserNames /\ behaviors[b].dictIndex \in issued[DictionaryClass]
    <3>1. b[1] \in Names
      BY DEF IInv, Tree, Realm
    <3>2. /\ behaviors[b].methodDict # nil => behaviors[b].dictIndex \in issued[DictionaryClass]
          /\ b[1] \notin KernelNames
      BY <2>3 DEF IInv, Indexed, Realm
    <3> QED BY <2>3, <3>1, <3>2 DEF Names, IsStrange
  <2> QED BY <2>1, <2>2, <2>3
<1> QED BY <1>1, Invariance, PTL

=============================================================================
