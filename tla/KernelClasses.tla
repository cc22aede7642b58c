---------------------------- MODULE KernelClasses ----------------------------
(***************************************************************************)
(* The classes of src/src/classes/kernel.c and the class table of          *)
(* src/src/spur/objectmodel.c that every send goes through: an object      *)
(* holds the index of its class, and the table, in pages, the class of     *)
(* each index.                                                             *)
(*                                                                         *)
(* A class and its metaclass are the behaviors <<name, "instance">> and    *)
(* <<name, "class">>: an object that understands the methods of that side. *)
(* A method dictionary is the map that MethodDictionary implements         *)
(* (SelectorMap), and the globals the map that IdentityDictionary does.    *)
(***************************************************************************)
EXTENDS Naturals, Sequences, FiniteSets

CONSTANTS
  KernelNames,     \* the compact classes (compactIndices.inc)
  SuperName,       \* the name of the superclass of each, nil of ProtoObject
  CompactAt,       \* the one that has an index, or an alias of it, among the first
  KnownIndex,      \* the class index of each (SLVM_KCI_x)
  MetaOffset,      \* from it to that of its metaclass: 256
  ClassName,       \* Class, the superclass of ProtoObject's metaclass
  MetaclassName,   \* Metaclass, the class of every metaclass
  MethodDictionaryName,
  UserNames,       \* the classes of the packages
  Selectors, Methods,
  BaseSize,        \* slvm_classTableBaseSize: 512
  PageElements,    \* the elements of a page: 1024
  PageSpan,        \* the indices that select a page: 4096 (classIndex >> 12)
  MaxRegistered,   \* bound: behaviors registered
  MaxAgain,        \* bound: of those, behaviors that had been registered before
  MaxMethods,      \* bound: methods defined
  strange,         \* what a lookup answers that aborts on a dictionary
  nil

Names     == KernelNames \union UserNames
Sides     == {"instance", "class"}
Root      == CHOOSE name \in KernelNames : SuperName[name] = nil
Elements  == 0 .. PageElements - 1

\* The compact classes have an index each and are a tree.
ASSUME ClassesAssumption ==
  /\ nil \notin Names /\ nil \notin Names \X Sides /\ {nil, strange} \intersect Methods = {}
  /\ nil # strange
  /\ nil \notin [Selectors -> Methods \union {nil}]
  /\ IsFiniteSet(Names)
  /\ SuperName \in [KernelNames -> KernelNames \union {nil}]
  /\ \A j, k \in KernelNames : SuperName[j] = nil /\ SuperName[k] = nil => j = k
  /\ \A S \in SUBSET KernelNames : S # {} => \E k \in S : SuperName[k] \notin S
  /\ {ClassName, MetaclassName, MethodDictionaryName} \subseteq KernelNames
  /\ KernelNames \intersect UserNames = {}
  /\ {MetaOffset, BaseSize, MaxRegistered, MaxAgain, MaxMethods} \subseteq Nat
  /\ DOMAIN CompactAt \subseteq 1 .. MetaOffset
  /\ CompactAt \in [DOMAIN CompactAt -> KernelNames]
  /\ KnownIndex \in [KernelNames -> DOMAIN CompactAt]
  /\ \A k \in KernelNames : CompactAt[KnownIndex[k]] = k
  /\ 2 * MetaOffset < BaseSize /\ BaseSize <= PageElements /\ PageElements <= PageSpan
  /\ {PageElements, PageSpan} \subseteq Nat

VARIABLES
  table,       \* slvm_classTable: the pages
  tableSize,   \* slvm_classTableSize
  behaviors,   \* the behaviors that exist, with what their objects hold
  globals,     \* kernelRoots.globals, from names
  issued,      \* history: the class indices that each behavior has been given, any
               \* of which an instance of it, made then, may hold as its own
  status,      \* "running", "aborted", or "undefined": it wrote to nil's memory
  parent,      \* history: the tree of classes as the packages declared it, by
  defined      \* name (ClassHierarchy)

declared == <<parent, defined>>
vars == <<table, tableSize, behaviors, globals, issued, status, parent, defined>>

Declared == INSTANCE ClassHierarchy

NoMethods == [selector \in Selectors |-> nil]

\* A behavior: its class index and identity hash, in the header, and its fields.
\* A method dictionary is an object too, with a class index of its own.
Behavior(classIndex, identityHash, superclass, methodDict, dictIndex) ==
  [classIndex |-> classIndex, identityHash |-> identityHash, superclass |-> superclass,
   methodDict |-> methodDict, dictIndex |-> dictIndex]

(***************************************************************************)
(* The class table.                                                        *)
(***************************************************************************)
EmptyPage == [element \in Elements |-> nil]

\* slvm_getClassFromOop, of an object with that class index.
ClassAt(pages, classIndex) ==
  pages[(classIndex \div PageSpan) + 1][classIndex % PageElements]

\* The first page, with the compact classes and their aliases (slvm_spur_initialize).
FirstPage ==
  [element \in Elements |->
     IF element \in DOMAIN CompactAt THEN <<CompactAt[element], "instance">>
     ELSE IF element \in {index + MetaOffset : index \in DOMAIN CompactAt}
     THEN <<CompactAt[element - MetaOffset], "class">>
     ELSE nil]

\* The index that slvm_objectmodel_registerBehavior gives next.
\* Mutants: always the first one; one is left out.
AlwaysBase(registered) == BaseSize
OneTooFar(registered) == BaseSize + registered + 1

NextIndex(registered) == BaseSize + registered

\* The pages once it has entered a behavior at an index, in a new page if needed.
Entered(pages, classIndex, behavior) ==
  LET page  == classIndex \div PageSpan
      grown == IF page >= Len(pages) THEN Append(pages, EmptyPage) ELSE pages
  IN  [grown EXCEPT ![page + 1][classIndex % PageElements] = behavior]

(***************************************************************************)
(* The bounds.                                                             *)
(***************************************************************************)
Again == (tableSize + 2 * Cardinality(KernelNames)) - Cardinality(DOMAIN behaviors)

Defined == {d \in (DOMAIN behaviors) \X Selectors :
              LET methods == behaviors[d[1]].methodDict
              IN  methods # nil /\ methods[d[2]] # nil}

(***************************************************************************)
(* Classes.                                                                *)
(***************************************************************************)
\* The metaclass that a new one inherits from.
\* Mutant: the class of the superclass's metaclass.
MetaclassOfMetaclass(super) ==
  LET metaclass == ClassAt(table, behaviors[super].classIndex)
  IN  ClassAt(table, behaviors[metaclass].classIndex)

SuperMetaclass(super) == ClassAt(table, behaviors[super].classIndex)

\* The class index of an object that the runtime makes of a compact class (SLVM_KNEW):
\* the identity hash that the class has then.
NewIndex(name) == behaviors[<<name, "instance">>].identityHash

\* slvm_dynrun_subclassWithSomeNames: the metaclass is created and registered
\* first, as the class needs its index, and the class is then made global.
SubclassWithSomeNames(superName, name) ==
  LET super      == globals[superName]
      metaclass  == <<name, "class">>
      class      == <<name, "instance">>
      metaIndex  == NextIndex(tableSize)
      classIndex == NextIndex(tableSize + 1)
      dictIndex  == NewIndex(MethodDictionaryName)
      created    == [b \in {metaclass, class} |->
                       IF b = metaclass
                       THEN Behavior(NewIndex(MetaclassName), metaIndex,
                                     SuperMetaclass(super), NoMethods, dictIndex)
                       ELSE Behavior(metaIndex, classIndex, super, NoMethods, dictIndex)]
  IN
  /\ globals[name] = nil
  /\ super # nil
  /\ tableSize + 2 <= MaxRegistered
  /\ table' = Entered(Entered(table, metaIndex, metaclass), classIndex, class)
  /\ tableSize' = tableSize + 2
  /\ behaviors' = [b \in DOMAIN behaviors \union DOMAIN created |->
                     IF b \in DOMAIN created THEN created[b] ELSE behaviors[b]]
  /\ globals' = [globals EXCEPT ![name] = class]
  /\ issued' = [b \in DOMAIN behaviors' |->
                  IF b \in DOMAIN created THEN {created[b].identityHash} ELSE issued[b]]
  /\ Declared!AddClass(name, superName)
  /\ UNCHANGED status

\* A class that exists is answered as it is, whatever was asked for; a package
\* whose superclass is unknown cannot be registered.
SubclassExists(name) == globals[name] # nil /\ UNCHANGED vars

SuperclassMissing(superName, name) ==
  /\ globals[name] = nil
  /\ globals[superName] = nil
  /\ status' = "aborted"
  /\ UNCHANGED <<table, tableSize, behaviors, globals, issued, declared>>

\* slvm_Behavior_primitive_registerAsBehavior.
RegisterAsBehavior(behavior) ==
  /\ tableSize < MaxRegistered /\ Again < MaxAgain
  /\ table' = Entered(table, NextIndex(tableSize), behavior)
  /\ tableSize' = tableSize + 1
  /\ behaviors' = [behaviors EXCEPT ![behavior].identityHash = NextIndex(tableSize)]
  /\ issued' = [issued EXCEPT ![behavior] = @ \union {NextIndex(tableSize)}]
  /\ UNCHANGED <<globals, status, declared>>

\* The behavior slvm_dynrun_registerMethodWithNames adds a method to.
MethodHolder(class, side) ==
  IF side = "class" THEN ClassAt(table, behaviors[class].classIndex) ELSE class

\* The assert of slvm_dynrun_registerMethodWithNames (kernel.c:289), of either side.
HasKnownMetaclass(class) ==
  behaviors[MethodHolder(class, "class")].classIndex = KnownIndex[MetaclassName]

\* A method dictionary that is nil, as those of the compact metaclasses are until
\* the end, fails the assert of slvm_MethodDictionary_atPut (collections.c:702);
\* built without asserts, it is taken for one: slvm_nil has no fields.  Nothing
\* else is asked of the dictionary here.
AddMethod(method, selector, className, side) ==
  LET holder == MethodHolder(globals[className], side)
  IN  IF behaviors[holder].methodDict = nil
      THEN status' \in {"aborted", "undefined"} /\ UNCHANGED <<behaviors, declared>>
      ELSE /\ Declared!AddMethod(<<className, side>>, selector, method)
           /\ behaviors' = [behaviors EXCEPT ![holder].methodDict[selector] = method]
           /\ UNCHANGED status

\* slvm_dynrun_registerMethodWithNames.  Its assert stops a program that is built
\* with asserts.
RegisterMethodWithNames(method, selector, className, side) ==
  LET class == globals[className]
  IN
  /\ class # nil
  /\ Cardinality(Defined \union {<<MethodHolder(class, side), selector>>}) <= MaxMethods
  /\ \/ AddMethod(method, selector, className, side)
     \/ ~HasKnownMetaclass(class) /\ status' = "aborted" /\ UNCHANGED <<behaviors, declared>>
  /\ UNCHANGED <<table, tableSize, globals, issued>>

\* The method of a class that does not exist is refused (it answers false).
ClassMissing(className) == globals[className] = nil /\ UNCHANGED vars

(***************************************************************************)
(* Sends.                                                                  *)
(***************************************************************************)
\* A method dictionary of another class index than SLVM_KCI_MethodDictionary.
IsStrange(b) ==
  behaviors[b].methodDict # nil /\ behaviors[b].dictIndex # KnownIndex[MethodDictionaryName]

Holds(b, selector) == behaviors[b].methodDict # nil /\ behaviors[b].methodDict[selector] # nil

\* slvm_Behavior_lookup, for every behavior.  It aborts on a strange dictionary.
Lookup(selector) ==
  LET found[b \in DOMAIN behaviors \union {nil}] ==
        IF b = nil THEN nil
        ELSE IF IsStrange(b) THEN strange
        ELSE IF Holds(b, selector) THEN behaviors[b].methodDict[selector]
        ELSE found[behaviors[b].superclass]
  IN  found

\* slvm_dynrun_send_dispatch, to an object that holds a class index, and
\* slvm_dynrun_supersend_dispatch, with the behavior that the sender names.  The
\* method found is activated (see ExecutionStack); without one they abort.
Activate(method) ==
  /\ status' = IF method \in {nil, strange} THEN "aborted" ELSE status
  /\ UNCHANGED <<table, tableSize, behaviors, globals, issued, declared>>

SendDispatch(classIndex, selector) == Activate(Lookup(selector)[ClassAt(table, classIndex)])

SupersendDispatch(behavior, selector) == Activate(Lookup(selector)[behavior])

-----------------------------------------------------------------------------
\* The compact classes as the macros of kernel.h and slvm_internal_init_classes
\* leave them: their metaclasses get no method dictionary.
KernelBehavior(name, side) ==
  LET super == SuperName[name] IN
  IF side = "instance"
  THEN Behavior(KnownIndex[name] + MetaOffset, KnownIndex[name],
                IF super = nil THEN nil ELSE <<super, "instance">>,
                NoMethods, KnownIndex[MethodDictionaryName])
  ELSE Behavior(KnownIndex[MetaclassName], KnownIndex[name] + MetaOffset,
                IF super = nil THEN <<ClassName, "instance">> ELSE <<super, "class">>,
                nil, nil)

Init ==
  /\ table = <<FirstPage>>
  /\ tableSize = 0
  /\ behaviors = [b \in KernelNames \X Sides |-> KernelBehavior(b[1], b[2])]
  /\ globals = [name \in Names |-> IF name \in KernelNames THEN <<name, "instance">> ELSE nil]
  /\ issued = [b \in DOMAIN behaviors |-> {index \in Elements : FirstPage[index] = b}]
  /\ status = "running"
  /\ Declared!Start(SuperName)

Register ==
  \/ \E superName, name \in Names :
       \/ SubclassWithSomeNames(superName, name)
       \/ SuperclassMissing(superName, name)
  \/ \E behavior \in DOMAIN behaviors : RegisterAsBehavior(behavior)
  \/ \E method \in Methods, selector \in Selectors, className \in Names, side \in Sides :
       RegisterMethodWithNames(method, selector, className, side)
  \/ \E name \in Names : SubclassExists(name) \/ ClassMissing(name)

\* The receivers hold every class index that has been issued: a class holds that
\* of its metaclass, a metaclass one of Metaclass, a small integer an alias.
Send ==
  \E selector \in Selectors, b \in DOMAIN behaviors :
    \/ SupersendDispatch(b, selector)
    \/ \E classIndex \in issued[b] : SendDispatch(classIndex, selector)

\* The program has stopped, by abort or on nil's memory.
Stopped == status # "running" /\ UNCHANGED vars

Next ==
  \/ /\ status = "running"
     /\ \/ Register
        \/ Send
  \/ Stopped

Spec == Init /\ [][Next]_vars

-----------------------------------------------------------------------------
(***************************************************************************)
(* Properties.                                                             *)
(***************************************************************************)
\* Every behavior has the fields of one, the table holds behaviors that exist,
\* and so do the globals.
TypeOK ==
  /\ tableSize \in 0 .. MaxRegistered
  /\ KernelNames \X Sides \subseteq DOMAIN behaviors /\ DOMAIN behaviors \subseteq Names \X Sides
  /\ \A b \in DOMAIN behaviors :
       /\ behaviors[b].identityHash \in 1 .. BaseSize + MaxRegistered - 1
       /\ behaviors[b].superclass \in DOMAIN behaviors \union {nil}
       /\ behaviors[b].methodDict \in [Selectors -> Methods \union {nil}] \union {nil}
       /\ behaviors[b].dictIndex \in 1 .. BaseSize + MaxRegistered - 1 \union {nil}
  /\ \A page \in DOMAIN table : table[page] \in [Elements -> DOMAIN behaviors \union {nil}]
  /\ globals \in [Names -> DOMAIN behaviors \union {nil}]
  /\ status \in {"running", "aborted", "undefined"}

\* The class index that an object holds leads to its class, for as long as the
\* object lives, however many behaviors have been registered since, and again
\* (slvm_getClassFromOop; the assert of kernel.c:245).  That of a metaclass is one
\* that Metaclass has been given, which need not be the one that the assert of
\* kernel.c:289 expects.
ClassIndexResolves ==
  /\ \A b \in DOMAIN behaviors :
       /\ behaviors[b].identityHash \in issued[b]
       /\ \A classIndex \in issued[b] : ClassAt(table, classIndex) = b
       /\ LET class == IF b[2] = "instance" THEN <<b[1], "class">>
                       ELSE <<MetaclassName, "instance">>
          IN  /\ behaviors[b].classIndex \in issued[class]
              /\ ClassAt(table, behaviors[b].classIndex) = class

\* "The first page is special.  It contains only "known" class indices."
\* (objectmodel.c:89): registering a behavior never changes the class of a
\* compact class's index, which every object of it holds.
KnownClassesKept ==
  \A index \in DOMAIN CompactAt :
    /\ ClassAt(table, index) = <<CompactAt[index], "instance">>
    /\ ClassAt(table, index + MetaOffset) = <<CompactAt[index], "class">>

\* The search for a method comes to a strange dictionary before it comes to the
\* most specific one: none of the methods is declared below it.
ComesToStrange(b, selector) ==
  \E a \in DOMAIN behaviors :
    /\ IsStrange(a) /\ a \in Declared!Ancestors(b)
    /\ Declared!Definers(b, selector) \subseteq Declared!Ancestors(a)

\* A message finds the most specific method of its receiver's class in the tree
\* of classes as the packages declared it, on the class side as on the instance
\* side: the class table, the metaclasses, the dictionaries that are nil and the
\* chain of superclasses come to the same (slvm_dynrun_subclassWithSomeNames,
\* slvm_dynrun_registerMethodWithNames, slvm_Behavior_lookup).  It aborts instead
\* if there is a strange dictionary on the way, which takes a class that was
\* registered after MethodDictionary was given another index (kernel.c:72).
MessagesFindDeclared ==
  \A selector \in Selectors, b \in DOMAIN behaviors :
    /\ \A classIndex \in issued[b] :
         Lookup(selector)[ClassAt(table, classIndex)]
           = IF ComesToStrange(b, selector) THEN strange
             ELSE Declared!MostSpecific(b, selector)
    /\ IsStrange(b) =>
         /\ b[1] \in UserNames
         /\ behaviors[b].dictIndex \in issued[<<MethodDictionaryName, "instance">>]
=============================================================================
