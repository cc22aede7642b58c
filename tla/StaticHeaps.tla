----------------------------- MODULE StaticHeaps -----------------------------
(***************************************************************************)
(* The static heaps of src/src/spur/objectmodel.c: the objects that each   *)
(* compiled package brings with it, and how they are linked to those of    *)
(* the runtime and of the other packages.  A package may be registered     *)
(* before the kernel is initialized (src/src/lifecycle.c) or later.        *)
(*                                                                         *)
(* A package's symbols become the interned ones, its global variables the  *)
(* ones of the system dictionary, and its class variables those of their   *)
(* class: walks over its heap set forwarding pointers, and after each walk *)
(* another one applies them.  Every object visited is a step.              *)
(*                                                                         *)
(* The symbol table is the map that SymbolTable implements, and the        *)
(* globals and the class pools the map that IdentityDictionary does.       *)
(***************************************************************************)
EXTENDS Naturals, Sequences, FiniteSets, SequencesExt

CONSTANTS
  Heaps, MayNeedFixingUp, HasPackageRegistration,   \* the heaps, and their flags
  Contents,          \* the objects of each heap, in order
  ClassOf,           \* of each object: "symbol", "global", "classVariable" or "other"
  TextOf,            \* the text of each symbol
  Fields,            \* the pointers of each object, as compiled; of a variable,
                     \* <<key, value>>: a class variable has its class's global as value
  Big,               \* the objects with a size pre-header
  Classes,           \* the classes that a package registers: of each, the object
                     \* that lists its name and its class variables
  Texts, KernelNames,
  compactingHeap,
  nil, null          \* the object nil; no pointer

Objects == UNION {ToSet(Contents[h]) : h \in Heaps}
Are(kind) == {o \in Objects : ClassOf[o] = kind}

\* What the runtime makes: symbols, associations (slvm_Association_makeWithClass
\* makes every one an Association) and classes.
Symbol(text) == <<"symbol", text>>
Association(text) == <<"association", text>>
Class(text) == <<"class", text>>

Symbols == Are("symbol") \union {Symbol(t) : t \in Texts}
Associations == Are("global") \union {Association(t) : t \in Texts}

Text(symbol) == IF symbol \in Are("symbol") THEN TextOf[symbol] ELSE symbol[2]

\* The variables, global or of a class: objects with a key and a value.
Variables == Are("global") \union Are("classVariable")

\* A package that registers classes is fixed up, as it names them by its symbols.
\* Packages lie apart, and apart from what the runtime makes.
ASSUME HeapsAssumption ==
  /\ HasPackageRegistration \subseteq MayNeedFixingUp /\ MayNeedFixingUp \subseteq Heaps
  /\ compactingHeap \notin Heaps
  /\ Contents \in [Heaps -> Seq(Objects)] /\ Classes \in [Heaps -> Seq(Are("other"))]
  /\ \A g, h \in Heaps : g # h => ToSet(Contents[g]) \intersect ToSet(Contents[h]) = {}
  /\ \A h \in Heaps : ToSet(Classes[h]) \subseteq ToSet(Contents[h])
  /\ ClassOf \in [Objects -> {"symbol", "global", "classVariable", "other"}]
  /\ KernelNames \subseteq Texts /\ TextOf \in [Are("symbol") -> Texts]
  /\ Big \subseteq Objects
  /\ \A t \in Texts : {Symbol(t), Association(t), Class(t)} \intersect (Objects \union {nil, null}) = {}
  /\ nil \notin Objects /\ null \notin Objects \union {nil}

\* An object refers to objects of its package only.  The value of a class variable
\* is the global of its class, until the package registers the class.
ASSUME FieldsAssumption ==
  /\ \A h \in Heaps : \A o \in ToSet(Contents[h]) :
       Fields[o] \in Seq(ToSet(Contents[h]) \union {nil})
  /\ \A o \in Are("global") \union Are("classVariable") :
       Len(Fields[o]) = 2 /\ Fields[o][1] \in Are("symbol")
  /\ \A o \in Are("global") : Fields[o][2] = nil
  /\ \A o \in Are("classVariable") : Fields[o][2] \in Are("global")
  /\ \A h \in Heaps : \A list \in ToSet(Classes[h]) :
       /\ Len(Fields[list]) > 0 /\ Fields[list][1] \in Are("symbol")
       /\ \A i \in 2 .. Len(Fields[list]) : Fields[list][i] \in Are("classVariable")

VARIABLES
  kernelInitialized,
  staticHeaps,     \* the list of heaps
  initialized,     \* the heaps with SHF_Initialized
  fields,          \* the pointers in each object and association
  forwarding,      \* the forwarding pointer of each object
  bigFlag,         \* the objects with the bit for the size pre-header set
  symbols,         \* the symbol table, from texts
  globals,         \* kernelRoots.globals, from symbols to associations
  classPool,       \* of each class, the map from texts to associations
  registrations,   \* history: the calls of each package registration
  cursor,          \* the place of slvm_internal_init_staticHeaps in the list, or 0
  heap, passes,    \* the heap in slvm_internal_init_staticHeap, what is left to do
  object,          \* for it, and the place of the walk
  status           \* "running", "aborted", or "undefined": it read nil's memory, or
                   \* took other words for a header

registry == <<kernelInitialized, staticHeaps>>
flags == <<initialized, registrations>>
memory == <<fields, forwarding, bigFlag>>
names == <<symbols, globals, classPool>>
work == <<heap, passes, object>>
vars == <<registry, flags, memory, names, cursor, work, status>>

Idle == cursor = 0 /\ passes = <<>>

\* What slvm_internal_init_staticHeap does to a heap, by its flags.
\* Mutant: globals are fixed before symbols.
GlobalsFirst(h) ==
  IF h \in initialized THEN <<>>
  ELSE <<"globals", "apply", "symbols", "apply", "register", "classVariables", "apply",
         "initialized">>

Passes(h) ==
  IF h \in initialized THEN <<>>
  ELSE (IF h \in MayNeedFixingUp THEN <<"symbols", "apply", "globals", "apply">> ELSE <<>>)
       \o (IF h \in HasPackageRegistration THEN <<"register">> ELSE <<>>)
       \o (IF h \in MayNeedFixingUp THEN <<"classVariables", "apply">> ELSE <<>>)
       \o <<"initialized">>

InitStaticHeap(h) == heap' = h /\ passes' = Passes(h) /\ object' = 1

(***************************************************************************)
(* Registration.                                                           *)
(***************************************************************************)
\* Mutant of RegisterStaticHeap: every heap waits for slvm_dynrun_initialize.
OnlyListed(h) ==
  /\ h \notin ToSet(staticHeaps)
  /\ staticHeaps' = Append(staticHeaps, h)
  /\ UNCHANGED <<kernelInitialized, flags, memory, names, cursor, work, status>>

RegisterStaticHeap(h) ==
  /\ h \notin ToSet(staticHeaps)
  /\ staticHeaps' = Append(staticHeaps, h)
  /\ IF kernelInitialized THEN InitStaticHeap(h) ELSE UNCHANGED work
  /\ UNCHANGED <<kernelInitialized, flags, memory, names, cursor, status>>

UnregisterStaticHeap(h) ==
  /\ \E i \in DOMAIN staticHeaps :
       staticHeaps[i] = h /\ staticHeaps' = RemoveAt(staticHeaps, i)
  /\ UNCHANGED <<kernelInitialized, flags, memory, names, cursor, work, status>>

\* slvm_dynrun_initialize, up to slvm_internal_init_staticHeaps: the compacting
\* heap is listed after the heaps that are registered already, and the compact
\* classes made global.
Initialize ==
  /\ ~kernelInitialized
  /\ kernelInitialized' = TRUE
  /\ staticHeaps' = Append(staticHeaps, compactingHeap)
  /\ initialized' = {compactingHeap}
  /\ symbols' = [t \in Texts |-> IF t \in KernelNames THEN Symbol(t) ELSE null]
  /\ globals' = [s \in Symbols |->
                   IF \E t \in KernelNames : s = Symbol(t) THEN Association(s[2]) ELSE null]
  /\ fields' = [o \in DOMAIN fields |->
                  IF \E t \in KernelNames : o = Association(t)
                  THEN <<Symbol(o[2]), Class(o[2])>> ELSE fields[o]]
  /\ cursor' = 1
  /\ UNCHANGED <<forwarding, bigFlag, classPool, registrations, work, status>>

\* The loop of slvm_internal_init_staticHeaps.
NextHeap ==
  /\ cursor # 0 /\ passes = <<>>
  /\ IF cursor <= Len(staticHeaps)
     THEN cursor' = cursor + 1 /\ InitStaticHeap(staticHeaps[cursor])
     ELSE cursor' = 0 /\ UNCHANGED work
  /\ UNCHANGED <<registry, flags, memory, names, status>>

(***************************************************************************)
(* The walks (slvm_spur_heap_iterate).                                     *)
(***************************************************************************)
Visited == Contents[heap][object]

\* The walk is at an object and reads its header.  An object whose flag has
\* gone is not read as what it is: see Astray.
Visiting(pass) ==
  /\ passes # <<>> /\ Head(passes) = pass
  /\ object <= Len(Contents[heap])
  /\ Visited \in Big => Visited \in bigFlag
  /\ object' = object + 1
  /\ UNCHANGED <<registry, flags, cursor, heap, passes>>

\* The end of the first three walks' bodies: clearing the tag bits of the
\* forwarding pointer clears the flag that is one of them.  An object has one
\* class, so no pointer is there yet when the new one is or'ed.
ForwardTo(target) ==
  /\ bigFlag' = bigFlag \ {Visited}
  /\ forwarding' = [forwarding EXCEPT ![Visited] = IF target # Visited THEN target ELSE @]

\* slvm_internal_fixStaticHeap_symbols.
\* Mutant: a symbol is interned, and what the table answers dropped.
KeepSymbol ==
  /\ Visiting("symbols")
  /\ ForwardTo(Visited)
  /\ IF ClassOf[Visited] = "symbol" /\ symbols[TextOf[Visited]] = null
     THEN symbols' = [symbols EXCEPT ![TextOf[Visited]] = Visited]
     ELSE UNCHANGED symbols
  /\ UNCHANGED <<fields, globals, classPool, status>>

ForwardSymbol ==
  /\ Visiting("symbols")
  /\ IF ClassOf[Visited] = "symbol"
     THEN LET t == TextOf[Visited] IN
          /\ symbols' = [symbols EXCEPT ![t] = IF @ = null THEN Visited ELSE @]
          /\ ForwardTo(symbols'[t])
     ELSE ForwardTo(Visited) /\ UNCHANGED symbols
  /\ UNCHANGED <<fields, globals, classPool, status>>

\* slvm_internal_fixStaticHeap_globalVariables, slvm_globals_addIfNotExistent.
\* Mutant: the value of the global is answered.
ForwardToValue ==
  /\ Visiting("globals")
  /\ IF ClassOf[Visited] = "global"
     THEN LET key == fields[Visited][1] IN
          /\ globals' = [globals EXCEPT ![key] = IF @ = null THEN Visited ELSE @]
          /\ ForwardTo(fields[globals'[key]][2])
     ELSE ForwardTo(Visited) /\ UNCHANGED globals
  /\ UNCHANGED <<fields, symbols, classPool, status>>

ForwardGlobal ==
  /\ Visiting("globals")
  /\ IF ClassOf[Visited] = "global"
     THEN LET key == fields[Visited][1] IN
          /\ globals' = [globals EXCEPT ![key] = IF @ = null THEN Visited ELSE @]
          /\ ForwardTo(globals'[key])
     ELSE ForwardTo(Visited) /\ UNCHANGED globals
  /\ UNCHANGED <<fields, symbols, classPool, status>>

\* slvm_internal_fixStaticHeap_classVariables, slvm_globals_fixClassVariable: a
\* variable whose value is not a global of the GlobalVariable class stays, those of
\* the compact classes included, as their globals are plain associations.
OfGlobalVariable(o) == ClassOf[o] = "classVariable" /\ fields[o][2] \in Are("global")

ForwardClassVariable ==
  /\ Visiting("classVariables")
  /\ IF OfGlobalVariable(Visited)
     THEN LET class == fields[fields[Visited][2]][2] IN
          IF class = nil
          THEN status' \in {"aborted", "undefined"} /\ UNCHANGED <<forwarding, bigFlag>>
          ELSE /\ ForwardTo(classPool[class][Text(fields[Visited][1])])
               /\ UNCHANGED status
     ELSE ForwardTo(Visited) /\ UNCHANGED status
  /\ UNCHANGED <<fields, names>>

\* slvm_spur_heap_applyNotNullForwarding.
ApplyForwarding ==
  /\ Visiting("apply")
  /\ fields' = [fields EXCEPT ![Visited] =
       [i \in DOMAIN @ |->
          LET element == @[i] IN
          IF element \in ToSet(Contents[heap]) /\ forwarding[element] # null
          THEN forwarding[element] ELSE element]]
  /\ UNCHANGED <<forwarding, bigFlag, names, status>>

\* A big object without its flag: the padding word is read as its header.  An
\* assert of the walk fails (objectmodel.c:59, 72), or the walk goes astray.
Astray ==
  /\ passes # <<>> /\ Head(passes) \in {"symbols", "globals", "classVariables", "apply"}
  /\ object <= Len(Contents[heap])
  /\ Visited \in Big \ bigFlag
  /\ status' \in {"aborted", "undefined"}
  /\ UNCHANGED <<registry, flags, memory, names, cursor, work>>

(***************************************************************************)
(* The package registration, a function of the package.                    *)
(***************************************************************************)
\* slvm_globals_atPut.
GlobalsAtPut(key, value, made) ==
  IF globals[key] = null
  THEN /\ globals' = [globals EXCEPT ![key] = Association(Text(key))]
       /\ fields' = [made EXCEPT ![Association(Text(key))] = <<key, value>>]
  ELSE fields' = [made EXCEPT ![globals[key]][2] = value] /\ UNCHANGED globals

\* slvm_dynrun_classSetMetadata: the class pool.
\* Mutant: the new pool is left empty.
ClassVariables(list) == ToSet(Tail(fields[list]))

EmptyPool(list) == [t \in Texts |-> nil]

PoolOf(list) ==
  [t \in Texts |->
     LET named == {v \in ClassVariables(list) : Text(fields[v][1]) = t}
     IN  IF named = {} THEN nil ELSE CHOOSE v \in named : TRUE]

\* slvm_dynrun_subclassWithSomeNames, for each class that the package lists.
RegisterClass ==
  /\ passes # <<>> /\ Head(passes) = "register"
  /\ object <= Len(Classes[heap])
  /\ object' = object + 1
  /\ LET list == Classes[heap][object]
         name == fields[list][1]
         made == [o \in DOMAIN fields |->
                    IF o \in ClassVariables(list) THEN <<fields[o][1], nil>> ELSE fields[o]]
     IN
     IF globals[name] # null /\ fields[globals[name]][2] # nil
     THEN UNCHANGED <<fields, names>>
     ELSE /\ GlobalsAtPut(name, Class(Text(name)), made)
          /\ classPool' = [classPool EXCEPT ![Class(Text(name))] = PoolOf(list)]
          /\ UNCHANGED symbols
  /\ UNCHANGED <<registry, flags, forwarding, bigFlag, cursor, heap, passes, status>>

EndPass ==
  /\ passes # <<>>
  /\ CASE Head(passes) = "initialized" -> TRUE
       [] Head(passes) = "register" -> object > Len(Classes[heap])
       [] OTHER -> object > Len(Contents[heap])
  /\ passes' = Tail(passes) /\ object' = 1
  /\ initialized' = IF Head(passes) = "initialized" THEN initialized \union {heap}
                    ELSE initialized
  /\ registrations' = IF Head(passes) = "register"
                      THEN [registrations EXCEPT ![heap] = @ + 1] ELSE registrations
  /\ UNCHANGED <<registry, memory, names, cursor, heap, status>>

-----------------------------------------------------------------------------
Init ==
  /\ kernelInitialized = FALSE
  /\ staticHeaps = <<>>
  /\ initialized = {}
  /\ fields = [o \in Objects \union {Association(t) : t \in Texts} |->
                 IF o \in Objects THEN Fields[o] ELSE <<nil, nil>>]
  /\ forwarding = [o \in Objects |-> null]
  /\ bigFlag = Big
  /\ symbols = [t \in Texts |-> null]
  /\ globals = [s \in Symbols |-> null]
  /\ classPool = [c \in {Class(t) : t \in Texts} |-> [t \in Texts |-> nil]]
  /\ registrations = [h \in Heaps |-> 0]
  /\ cursor = 0 /\ heap = compactingHeap /\ passes = <<>> /\ object = 1
  /\ status = "running"

\* The program calls the runtime, which is not entered again until it returns.
Call ==
  /\ Idle
  /\ \/ \E h \in Heaps : RegisterStaticHeap(h) \/ UnregisterStaticHeap(h)
     \/ Initialize

Walk ==
  \/ ForwardSymbol \/ ForwardGlobal \/ ForwardClassVariable \/ ApplyForwarding
  \/ Astray

\* The program has stopped, by abort or on memory that is not what it took it for.
Stopped == status # "running" /\ UNCHANGED vars

Next ==
  \/ /\ status = "running"
     /\ Call \/ NextHeap \/ Walk \/ RegisterClass \/ EndPass
  \/ Stopped

Spec == Init /\ [][Next]_vars

-----------------------------------------------------------------------------
(***************************************************************************)
(* Properties.                                                             *)
(***************************************************************************)
\* A symbol is only forwarded to a symbol, a global variable to an association
\* and a class variable to one of a class pool, so no field changes its kind.
TypeOK ==
  /\ kernelInitialized \in BOOLEAN
  /\ IsInjective(staticHeaps) /\ ToSet(staticHeaps) \subseteq Heaps \union {compactingHeap}
  /\ initialized \subseteq Heaps \union {compactingHeap} /\ bigFlag \subseteq Big
  /\ \A o \in Objects : forwarding[o] \in {null} \union
       CASE ClassOf[o] = "symbol" -> Symbols
         [] ClassOf[o] = "global" -> Associations
         [] ClassOf[o] = "classVariable" -> Are("classVariable")
         [] OTHER -> {}
  /\ symbols \in [Texts -> Symbols \union {null}]
  /\ globals \in [Symbols -> Associations \union {null}]
  /\ cursor \in 0 .. Len(staticHeaps) + 1 /\ object \in Nat \ {0}
  /\ status \in {"running", "aborted", "undefined"}

\* The references of the packages that are linked, with what the compiler put
\* there: every field but the values of variables, which are state.
Linked == initialized \intersect MayNeedFixingUp
References(kind) ==
  {r \in UNION {{<<o, i>> : i \in DOMAIN Fields[o]} : o \in UNION {ToSet(Contents[h]) : h \in Linked}} :
     /\ ClassOf[r[1]] \in {"global", "classVariable"} => r[2] = 1
     /\ Fields[r[1]][r[2]] \in Are(kind)}
Compiled(r) == Fields[r[1]][r[2]]
Refers(r) == fields[r[1]][r[2]]
KeyText(variable) == TextOf[Fields[variable][1]]

\* All packages and the runtime use one symbol for a text, in whatever order they
\* are registered: two equal symbols are identical, as sends and dictionaries by
\* identity need (slvm_internal_fixStaticHeap_symbols).
SymbolsShared ==
  \A r \in References("symbol") : Refers(r) = symbols[TextOf[Compiled(r)]]

\* All packages and the runtime use one association for the global of a name,
\* the one that the system dictionary finds by its symbol, so what one package
\* assigns the others read (slvm_internal_fixStaticHeap_globalVariables).
GlobalsShared ==
  \A r \in References("global") :
    LET name == KeyText(Compiled(r)) IN
    /\ Refers(r) = globals[symbols[name]]
    /\ fields[Refers(r)][1] = symbols[name]

\* A package that uses a class variable of a class that a package defines, its
\* own or another, has the association of the class's pool, and never nil
\* (slvm_internal_fixStaticHeapPass2, slvm_globals_fixClassVariable).
ClassVariablesShared ==
  \A r \in References("classVariable") :
    LET class == KeyText(Fields[Compiled(r)][2]) IN
    class \notin KernelNames =>
      /\ Refers(r) # nil
      /\ Refers(r) = classPool[Class(class)][KeyText(Compiled(r))]

\* Between calls every heap in the list has been initialized, once the kernel
\* has, and its package registered exactly once: whether it was listed before
\* or after, and however often it was taken off the list and put back.
HeapsInitialized ==
  Idle /\ kernelInitialized /\ status = "running" =>
    /\ ToSet(staticHeaps) \subseteq initialized
    /\ \A h \in Heaps :
         registrations[h] = IF h \in initialized \intersect HasPackageRegistration THEN 1 ELSE 0

\* "We are using the least significant bit to signal for size preheader."
\* (objectmodel.c:43): a walk can tell a big object from a small one for ever.
BigObjectsTold == bigFlag = Big
=============================================================================
