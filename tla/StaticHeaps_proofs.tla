------------------------- MODULE StaticHeaps_proofs -------------------------
(***************************************************************************)
(* Proofs about static heaps, for any packages, in two rounds.  IInv says  *)
(* what the walks have done so far to the symbols and the globals of each  *)
(* heap; three properties follow from it alone.  SharedInv adds the class  *)
(* variables and the pools of the classes; it is an invariant when the     *)
(* packages that define one class agree on its variables (PackagesAgree).  *)
(***************************************************************************)
EXTENDS StaticHeaps, SequenceTheorems, TLAPS

\* The stages of slvm_internal_init_staticHeap: what is left of its passes at each.
Left(h, n) ==
  CASE n = 9 -> <<>>
    [] n = 8 -> <<"initialized">>
    [] n = 7 -> <<"apply", "initialized">>
    [] n = 6 -> <<"classVariables", "apply", "initialized">>
    [] n = 5 -> <<"register", "classVariables", "apply", "initialized">>
    [] OTHER -> LET rest == IF h \in HasPackageRegistration
                       THEN <<"register", "classVariables", "apply", "initialized">>
                       ELSE <<"classVariables", "apply", "initialized">>
                IN  CASE n = 4 -> <<"apply">> \o rest
                      [] n = 3 -> <<"globals", "apply">> \o rest
                      [] n = 2 -> <<"apply", "globals", "apply">> \o rest
                      [] n = 1 -> <<"symbols", "apply", "globals", "apply">> \o rest

Stages(h) ==
  {n \in 1 .. 9 : /\ n \in {1, 2, 3, 4, 6, 7} => h \in MayNeedFixingUp
                  /\ n = 5 => h \in HasPackageRegistration}

PassOf(n) == CASE n = 1 -> "symbols" [] n = 3 -> "globals" [] n = 5 -> "register"
               [] n = 6 -> "classVariables" [] n = 8 -> "initialized" [] OTHER -> "apply"

After(h, n) == IF n = 4 /\ h \notin HasPackageRegistration THEN 6 ELSE n + 1

\* The packages that register classes are fixed up.
LEMMA Registering ==
  HasPackageRegistration \subseteq MayNeedFixingUp /\ MayNeedFixingUp \subseteq Heaps
BY HeapsAssumption

\* What is left at a stage begins with its pass; the rest is what is left at the next.
LEMMA LeftProps ==
  ASSUME NEW h, NEW n \in Stages(h), n # 9
  PROVE  /\ Left(h, n) # <<>> /\ Head(Left(h, n)) = PassOf(n)
         /\ Tail(Left(h, n)) = Left(h, After(h, n)) /\ After(h, n) \in Stages(h)
<1>1. CASE n = 1 BY <1>1 DEF Left, PassOf, After, Stages
<1>2. CASE n = 2 BY <1>2 DEF Left, PassOf, After, Stages
<1>3. CASE n = 3 BY <1>3 DEF Left, PassOf, After, Stages
<1>4. CASE n = 4
  <2> DEFINE rest == Left(h, After(h, n))
             S == {"register", "classVariables", "apply", "initialized"}
  <2>1. After(h, n) \in Stages(h)
    BY <1>4 DEF After, Stages
  <2>2. Left(h, n) = <<"apply">> \o rest
    BY <1>4 DEF Left, After
  <2>3. rest \in Seq(S)
    <3>1. /\ <<"register", "classVariables", "apply", "initialized">> \in Seq(S)
          /\ <<"classVariables", "apply", "initialized">> \in Seq(S)
      OBVIOUS
    <3>2. \/ rest = <<"register", "classVariables", "apply", "initialized">>
          \/ rest = <<"classVariables", "apply", "initialized">>
      BY <1>4 DEF Left, After
    <3> HIDE DEF rest
    <3> QED BY <3>1, <3>2
  <2> HIDE DEF rest
  <2>4. Head(<<"apply">> \o rest) = "apply" /\ Tail(<<"apply">> \o rest) = rest
        /\ <<"apply">> \o rest # <<>>
    BY <2>3
  <2> QED BY <1>4, <2>1, <2>2, <2>4 DEF PassOf, rest
<1>5. CASE n = 5 BY <1>5, Registering DEF Left, PassOf, After, Stages
<1>6. CASE n = 6 BY <1>6 DEF Left, PassOf, After, Stages
<1>7. CASE n = 7 BY <1>7 DEF Left, PassOf, After, Stages
<1>8. CASE n = 8 BY <1>8 DEF Left, PassOf, After, Stages
<1> QED BY <1>1, <1>2, <1>3, <1>4, <1>5, <1>6, <1>7, <1>8 DEF Stages

\* A heap begins at the first stage, or with its flag alone.
LEMMA PassesProps ==
  ASSUME NEW h \in Heaps, h \notin initialized
  PROVE  \/ Passes(h) = Left(h, 1) /\ 1 \in Stages(h)
         \/ Passes(h) = Left(h, 8) /\ 8 \in Stages(h) /\ h \notin MayNeedFixingUp
<1>1. CASE h \in HasPackageRegistration
  <2>1. Passes(h) = Left(h, 1)
    BY <1>1, Registering DEF Passes, Left
  <2> QED BY <1>1, <2>1, Registering DEF Stages
<1>2. CASE h \notin HasPackageRegistration /\ h \in MayNeedFixingUp
  <2>1. Passes(h) = Left(h, 1)
    BY <1>2, Registering DEF Passes, Left
  <2> QED BY <1>2, <2>1, Registering DEF Stages
<1>3. CASE h \notin MayNeedFixingUp
  <2>1. h \notin HasPackageRegistration
    BY <1>3, Registering
  <2>2. Passes(h) = (<<>> \o <<>> \o <<>>) \o <<"initialized">>
    BY <1>3, <2>1 DEF Passes
  <2>3. (<<>> \o <<>> \o <<>>) \o <<"initialized">> = <<"initialized">>
    OBVIOUS
  <2>4. Passes(h) = Left(h, 8)
    BY <2>2, <2>3 DEF Left
  <2> QED BY <1>3, <2>1, <2>4 DEF Stages
<1> QED BY <1>1, <1>2, <1>3

-----------------------------------------------------------------------------
(***************************************************************************)
(* The invariant.                                                          *)
(***************************************************************************)
ClassObjects == {Class(t) : t \in Texts}
Made         == {Association(t) : t \in Texts}
Values       == Objects \union Symbols \union Made \union ClassObjects \union {nil}

\* The interned symbol for a package's symbol, and the association that the system
\* dictionary has for its global, both null as long as there is none.
Interned(symbol) == symbols[TextOf[symbol]]
GlobalOf(global) == globals[Interned(Fields[global][1])]

Interns(symbol, x) == Interned(symbol) # null /\ x = Interned(symbol)
Links(global, x) ==
  Interned(Fields[global][1]) # null /\ GlobalOf(global) # null /\ x = GlobalOf(global)

IsValue(o, i) == o \in Are("global") \union Are("classVariable") /\ i = 2

\* A pointer compiled as c: it has been kept, or leads to the one for c.
Pointer(c, x) ==
  /\ c \in Are("symbol") => x = c \/ Interns(c, x)
  /\ c \in Are("global") => x = c \/ Links(c, x)
  /\ c \in Are("classVariable") => x \in Are("classVariable") \union {nil}
  /\ c \in Are("other") \union {nil} => x = c

\* The value of a variable.
Value(o, x) ==
  /\ o \in Are("global") => x \in ClassObjects \union {nil}
  /\ o \in Are("classVariable") => x = nil \/ Pointer(Fields[o][2], x)

Forwards(o, x) ==
  /\ o \in Are("symbol") => Interns(o, x)
  /\ o \in Are("global") => Links(o, x)
  /\ o \in Are("classVariable") => x \in Are("classVariable") \union {nil}
  /\ o \notin Are("other")

NamesKept ==
  /\ symbols \in [Texts -> Symbols \union {null}]
  /\ \A t \in Texts : symbols[t] # null => Text(symbols[t]) = t
  /\ globals \in [Symbols -> Associations \union {null}]
  /\ \A s \in Symbols : globals[s] # null =>
       /\ symbols[Text(s)] = s
       /\ globals[s] \in Are("global") \union {Association(Text(s))}
       /\ fields[globals[s]][1] = s
  /\ classPool \in [ClassObjects -> [Texts -> Are("classVariable") \union {nil}]]

FieldsKept ==
  /\ fields \in [Objects \union Made -> Seq(Values)]
  /\ \A o \in Made : Len(fields[o]) = 2
  /\ \A o \in Objects : Len(fields[o]) = Len(Fields[o])
  /\ \A o \in Objects : \A i \in 1 .. Len(Fields[o]) :
       IF IsValue(o, i) THEN Value(o, fields[o][i]) ELSE Pointer(Fields[o][i], fields[o][i])

ForwardingKept ==
  /\ forwarding \in [Objects -> Values \union {null}]
  /\ \A o \in Objects : forwarding[o] # null => Forwards(o, forwarding[o])

\* The objects of a heap that the pass of stage k has been at, when the heap that is
\* worked on is at stage n.
Done(h, k, n) ==
  {o \in ToSet(Contents[h]) :
     \/ h \in initialized
     \/ /\ h = heap /\ n # 9 /\ status = "running"
        /\ k < n \/ (k = n /\ \E i \in DOMAIN Contents[h] : i < object /\ o = Contents[h][i])}

SymbolForwarded(o) == Interned(o) # null /\ (forwarding[o] = null => Interned(o) = o)

GlobalForwarded(o) ==
  /\ Interned(Fields[o][1]) # null /\ GlobalOf(o) # null
  /\ forwarding[o] = null => GlobalOf(o) = o

Linking(n) ==
  \A h \in MayNeedFixingUp :
    /\ \A o \in Done(h, 1, n) : o \in Are("symbol") => SymbolForwarded(o)
    /\ \A o \in Done(h, 2, n) : \A i \in 1 .. Len(Fields[o]) :
         Fields[o][i] \in Are("symbol") => Interns(Fields[o][i], fields[o][i])
    /\ \A o \in Done(h, 3, n) : o \in Are("global") => GlobalForwarded(o)
    /\ \A o \in Done(h, 4, n) : \A i \in 1 .. Len(Fields[o]) :
         Fields[o][i] \in Are("global") /\ ~IsValue(o, i) => Links(Fields[o][i], fields[o][i])

Untouched ==
  /\ symbols = [t \in Texts |-> null] /\ globals = [s \in Symbols |-> null]
  /\ forwarding = [o \in Objects |-> null] /\ initialized = {}
  /\ \A i \in DOMAIN staticHeaps : staticHeaps[i] # compactingHeap

Registry(n) ==
  /\ kernelInitialized \in BOOLEAN
  /\ staticHeaps \in Seq(Heaps \union {compactingHeap}) /\ IsInjective(staticHeaps)
  /\ initialized \subseteq Heaps \union {compactingHeap} /\ bigFlag \subseteq Big
  /\ ~kernelInitialized => n = 9 /\ cursor = 0 /\ Untouched
  /\ kernelInitialized => compactingHeap \in initialized
  /\ n # 9 => heap \in Heaps \ initialized
  /\ cursor \in 0 .. Len(staticHeaps) + 1 /\ object \in Nat \ {0}
  /\ kernelInitialized => \A i \in DOMAIN staticHeaps : cursor = 0 \/ i < cursor =>
       staticHeaps[i] \in initialized \/ (n # 9 /\ staticHeaps[i] = heap)
  /\ registrations =
       [h \in Heaps |-> IF /\ h \in HasPackageRegistration
                           /\ h \in initialized \/ (n # 9 /\ h = heap /\ n > 5)
                        THEN 1 ELSE 0]
  /\ status \in {"running", "aborted", "undefined"}

At(n) == passes = Left(heap, n) /\ Registry(n) /\ Linking(n)

IInv ==
  /\ NamesKept /\ FieldsKept /\ ForwardingKept
  /\ \E n \in Stages(heap) : At(n)

-----------------------------------------------------------------------------
(***************************************************************************)
(* The objects of the packages and of the runtime.                         *)
(***************************************************************************)
LEMMA Kinds ==
  /\ \A k : Are(k) \subseteq Objects
  /\ \A o \in Objects : \/ o \in Are("symbol") \/ o \in Are("global")
                        \/ o \in Are("classVariable") \/ o \in Are("other")
  /\ \A j, k : j # k => Are(j) \intersect Are(k) = {}
<1>1. ClassOf \in [Objects -> {"symbol", "global", "classVariable", "other"}]
  BY HeapsAssumption
<1> QED BY <1>1 DEF Are

LEMMA Apart ==
  /\ nil \notin Objects /\ null \notin Objects /\ nil # null
  /\ \A t \in Texts : /\ Symbol(t) \notin Objects /\ Symbol(t) # nil /\ Symbol(t) # null
                      /\ Association(t) \notin Objects /\ Association(t) # nil
                      /\ Association(t) # null
                      /\ Class(t) \notin Objects /\ Class(t) # nil /\ Class(t) # null
  /\ \A t, u \in Texts : Class(t) = Class(u) \/ Association(t) = Association(u)
                         \/ Symbol(t) = Symbol(u) => t = u
<1>1. \A t \in Texts :
        {Symbol(t), Association(t), Class(t)} \intersect (Objects \union {nil, null}) = {}
  BY HeapsAssumption
<1>2. nil \notin Objects /\ null \notin Objects \union {nil}
  BY HeapsAssumption
<1> QED BY <1>1, <1>2 DEF Symbol, Association, Class

\* Symbols and their texts.
LEMMA TextProps ==
  /\ \A s \in Symbols : Text(s) \in Texts
  /\ \A t \in Texts : Symbol(t) \in Symbols /\ Text(Symbol(t)) = t
  /\ \A o \in Are("symbol") : o \in Symbols /\ Text(o) = TextOf[o] /\ TextOf[o] \in Texts
  /\ \A s \in Symbols : s \in Objects => s \in Are("symbol")
  /\ \A a \in Associations : a \in Objects => a \in Are("global")
  /\ null \notin Symbols /\ null \notin Associations
<1>1. TextOf \in [Are("symbol") -> Texts]
  BY HeapsAssumption
<1>2. \A t \in Texts : Symbol(t)[2] = t
  BY DEF Symbol
<1>3. \A t \in Texts : Symbol(t) \in Symbols /\ Text(Symbol(t)) = t
  BY <1>2, Apart, Kinds DEF Symbols, Text
<1>4. null \notin Are("symbol") /\ null \notin Are("global")
  BY Apart, Kinds
<1> QED BY <1>1, <1>3, <1>4, Apart DEF Symbols, Text, Associations

\* An object has a heap, and its pointers stay in it.
LEMMA FieldProps ==
  /\ \A h \in Heaps : \A o \in ToSet(Contents[h]) :
       o \in Objects /\ Fields[o] \in Seq(ToSet(Contents[h]) \union {nil})
  /\ \A o \in Objects : \E h \in Heaps : o \in ToSet(Contents[h])
  /\ \A o \in Objects : /\ Len(Fields[o]) \in Nat
                        /\ \A i \in 1 .. Len(Fields[o]) : Fields[o][i] \in Objects \union {nil}
<1>1. \A h \in Heaps : \A o \in ToSet(Contents[h]) :
        o \in Objects /\ Fields[o] \in Seq(ToSet(Contents[h]) \union {nil})
  BY FieldsAssumption DEF Objects
<1>2. \A o \in Objects : \E h \in Heaps : o \in ToSet(Contents[h])
  BY DEF Objects
<1>3. ASSUME NEW o \in Objects
      PROVE  /\ Len(Fields[o]) \in Nat
             /\ \A i \in 1 .. Len(Fields[o]) : Fields[o][i] \in Objects \union {nil}
  <2>1. PICK h \in Heaps : o \in ToSet(Contents[h])
    BY <1>2
  <2> DEFINE S == ToSet(Contents[h]) \union {nil}
  <2>2. Fields[o] \in Seq(S) /\ S \subseteq Objects \union {nil}
    BY <1>1, <2>1
  <2> HIDE DEF S
  <2> QED BY <2>2
<1> QED BY <1>1, <1>2, <1>3

\* The key and the value of a variable, as compiled.
LEMMA VariableProps ==
  /\ \A o \in Are("global") \union Are("classVariable") :
       Len(Fields[o]) = 2 /\ Fields[o][1] \in Are("symbol")
  /\ \A o \in Are("global") : Fields[o][2] = nil
  /\ \A o \in Are("classVariable") : Fields[o][2] \in Are("global")
BY FieldsAssumption

-----------------------------------------------------------------------------
(***************************************************************************)
(* What stays as it is while the names grow.                               *)
(***************************************************************************)
\* No name of the symbol table or of the system dictionary is given another meaning.
Growing ==
  /\ \A t \in Texts : symbols[t] # null => symbols'[t] = symbols[t]
  /\ \A s \in Symbols : globals[s] # null => globals'[s] = globals[s]

\* An interned symbol is one for the text of the symbol that is asked for.
LEMMA InternedProps ==
  ASSUME NamesKept, NEW c \in Are("symbol")
  PROVE  /\ Interned(c) \in Symbols \union {null}
         /\ Interned(c) # null => Text(Interned(c)) = TextOf[c]
BY TextProps DEF NamesKept, Interned

\* What a pointer leads to stays the one for its name when the names only grow.
LEMMA PointersStay ==
  ASSUME NamesKept, Growing
  PROVE  /\ \A c \in Are("symbol") : \A x : Interns(c, x) => Interns(c, x)'
         /\ \A c \in Are("global") : \A x : Links(c, x) => Links(c, x)'
         /\ \A c, x : Pointer(c, x) => Pointer(c, x)'
         /\ \A o \in Objects : \A x : Value(o, x) => Value(o, x)'
         /\ \A o \in Objects : \A x : Forwards(o, x) => Forwards(o, x)'
<1>1. \A c \in Are("symbol") : Interned(c) # null => Interned(c)' = Interned(c)
  BY TextProps DEF Growing, Interned
<1>2. \A c \in Are("symbol") : \A x : Interns(c, x) => Interns(c, x)'
  BY <1>1, TextProps DEF Interns
<1>3. ASSUME NEW c \in Are("global"), NEW x, Links(c, x) PROVE Links(c, x)'
  <2>1. Fields[c][1] \in Are("symbol")
    BY VariableProps
  <2>2. Interned(Fields[c][1]) # null /\ GlobalOf(c) # null /\ x = GlobalOf(c)
    BY <1>3 DEF Links
  <2>3. Interned(Fields[c][1])' = Interned(Fields[c][1]) /\ Interned(Fields[c][1]) \in Symbols
    BY <1>1, <2>1, <2>2, InternedProps
  <2>4. GlobalOf(c)' = GlobalOf(c)
    BY <2>2, <2>3 DEF GlobalOf, Growing
  <2> QED BY <2>2, <2>3, <2>4 DEF Links
<1>4. \A c, x : Pointer(c, x) => Pointer(c, x)'
  BY <1>2, <1>3 DEF Pointer
<1>5. \A o \in Objects : \A x : Value(o, x) => Value(o, x)'
  BY <1>4 DEF Value
<1>6. \A o \in Objects : \A x : Forwards(o, x) => Forwards(o, x)'
  BY <1>2, <1>3 DEF Forwards
<1> QED BY <1>2, <1>3, <1>4, <1>5, <1>6

\* Of two globals with one name, one leads to what the other does.
LEMMA SameGlobal ==
  ASSUME NamesKept, FieldsKept, NEW c \in Are("global"), NEW x \in Objects, Links(c, x)
  PROVE  /\ x \in Are("global") /\ TextOf[Fields[x][1]] = TextOf[Fields[c][1]]
         /\ GlobalOf(x) = GlobalOf(c)
<1> DEFINE s == Interned(Fields[c][1])
           k == Fields[x][1]
<1>1. Fields[c][1] \in Are("symbol") /\ s # null /\ globals[s] # null /\ x = globals[s]
  BY VariableProps DEF Links, GlobalOf
<1>2. s \in Symbols /\ Text(s) = TextOf[Fields[c][1]]
  BY <1>1, InternedProps
<1>3. x \in Are("global") /\ fields[x][1] = s
  BY <1>1, <1>2, TextProps DEF NamesKept
<1>4. k \in Are("symbol") /\ Len(Fields[x]) = 2
  BY <1>3, VariableProps
<1>5. Pointer(k, fields[x][1])
  <2>1. 1 \in 1 .. Len(Fields[x]) /\ ~IsValue(x, 1)
    BY <1>4 DEF IsValue
  <2> QED BY <2>1 DEF FieldsKept
<1>6. s = k \/ s = Interned(k)
  BY <1>3, <1>4, <1>5 DEF Pointer, Interns
<1>7. Text(s) = TextOf[k]
  BY <1>1, <1>4, <1>6, TextProps, InternedProps
<1>8. Interned(k) = s
  BY <1>2, <1>7 DEF Interned
<1> QED BY <1>2, <1>3, <1>7, <1>8 DEF GlobalOf

\* The value of a variable was not compiled as a symbol.
LEMMA SymbolSlot ==
  ASSUME NEW o \in Objects, NEW i \in 1 .. Len(Fields[o]), Fields[o][i] \in Are("symbol")
  PROVE  ~IsValue(o, i)
BY VariableProps, Kinds, Apart DEF IsValue

\* Linking is kept when what had been done stays done and the rest of the claim is new.
LEMMA LinkingStays ==
  ASSUME NEW n, NEW m, NamesKept, Linking(n), Growing,
         \A o \in Objects : forwarding'[o] = null => forwarding[o] = null,
         \A o \in Objects : \A i \in 1 .. Len(Fields[o]) :
           LET c == Fields[o][i] IN
             /\ ~IsValue(o, i)
             /\ \/ c \in Are("symbol") /\ Interns(c, fields[o][i])
                \/ c \in Are("global") /\ Links(c, fields[o][i])
             => fields'[o][i] = fields[o][i],
         \A h \in MayNeedFixingUp : \A o \in Done(h, 1, m)' :
           o \in Done(h, 1, n) \/ (o \in Are("symbol") => SymbolForwarded(o)'),
         \A h \in MayNeedFixingUp : \A o \in Done(h, 2, m)' :
           o \in Done(h, 2, n) \/ \A i \in 1 .. Len(Fields[o]) :
             Fields[o][i] \in Are("symbol") => Interns(Fields[o][i], fields[o][i])',
         \A h \in MayNeedFixingUp : \A o \in Done(h, 3, m)' :
           o \in Done(h, 3, n) \/ (o \in Are("global") => GlobalForwarded(o)'),
         \A h \in MayNeedFixingUp : \A o \in Done(h, 4, m)' :
           o \in Done(h, 4, n) \/ \A i \in 1 .. Len(Fields[o]) :
             Fields[o][i] \in Are("global") /\ ~IsValue(o, i)
               => Links(Fields[o][i], fields[o][i])'
  PROVE  Linking(m)'
<1> SUFFICES ASSUME NEW h \in MayNeedFixingUp
             PROVE  /\ \A o \in Done(h, 1, m)' : o \in Are("symbol") => SymbolForwarded(o)'
                    /\ \A o \in Done(h, 2, m)' : \A i \in 1 .. Len(Fields[o]) :
                         Fields[o][i] \in Are("symbol") => Interns(Fields[o][i], fields[o][i])'
                    /\ \A o \in Done(h, 3, m)' : o \in Are("global") => GlobalForwarded(o)'
                    /\ \A o \in Done(h, 4, m)' : \A i \in 1 .. Len(Fields[o]) :
                         Fields[o][i] \in Are("global") /\ ~IsValue(o, i)
                           => Links(Fields[o][i], fields[o][i])'
  BY DEF Linking
<1>1. h \in Heaps
  BY HeapsAssumption
<1>2. \A k : Done(h, k, n) \subseteq Objects /\ Done(h, k, m)' \subseteq Objects
  BY <1>1, FieldProps DEF Done
<1>3. ASSUME NEW o \in Done(h, 1, n), o \in Are("symbol") PROVE SymbolForwarded(o)'
  <2>1. SymbolForwarded(o) /\ o \in Objects
    BY <1>2, <1>3 DEF Linking
  <2>2. Interned(o) # null /\ Interned(o)' = Interned(o)
    BY <1>3, <2>1, PointersStay DEF SymbolForwarded, Interns
  <2> QED BY <2>1, <2>2 DEF SymbolForwarded
<1>4. ASSUME NEW o \in Done(h, 2, n), NEW i \in 1 .. Len(Fields[o]), Fields[o][i] \in Are("symbol")
      PROVE  Interns(Fields[o][i], fields[o][i])'
  <2>1. Interns(Fields[o][i], fields[o][i]) /\ o \in Objects
    BY <1>2, <1>4 DEF Linking
  <2>2. ~IsValue(o, i)
    BY <1>4, <2>1, SymbolSlot
  <2>3. fields'[o][i] = fields[o][i]
    BY <1>4, <2>1, <2>2
  <2>4. Interned(Fields[o][i])' = Interned(Fields[o][i])
    BY <1>4, <2>1, PointersStay DEF Interns
  <2> QED BY <2>1, <2>3, <2>4 DEF Interns
<1>5. ASSUME NEW o \in Done(h, 3, n), o \in Are("global") PROVE GlobalForwarded(o)'
  <2>1. GlobalForwarded(o) /\ o \in Objects
    BY <1>2, <1>5 DEF Linking
  <2>2. PICK x : x = GlobalOf(o)
    OBVIOUS
  <2>3. Links(o, x)
    BY <2>1, <2>2 DEF Links, GlobalForwarded
  <2>4. Links(o, x)'
    BY <1>5, <2>3, PointersStay
  <2> QED BY <2>1, <2>2, <2>4 DEF Links, GlobalForwarded
<1>6. ASSUME NEW o \in Done(h, 4, n), NEW i \in 1 .. Len(Fields[o]),
             Fields[o][i] \in Are("global"), ~IsValue(o, i)
      PROVE  Links(Fields[o][i], fields[o][i])'
  <2>1. Links(Fields[o][i], fields[o][i]) /\ o \in Objects
    BY <1>2, <1>6 DEF Linking
  <2>2. PICK x : x = fields[o][i]
    OBVIOUS
  <2>3. Links(Fields[o][i], x)'
    BY <1>6, <2>1, <2>2, PointersStay
  <2>4. fields'[o][i] = x
    BY <1>6, <2>1, <2>2
  <2> QED BY <2>3, <2>4 DEF Links
<1>7. \A o \in Done(h, 1, m)' : o \in Are("symbol") => SymbolForwarded(o)'
  BY <1>3
<1>8. \A o \in Done(h, 2, m)' : \A i \in 1 .. Len(Fields[o]) :
        Fields[o][i] \in Are("symbol") => Interns(Fields[o][i], fields[o][i])'
  BY <1>4
<1>9. \A o \in Done(h, 3, m)' : o \in Are("global") => GlobalForwarded(o)'
  BY <1>5
<1>10. \A o \in Done(h, 4, m)' : \A i \in 1 .. Len(Fields[o]) :
         Fields[o][i] \in Are("global") /\ ~IsValue(o, i) => Links(Fields[o][i], fields[o][i])'
  BY <1>6
<1> QED BY <1>7, <1>8, <1>9, <1>10

-----------------------------------------------------------------------------
(***************************************************************************)
(* The walks.                                                              *)
(***************************************************************************)
\* The passes at a stage.
LEMMA StageProps ==
  ASSUME NEW n \in Stages(heap), passes = Left(heap, n)
  PROVE  /\ passes = <<>> <=> n = 9
         /\ n # 9 => /\ Head(passes) = PassOf(n)
                     /\ Tail(passes) = Left(heap, After(heap, n))
                     /\ After(heap, n) \in Stages(heap)
<1>1. Left(heap, 9) = <<>>
  BY DEF Left
<1> QED BY <1>1, LeftProps

\* A visit adds the object to those that the pass of its stage has been at.
LEMMA VisitingProps ==
  ASSUME NEW n \in Stages(heap), At(n), NEW p, Visiting(p), status = "running",
         p \in {"symbols", "apply", "globals", "classVariables"}
  PROVE  /\ n # 9 /\ PassOf(n) = p /\ heap \in MayNeedFixingUp /\ heap \in Heaps
         /\ kernelInitialized /\ heap \notin initialized
         /\ Visited \in ToSet(Contents[heap]) /\ Visited \in Objects
         /\ \A h \in Heaps : \A k :
              Done(h, k, n)' \subseteq Done(h, k, n) \union
                (IF h = heap /\ k = n THEN {Visited} ELSE {})
<1>1. n # 9 /\ PassOf(n) = p
  BY StageProps DEF Visiting, At
<1>2. n \in {1, 2, 3, 4, 6, 7}
  BY <1>1 DEF PassOf, Stages
<1>3. heap \in MayNeedFixingUp /\ heap \in Heaps
  BY <1>2, HeapsAssumption DEF Stages
<1>4. object \in DOMAIN Contents[heap]
  <2>1. Contents[heap] \in Seq(Objects)
    BY <1>3, HeapsAssumption
  <2>2. object \in Nat \ {0} /\ object <= Len(Contents[heap])
    BY DEF Visiting, At, Registry
  <2> QED BY <2>1, <2>2
<1>5. Visited \in ToSet(Contents[heap])
  BY <1>4 DEF Visited, ToSet
<1>6. kernelInitialized /\ heap \notin initialized
  BY <1>1 DEF At, Registry
<1>7. ASSUME NEW h \in Heaps, NEW k, NEW o \in Done(h, k, n)', o \notin Done(h, k, n)
      PROVE  h = heap /\ k = n /\ o = Visited
  <2>1. heap' = heap /\ initialized' = initialized /\ object' = object + 1
    BY DEF Visiting, flags
  <2>2. o \in ToSet(Contents[h]) /\ h \notin initialized /\ h = heap /\ ~(k < n) /\ k = n
    BY <1>1, <1>7, <2>1 DEF Done
  <2>3. PICK i \in DOMAIN Contents[h] : i < object' /\ o = Contents[h][i]
    BY <2>1, <2>2, <1>7 DEF Done
  <2>4. ~(i < object)
    BY <1>1, <1>7, <2>2, <2>3 DEF Done
  <2>5. i = object
    <3>1. Contents[h] \in Seq(Objects)
      BY HeapsAssumption
    <3>2. i \in Nat /\ object \in Nat
      BY <2>3, <3>1 DEF At, Registry
    <3> QED BY <2>1, <2>3, <2>4, <3>2
  <2> QED BY <2>2, <2>3, <2>5 DEF Visited
<1>8. ASSUME NEW h \in Heaps, NEW k
      PROVE  Done(h, k, n)' \subseteq Done(h, k, n) \union
               (IF h = heap /\ k = n THEN {Visited} ELSE {})
  BY <1>7
<1> QED BY <1>1, <1>3, <1>5, <1>6, <1>8, FieldProps

\* A visit moves nothing of the registry.
LEMMA RegistryWalks ==
  ASSUME NEW n, n # 9, Registry(n), NEW p, Visiting(p), bigFlag' \subseteq bigFlag,
         status' \in {"running", "aborted", "undefined"}
  PROVE  Registry(n)'
<1>1. /\ UNCHANGED <<kernelInitialized, staticHeaps, initialized, registrations, cursor, heap>>
      /\ object' = object + 1
  BY DEF Visiting, registry, flags
<1>2. kernelInitialized
  BY DEF Registry
<1> QED BY <1>1, <1>2 DEF Registry

\* Everything that a pointer may lead to is a value.
LEMMA Constants ==
  /\ \A o \in Objects : o \in Values
  /\ \A s \in Symbols : s \in Values
  /\ \A a \in Associations : a \in Values /\ a \in Objects \union Made
  /\ \A o \in Are("classVariable") \union {nil} : o \in Values
  /\ null \notin Values
BY Kinds, Apart, TextProps DEF Values, Associations, Made, ClassObjects

\* A visited object is forwarded unless it is its own target.
LEMMA ForwardToProps ==
  ASSUME NamesKept, Growing, ForwardingKept, NEW v \in Objects, v = Visited,
         NEW target \in Values, target # v => Forwards(v, target)', ForwardTo(target)
  PROVE  /\ ForwardingKept' /\ bigFlag' \subseteq bigFlag
         /\ \A o \in Objects : forwarding'[o] = null => forwarding[o] = null
         /\ forwarding'[v] = null => target = v
<1>1. /\ forwarding \in [Objects -> Values \union {null}]
      /\ bigFlag' = bigFlag \ {Visited}
      /\ forwarding' = [forwarding EXCEPT ![Visited] = IF target # Visited THEN target ELSE @]
  BY DEF ForwardingKept, ForwardTo
<1>2. /\ forwarding' \in [Objects -> Values \union {null}]
      /\ \A o \in Objects : forwarding'[o] = IF o = v /\ target # v THEN target
                                             ELSE forwarding[o]
  BY <1>1
<1>3. ASSUME NEW o \in Objects, forwarding'[o] # null PROVE Forwards(o, forwarding[o])'
  <2>1. PICK x : x = forwarding'[o]
    OBVIOUS
  <2>2. Forwards(o, x)'
    <3>1. CASE o = v /\ target # v
      BY <1>2, <2>1, <3>1
    <3>2. CASE ~(o = v /\ target # v)
      <4>1. x = forwarding[o] /\ Forwards(o, x)
        BY <1>2, <1>3, <2>1, <3>2 DEF ForwardingKept
      <4> QED BY <4>1, PointersStay
    <3> QED BY <3>1, <3>2
  <2> QED BY <2>1, <2>2 DEF Forwards, Interns, Links
<1>4. ForwardingKept'
  BY <1>2, <1>3 DEF ForwardingKept
<1> QED BY <1>1, <1>2, <1>4, Constants

\* The pointers are untouched while names are added.
LEMMA FieldsStay ==
  ASSUME NamesKept, Growing, FieldsKept, UNCHANGED fields
  PROVE  FieldsKept'
<1>1. ASSUME NEW o \in Objects, NEW i \in 1 .. Len(Fields[o])
      PROVE  IF IsValue(o, i) THEN Value(o, fields[o][i])'
                              ELSE Pointer(Fields[o][i], fields[o][i])'
  <2>1. PICK x : x = fields[o][i]
    OBVIOUS
  <2>2. IF IsValue(o, i) THEN Value(o, x) ELSE Pointer(Fields[o][i], x)
    BY <2>1 DEF FieldsKept
  <2>3. IF IsValue(o, i) THEN Value(o, x)' ELSE Pointer(Fields[o][i], x)'
    BY <2>2, PointersStay
  <2>4. x = fields'[o][i]
    BY <2>1
  <2> QED BY <2>3, <2>4 DEF Value, Pointer, Interns, Links
<1>2. \A o \in Objects : \A i \in 1 .. Len(Fields[o]) :
        IF IsValue(o, i) THEN Value(o, fields[o][i])' ELSE Pointer(Fields[o][i], fields[o][i])'
  BY <1>1
<1> QED BY <1>2 DEF FieldsKept

\* The forwarding pointers are untouched while names are added.
LEMMA ForwardingStays ==
  ASSUME NamesKept, Growing, ForwardingKept, UNCHANGED forwarding
  PROVE  ForwardingKept'
<1>1. ASSUME NEW o \in Objects, forwarding[o] # null PROVE Forwards(o, forwarding[o])'
  <2>1. PICK x : x = forwarding[o]
    OBVIOUS
  <2>2. Forwards(o, x)'
    BY <1>1, <2>1, PointersStay DEF ForwardingKept
  <2>3. x = forwarding'[o]
    BY <2>1
  <2> QED BY <2>2, <2>3 DEF Forwards, Interns, Links
<1> QED BY <1>1 DEF ForwardingKept

\* A walk that forwards the object it is at.
LEMMA ForwardKeeps ==
  ASSUME NamesKept, FieldsKept, ForwardingKept, NEW n \in Stages(heap) \intersect {1, 3, 6}, At(n),
         status = "running", Visiting(PassOf(n)), NEW v \in Objects, v = Visited,
         NEW target \in Values, ForwardTo(target), target # v => Forwards(v, target)',
         NamesKept', Growing, UNCHANGED <<fields, status>>,
         n = 1 /\ v \in Are("symbol") => Interned(v)' = target,
         n = 3 /\ v \in Are("global") =>
           Interned(Fields[v][1])' # null /\ GlobalOf(v)' = target
  PROVE  IInv'
<1>1. PassOf(n) \in {"symbols", "apply", "globals", "classVariables"} /\ n # 9
  BY DEF PassOf
<1>2. /\ ForwardingKept' /\ bigFlag' \subseteq bigFlag
      /\ \A o \in Objects : forwarding'[o] = null => forwarding[o] = null
      /\ forwarding'[v] = null => target = v
  BY ForwardToProps
<1>3. FieldsKept'
  BY FieldsStay
<1>4. Registry(n)'
  <2>1. Registry(n) /\ status' \in {"running", "aborted", "undefined"}
    BY DEF At
  <2> QED BY <1>1, <1>2, <2>1, RegistryWalks
<1>5. Linking(n)'
  <2>1. \A h \in Heaps : \A k :
          Done(h, k, n)' \subseteq Done(h, k, n) \union
            (IF h = heap /\ k = n THEN {v} ELSE {})
    BY <1>1, VisitingProps
  <2>2. n = 1 => (v \in Are("symbol") => SymbolForwarded(v)')
    BY <1>2, Constants DEF SymbolForwarded
  <2>3. n = 3 => (v \in Are("global") => GlobalForwarded(v)')
    BY <1>2, Constants DEF GlobalForwarded
  <2>4. \A h \in MayNeedFixingUp : h \in Heaps
    BY HeapsAssumption
  <2>5. /\ \A h \in MayNeedFixingUp : \A o \in Done(h, 1, n)' :
             o \in Done(h, 1, n) \/ (n = 1 /\ o = v)
        /\ \A h \in MayNeedFixingUp : Done(h, 2, n)' \subseteq Done(h, 2, n)
        /\ \A h \in MayNeedFixingUp : \A o \in Done(h, 3, n)' :
             o \in Done(h, 3, n) \/ (n = 3 /\ o = v)
        /\ \A h \in MayNeedFixingUp : Done(h, 4, n)' \subseteq Done(h, 4, n)
    BY <2>1, <2>4
  <2> QED BY <1>2, <2>2, <2>3, <2>5, LinkingStays DEF At
<1>6. heap' = heap /\ passes' = passes
  BY DEF Visiting
<1> QED BY <1>2, <1>3, <1>4, <1>5, <1>6 DEF IInv, At

LEMMA ForwardSymbolKeeps ==
  ASSUME IInv, status = "running", ForwardSymbol
  PROVE  IInv'
<1>1. PICK n \in Stages(heap) : At(n)
  BY DEF IInv
<1>2. NamesKept /\ FieldsKept /\ ForwardingKept
  BY DEF IInv
<1>3. Visiting("symbols") /\ UNCHANGED <<fields, globals, classPool, status>>
  BY DEF ForwardSymbol
<1>4. n = 1 /\ heap' = heap /\ passes' = passes
  BY <1>1, <1>3, VisitingProps DEF PassOf, Visiting, Stages
<1>5. PICK v \in Objects : v = Visited
  BY <1>1, <1>3, VisitingProps
<1>6. \E target \in Values :
        /\ ForwardTo(target) /\ NamesKept' /\ Growing
        /\ target # v => Forwards(v, target)'
        /\ v \in Are("symbol") => Interned(v)' = target
  <2>1. CASE ClassOf[v] = "symbol"
    <3> DEFINE t == TextOf[v]
    <3>1. v \in Are("symbol") /\ t \in Texts /\ v \in Symbols /\ Text(v) = t
      BY <2>1, TextProps DEF Are
    <3>2. /\ symbols' = [symbols EXCEPT ![t] = IF @ = null THEN v ELSE @]
          /\ ForwardTo(symbols'[t])
      BY <1>5, <2>1 DEF ForwardSymbol
    <3>3. symbols \in [Texts -> Symbols \union {null}]
      BY <1>2 DEF NamesKept
    <3>4. /\ symbols' \in [Texts -> Symbols \union {null}]
          /\ \A u \in Texts : symbols'[u] = IF u = t /\ symbols[u] = null THEN v
                                            ELSE symbols[u]
      BY <3>1, <3>2, <3>3
    <3>5. \A u \in Texts : symbols'[u] # null => Text(symbols'[u]) = u
      BY <1>2, <3>1, <3>4 DEF NamesKept
    <3>6. Growing
      BY <1>3, <3>4 DEF Growing
    <3>7. NamesKept'
      <4>1. ASSUME NEW s \in Symbols, globals[s] # null PROVE symbols'[Text(s)] = s
        <5>1. symbols[Text(s)] = s /\ s # null
          BY <1>2, <4>1, TextProps DEF NamesKept
        <5> QED BY <3>4, <5>1, TextProps
      <4> QED BY <1>2, <1>3, <3>4, <3>5, <4>1 DEF NamesKept, Text
    <3>8. PICK target : target = symbols'[t]
      OBVIOUS
    <3>9. target \in Symbols
      BY <3>1, <3>3, <3>4, <3>8, TextProps
    <3>10. Interns(v, target)' /\ Interned(v)' = target
      BY <3>8, <3>9, TextProps DEF Interns, Interned
    <3>11. Forwards(v, target)'
      BY <3>1, <3>10, Kinds DEF Forwards
    <3> QED BY <3>2, <3>6, <3>7, <3>8, <3>9, <3>10, <3>11, Constants
  <2>2. CASE ClassOf[v] # "symbol"
    <3>1. ForwardTo(v) /\ UNCHANGED symbols
      BY <1>5, <2>2 DEF ForwardSymbol
    <3>2. NamesKept' /\ Growing
      BY <1>2, <1>3, <3>1 DEF NamesKept, Growing, Text
    <3> QED BY <2>2, <3>1, <3>2, Constants DEF Are
  <2> QED BY <2>1, <2>2
<1>7. PICK target \in Values :
        /\ ForwardTo(target) /\ NamesKept' /\ Growing
        /\ target # v => Forwards(v, target)'
        /\ v \in Are("symbol") => Interned(v)' = target
  BY <1>6
<1> QED BY <1>1, <1>2, <1>3, <1>4, <1>5, <1>7, ForwardKeeps DEF PassOf

LEMMA ForwardGlobalKeeps ==
  ASSUME IInv, status = "running", ForwardGlobal
  PROVE  IInv'
<1>1. PICK n \in Stages(heap) : At(n)
  BY DEF IInv
<1>2. NamesKept /\ FieldsKept /\ ForwardingKept
  BY DEF IInv
<1>3. Visiting("globals") /\ UNCHANGED <<fields, symbols, classPool, status>>
  BY DEF ForwardGlobal
<1>4. n = 3
  BY <1>1, <1>3, VisitingProps DEF PassOf, Stages
<1>5. PICK v \in Objects : v = Visited
  BY <1>1, <1>3, VisitingProps
<1>6. \E target \in Values :
        /\ ForwardTo(target) /\ NamesKept' /\ Growing
        /\ target # v => Forwards(v, target)'
        /\ v \in Are("global") => Interned(Fields[v][1])' # null /\ GlobalOf(v)' = target
  <2>1. CASE ClassOf[v] = "global"
    <3> DEFINE s == fields[v][1]
               c == Fields[v][1]
    <3>1. v \in Are("global") /\ c \in Are("symbol") /\ v \in Associations
      BY <2>1, VariableProps DEF Are, Associations
    <3>2. s = Interned(c) /\ s # null /\ s \in Symbols /\ Text(s) = TextOf[c]
      <4>1. v \in Done(heap, 2, n)
        BY <1>1, <1>3, <1>4, <1>5, VisitingProps DEF Done
      <4>2. 1 \in 1 .. Len(Fields[v])
        BY <3>1, VariableProps
      <4>3. Interns(c, s)
        BY <1>1, <1>3, <3>1, <4>1, <4>2, VisitingProps DEF At, Linking
      <4> QED BY <1>2, <3>1, <4>3, InternedProps DEF Interns
    <3>3. /\ globals' = [globals EXCEPT ![s] = IF @ = null THEN v ELSE @]
          /\ ForwardTo(globals'[s])
      BY <1>5, <2>1 DEF ForwardGlobal
    <3>4. globals \in [Symbols -> Associations \union {null}]
      BY <1>2 DEF NamesKept
    <3> HIDE DEF s, c
    <3>5. /\ globals' \in [Symbols -> Associations \union {null}]
          /\ \A u \in Symbols : globals'[u] = IF u = s /\ globals[u] = null THEN v
                                              ELSE globals[u]
      BY <3>1, <3>2, <3>3, <3>4
    <3>6. Growing
      BY <1>3, <3>5 DEF Growing
    <3>7. NamesKept'
      <4>1. symbols[Text(s)] = s
        BY <3>2 DEF Interned
      <4>2. fields[v][1] = s
        BY DEF s
      <4>3. ASSUME NEW u \in Symbols, globals'[u] # null
            PROVE  /\ symbols[Text(u)] = u
                   /\ globals'[u] \in Are("global") \union {Association(Text(u))}
                   /\ fields[globals'[u]][1] = u
        <5>1. CASE u = s /\ globals[u] = null
          BY <3>1, <3>5, <4>1, <4>2, <5>1
        <5>2. CASE ~(u = s /\ globals[u] = null)
          BY <1>2, <3>5, <4>3, <5>2 DEF NamesKept
        <5> QED BY <5>1, <5>2
      <4> QED BY <1>2, <1>3, <3>5, <4>3 DEF NamesKept, Text
    <3>8. PICK target : target = globals'[s]
      OBVIOUS
    <3>9. target \in Associations
      BY <3>1, <3>2, <3>4, <3>5, <3>8, TextProps
    <3>10. Links(v, target)' /\ Interned(c)' # null /\ GlobalOf(v)' = target
      BY <1>3, <3>2, <3>8, <3>9, TextProps DEF Links, Interned, GlobalOf, c
    <3>11. Forwards(v, target)'
      BY <3>1, <3>10, Kinds DEF Forwards
    <3> QED BY <3>3, <3>6, <3>7, <3>8, <3>9, <3>10, <3>11, Constants DEF c
  <2>2. CASE ClassOf[v] # "global"
    <3>1. ForwardTo(v) /\ UNCHANGED globals
      BY <1>5, <2>2 DEF ForwardGlobal
    <3>2. NamesKept' /\ Growing
      BY <1>2, <1>3, <3>1 DEF NamesKept, Growing, Text
    <3> QED BY <2>2, <3>1, <3>2, Constants DEF Are
  <2> QED BY <2>1, <2>2
<1>7. PICK target \in Values :
        /\ ForwardTo(target) /\ NamesKept' /\ Growing
        /\ target # v => Forwards(v, target)'
        /\ v \in Are("global") => Interned(Fields[v][1])' # null /\ GlobalOf(v)' = target
  BY <1>6
<1> QED BY <1>1, <1>2, <1>3, <1>4, <1>5, <1>7, ForwardKeeps DEF PassOf

\* The work goes on, and nothing else changes.
LEMMA QuietKeeps ==
  ASSUME NamesKept, FieldsKept, ForwardingKept, NEW n, Linking(n), UNCHANGED <<memory, names>>,
         NEW m \in Stages(heap'), passes' = Left(heap', m), Registry(m)',
         \A h \in MayNeedFixingUp : \A k \in 1 .. 4 : Done(h, k, m)' \subseteq Done(h, k, n)
  PROVE  IInv'
<1>1. NamesKept' /\ Growing
  BY DEF NamesKept, Growing, Text, names, memory
<1>2. FieldsKept'
  BY <1>1, FieldsStay DEF memory
<1>3. UNCHANGED <<forwarding, fields>>
  BY DEF memory
<1>4. ForwardingKept'
  BY <1>1, <1>3, ForwardingStays
<1>5. Linking(m)'
  BY <1>1, <1>3, LinkingStays
<1> QED BY <1>1, <1>2, <1>4, <1>5 DEF IInv, At

\* A visit that stops the program disturbs nothing.
LEMMA VisitQuietKeeps ==
  ASSUME NamesKept, FieldsKept, ForwardingKept, NEW n \in Stages(heap), At(n),
         status = "running", UNCHANGED <<memory, names, registry, flags, cursor, heap, passes>>,
         status' \in {"aborted", "undefined"}, object' \in Nat \ {0}
  PROVE  IInv'
<1>1. Registry(n)'
  BY DEF At, Registry, Untouched, registry, flags, memory, names
<1>2. \A h \in MayNeedFixingUp : \A k \in 1 .. 4 : Done(h, k, n)' \subseteq Done(h, k, n)
  BY DEF Done, flags
<1> QED BY <1>1, <1>2, QuietKeeps DEF At

LEMMA ForwardClassVariableKeeps ==
  ASSUME IInv, status = "running", ForwardClassVariable
  PROVE  IInv'
<1>1. PICK n \in Stages(heap) : At(n)
  BY DEF IInv
<1>2. NamesKept /\ FieldsKept /\ ForwardingKept
  BY DEF IInv
<1>3. Visiting("classVariables") /\ UNCHANGED <<fields, names>>
  BY DEF ForwardClassVariable
<1>4. n = 6
  BY <1>1, <1>3, VisitingProps DEF PassOf, Stages
<1>5. PICK v \in Objects : v = Visited
  BY <1>1, <1>3, VisitingProps
<1>6. NamesKept' /\ Growing
  BY <1>2, <1>3 DEF NamesKept, Growing, Text, names
<1>7. ASSUME NEW target \in Values, ForwardTo(target), target # v => Forwards(v, target)',
             UNCHANGED status
      PROVE  IInv'
  BY <1>1, <1>2, <1>3, <1>4, <1>5, <1>6, <1>7, ForwardKeeps DEF PassOf
<1>8. CASE ~OfGlobalVariable(v)
  BY <1>5, <1>7, <1>8, Constants DEF ForwardClassVariable
<1>9. CASE OfGlobalVariable(v)
  <2> DEFINE g == fields[v][2]
             class == fields[g][2]
             key == fields[v][1]
  <2>1. v \in Are("classVariable") /\ g \in Are("global")
    BY <1>9 DEF OfGlobalVariable, Are
  <2>2. class \in ClassObjects \union {nil}
    <3>1. Len(Fields[g]) = 2 /\ g \in Objects
      BY <2>1, VariableProps, Kinds
    <3>2. 2 \in 1 .. Len(Fields[g]) /\ IsValue(g, 2)
      BY <2>1, <3>1 DEF IsValue
    <3>3. Value(g, class)
      BY <1>2, <3>1, <3>2 DEF FieldsKept
    <3> QED BY <2>1, <3>3 DEF Value
  <2>3. Text(key) \in Texts
    <3>1. Len(Fields[v]) = 2 /\ Fields[v][1] \in Are("symbol")
      BY <2>1, VariableProps
    <3>2. 1 \in 1 .. Len(Fields[v]) /\ ~IsValue(v, 1)
      BY <3>1 DEF IsValue
    <3>3. Pointer(Fields[v][1], key)
      BY <1>2, <3>2 DEF FieldsKept
    <3>4. key \in Symbols
      BY <1>2, <3>1, <3>3, TextProps, InternedProps DEF Pointer, Interns
    <3> QED BY <3>4, TextProps
  <2>4. CASE class = nil
    <3>1. status' \in {"aborted", "undefined"} /\ UNCHANGED <<forwarding, bigFlag>>
      BY <1>5, <1>9, <2>4 DEF ForwardClassVariable
    <3>2. object' \in Nat \ {0}
      BY <1>1, <1>3 DEF Visiting, At, Registry
    <3> QED BY <1>1, <1>2, <1>3, <3>1, <3>2, VisitQuietKeeps DEF Visiting, memory
  <2>5. CASE class # nil
    <3>1. ForwardTo(classPool[class][Text(key)]) /\ UNCHANGED status
      BY <1>5, <1>9, <2>5 DEF ForwardClassVariable
    <3>2. PICK target : target = classPool[class][Text(key)]
      OBVIOUS
    <3>3. target \in Are("classVariable") \union {nil}
      BY <1>2, <2>2, <2>3, <2>5, <3>2 DEF NamesKept
    <3>4. Forwards(v, target)'
      BY <2>1, <3>3, Kinds DEF Forwards
    <3> QED BY <1>7, <3>1, <3>2, <3>3, <3>4, Constants
  <2> QED BY <2>4, <2>5
<1> QED BY <1>8, <1>9

\* What ApplyForwarding makes of a pointer.
Applied(x) ==
  IF x \in ToSet(Contents[heap]) /\ forwarding[x] # null THEN forwarding[x] ELSE x

\* Where a pointer leads after the second walk.
LEMMA AppliedPointer ==
  ASSUME NamesKept, FieldsKept, ForwardingKept, NEW n \in {2, 4, 7}, Linking(n),
         status = "running", heap \in MayNeedFixingUp,
         NEW c \in ToSet(Contents[heap]) \union {nil}, NEW x, Pointer(c, x)
  PROVE  /\ Pointer(c, Applied(x))
         /\ c \in Are("symbol") => Interns(c, Applied(x))
         /\ c \in Are("global") /\ n # 2 => Links(c, Applied(x))
         /\ c \in Are("symbol") /\ Interns(c, x) => Applied(x) = x
         /\ c \in Are("global") /\ Links(c, x) => Applied(x) = x
<1>1. /\ ToSet(Contents[heap]) \subseteq Objects
      /\ \A o \in ToSet(Contents[heap]) : o \in Done(heap, 1, n) /\ (n # 2 => o \in Done(heap, 3, n))
  <2>1. heap \in Heaps
    BY Registering
  <2>2. 1 < n /\ n # 9 /\ (n # 2 => 3 < n)
    OBVIOUS
  <2> QED BY <2>1, <2>2, FieldProps DEF Done
<1>2. \A o \in ToSet(Contents[heap]) : forwarding[o] # null => Forwards(o, forwarding[o])
  BY <1>1 DEF ForwardingKept
<1>3. CASE c \in Are("symbol")
  <2>1. ASSUME Interns(c, x) PROVE Applied(x) = x
    <3>1. x \in Symbols /\ Text(x) = TextOf[c] /\ x = symbols[TextOf[c]]
      BY <1>3, <2>1, InternedProps DEF Interns, Interned
    <3>2. CASE x \in ToSet(Contents[heap]) /\ forwarding[x] # null
      <4>1. x \in Are("symbol") /\ TextOf[x] = TextOf[c]
        BY <1>1, <3>1, <3>2, TextProps
      <4>2. forwarding[x] = symbols[TextOf[x]]
        BY <1>2, <3>2, <4>1 DEF Forwards, Interns, Interned
      <4> QED BY <3>1, <4>1, <4>2 DEF Applied
    <3> QED BY <3>2 DEF Applied
  <2>2. ASSUME x = c PROVE Interns(c, Applied(x))
    <3>1. c \in ToSet(Contents[heap])
      BY <1>3, Kinds, Apart
    <3>2. SymbolForwarded(c)
      BY <1>1, <1>3, <3>1 DEF Linking
    <3> QED BY <1>2, <1>3, <2>2, <3>1, <3>2 DEF SymbolForwarded, Forwards, Interns, Applied
  <2>3. x = c \/ Interns(c, x)
    BY <1>3 DEF Pointer
  <2>4. Interns(c, Applied(x))
    BY <2>1, <2>2, <2>3
  <2> QED BY <1>3, <2>1, <2>4, Kinds, Apart DEF Pointer
<1>4. CASE c \in Are("global")
  <2>1. ASSUME Links(c, x) PROVE Applied(x) = x
    <3>1. CASE x \in ToSet(Contents[heap]) /\ forwarding[x] # null
      <4>1. x \in Are("global") /\ GlobalOf(x) = GlobalOf(c)
        BY <1>1, <1>4, <2>1, <3>1, SameGlobal
      <4>2. forwarding[x] = GlobalOf(x) /\ x = GlobalOf(c)
        BY <1>2, <2>1, <3>1, <4>1 DEF Forwards, Links
      <4> QED BY <4>1, <4>2 DEF Applied
    <3> QED BY <3>1 DEF Applied
  <2>2. ASSUME x = c PROVE /\ Applied(x) = c \/ Links(c, Applied(x))
                           /\ n # 2 => Links(c, Applied(x))
    <3>1. c \in ToSet(Contents[heap])
      BY <1>4, Kinds, Apart
    <3>2. n # 2 => GlobalForwarded(c)
      BY <1>1, <1>4, <3>1 DEF Linking
    <3>3. forwarding[c] # null => Links(c, forwarding[c])
      BY <1>2, <1>4, <3>1 DEF Forwards
    <3> QED BY <2>2, <3>1, <3>2, <3>3 DEF GlobalForwarded, Links, Applied
  <2>3. x = c \/ Links(c, x)
    BY <1>4 DEF Pointer
  <2>4. /\ Applied(x) = c \/ Links(c, Applied(x))
        /\ n # 2 => Links(c, Applied(x))
    BY <2>1, <2>2, <2>3
  <2> QED BY <1>4, <2>1, <2>4, Kinds, Apart DEF Pointer
<1>5. CASE c \in Are("classVariable")
  <2>1. x \in Are("classVariable") \union {nil}
    BY <1>5 DEF Pointer
  <2>2. Applied(x) \in Are("classVariable") \union {nil}
    BY <1>1, <1>2, <2>1, Apart DEF Applied, Forwards
  <2> QED BY <1>5, <2>2, Kinds, Apart DEF Pointer
<1>6. CASE c \in Are("other") \union {nil}
  <2>1. x = c /\ Applied(x) = c
    BY <1>1, <1>2, <1>6, Apart DEF Pointer, Applied, Forwards
  <2> QED BY <1>6, <2>1, Kinds, Apart DEF Pointer
<1> QED BY <1>1, <1>3, <1>4, <1>5, <1>6, Kinds

\* The same of a pointer of an object.
LEMMA AppliedField ==
  ASSUME NamesKept, FieldsKept, ForwardingKept, NEW n \in {2, 4, 7}, Linking(n),
         status = "running", heap \in MayNeedFixingUp,
         NEW o \in ToSet(Contents[heap]), NEW i \in 1 .. Len(Fields[o])
  PROVE  LET c == Fields[o][i]
             x == Applied(fields[o][i])
         IN  /\ x \in Values
             /\ IF IsValue(o, i) THEN Value(o, x) ELSE Pointer(c, x)
             /\ c \in Are("symbol") => Interns(c, x)
             /\ c \in Are("global") /\ ~IsValue(o, i) /\ n # 2 => Links(c, x)
             /\ /\ ~IsValue(o, i)
                /\ \/ c \in Are("symbol") /\ Interns(c, fields[o][i])
                   \/ c \in Are("global") /\ Links(c, fields[o][i])
                => x = fields[o][i]
<1> DEFINE c == Fields[o][i]
           x == fields[o][i]
<1>1. heap \in Heaps /\ o \in Objects
  BY HeapsAssumption, FieldProps
<1>2. x \in Values
  <2>1. fields[o] \in Seq(Values) /\ Len(fields[o]) = Len(Fields[o])
    BY <1>1 DEF FieldsKept
  <2> QED BY <2>1
<1>3. Applied(x) \in Values
  BY <1>1, <1>2, FieldProps DEF Applied, ForwardingKept
<1>4. \A j \in 1 .. Len(Fields[o]) : Fields[o][j] \in ToSet(Contents[heap]) \union {nil}
  <2> DEFINE S == ToSet(Contents[heap]) \union {nil}
  <2>1. Fields[o] \in Seq(S)
    BY <1>1, FieldProps
  <2> HIDE DEF S
  <2>2. \A j \in 1 .. Len(Fields[o]) : Fields[o][j] \in S
    BY <2>1
  <2> QED BY <2>2 DEF S
<1> HIDE DEF x
<1>5. CASE ~IsValue(o, i)
  <2>1. Pointer(c, x) /\ c \in ToSet(Contents[heap]) \union {nil}
    BY <1>1, <1>4, <1>5 DEF FieldsKept, x
  <2> QED BY <1>3, <1>5, <2>1, AppliedPointer DEF x
<1>6. CASE IsValue(o, i)
  <2>1. Value(o, x)
    BY <1>1, <1>6 DEF FieldsKept, x
  <2>2. c \notin Are("symbol")
    BY <1>1, <1>6, SymbolSlot
  <2>3. CASE o \in Are("global")
    <3>1. x \in ClassObjects \union {nil}
      BY <2>1, <2>3 DEF Value
    <3>2. x \notin Objects
      BY <3>1, Apart DEF ClassObjects
    <3>3. Applied(x) = x
      BY <1>1, <3>2, FieldProps DEF Applied
    <3> QED BY <1>3, <1>6, <2>1, <2>2, <3>3 DEF x
  <2>4. CASE o \in Are("classVariable")
    <3>1. 2 \in 1 .. Len(Fields[o]) /\ i = 2
      BY <1>6, <2>4, VariableProps DEF IsValue
    <3>2. c \in ToSet(Contents[heap]) \union {nil} /\ c = Fields[o][2]
      BY <1>4, <3>1
    <3>3. x = nil \/ Pointer(c, x)
      BY <2>1, <2>4, <3>2 DEF Value
    <3>4. Applied(x) = nil \/ Pointer(c, Applied(x))
      BY <1>1, <3>2, <3>3, AppliedPointer, Apart, FieldProps DEF Applied
    <3>5. Value(o, Applied(x))
      BY <2>4, <3>2, <3>4, Kinds DEF Value
    <3> QED BY <1>3, <1>6, <2>2, <3>5 DEF x
  <2> QED BY <1>6, <2>3, <2>4 DEF IsValue
<1> QED BY <1>5, <1>6

LEMMA ApplyForwardingKeeps ==
  ASSUME IInv, status = "running", ApplyForwarding
  PROVE  IInv'
<1>1. PICK n \in Stages(heap) : At(n)
  BY DEF IInv
<1>2. NamesKept /\ FieldsKept /\ ForwardingKept
  BY DEF IInv
<1>3. Visiting("apply") /\ UNCHANGED <<forwarding, bigFlag, names, status>>
  BY DEF ApplyForwarding
<1>4. n \in {2, 4, 7} /\ n # 9 /\ heap \in MayNeedFixingUp
  BY <1>1, <1>3, VisitingProps DEF PassOf, Stages
<1>5. PICK v \in Objects : v = Visited /\ v \in ToSet(Contents[heap])
  BY <1>1, <1>3, VisitingProps
<1> DEFINE new == [i \in DOMAIN fields[v] |-> Applied(fields[v][i])]
<1>6. /\ fields \in [Objects \union Made -> Seq(Values)] /\ Len(fields[v]) = Len(Fields[v])
      /\ fields[v] \in Seq(Values)
  BY <1>2 DEF FieldsKept
<1>7. /\ new \in Seq(Values) /\ Len(new) = Len(Fields[v])
      /\ \A i \in 1 .. Len(Fields[v]) : new[i] = Applied(fields[v][i])
  <2>1. DOMAIN fields[v] = 1 .. Len(Fields[v])
    BY <1>6
  <2>2. \A i \in 1 .. Len(Fields[v]) : Applied(fields[v][i]) \in Values
    BY <1>1, <1>2, <1>4, <1>5, AppliedField DEF At
  <2> QED BY <2>1, <2>2, FieldProps
<1>8. fields' = [fields EXCEPT ![v] = new]
  BY <1>5 DEF ApplyForwarding, Applied
<1> HIDE DEF new
<1>9. /\ fields' \in [Objects \union Made -> Seq(Values)]
      /\ \A o \in Objects \union Made : fields'[o] = IF o = v THEN new ELSE fields[o]
  BY <1>6, <1>7, <1>8
<1>10. NamesKept' /\ Growing
  <2>1. Growing
    BY <1>3 DEF Growing, names
  <2>2. ASSUME NEW s \in Symbols, globals[s] # null PROVE fields'[globals[s]][1] = s
    <3> DEFINE a == globals[s]
    <3>1. a \in Associations /\ fields[a][1] = s /\ a \in Objects \union Made /\ symbols[Text(s)] = s
      BY <1>2, <2>2, Constants DEF NamesKept
    <3>2. CASE a # v
      BY <1>9, <3>1, <3>2
    <3>3. CASE a = v
      <4>1. a \in Are("global")
        BY <1>5, <3>1, <3>3, TextProps
      <4>2. Fields[a][1] \in Are("symbol") /\ 1 \in 1 .. Len(Fields[a]) /\ ~IsValue(a, 1)
        BY <4>1, VariableProps DEF IsValue
      <4>3. Interns(Fields[a][1], new[1])
        BY <1>1, <1>2, <1>4, <1>5, <1>7, <3>3, <4>2, AppliedField DEF At
      <4>4. Pointer(Fields[a][1], s)
        BY <1>2, <1>5, <3>1, <3>3, <4>2 DEF FieldsKept
      <4>5. Text(s) = TextOf[Fields[a][1]]
        BY <4>2, <4>4, TextProps, InternedProps, <1>2, <3>1 DEF Pointer, Interns
      <4>6. new[1] = s
        BY <3>1, <4>3, <4>5 DEF Interns, Interned
      <4> QED BY <1>9, <3>1, <3>3, <4>6
    <3> QED BY <3>2, <3>3
  <2> QED BY <1>2, <1>3, <2>1, <2>2 DEF NamesKept, Text, names
<1>11. FieldsKept'
  <2>1. ASSUME NEW o \in Objects, NEW i \in 1 .. Len(Fields[o])
        PROVE  IF IsValue(o, i) THEN Value(o, fields[o][i])'
                                ELSE Pointer(Fields[o][i], fields[o][i])'
    <3>1. PICK x : x = fields'[o][i]
      OBVIOUS
    <3>2. IF IsValue(o, i) THEN Value(o, x) ELSE Pointer(Fields[o][i], x)
      <4>1. CASE o = v
        BY <1>1, <1>2, <1>4, <1>5, <1>7, <1>9, <3>1, <4>1, AppliedField DEF At
      <4>2. CASE o # v
        BY <1>2, <1>9, <3>1, <4>2 DEF FieldsKept
      <4> QED BY <4>1, <4>2
    <3>3. IF IsValue(o, i) THEN Value(o, x)' ELSE Pointer(Fields[o][i], x)'
      BY <1>2, <1>10, <3>2, PointersStay
    <3> QED BY <3>1, <3>3 DEF Value, Pointer, Interns, Links
  <2>2. \A o \in Objects : \A i \in 1 .. Len(Fields[o]) :
          IF IsValue(o, i) THEN Value(o, fields[o][i])' ELSE Pointer(Fields[o][i], fields[o][i])'
    BY <2>1
  <2>3. \A o \in Made : o # v
    BY <1>5, Apart DEF Made
  <2> QED BY <1>2, <1>7, <1>9, <2>2, <2>3 DEF FieldsKept
<1>12. ForwardingKept'
  BY <1>2, <1>3, <1>10, ForwardingStays
<1>13. Registry(n)'
  <2>1. Registry(n) /\ status' \in {"running", "aborted", "undefined"}
    BY <1>1, <1>3 DEF At, Registry
  <2> QED BY <1>3, <1>4, <2>1, RegistryWalks
<1>14. Linking(n)'
  <2>1. \A h \in Heaps : \A k :
          Done(h, k, n)' \subseteq Done(h, k, n) \union
            (IF h = heap /\ k = n THEN {v} ELSE {})
    BY <1>1, <1>3, <1>5, VisitingProps
  <2>2. ASSUME NEW o \in Objects, NEW i \in 1 .. Len(Fields[o]), ~IsValue(o, i),
               \/ Fields[o][i] \in Are("symbol") /\ Interns(Fields[o][i], fields[o][i])
               \/ Fields[o][i] \in Are("global") /\ Links(Fields[o][i], fields[o][i])
        PROVE  fields'[o][i] = fields[o][i]
    <3>1. CASE o = v
      BY <1>1, <1>2, <1>4, <1>5, <1>7, <1>9, <2>2, <3>1, AppliedField DEF At
    <3> QED BY <1>9, <3>1
  <2>3. ASSUME NEW i \in 1 .. Len(Fields[v]), Fields[v][i] \in Are("symbol")
        PROVE  Interns(Fields[v][i], fields[v][i])'
    <3>1. PICK x : x = fields'[v][i]
      OBVIOUS
    <3>2. Interns(Fields[v][i], x)
      BY <1>1, <1>2, <1>4, <1>5, <1>7, <1>9, <2>3, <3>1, AppliedField DEF At
    <3>3. Interns(Fields[v][i], x)'
      BY <1>2, <1>10, <2>3, <3>2, PointersStay
    <3> QED BY <3>1, <3>3 DEF Interns
  <2>4. ASSUME NEW i \in 1 .. Len(Fields[v]), n = 4, Fields[v][i] \in Are("global"), ~IsValue(v, i)
        PROVE  Links(Fields[v][i], fields[v][i])'
    <3>1. PICK x : x = fields'[v][i]
      OBVIOUS
    <3>2. Links(Fields[v][i], x)
      BY <1>1, <1>2, <1>4, <1>5, <1>7, <1>9, <2>4, <3>1, AppliedField DEF At
    <3>3. Links(Fields[v][i], x)'
      BY <1>2, <1>10, <2>4, <3>2, PointersStay
    <3> QED BY <3>1, <3>3 DEF Links
  <2>5. /\ \A h \in MayNeedFixingUp : Done(h, 1, n)' \subseteq Done(h, 1, n)
        /\ \A h \in MayNeedFixingUp : \A o \in Done(h, 2, n)' :
             o \in Done(h, 2, n) \/ (n = 2 /\ o = v)
        /\ \A h \in MayNeedFixingUp : Done(h, 3, n)' \subseteq Done(h, 3, n)
        /\ \A h \in MayNeedFixingUp : \A o \in Done(h, 4, n)' :
             o \in Done(h, 4, n) \/ (n = 4 /\ o = v)
    BY <1>4, <2>1, Registering
  <2>6. \A o \in Objects : forwarding'[o] = null => forwarding[o] = null
    BY <1>3
  <2>7. /\ \A h \in MayNeedFixingUp : \A o \in Done(h, 2, n)' :
             o \in Done(h, 2, n) \/ \A i \in 1 .. Len(Fields[o]) :
               Fields[o][i] \in Are("symbol") => Interns(Fields[o][i], fields[o][i])'
        /\ \A h \in MayNeedFixingUp : \A o \in Done(h, 4, n)' :
             o \in Done(h, 4, n) \/ \A i \in 1 .. Len(Fields[o]) :
               Fields[o][i] \in Are("global") /\ ~IsValue(o, i)
                 => Links(Fields[o][i], fields[o][i])'
    BY <2>3, <2>4, <2>5
  <2> QED BY <1>1, <1>2, <1>10, <2>2, <2>5, <2>6, <2>7, LinkingStays DEF At
<1>15. heap' = heap /\ passes' = passes
  BY <1>3 DEF Visiting
<1> QED BY <1>1, <1>10, <1>11, <1>12, <1>13, <1>14, <1>15 DEF IInv, At

-----------------------------------------------------------------------------
(***************************************************************************)
(* The registration of a class.                                            *)
(***************************************************************************)
\* The list of a class: its name, then its class variables.
LEMMA ListProps ==
  ASSUME IInv, NEW h \in Heaps, NEW list \in ToSet(Classes[h])
  PROVE  /\ list \in ToSet(Contents[h]) /\ list \in Are("other")
         /\ 1 \in 1 .. Len(Fields[list]) /\ Fields[list][1] \in Are("symbol")
         /\ ClassVariables(list) \subseteq Are("classVariable") \union {nil}
<1>1. list \in ToSet(Contents[h])
  BY HeapsAssumption
<1>2. list \in Objects
  BY <1>1, FieldProps
<1>3. list \in Are("other")
  <2> DEFINE S == Are("other")
  <2>1. Classes[h] \in Seq(S)
    BY HeapsAssumption
  <2> HIDE DEF S
  <2>2. list \in S
    BY <2>1 DEF ToSet
  <2> QED BY <2>2 DEF S
<1>4. /\ Len(Fields[list]) > 0 /\ Fields[list][1] \in Are("symbol")
      /\ \A i \in 2 .. Len(Fields[list]) : Fields[list][i] \in Are("classVariable")
  BY FieldsAssumption
<1>5. fields[list] \in Seq(Values) /\ Len(fields[list]) = Len(Fields[list]) /\ Len(Fields[list]) \in Nat
  BY <1>2, FieldProps DEF IInv, FieldsKept
<1>6. ASSUME NEW i \in 2 .. Len(Fields[list])
      PROVE  fields[list][i] \in Are("classVariable") \union {nil}
  <2>1. Pointer(Fields[list][i], fields[list][i])
    BY <1>2, <1>3, Kinds DEF IInv, FieldsKept, IsValue
  <2> QED BY <1>4, <2>1 DEF Pointer
<1>7. ASSUME NEW x \in ClassVariables(list) PROVE x \in Are("classVariable") \union {nil}
  <2>1. fields[list] # <<>>
    BY <1>4, <1>5
  <2>2. PICK i \in DOMAIN Tail(fields[list]) : x = Tail(fields[list])[i]
    BY DEF ClassVariables, ToSet
  <2>3. i \in 1 .. Len(fields[list]) - 1 /\ Tail(fields[list])[i] = fields[list][i + 1]
    BY <1>5, <2>1, <2>2
  <2>4. i + 1 \in 2 .. Len(Fields[list])
    BY <1>5, <2>3
  <2> QED BY <1>6, <2>2, <2>3, <2>4
<1> QED BY <1>1, <1>3, <1>4, <1>5, <1>7

\* A class's variables have their values taken from them before it is made.
LEMMA MadeProps ==
  ASSUME IInv, NEW h \in Heaps, NEW list \in ToSet(Classes[h])
  PROVE  LET made == [o \in DOMAIN fields |->
                        IF o \in ClassVariables(list) THEN <<fields[o][1], nil>> ELSE fields[o]]
         IN  /\ \A o \in Objects \union Made : o \in ClassVariables(list) =>
                  o \in Are("classVariable") /\ Len(fields[o]) = 2 /\ fields[o][1] \in Values
             /\ made \in [Objects \union Made -> Seq(Values)]
             /\ \A o \in Objects \union Made : Len(made[o]) = Len(fields[o])
             /\ \A o \in Objects \union Made : o \notin ClassVariables(list) => made[o] = fields[o]
             /\ \A o \in Objects \union Made : o \in ClassVariables(list) =>
                  made[o] = <<fields[o][1], nil>>
<1> DEFINE made == [o \in DOMAIN fields |->
                      IF o \in ClassVariables(list) THEN <<fields[o][1], nil>> ELSE fields[o]]
<1>1. nil \in Values
  BY DEF Values
<1>2. /\ fields \in [Objects \union Made -> Seq(Values)] /\ \A o \in Made : Len(fields[o]) = 2
      /\ \A o \in Objects : Len(fields[o]) = Len(Fields[o])
  BY DEF IInv, FieldsKept
<1>3. \A o \in Objects \union Made : o \in ClassVariables(list) =>
        o \in Are("classVariable") /\ Len(fields[o]) = 2 /\ fields[o][1] \in Values
  <2>1. ASSUME NEW o \in Objects \union Made, o \in ClassVariables(list)
        PROVE  o \in Are("classVariable") /\ Len(fields[o]) = 2 /\ fields[o][1] \in Values
    <3>1. o # nil
      BY Apart DEF Made
    <3>2. o \in Are("classVariable")
      BY <2>1, <3>1, ListProps
    <3>3. Len(fields[o]) = 2 /\ fields[o] \in Seq(Values)
      BY <1>2, <3>2, VariableProps, Kinds
    <3> QED BY <3>2, <3>3
  <2> QED BY <2>1
<1>4. /\ made \in [Objects \union Made -> Seq(Values)]
      /\ \A o \in Objects \union Made : Len(made[o]) = Len(fields[o])
      /\ \A o \in Objects \union Made : o \notin ClassVariables(list) => made[o] = fields[o]
      /\ \A o \in Objects \union Made : o \in ClassVariables(list) =>
           made[o] = <<fields[o][1], nil>>
  <2>1. \A x \in Values : <<x, nil>> \in Seq(Values) /\ Len(<<x, nil>>) = 2
    BY <1>1
  <2>2. DOMAIN fields = Objects \union Made
    BY <1>2
  <2>3. ASSUME NEW o \in Objects \union Made, o \in ClassVariables(list)
        PROVE  /\ made[o] = <<fields[o][1], nil>>
               /\ made[o] \in Seq(Values) /\ Len(made[o]) = Len(fields[o])
    BY <1>3, <2>1, <2>2, <2>3
  <2>4. ASSUME NEW o \in Objects \union Made, o \notin ClassVariables(list)
        PROVE  made[o] = fields[o] /\ fields[o] \in Seq(Values)
    BY <1>2, <2>2, <2>4
  <2>5. made = [o \in Objects \union Made |-> made[o]]
    BY <2>2
  <2> HIDE DEF made
  <2> QED BY <2>3, <2>4, <2>5
<1> QED BY <1>3, <1>4

\* What registering a class does to the memory and the names.
LEMMA RegisterClassProps ==
  ASSUME IInv, NEW h \in Heaps, NEW list \in ToSet(Classes[h]), NEW key \in Symbols,
         symbols[Text(key)] = key,
         GlobalsAtPut(key, Class(Text(key)),
           [o \in DOMAIN fields |->
              IF o \in ClassVariables(list) THEN <<fields[o][1], nil>> ELSE fields[o]])
  PROVE  /\ globals' \in [Symbols -> Associations \union {null}]
         /\ \A s \in Symbols : globals'[s] = IF s = key /\ globals[s] = null
                                             THEN Association(Text(key)) ELSE globals[s]
         /\ fields' \in [Objects \union Made -> Seq(Values)]
         /\ \A o \in Made : Len(fields'[o]) = 2
         /\ \A o \in Objects : Len(fields'[o]) = Len(fields[o])
         /\ \A o \in Objects : \A i \in 1 .. Len(Fields[o]) :
              \/ fields'[o][i] = fields[o][i]
              \/ IsValue(o, i) /\ Value(o, fields'[o][i])
         /\ \A s \in Symbols : globals'[s] # null => fields'[globals'[s]][1] = s
<1> DEFINE t == Text(key)
           b == Association(t)
           a == globals[key]
           made == [o \in DOMAIN fields |->
                      IF o \in ClassVariables(list) THEN <<fields[o][1], nil>> ELSE fields[o]]
<1>1. t \in Texts /\ b \in Associations /\ b \in Made /\ b \notin Objects /\ Class(t) \in Values
      /\ b # null /\ nil \in Values /\ key \in Values /\ Class(t) \in ClassObjects
  BY TextProps, Constants, Apart DEF Made, Values, ClassObjects, Associations
<1>2. /\ fields \in [Objects \union Made -> Seq(Values)] /\ \A o \in Made : Len(fields[o]) = 2
      /\ \A o \in Objects : Len(fields[o]) = Len(Fields[o])
  BY DEF IInv, FieldsKept
<1>3. \A o \in Objects \union Made : o \in ClassVariables(list) =>
        o \in Are("classVariable") /\ Len(fields[o]) = 2 /\ fields[o][1] \in Values
  BY MadeProps
<1>4. /\ made \in [Objects \union Made -> Seq(Values)]
      /\ \A o \in Objects \union Made : Len(made[o]) = Len(fields[o])
      /\ \A o \in Objects \union Made : o \notin ClassVariables(list) => made[o] = fields[o]
      /\ \A o \in Objects \union Made : o \in ClassVariables(list) =>
           made[o] = <<fields[o][1], nil>>
  BY MadeProps
<1>5. \A o \in Objects : \A i \in 1 .. Len(Fields[o]) :
        \/ made[o][i] = fields[o][i]
        \/ IsValue(o, i) /\ Value(o, made[o][i])
  <2>1. ASSUME NEW o \in Objects, NEW i \in 1 .. Len(Fields[o]), made[o][i] # fields[o][i]
        PROVE  IsValue(o, i) /\ Value(o, made[o][i])
    <3>1. o \in ClassVariables(list)
      BY <1>4, <2>1
    <3>2. o \in Are("classVariable") /\ Len(Fields[o]) = 2 /\ made[o] = <<fields[o][1], nil>>
      BY <1>3, <1>4, <3>1, VariableProps
    <3>3. i = 2 /\ made[o][i] = nil
      BY <2>1, <3>2
    <3> QED BY <3>2, <3>3, Kinds DEF IsValue, Value
  <2> QED BY <2>1
<1>6. \A o \in Objects \union Made : Len(fields[o]) = 2 => made[o][1] = fields[o][1]
  BY <1>3, <1>4
<1>7. \A s \in Symbols : globals[s] # null =>
        /\ symbols[Text(s)] = s /\ fields[globals[s]][1] = s
        /\ globals[s] \in Are("global") \union {Association(Text(s))}
        /\ globals[s] \in Objects \union Made /\ Len(fields[globals[s]]) = 2
  <2>1. ASSUME NEW s \in Symbols, globals[s] # null
        PROVE  /\ symbols[Text(s)] = s /\ fields[globals[s]][1] = s
               /\ globals[s] \in Are("global") \union {Association(Text(s))}
               /\ globals[s] \in Objects \union Made /\ Len(fields[globals[s]]) = 2
    <3>1. /\ symbols[Text(s)] = s /\ fields[globals[s]][1] = s
          /\ globals[s] \in Are("global") \union {Association(Text(s))}
      BY <2>1 DEF IInv, NamesKept
    <3>2. CASE globals[s] \in Are("global")
      BY <1>2, <3>1, <3>2, VariableProps, Kinds
    <3>3. CASE globals[s] = Association(Text(s))
      BY <1>2, <3>1, <3>3, TextProps DEF Made
    <3> QED BY <3>1, <3>2, <3>3
  <2> QED BY <2>1
<1>8. globals \in [Symbols -> Associations \union {null}]
  BY DEF IInv, NamesKept
<1> HIDE DEF made
<1>9. CASE a = null
  <2>1. globals' = [globals EXCEPT ![key] = b] /\ fields' = [made EXCEPT ![b] = <<key, Class(t)>>]
    BY <1>9 DEF GlobalsAtPut, made
  <2> HIDE DEF b, t
  <2>2. /\ globals' \in [Symbols -> Associations \union {null}]
        /\ \A s \in Symbols : globals'[s] = IF s = key THEN b ELSE globals[s]
    BY <1>1, <1>8, <2>1
  <2>3. <<key, Class(t)>> \in Seq(Values) /\ Len(<<key, Class(t)>>) = 2 /\ <<key, Class(t)>>[1] = key
    BY <1>1
  <2>4. /\ fields' \in [Objects \union Made -> Seq(Values)]
        /\ \A o \in Objects \union Made :
             fields'[o] = IF o = b THEN <<key, Class(t)>> ELSE made[o]
    BY <1>1, <1>4, <2>1, <2>3
  <2>5. \A o \in Made : Len(fields'[o]) = 2
    BY <1>2, <1>4, <2>3, <2>4
  <2>6. \A o \in Objects : fields'[o] = made[o]
    BY <1>1, <2>4
  <2>7. ASSUME NEW s \in Symbols, globals'[s] # null PROVE fields'[globals'[s]][1] = s
    <3>1. CASE s = key
      BY <1>1, <2>2, <2>3, <2>4, <3>1
    <3>2. CASE s # key
      <4>1. globals'[s] = globals[s]
        BY <2>2, <3>2
      <4>2. globals[s] # b
        <5>1. SUFFICES ASSUME globals[s] = b PROVE FALSE
          OBVIOUS
        <5>2. b = Association(Text(s))
          BY <1>1, <1>7, <2>7, <4>1, <5>1, Kinds
        <5>3. Text(s) = t
          BY <1>1, <5>2, Apart, TextProps DEF b
        <5> QED BY <1>7, <2>7, <3>2, <4>1, <5>3 DEF t
      <4>3. fields'[globals[s]] = made[globals[s]]
        BY <1>7, <2>4, <2>7, <4>1, <4>2
      <4> QED BY <1>6, <1>7, <2>7, <4>1, <4>3
    <3> QED BY <3>1, <3>2
  <2> QED BY <1>4, <1>5, <1>9, <2>2, <2>4, <2>5, <2>6, <2>7 DEF b, t
<1>10. CASE a # null
  <2>1. globals' = globals /\ fields' = [made EXCEPT ![a][2] = Class(t)]
    BY <1>10 DEF GlobalsAtPut, made
  <2>2. a \in Objects \union Made /\ a \in Are("global") \union {b} /\ Len(fields[a]) = 2
    BY <1>7, <1>10
  <2>3. made[a] \in Seq(Values) /\ Len(made[a]) = 2
    BY <1>4, <2>2
  <2> DEFINE new == [made[a] EXCEPT ![2] = Class(t)]
  <2>4. fields' = [made EXCEPT ![a] = new]
    BY <2>1
  <2>5. new \in Seq(Values) /\ Len(new) = 2 /\ new[1] = made[a][1] /\ new[2] = Class(t)
    BY <1>1, <2>3, ExceptSeq
  <2> HIDE DEF new
  <2>6. /\ fields' \in [Objects \union Made -> Seq(Values)]
        /\ \A o \in Objects \union Made : fields'[o] = IF o = a THEN new ELSE made[o]
    BY <1>4, <2>2, <2>4, <2>5
  <2>7. \A o \in Objects \union Made : Len(fields'[o]) = Len(fields[o])
    BY <1>4, <2>2, <2>5, <2>6
  <2>8. ASSUME NEW o \in Objects, NEW i \in 1 .. Len(Fields[o])
        PROVE  \/ fields'[o][i] = fields[o][i]
               \/ IsValue(o, i) /\ Value(o, fields'[o][i])
    <3>1. CASE o # a
      BY <1>5, <2>6, <3>1
    <3>2. CASE o = a
      <4>1. o \in Are("global") /\ Len(Fields[o]) = 2
        BY <1>1, <2>2, <3>2, VariableProps
      <4>2. CASE i = 2
        BY <1>1, <2>5, <2>6, <3>2, <4>1, <4>2, Kinds DEF IsValue, Value
      <4>3. CASE i = 1
        BY <1>6, <2>2, <2>5, <2>6, <3>2, <4>3
      <4> QED BY <4>1, <4>2, <4>3
    <3> QED BY <3>1, <3>2
  <2>9. ASSUME NEW s \in Symbols, globals'[s] # null PROVE fields'[globals'[s]][1] = s
    <3>1. globals[s] # null
      BY <2>1, <2>9
    <3>2. fields'[globals[s]][1] = made[globals[s]][1]
      BY <1>7, <2>5, <2>6, <3>1
    <3> QED BY <1>6, <1>7, <2>1, <3>1, <3>2
  <2>10. \A s \in Symbols : globals'[s] = IF s = key /\ globals[s] = null THEN b ELSE globals[s]
    BY <1>10, <2>1
  <2> QED BY <1>2, <1>8, <2>1, <2>6, <2>7, <2>8, <2>9, <2>10
<1> QED BY <1>9, <1>10

LEMMA RegisterClassKeeps ==
  ASSUME IInv, status = "running", RegisterClass
  PROVE  IInv'
<1>1. PICK n \in Stages(heap) : At(n)
  BY DEF IInv
<1>2. NamesKept /\ FieldsKept /\ ForwardingKept
  BY DEF IInv
<1>3. /\ passes # <<>> /\ Head(passes) = "register" /\ object <= Len(Classes[heap])
      /\ object' = object + 1
      /\ UNCHANGED <<registry, flags, forwarding, bigFlag, cursor, heap, passes, status>>
  BY DEF RegisterClass
<1>4. n = 5 /\ heap \in Heaps /\ heap \in MayNeedFixingUp
  <2>1. n # 9 /\ PassOf(n) = "register"
    BY <1>1, <1>3, StageProps DEF At
  <2>2. n = 5
    BY <2>1 DEF PassOf, Stages
  <2> QED BY <2>2, Registering DEF Stages
<1> DEFINE list == Classes[heap][object]
           key == fields[list][1]
<1>5. list \in ToSet(Classes[heap])
  <2>1. Classes[heap] \in Seq(Are("other"))
    BY <1>4, HeapsAssumption
  <2>2. object \in Nat \ {0}
    BY <1>1 DEF At, Registry
  <2> QED BY <1>3, <2>1, <2>2 DEF ToSet
<1>6. key \in Symbols /\ symbols[Text(key)] = key
  <2>1. list \in ToSet(Contents[heap]) /\ Fields[list][1] \in Are("symbol")
        /\ 1 \in 1 .. Len(Fields[list])
    BY <1>4, <1>5, ListProps
  <2>2. list \in Done(heap, 2, n)
    BY <1>4, <2>1 DEF Done
  <2>3. Interns(Fields[list][1], key)
    BY <1>1, <1>4, <2>1, <2>2 DEF At, Linking
  <2> QED BY <1>2, <2>1, <2>3, InternedProps DEF Interns, Interned
<1>7. Registry(n)' /\ passes' = Left(heap', n) /\ n \in Stages(heap')
  BY <1>1, <1>3, <1>4 DEF At, Registry, registry, flags
<1>8. \A h \in MayNeedFixingUp : \A k \in 1 .. 4 : Done(h, k, n)' \subseteq Done(h, k, n)
  BY <1>3, <1>4 DEF Done, flags
<1>9. CASE globals[key] # null /\ fields[globals[key]][2] # nil
  <2>1. UNCHANGED <<fields, names>>
    BY <1>9 DEF RegisterClass
  <2>2. UNCHANGED <<memory, names>>
    BY <1>3, <2>1 DEF memory
  <2> QED BY <1>1, <1>2, <1>7, <1>8, <2>2, QuietKeeps DEF At
<1>10. CASE ~(globals[key] # null /\ fields[globals[key]][2] # nil)
  <2>1. /\ GlobalsAtPut(key, Class(Text(key)),
             [o \in DOMAIN fields |->
                IF o \in ClassVariables(list) THEN <<fields[o][1], nil>> ELSE fields[o]])
        /\ classPool' = [classPool EXCEPT ![Class(Text(key))] = PoolOf(list)]
        /\ UNCHANGED symbols
    BY <1>10 DEF RegisterClass
  <2>2. /\ globals' \in [Symbols -> Associations \union {null}]
        /\ \A s \in Symbols : globals'[s] = IF s = key /\ globals[s] = null
                                            THEN Association(Text(key)) ELSE globals[s]
        /\ fields' \in [Objects \union Made -> Seq(Values)]
        /\ \A o \in Made : Len(fields'[o]) = 2
        /\ \A o \in Objects : Len(fields'[o]) = Len(fields[o])
        /\ \A o \in Objects : \A i \in 1 .. Len(Fields[o]) :
             \/ fields'[o][i] = fields[o][i]
             \/ IsValue(o, i) /\ Value(o, fields'[o][i])
        /\ \A s \in Symbols : globals'[s] # null => fields'[globals'[s]][1] = s
    BY <1>4, <1>5, <1>6, <2>1, RegisterClassProps
  <2> HIDE DEF list, key
  <2>3. Growing
    BY <2>1, <2>2 DEF Growing
  <2>4. classPool' \in [ClassObjects -> [Texts -> Are("classVariable") \union {nil}]]
    <3>1. classPool \in [ClassObjects -> [Texts -> Are("classVariable") \union {nil}]]
      BY <1>2 DEF NamesKept
    <3>2. PoolOf(list) \in [Texts -> Are("classVariable") \union {nil}]
      <4> DEFINE named(u) == {v \in ClassVariables(list) : Text(fields[v][1]) = u}
      <4>1. ClassVariables(list) \subseteq Are("classVariable") \union {nil}
        BY <1>4, <1>5, ListProps
      <4>2. \A u \in Texts : named(u) # {} => (CHOOSE v \in named(u) : TRUE) \in named(u)
        OBVIOUS
      <4>3. \A u \in Texts : named(u) # {} =>
              (CHOOSE v \in named(u) : TRUE) \in Are("classVariable") \union {nil}
        BY <4>1, <4>2
      <4> QED BY <4>3 DEF PoolOf
    <3>3. Class(Text(key)) \in ClassObjects
      BY <1>6, TextProps DEF ClassObjects
    <3> QED BY <2>1, <3>1, <3>2, <3>3
  <2>5. NamesKept'
    <3>1. ASSUME NEW s \in Symbols, globals'[s] # null
          PROVE  /\ symbols[Text(s)] = s
                 /\ globals'[s] \in Are("global") \union {Association(Text(s))}
                 /\ fields'[globals'[s]][1] = s
      BY <1>2, <1>6, <2>2, <3>1 DEF NamesKept
    <3> QED BY <1>2, <2>1, <2>2, <2>4, <3>1 DEF NamesKept, Text
  <2>6. FieldsKept'
    <3>1. ASSUME NEW o \in Objects, NEW i \in 1 .. Len(Fields[o])
          PROVE  IF IsValue(o, i) THEN Value(o, fields[o][i])'
                                  ELSE Pointer(Fields[o][i], fields[o][i])'
      <4>1. PICK x : x = fields'[o][i]
        OBVIOUS
      <4>2. IF IsValue(o, i) THEN Value(o, x) ELSE Pointer(Fields[o][i], x)
        BY <1>2, <2>2, <4>1 DEF FieldsKept
      <4>3. IF IsValue(o, i) THEN Value(o, x)' ELSE Pointer(Fields[o][i], x)'
        BY <1>2, <2>3, <4>2, PointersStay
      <4> QED BY <4>1, <4>3 DEF Value, Pointer, Interns, Links
    <3>2. \A o \in Objects : \A i \in 1 .. Len(Fields[o]) :
            IF IsValue(o, i) THEN Value(o, fields[o][i])' ELSE Pointer(Fields[o][i], fields[o][i])'
      BY <3>1
    <3> QED BY <1>2, <2>2, <3>2 DEF FieldsKept
  <2>7. ForwardingKept'
    BY <1>2, <1>3, <2>3, ForwardingStays
  <2>8. Linking(n)'
    <3>1. \A h \in MayNeedFixingUp : /\ Done(h, 1, n)' \subseteq Done(h, 1, n)
                                     /\ Done(h, 2, n)' \subseteq Done(h, 2, n)
                                     /\ Done(h, 3, n)' \subseteq Done(h, 3, n)
                                     /\ Done(h, 4, n)' \subseteq Done(h, 4, n)
      BY <1>8
    <3>2. \A o \in Objects : forwarding'[o] = null => forwarding[o] = null
      BY <1>3
    <3> QED BY <1>1, <1>2, <2>2, <2>3, <3>1, <3>2, LinkingStays DEF At
  <2> QED BY <1>7, <2>5, <2>6, <2>7, <2>8 DEF IInv, At
<1> QED BY <1>9, <1>10

-----------------------------------------------------------------------------
(***************************************************************************)
(* The calls, and the heaps one after the other.                           *)
(***************************************************************************)
\* The work on a heap begins, or it has been initialized.
LEMMA BeginProps ==
  ASSUME NEW h \in Heaps \union {compactingHeap}, kernelInitialized, compactingHeap \in initialized,
         InitStaticHeap(h), UNCHANGED initialized
  PROVE  /\ heap' = h /\ object' = 1
         /\ \/ h \in initialized /\ passes' = Left(h, 9) /\ 9 \in Stages(h)
            \/ h \in Heaps \ initialized /\ passes' = Left(h, 1) /\ 1 \in Stages(h)
            \/ /\ h \in Heaps \ initialized /\ passes' = Left(h, 8) /\ 8 \in Stages(h)
               /\ h \notin MayNeedFixingUp
<1>1. heap' = h /\ object' = 1 /\ passes' = Passes(h)
  BY DEF InitStaticHeap
<1>2. CASE h \in initialized
  <2>1. Passes(h) = <<>> /\ Left(h, 9) = <<>> /\ 9 \in Stages(h)
    BY <1>2 DEF Passes, Left, Stages
  <2> QED BY <1>1, <1>2, <2>1
<1>3. CASE h \notin initialized
  <2>1. h \in Heaps
    BY <1>3
  <2> QED BY <1>1, <1>3, <2>1, PassesProps
<1> QED BY <1>2, <1>3

\* Adding to an injective sequence what is not in it.
LEMMA AppendProps ==
  ASSUME NEW S, NEW q \in Seq(S), IsInjective(q), NEW x \in S, x \notin ToSet(q)
  PROVE  /\ Append(q, x) \in Seq(S) /\ IsInjective(Append(q, x))
         /\ Len(Append(q, x)) = Len(q) + 1
         /\ \A i \in DOMAIN Append(q, x) :
              \/ i \in DOMAIN q /\ Append(q, x)[i] = q[i]
              \/ i = Len(q) + 1 /\ Append(q, x)[i] = x
<1> DEFINE r == Append(q, x)
<1>1. /\ r \in Seq(S) /\ Len(r) = Len(q) + 1 /\ DOMAIN r = 1 .. Len(q) + 1
      /\ \A i \in 1 .. Len(q) : r[i] = q[i]
      /\ r[Len(q) + 1] = x /\ DOMAIN q = 1 .. Len(q) /\ Len(q) \in Nat
  OBVIOUS
<1>2. \A i \in 1 .. Len(q) : q[i] # x
  BY <1>1 DEF ToSet
<1> HIDE DEF r
<1>3. IsInjective(r)
  BY <1>1, <1>2 DEF IsInjective
<1> QED BY <1>1, <1>3 DEF r

\* Taking an element out of an injective sequence.
LEMMA RemoveAtProps ==
  ASSUME NEW S, NEW q \in Seq(S), IsInjective(q), NEW i \in DOMAIN q
  PROVE  /\ RemoveAt(q, i) \in Seq(S) /\ IsInjective(RemoveAt(q, i))
         /\ Len(RemoveAt(q, i)) \in Nat
         /\ \A j \in DOMAIN RemoveAt(q, i) : \E k \in DOMAIN q : RemoveAt(q, i)[j] = q[k]
<1> DEFINE l == SubSeq(q, 1, i - 1)
           u == SubSeq(q, i + 1, Len(q))
           r == l \o u
<1>1. DOMAIN q = 1 .. Len(q) /\ Len(q) \in Nat /\ i \in 1 .. Len(q)
  OBVIOUS
<1>2. l \in Seq(S) /\ Len(l) = i - 1 /\ \A j \in 1 .. i - 1 : l[j] = q[j]
  BY <1>1
<1>3. u \in Seq(S) /\ Len(u) = Len(q) - i /\ \A j \in 1 .. Len(q) - i : u[j] = q[i + j]
  BY <1>1
<1> HIDE DEF l, u
<1>4. /\ r \in Seq(S) /\ Len(r) = Len(q) - 1
      /\ \A j \in 1 .. Len(q) - 1 : r[j] = IF j <= i - 1 THEN l[j] ELSE u[j - (i - 1)]
  <2>1. Len(l) + Len(u) = Len(q) - 1
    BY <1>1, <1>2, <1>3
  <2>2. /\ r \in Seq(S) /\ Len(r) = Len(l) + Len(u)
        /\ \A j \in 1 .. Len(l) + Len(u) : r[j] = IF j <= Len(l) THEN l[j] ELSE u[j - Len(l)]
    BY <1>2, <1>3, ConcatProperties
  <2> HIDE DEF r
  <2> QED BY <1>2, <2>1, <2>2
<1>5. ASSUME NEW j \in 1 .. Len(q) - 1
      PROVE  r[j] = q[IF j < i THEN j ELSE j + 1]
  <2>1. CASE j < i
    <3>1. j \in 1 .. i - 1 /\ j <= i - 1
      BY <1>1, <2>1
    <3> QED BY <1>2, <1>4, <2>1, <3>1
  <2>2. CASE ~(j < i)
    <3>1. j - (i - 1) \in 1 .. Len(q) - i /\ ~(j <= i - 1) /\ i + (j - (i - 1)) = j + 1
      BY <1>1, <2>2
    <3> QED BY <1>3, <1>4, <2>2, <3>1
  <2> QED BY <2>1, <2>2
<1> HIDE DEF r
<1>6. DOMAIN r = 1 .. Len(q) - 1 /\ Len(r) \in Nat
  BY <1>1, <1>4
<1>7. \A j \in 1 .. Len(q) - 1 : (IF j < i THEN j ELSE j + 1) \in 1 .. Len(q)
  BY <1>1
<1>8. IsInjective(r)
  <2> SUFFICES ASSUME NEW j \in 1 .. Len(q) - 1, NEW k \in 1 .. Len(q) - 1, r[j] = r[k]
               PROVE  j = k
    BY <1>6 DEF IsInjective
  <2>1. (IF j < i THEN j ELSE j + 1) = (IF k < i THEN k ELSE k + 1)
    BY <1>1, <1>5, <1>7 DEF IsInjective
  <2> QED BY <1>1, <2>1
<1>9. r = RemoveAt(q, i)
  BY DEF RemoveAt, r, l, u
<1>10. \A j \in DOMAIN r : \E k \in DOMAIN q : r[j] = q[k]
  BY <1>1, <1>5, <1>6, <1>7
<1> QED BY <1>4, <1>6, <1>8, <1>9, <1>10

\* Between calls no pass is left.
LEMMA IdleStage ==
  ASSUME NEW n \in Stages(heap), At(n), passes = <<>>
  PROVE  n = 9
BY StageProps DEF At

\* A heap whose work begins: no pass has been at any of its objects.
LEMMA BeginKeeps ==
  ASSUME IInv, passes = <<>>, kernelInitialized, NEW h \in Heaps \union {compactingHeap},
         InitStaticHeap(h),
         UNCHANGED <<kernelInitialized, flags, memory, names, status>>,
         staticHeaps' \in Seq(Heaps \union {compactingHeap}), IsInjective(staticHeaps'),
         cursor' \in 0 .. Len(staticHeaps') + 1,
         \A i \in DOMAIN staticHeaps' : cursor' = 0 \/ i < cursor' =>
           \/ i \in DOMAIN staticHeaps /\ staticHeaps'[i] = staticHeaps[i]
                /\ (cursor = 0 \/ i < cursor)
           \/ staticHeaps'[i] = h
  PROVE  IInv'
<1>1. PICK n \in Stages(heap) : At(n)
  BY DEF IInv
<1>2. NamesKept /\ FieldsKept /\ ForwardingKept
  BY DEF IInv
<1>3. n = 9 /\ Registry(9) /\ Linking(9)
  BY <1>1, IdleStage DEF At
<1>4. compactingHeap \in initialized /\ UNCHANGED <<initialized, registrations>>
  BY <1>3 DEF Registry, flags
<1>5. /\ heap' = h /\ object' = 1
      /\ \/ h \in initialized /\ passes' = Left(h, 9) /\ 9 \in Stages(h)
         \/ h \in Heaps \ initialized /\ passes' = Left(h, 1) /\ 1 \in Stages(h)
         \/ /\ h \in Heaps \ initialized /\ passes' = Left(h, 8) /\ 8 \in Stages(h)
            /\ h \notin MayNeedFixingUp
  BY <1>4, BeginProps
<1>6. ASSUME NEW m \in {1, 8, 9}, m # 9 <=> h \in Heaps \ initialized,
             m = 8 => h \notin MayNeedFixingUp
      PROVE  Registry(m)'
  <2>1. \A i \in DOMAIN staticHeaps' : cursor' = 0 \/ i < cursor' =>
          staticHeaps'[i] \in initialized \/ (m # 9 /\ staticHeaps'[i] = h)
    <3>1. \A i \in DOMAIN staticHeaps : cursor = 0 \/ i < cursor => staticHeaps[i] \in initialized
      BY <1>3 DEF Registry
    <3>2. h \in initialized \/ m # 9
      BY <1>4, <1>6
    <3> QED BY <3>1, <3>2
  <2>2. registrations' =
          [g \in Heaps |-> IF /\ g \in HasPackageRegistration
                              /\ g \in initialized \/ (m # 9 /\ g = h /\ m > 5)
                           THEN 1 ELSE 0]
    <3>1. \A g \in HasPackageRegistration : ~(m # 9 /\ g = h /\ m > 5)
      BY <1>6, Registering
    <3> QED BY <1>3, <1>4, <3>1 DEF Registry
  <2> QED BY <1>3, <1>4, <1>5, <1>6, <2>1, <2>2 DEF Registry, memory
<1>7. ASSUME NEW m \in {1, 8, 9}, m = 9 \/ h \notin initialized, m = 8 => h \notin MayNeedFixingUp
      PROVE  \A g \in MayNeedFixingUp : \A k \in 1 .. 4 : Done(g, k, m)' \subseteq Done(g, k, 9)
  <2> SUFFICES ASSUME NEW g \in MayNeedFixingUp, NEW k \in 1 .. 4, NEW o \in Done(g, k, m)',
                      g \notin initialized
               PROVE  FALSE
    BY <1>4 DEF Done
  <2>1. g = h /\ m = 1 /\ k = 1
    BY <1>4, <1>5, <1>7 DEF Done
  <2>2. PICK i \in DOMAIN Contents[g] : i < 1
    BY <1>4, <1>5, <2>1 DEF Done
  <2>3. Contents[g] \in Seq(Objects)
    BY HeapsAssumption
  <2> QED BY <2>2, <2>3
<1>8. CASE h \in initialized
  <2>1. Registry(9)' /\ (\A g \in MayNeedFixingUp : \A k \in 1 .. 4 : Done(g, k, 9)' \subseteq Done(g, k, 9))
    BY <1>6, <1>7, <1>8
  <2> QED BY <1>2, <1>3, <1>5, <1>8, <2>1, QuietKeeps
<1>9. CASE h \in Heaps \ initialized /\ passes' = Left(h, 1) /\ 1 \in Stages(h)
  <2>1. Registry(1)' /\ (\A g \in MayNeedFixingUp : \A k \in 1 .. 4 : Done(g, k, 1)' \subseteq Done(g, k, 9))
    BY <1>6, <1>7, <1>9
  <2> QED BY <1>2, <1>3, <1>5, <1>9, <2>1, QuietKeeps
<1>10. CASE /\ h \in Heaps \ initialized /\ passes' = Left(h, 8) /\ 8 \in Stages(h)
            /\ h \notin MayNeedFixingUp
  <2>1. Registry(8)' /\ (\A g \in MayNeedFixingUp : \A k \in 1 .. 4 : Done(g, k, 8)' \subseteq Done(g, k, 9))
    BY <1>6, <1>7, <1>10
  <2> QED BY <1>2, <1>3, <1>5, <1>10, <2>1, QuietKeeps
<1> QED BY <1>5, <1>8, <1>9, <1>10

LEMMA RegisterStaticHeapKeeps ==
  ASSUME IInv, Idle, NEW h \in Heaps, RegisterStaticHeap(h)
  PROVE  IInv'
<1>1. PICK n \in Stages(heap) : At(n)
  BY DEF IInv
<1>2. n = 9 /\ Registry(9) /\ Linking(9) /\ passes = Left(heap, 9)
  BY <1>1, IdleStage DEF At, Idle
<1>3. /\ staticHeaps' = Append(staticHeaps, h) /\ h \notin ToSet(staticHeaps)
      /\ UNCHANGED <<kernelInitialized, flags, memory, names, cursor, status>> /\ cursor = 0
  BY DEF RegisterStaticHeap, Idle
<1> DEFINE S == Heaps \union {compactingHeap}
<1>4. /\ staticHeaps' \in Seq(S) /\ IsInjective(staticHeaps') /\ Len(staticHeaps') \in Nat
      /\ \A i \in DOMAIN staticHeaps' :
           \/ i \in DOMAIN staticHeaps /\ staticHeaps'[i] = staticHeaps[i]
           \/ staticHeaps'[i] = h
  <2>1. staticHeaps \in Seq(S) /\ IsInjective(staticHeaps) /\ h \in S
    BY <1>2 DEF Registry
  <2> HIDE DEF S
  <2> QED BY <1>3, <2>1, AppendProps
<1>5. CASE kernelInitialized
  <2>1. InitStaticHeap(h)
    BY <1>5 DEF RegisterStaticHeap
  <2> QED BY <1>3, <1>4, <1>5, <2>1, BeginKeeps DEF Idle
<1>6. CASE ~kernelInitialized
  <2>1. UNCHANGED work
    BY <1>6 DEF RegisterStaticHeap
  <2>2. Registry(9)'
    <3>1. compactingHeap # h
      BY HeapsAssumption
    <3>2. Untouched'
      BY <1>2, <1>3, <1>4, <1>6, <3>1 DEF Registry, Untouched, flags, memory, names
    <3> QED BY <1>2, <1>3, <1>4, <1>6, <2>1, <3>2 DEF Registry, flags, memory, work
  <2>3. \A g \in MayNeedFixingUp : \A k \in 1 .. 4 : Done(g, k, 9)' \subseteq Done(g, k, 9)
    BY <1>3 DEF Done, flags
  <2> QED BY <1>1, <1>2, <1>3, <2>1, <2>2, <2>3, QuietKeeps DEF IInv, work
<1> QED BY <1>5, <1>6

LEMMA UnregisterStaticHeapKeeps ==
  ASSUME IInv, Idle, NEW h \in Heaps, UnregisterStaticHeap(h)
  PROVE  IInv'
<1>1. PICK n \in Stages(heap) : At(n)
  BY DEF IInv
<1>2. n = 9 /\ Registry(9) /\ Linking(9) /\ passes = Left(heap, 9)
  BY <1>1, IdleStage DEF At, Idle
<1>3. UNCHANGED <<kernelInitialized, flags, memory, names, cursor, work, status>> /\ cursor = 0
  BY DEF UnregisterStaticHeap, Idle
<1> DEFINE S == Heaps \union {compactingHeap}
<1>4. /\ staticHeaps' \in Seq(S) /\ IsInjective(staticHeaps') /\ Len(staticHeaps') \in Nat
      /\ \A i \in DOMAIN staticHeaps' : \E k \in DOMAIN staticHeaps : staticHeaps'[i] = staticHeaps[k]
  <2>1. staticHeaps \in Seq(S) /\ IsInjective(staticHeaps)
    BY <1>2 DEF Registry
  <2>2. PICK i \in DOMAIN staticHeaps : staticHeaps' = RemoveAt(staticHeaps, i)
    BY DEF UnregisterStaticHeap
  <2> HIDE DEF S
  <2> QED BY <2>1, <2>2, RemoveAtProps
<1>5. Registry(9)'
  <2>1. ~kernelInitialized => Untouched'
    BY <1>2, <1>3, <1>4 DEF Registry, Untouched, flags, memory, names
  <2> QED BY <1>2, <1>3, <1>4, <2>1 DEF Registry, flags, memory, work
<1>6. \A g \in MayNeedFixingUp : \A k \in 1 .. 4 : Done(g, k, 9)' \subseteq Done(g, k, 9)
  BY <1>3 DEF Done, flags
<1> QED BY <1>1, <1>2, <1>3, <1>5, <1>6, QuietKeeps DEF IInv, work

LEMMA NextHeapKeeps ==
  ASSUME IInv, NextHeap
  PROVE  IInv'
<1>1. PICK n \in Stages(heap) : At(n)
  BY DEF IInv
<1>2. n = 9 /\ Registry(9) /\ Linking(9) /\ passes = Left(heap, 9) /\ passes = <<>>
  BY <1>1, IdleStage DEF At, NextHeap
<1>3. /\ cursor # 0 /\ kernelInitialized
      /\ UNCHANGED <<registry, flags, memory, names, status>>
      /\ UNCHANGED <<kernelInitialized, staticHeaps>>
  BY <1>2 DEF NextHeap, Registry, registry
<1>4. /\ staticHeaps \in Seq(Heaps \union {compactingHeap}) /\ IsInjective(staticHeaps)
      /\ cursor \in 0 .. Len(staticHeaps) + 1 /\ Len(staticHeaps) \in Nat
      /\ DOMAIN staticHeaps = 1 .. Len(staticHeaps)
  BY <1>2 DEF Registry
<1>5. CASE cursor <= Len(staticHeaps)
  <2>1. cursor' = cursor + 1 /\ InitStaticHeap(staticHeaps[cursor])
    BY <1>5 DEF NextHeap
  <2>2. cursor \in DOMAIN staticHeaps /\ staticHeaps[cursor] \in Heaps \union {compactingHeap}
    BY <1>3, <1>4, <1>5
  <2>3. cursor' \in 0 .. Len(staticHeaps) + 1
    BY <1>4, <1>5, <2>1
  <2>4. \A i \in DOMAIN staticHeaps : cursor' = 0 \/ i < cursor' => i < cursor \/ i = cursor
    BY <1>3, <1>4, <2>1
  <2> QED BY <1>2, <1>3, <1>4, <2>1, <2>2, <2>3, <2>4, BeginKeeps
<1>6. CASE ~(cursor <= Len(staticHeaps))
  <2>1. cursor' = 0 /\ UNCHANGED work
    BY <1>6 DEF NextHeap
  <2>2. \A i \in DOMAIN staticHeaps : i < cursor
    BY <1>4, <1>6
  <2>3. Registry(9)'
    BY <1>2, <1>3, <1>4, <2>1, <2>2 DEF Registry, flags, memory, work
  <2>4. \A g \in MayNeedFixingUp : \A k \in 1 .. 4 : Done(g, k, 9)' \subseteq Done(g, k, 9)
    BY <1>3 DEF Done, flags
  <2> QED BY <1>1, <1>2, <1>3, <2>1, <2>3, <2>4, QuietKeeps DEF IInv, work
<1> QED BY <1>5, <1>6

\* The kernel begins with the names of the compact classes alone.
LEMMA InitializeProps ==
  ASSUME IInv, Idle, Initialize
  PROVE  /\ passes = Left(heap, 9) /\ Registry(9) /\ Untouched /\ kernelInitialized' = TRUE
         /\ staticHeaps' = Append(staticHeaps, compactingHeap) /\ initialized' = {compactingHeap}
         /\ cursor' = 1 /\ UNCHANGED <<forwarding, bigFlag, classPool, registrations, work, status>>
         /\ \A t \in Texts : symbols'[t] = IF t \in KernelNames THEN Symbol(t) ELSE null
         /\ symbols' \in [Texts -> Symbols \union {null}]
         /\ \A s \in Symbols : \/ globals'[s] = null
                               \/ \E t \in KernelNames : /\ t \in Texts /\ s = Symbol(t)
                                                         /\ globals'[s] = Association(t)
         /\ globals' \in [Symbols -> Associations \union {null}]
         /\ DOMAIN fields' = Objects \union Made
         /\ \A o \in Objects : fields'[o] = fields[o]
         /\ \A t \in Texts : fields'[Association(t)] =
              IF t \in KernelNames THEN <<Symbol(t), Class(t)>> ELSE fields[Association(t)]
<1>1. PICK n \in Stages(heap) : At(n)
  BY DEF IInv
<1>2. n = 9 /\ Registry(9) /\ passes = Left(heap, 9)
  BY <1>1, IdleStage DEF At, Idle
<1>3. ~kernelInitialized /\ Untouched
  BY <1>2 DEF Initialize, Registry
<1>4. KernelNames \subseteq Texts
  BY HeapsAssumption
<1>5. \A t \in Texts : Symbol(t)[2] = t /\ Association(t)[2] = t
  BY DEF Symbol, Association
<1>6. /\ symbols' = [t \in Texts |-> IF t \in KernelNames THEN Symbol(t) ELSE null]
      /\ globals' = [s \in Symbols |->
                       IF \E t \in KernelNames : s = Symbol(t) THEN Association(s[2]) ELSE null]
      /\ fields' = [o \in DOMAIN fields |->
                      IF \E t \in KernelNames : o = Association(t)
                      THEN <<Symbol(o[2]), Class(o[2])>> ELSE fields[o]]
  BY DEF Initialize
<1>7. DOMAIN fields = Objects \union Made
  BY DEF IInv, FieldsKept
<1>8. /\ \A t \in Texts : symbols'[t] = IF t \in KernelNames THEN Symbol(t) ELSE null
      /\ symbols' \in [Texts -> Symbols \union {null}]
  BY <1>6, TextProps
<1>9. \A s \in Symbols : \/ globals'[s] = null
                         \/ \E t \in KernelNames : /\ t \in Texts /\ s = Symbol(t)
                                                   /\ globals'[s] = Association(t)
  BY <1>4, <1>5, <1>6
<1>10. globals' \in [Symbols -> Associations \union {null}]
  <2>1. \A t \in Texts : Association(t) \in Associations
    BY DEF Associations
  <2> QED BY <1>6, <1>9, <2>1
<1>11. \A o \in Objects : fields'[o] = fields[o]
  BY <1>4, <1>6, <1>7, Apart
<1>12. ASSUME NEW t \in Texts
       PROVE  fields'[Association(t)] =
                IF t \in KernelNames THEN <<Symbol(t), Class(t)>> ELSE fields[Association(t)]
  <2>1. Association(t) \in DOMAIN fields
    BY <1>7 DEF Made
  <2>2. (\E u \in KernelNames : Association(t) = Association(u)) <=> t \in KernelNames
    BY <1>4, Apart
  <2> QED BY <1>5, <1>6, <2>1, <2>2
<1>13. DOMAIN fields' = Objects \union Made
  BY <1>6, <1>7
<1>14. /\ kernelInitialized' = TRUE /\ staticHeaps' = Append(staticHeaps, compactingHeap)
       /\ initialized' = {compactingHeap} /\ cursor' = 1
       /\ UNCHANGED <<forwarding, bigFlag, classPool, registrations, work, status>>
  BY DEF Initialize
<1> QED BY <1>2, <1>3, <1>8, <1>9, <1>10, <1>11, <1>12, <1>13, <1>14

LEMMA InitializeKeeps ==
  ASSUME IInv, Idle, Initialize
  PROVE  IInv'
<1>1. /\ passes = Left(heap, 9) /\ Registry(9) /\ Untouched /\ kernelInitialized' = TRUE
      /\ staticHeaps' = Append(staticHeaps, compactingHeap) /\ initialized' = {compactingHeap}
      /\ cursor' = 1 /\ UNCHANGED <<forwarding, bigFlag, classPool, registrations, work, status>>
  BY InitializeProps
<1>2. /\ \A t \in Texts : symbols'[t] = IF t \in KernelNames THEN Symbol(t) ELSE null
      /\ symbols' \in [Texts -> Symbols \union {null}]
      /\ \A s \in Symbols : \/ globals'[s] = null
                            \/ \E t \in KernelNames : /\ t \in Texts /\ s = Symbol(t)
                                                      /\ globals'[s] = Association(t)
      /\ globals' \in [Symbols -> Associations \union {null}]
  BY InitializeProps
<1>3. /\ DOMAIN fields' = Objects \union Made
      /\ \A o \in Objects : fields'[o] = fields[o]
      /\ \A t \in Texts : fields'[Association(t)] =
           IF t \in KernelNames THEN <<Symbol(t), Class(t)>> ELSE fields[Association(t)]
  BY InitializeProps
<1>4. NamesKept /\ FieldsKept /\ ForwardingKept
  BY DEF IInv
<1>5. Growing
  BY <1>1 DEF Untouched, Growing
<1>6. NamesKept'
  <2>1. ASSUME NEW s \in Symbols, globals'[s] # null
        PROVE  /\ symbols'[Text(s)] = s
               /\ globals'[s] \in Are("global") \union {Association(Text(s))}
               /\ fields'[globals'[s]][1] = s
    <3>1. PICK t \in KernelNames : t \in Texts /\ s = Symbol(t) /\ globals'[s] = Association(t)
      BY <1>2, <2>1
    <3>2. fields'[Association(t)] = <<Symbol(t), Class(t)>>
      BY <1>3, <3>1
    <3> QED BY <1>2, <3>1, <3>2, TextProps
  <2>2. \A t \in Texts : symbols'[t] # null => Text(symbols'[t]) = t
    BY <1>2, TextProps
  <2>3. classPool' \in [ClassObjects -> [Texts -> Are("classVariable") \union {nil}]]
    BY <1>1, <1>4 DEF NamesKept
  <2> QED BY <1>2, <2>1, <2>2, <2>3 DEF NamesKept, Text
<1>7. FieldsKept'
  <2>1. fields' \in [Objects \union Made -> Seq(Values)]
    <3>1. ASSUME NEW o \in Objects \union Made PROVE fields'[o] \in Seq(Values)
      <4>1. fields[o] \in Seq(Values)
        BY <1>4 DEF FieldsKept
      <4>2. CASE o \in Objects
        BY <1>3, <4>1, <4>2
      <4>3. ASSUME NEW t \in Texts, o = Association(t) PROVE fields'[o] \in Seq(Values)
        <5>1. Symbol(t) \in Values /\ Class(t) \in Values
          BY TextProps DEF Values, ClassObjects
        <5>2. <<Symbol(t), Class(t)>> \in Seq(Values)
          BY <5>1
        <5> QED BY <1>3, <4>1, <4>3, <5>2
      <4> QED BY <4>2, <4>3 DEF Made
    <3>2. fields' = [o \in DOMAIN fields' |-> fields'[o]]
      BY DEF Initialize
    <3> QED BY <1>3, <3>1, <3>2
  <2>2. \A o \in Made : Len(fields'[o]) = 2
    <3>1. ASSUME NEW s, NEW c PROVE Len(<<s, c>>) = 2
      OBVIOUS
    <3>2. \A t \in Texts : Association(t) \in Made
      BY DEF Made
    <3>3. \A t \in Texts : Len(fields[Association(t)]) = 2
      BY <1>4, <3>2 DEF FieldsKept
    <3>4. \A t \in Texts : Len(fields'[Association(t)]) = 2
      BY <1>3, <3>1, <3>3
    <3> QED BY <3>4 DEF Made
  <2>3. \A o \in Objects : Len(fields'[o]) = Len(Fields[o])
    BY <1>3, <1>4 DEF FieldsKept
  <2>4. ASSUME NEW o \in Objects, NEW i \in 1 .. Len(Fields[o])
        PROVE  IF IsValue(o, i) THEN Value(o, fields[o][i])'
                                ELSE Pointer(Fields[o][i], fields[o][i])'
    <3>1. PICK x : x = fields'[o][i]
      OBVIOUS
    <3>2. IF IsValue(o, i) THEN Value(o, x) ELSE Pointer(Fields[o][i], x)
      BY <1>3, <1>4, <3>1 DEF FieldsKept
    <3>3. IF IsValue(o, i) THEN Value(o, x)' ELSE Pointer(Fields[o][i], x)'
      BY <1>4, <1>5, <3>2, PointersStay
    <3> QED BY <3>1, <3>3 DEF Value, Pointer, Interns, Links
  <2>5. \A o \in Objects : \A i \in 1 .. Len(Fields[o]) :
          IF IsValue(o, i) THEN Value(o, fields[o][i])' ELSE Pointer(Fields[o][i], fields[o][i])'
    BY <2>4
  <2> QED BY <2>1, <2>2, <2>3, <2>5 DEF FieldsKept
<1>8. ForwardingKept'
  BY <1>1, <1>4, <1>5, ForwardingStays
<1>9. Registry(9)'
  <2> DEFINE S == Heaps \union {compactingHeap}
  <2>1. /\ staticHeaps' \in Seq(S) /\ IsInjective(staticHeaps')
        /\ Len(staticHeaps') = Len(staticHeaps) + 1 /\ Len(staticHeaps) \in Nat
    <3>1. staticHeaps \in Seq(S) /\ IsInjective(staticHeaps) /\ compactingHeap \in S
      BY <1>1 DEF Registry
    <3>2. compactingHeap \notin ToSet(staticHeaps)
      BY <1>1 DEF Untouched, ToSet
    <3> HIDE DEF S
    <3> QED BY <1>1, <3>1, <3>2, AppendProps
  <2>2. \A i \in DOMAIN staticHeaps' : ~(i < 1)
    BY <2>1
  <2>3. initialized = {} /\ compactingHeap \notin Heaps
    BY <1>1, HeapsAssumption DEF Untouched
  <2> QED BY <1>1, <2>1, <2>2, <2>3 DEF Registry, work
<1>10. Linking(9)'
  <2>1. compactingHeap \notin MayNeedFixingUp
    BY HeapsAssumption
  <2>2. \A h \in MayNeedFixingUp : \A k : Done(h, k, 9)' = {}
    BY <1>1, <2>1 DEF Done
  <2> QED BY <2>2 DEF Linking
<1>11. passes' = Left(heap', 9) /\ 9 \in Stages(heap')
  BY <1>1 DEF work, Stages
<1> QED BY <1>6, <1>7, <1>8, <1>9, <1>10, <1>11 DEF IInv, At

LEMMA EndPassKeeps ==
  ASSUME IInv, status = "running", EndPass
  PROVE  IInv'
<1>1. PICK n \in Stages(heap) : At(n)
  BY DEF IInv
<1>2. /\ NamesKept /\ FieldsKept /\ ForwardingKept /\ Registry(n) /\ Linking(n)
      /\ n \in 1 .. 9 /\ (n = 5 => heap \in HasPackageRegistration)
  BY <1>1 DEF IInv, At, Stages
<1>3. PICK m : m = After(heap, n)
  OBVIOUS
<1>4. /\ n # 9 /\ Head(passes) = PassOf(n) /\ passes' = Left(heap, m) /\ m \in Stages(heap)
      /\ object' = 1 /\ heap' = heap
  BY <1>1, <1>3, StageProps DEF EndPass, At
<1>5. /\ m = IF n = 4 /\ heap \notin HasPackageRegistration THEN 6 ELSE n + 1
      /\ m \in 1 .. 9 /\ (m = 9 <=> n = 8)
  BY <1>2, <1>3, <1>4 DEF After
<1>6. /\ PassOf(n) = "initialized" <=> n = 8
      /\ PassOf(n) = "register" <=> n = 5
  BY <1>2, <1>4 DEF PassOf
<1>7. /\ initialized' = IF n = 8 THEN initialized \union {heap} ELSE initialized
      /\ registrations' = IF n = 5 THEN [registrations EXCEPT ![heap] = @ + 1] ELSE registrations
      /\ n \in 1 .. 4 => object > Len(Contents[heap])
      /\ UNCHANGED <<registry, memory, names, cursor, status>>
      /\ UNCHANGED <<kernelInitialized, staticHeaps, bigFlag>>
  BY <1>4, <1>6 DEF EndPass, registry, memory
<1>8. heap \in Heaps \ initialized /\ kernelInitialized
  BY <1>2, <1>4 DEF Registry
<1>9. Registry(m)'
  <2>1. \A i \in DOMAIN staticHeaps : cursor = 0 \/ i < cursor =>
          staticHeaps[i] \in initialized' \/ (m # 9 /\ staticHeaps[i] = heap)
    BY <1>2, <1>5, <1>7, <1>8 DEF Registry
  <2>2. registrations' =
          [h \in Heaps |-> IF /\ h \in HasPackageRegistration
                              /\ h \in initialized' \/ (m # 9 /\ h = heap /\ m > 5)
                           THEN 1 ELSE 0]
    <3>1. registrations =
            [h \in Heaps |-> IF /\ h \in HasPackageRegistration
                                /\ h \in initialized \/ (n # 9 /\ h = heap /\ n > 5)
                             THEN 1 ELSE 0]
      BY <1>2 DEF Registry
    <3>2. CASE n = 5
      BY <1>2, <1>5, <1>7, <1>8, <3>1, <3>2
    <3>3. CASE n # 5
      <4>1. \A h \in Heaps :
              (/\ h \in HasPackageRegistration
               /\ h \in initialized' \/ (m # 9 /\ h = heap /\ m > 5)) <=>
              (/\ h \in HasPackageRegistration
               /\ h \in initialized \/ (n # 9 /\ h = heap /\ n > 5))
        BY <1>2, <1>4, <1>5, <1>7, <1>8, <3>3
      <4> QED BY <1>7, <3>1, <3>3, <4>1
    <3> QED BY <3>2, <3>3
  <2> QED BY <1>2, <1>4, <1>5, <1>7, <1>8, <2>1, <2>2 DEF Registry
<1>10. ASSUME NEW h \in MayNeedFixingUp, NEW k \in 1 .. 4, NEW o \in Done(h, k, m)'
       PROVE  o \in Done(h, k, n)
  <2>1. o \in ToSet(Contents[h]) /\ Contents[h] \in Seq(Objects)
    BY <1>10, HeapsAssumption DEF Done
  <2>2. CASE h \in initialized
    BY <2>1, <2>2 DEF Done
  <2>3. CASE h = heap /\ n = 8
    BY <2>1, <2>3 DEF Done
  <2>4. CASE h \notin initialized /\ n # 8
    <3>1. h = heap /\ (k < m \/ (k = m /\ \E i \in DOMAIN Contents[h] : i < 1))
      BY <1>4, <1>7, <1>10, <2>4 DEF Done
    <3>2. k < m
      BY <2>1, <3>1
    <3>3. k < n \/ k = n
      BY <1>2, <1>5, <3>2
    <3>4. k = n => \E i \in DOMAIN Contents[h] : i < object /\ o = Contents[h][i]
      <4>1. PICK i \in DOMAIN Contents[h] : o = Contents[h][i]
        BY <2>1 DEF ToSet
      <4>2. i \in 1 .. Len(Contents[heap]) /\ Len(Contents[heap]) \in Nat /\ object \in Nat
        BY <1>2, <2>1, <3>1, <4>1 DEF Registry
      <4> QED BY <1>7, <4>1, <4>2
    <3> QED BY <1>4, <2>1, <3>1, <3>3, <3>4 DEF Done
  <2>5. h \in initialized' => h \in initialized \/ (h = heap /\ n = 8)
    BY <1>7
  <2>6. CASE h \notin initialized /\ h # heap
    BY <1>4, <1>7, <1>10, <2>6 DEF Done
  <2> QED BY <2>2, <2>3, <2>4, <2>6
<1> QED BY <1>2, <1>4, <1>7, <1>9, <1>10, QuietKeeps

LEMMA AstrayKeeps ==
  ASSUME IInv, status = "running", Astray
  PROVE  IInv'
<1>1. PICK n \in Stages(heap) : At(n)
  BY DEF IInv
<1>2. /\ UNCHANGED <<memory, names, registry, flags, cursor, heap, passes, object>>
      /\ status' \in {"aborted", "undefined"}
  BY DEF Astray, work
<1>3. object' \in Nat \ {0}
  BY <1>1, <1>2 DEF At, Registry
<1> QED BY <1>1, <1>2, <1>3, VisitQuietKeeps DEF IInv

LEMMA StutterKeeps ==
  ASSUME IInv, UNCHANGED vars
  PROVE  IInv'
<1>1. PICK n \in Stages(heap) : At(n)
  BY DEF IInv
<1>2. UNCHANGED <<kernelInitialized, staticHeaps, initialized, registrations, memory, names,
                  symbols, globals, forwarding, bigFlag, cursor, heap, passes, object, status>>
  BY DEF vars, registry, flags, work, memory, names
<1>3. Registry(n)'
  BY <1>1, <1>2 DEF At, Registry, Untouched
<1>4. \A h \in MayNeedFixingUp : \A k \in 1 .. 4 : Done(h, k, n)' \subseteq Done(h, k, n)
  BY <1>2 DEF Done
<1> QED BY <1>1, <1>2, <1>3, <1>4, QuietKeeps DEF IInv, At

-----------------------------------------------------------------------------
(***************************************************************************)
(* The invariant of the specification.                                     *)
(***************************************************************************)
LEMMA InitIInv == Init => IInv
<1> SUFFICES ASSUME Init PROVE IInv
  OBVIOUS
<1>1. /\ symbols = [t \in Texts |-> null] /\ globals = [s \in Symbols |-> null]
      /\ classPool = [c \in ClassObjects |-> [t \in Texts |-> nil]]
      /\ forwarding = [o \in Objects |-> null] /\ initialized = {}
  BY DEF Init, ClassObjects
<1>2. NamesKept
  BY <1>1 DEF NamesKept
<1>3. fields = [o \in Objects \union Made |-> IF o \in Objects THEN Fields[o] ELSE <<nil, nil>>]
  BY DEF Init, Made
<1>4. FieldsKept
  <2>1. ASSUME NEW o \in Objects PROVE Fields[o] \in Seq(Values)
    <3>1. PICK h \in Heaps : o \in ToSet(Contents[h])
      BY FieldProps
    <3> DEFINE S == ToSet(Contents[h]) \union {nil}
    <3>2. Fields[o] \in Seq(S) /\ S \subseteq Values
      BY <3>1, FieldProps, Constants
    <3> HIDE DEF S
    <3> QED BY <3>2
  <2>2. <<nil, nil>> \in Seq(Values)
    BY Constants
  <2>3. \A o \in Made : o \notin Objects
    BY Apart DEF Made
  <2>4. \A o \in Objects \union Made : fields[o] \in Seq(Values)
    BY <1>3, <2>1, <2>2
  <2>5. fields \in [Objects \union Made -> Seq(Values)]
    BY <1>3, <2>4
  <2>6. ASSUME NEW o \in Objects, NEW i \in 1 .. Len(Fields[o])
        PROVE  IF IsValue(o, i) THEN Value(o, Fields[o][i]) ELSE Pointer(Fields[o][i], Fields[o][i])
    <3>1. \A c : c \in Objects \union {nil} => Pointer(c, c)
      BY DEF Pointer
    <3>2. ASSUME IsValue(o, i) PROVE Value(o, Fields[o][i])
      <4>1. i = 2 /\ (o \in Are("global") => Fields[o][2] = nil)
        BY <3>2, VariableProps DEF IsValue
      <4>2. o \in Are("classVariable") => Pointer(Fields[o][2], Fields[o][2])
        BY <3>1, VariableProps, Kinds
      <4> QED BY <4>1, <4>2 DEF Value
    <3> QED BY <3>1, <3>2, FieldProps
  <2> QED BY <1>3, <2>3, <2>5, <2>6 DEF FieldsKept
<1>5. ForwardingKept
  BY <1>1 DEF ForwardingKept
<1>6. Registry(9)
  <2>1. staticHeaps = <<>> /\ IsInjective(<<>>) /\ Len(staticHeaps) = 0
    BY DEF Init, IsInjective
  <2>2. registrations = [h \in Heaps |-> 0] /\ kernelInitialized = FALSE /\ bigFlag = Big
        /\ cursor = 0 /\ object = 1 /\ status = "running"
    BY DEF Init
  <2>3. Untouched
    BY <1>1, <2>1 DEF Untouched
  <2>4. /\ staticHeaps \in Seq(Heaps \union {compactingHeap}) /\ IsInjective(staticHeaps)
        /\ cursor \in 0 .. Len(staticHeaps) + 1 /\ object \in Nat \ {0}
    BY <2>1, <2>2
  <2>5. \A h \in Heaps : ~(h \in initialized \/ (9 # 9 /\ h = heap /\ 9 > 5))
    BY <1>1
  <2> QED BY <1>1, <2>2, <2>3, <2>4, <2>5 DEF Registry
<1>7. Linking(9)
  <2>1. \A h, k : Done(h, k, 9) = {}
    BY <1>1 DEF Done
  <2> QED BY <2>1 DEF Linking
<1>8. passes = Left(heap, 9) /\ 9 \in Stages(heap)
  BY DEF Init, Left, Stages
<1> QED BY <1>2, <1>4, <1>5, <1>6, <1>7, <1>8 DEF IInv, At

LEMMA NextIInv == IInv /\ [Next]_vars => IInv'
<1> SUFFICES ASSUME IInv, [Next]_vars PROVE IInv'
  OBVIOUS
<1>1. ASSUME Call PROVE IInv'
  BY <1>1, RegisterStaticHeapKeeps, UnregisterStaticHeapKeeps, InitializeKeeps DEF Call
<1>2. ASSUME status = "running", Walk PROVE IInv'
  BY <1>2, ForwardSymbolKeeps, ForwardGlobalKeeps, ForwardClassVariableKeeps,
     ApplyForwardingKeeps, AstrayKeeps DEF Walk
<1>3. ASSUME status = "running", NextHeap PROVE IInv'
  BY <1>3, NextHeapKeeps
<1>4. ASSUME status = "running", RegisterClass PROVE IInv'
  BY <1>4, RegisterClassKeeps
<1>5. ASSUME status = "running", EndPass PROVE IInv'
  BY <1>5, EndPassKeeps
<1>6. ASSUME UNCHANGED vars PROVE IInv'
  BY <1>6, StutterKeeps
<1> QED BY <1>1, <1>2, <1>3, <1>4, <1>5, <1>6 DEF Next, Stopped

LEMMA Invariance == Spec => []IInv
BY InitIInv, NextIInv, PTL DEF Spec

-----------------------------------------------------------------------------
(***************************************************************************)
(* The properties.                                                         *)
(***************************************************************************)
\* A reference of a kind, from a package that has been linked.
LEMMA ReferenceProps ==
  ASSUME NEW kind, NEW r \in References(kind)
  PROVE  /\ r = <<r[1], r[2]>> /\ r[1] \in Objects /\ r[2] \in 1 .. Len(Fields[r[1]])
         /\ \E h \in MayNeedFixingUp \intersect initialized : r[1] \in ToSet(Contents[h])
         /\ Compiled(r) \in Are(kind)
         /\ ClassOf[r[1]] \in {"global", "classVariable"} => r[2] = 1
<1>1. PICK h \in Linked : \E o \in ToSet(Contents[h]) : \E i \in DOMAIN Fields[o] : r = <<o, i>>
  BY DEF References
<1>2. PICK o \in ToSet(Contents[h]) : \E i \in DOMAIN Fields[o] : r = <<o, i>>
  BY <1>1
<1>3. PICK i \in DOMAIN Fields[o] : r = <<o, i>>
  BY <1>2
<1>4. h \in MayNeedFixingUp \intersect initialized /\ h \in Heaps
  BY <1>1, HeapsAssumption DEF Linked
<1>5. o \in Objects /\ Fields[o] \in Seq(ToSet(Contents[h]) \union {nil})
  BY <1>2, <1>4, FieldProps
<1>6. DOMAIN Fields[o] = 1 .. Len(Fields[o])
  BY <1>5
<1>7. r[1] = o /\ r[2] = i
  BY <1>3
<1>8. Fields[r[1]][r[2]] \in Are(kind) /\ (ClassOf[r[1]] \in {"global", "classVariable"} => r[2] = 1)
  BY DEF References
<1> QED BY <1>2, <1>3, <1>4, <1>5, <1>6, <1>7, <1>8 DEF Compiled

\* A reference of a linked package leads to what its name stands for.
LEMMA LinkedProps ==
  ASSUME IInv
  PROVE  /\ \A r \in References("symbol") : Interns(Compiled(r), Refers(r))
         /\ \A r \in References("global") : Links(Compiled(r), Refers(r))
<1>1. PICK n \in Stages(heap) : At(n)
  BY DEF IInv
<1>2. ASSUME NEW kind, NEW r \in References(kind), NEW k
      PROVE  \E h \in MayNeedFixingUp : r[1] \in Done(h, k, n)
  BY <1>2, ReferenceProps DEF Done
<1>3. ASSUME NEW r \in References("symbol") PROVE Interns(Compiled(r), Refers(r))
  <2>1. PICK h \in MayNeedFixingUp : r[1] \in Done(h, 2, n)
    BY <1>2
  <2>2. r[2] \in 1 .. Len(Fields[r[1]]) /\ Fields[r[1]][r[2]] \in Are("symbol")
    BY ReferenceProps DEF Compiled
  <2> QED BY <1>1, <2>1, <2>2 DEF At, Linking, Compiled, Refers
<1>4. ASSUME NEW r \in References("global") PROVE Links(Compiled(r), Refers(r))
  <2>1. PICK h \in MayNeedFixingUp : r[1] \in Done(h, 4, n)
    BY <1>2
  <2>2. r[2] \in 1 .. Len(Fields[r[1]]) /\ Fields[r[1]][r[2]] \in Are("global")
    BY ReferenceProps DEF Compiled
  <2>3. ~IsValue(r[1], r[2])
    BY ReferenceProps DEF IsValue, Are
  <2> QED BY <1>1, <2>1, <2>2, <2>3 DEF At, Linking, Compiled, Refers
<1> QED BY <1>3, <1>4

\* However the packages are listed, taken off and listed again, before or after the
\* kernel is initialized, a symbol of a package that has been linked is the one the
\* symbol table has for its text (slvm_internal_fixStaticHeap_symbols).
THEOREM SymbolsAreShared == Spec => []SymbolsShared
<1>1. ASSUME IInv PROVE SymbolsShared
  BY <1>1, LinkedProps DEF SymbolsShared, Interns, Interned
<1> QED BY <1>1, Invariance, PTL

\* A reference to a global variable in a package that has been linked is the
\* association that the system dictionary has for its name, and the key of that
\* association is the interned symbol (slvm_internal_fixStaticHeap_globalVariables).
THEOREM GlobalsAreShared == Spec => []GlobalsShared
<1>1. ASSUME IInv PROVE GlobalsShared
  <2> SUFFICES ASSUME NEW r \in References("global")
               PROVE  /\ Refers(r) = globals[symbols[KeyText(Compiled(r))]]
                      /\ fields[Refers(r)][1] = symbols[KeyText(Compiled(r))]
    BY DEF GlobalsShared
  <2>1. Links(Compiled(r), Refers(r)) /\ Compiled(r) \in Are("global")
    BY <1>1, LinkedProps, ReferenceProps
  <2>2. Interned(Fields[Compiled(r)][1]) = symbols[KeyText(Compiled(r))]
    BY DEF Interned, KeyText
  <2>3. Interned(Fields[Compiled(r)][1]) \in Symbols
    BY <1>1, <2>1, InternedProps, VariableProps DEF Links, IInv
  <2> QED BY <1>1, <2>1, <2>2, <2>3 DEF Links, GlobalOf, IInv, NamesKept
<1> QED BY <1>1, Invariance, PTL

\* Between calls every listed heap has been initialized, and the registration of
\* every initialized package has run exactly once, for lists of any length
\* (slvm_dynrun_registerStaticHeap, slvm_internal_init_staticHeaps).
THEOREM HeapsAreInitialized == Spec => []HeapsInitialized
<1>1. ASSUME IInv PROVE HeapsInitialized
  <2> SUFFICES ASSUME Idle, kernelInitialized, NEW n \in Stages(heap), At(n)
               PROVE  /\ ToSet(staticHeaps) \subseteq initialized
                      /\ \A h \in Heaps : registrations[h] =
                           IF h \in initialized \intersect HasPackageRegistration THEN 1 ELSE 0
    BY <1>1 DEF IInv, HeapsInitialized
  <2>1. n = 9 /\ cursor = 0
    BY IdleStage DEF Idle
  <2> QED BY <2>1 DEF At, Registry, ToSet
<1> QED BY <1>1, Invariance, PTL

-----------------------------------------------------------------------------
(***************************************************************************)
(* Class variables.                                                        *)
(***************************************************************************)
\* The class of a class variable, by name, and the variable that its pool has.
ClassText(variable) == KeyText(Fields[variable][2])
Pooled(variable) == classPool[Class(ClassText(variable))][KeyText(variable)]

\* What the class variables are shared under: packages that define one class agree on
\* its variables, no two with one name, and none uses a variable that the class lacks.
Listed(list) == {Fields[list][i] : i \in 2 .. Len(Fields[list])}

PackagesAgree ==
  \A h \in Heaps : \A list \in ToSet(Classes[h]) :
    LET class == TextOf[Fields[list][1]] IN
    /\ \A v \in Listed(list) : ClassText(v) = class
    /\ \A v, w \in Listed(list) : KeyText(v) = KeyText(w) => v = w
    /\ class \notin KernelNames =>
         \A v \in Are("classVariable") : ClassText(v) = class =>
           \E w \in Listed(list) : KeyText(w) = KeyText(v)

\* The compact classes are the globals of their names, as plain associations.
KernelKept ==
  kernelInitialized => \A t \in KernelNames :
    symbols[t] = Symbol(t) /\ globals[Symbol(t)] = Association(t)
    /\ fields[Association(t)][2] = Class(t)

\* A global has its own class as value, once that is registered; the global of
\* a class with variables is one that a package brought.
GlobalsKept ==
  /\ \A g \in Are("global") : fields[g][2] # nil => \E s \in Symbols : globals[s] = g
  /\ \A s \in Symbols : globals[s] # null =>
       /\ fields[globals[s]][2] \in {nil, Class(Text(s))}
       /\ \A v \in Are("classVariable") : Text(s) = ClassText(v) /\ Text(s) \notin KernelNames =>
            globals[s] \in Are("global")

Registered(t) ==
  /\ symbols[t] # null /\ globals[symbols[t]] # null
  /\ fields[globals[symbols[t]]][2] # nil

\* The pool of a registered class has a variable of its own for every name.
PoolsKept ==
  /\ \A t, u \in Texts :
       LET v == classPool[Class(t)][u] IN
       v # nil => /\ Registered(t) /\ t \notin KernelNames
                  /\ ClassText(v) = t /\ KeyText(v) = u
  /\ \A v \in Are("classVariable") :
       /\ Registered(ClassText(v)) /\ ClassText(v) \notin KernelNames => Pooled(v) # nil
       /\ fields[v][2] = nil => Pooled(v) = v
       /\ forwarding[v] # null => Pooled(v) # nil /\ forwarding[v] = Pooled(v)

VariableSlots(o) == {i \in 1 .. Len(Fields[o]) : Fields[o][i] \in Are("classVariable")}

\* The class variables of a package stay as compiled until the third walk.
Fresh(n) ==
  \A h \in MayNeedFixingUp \ initialized : h # heap \/ n \notin {6, 7, 8} =>
    \A o \in ToSet(Contents[h]) :
      /\ o \in Are("classVariable") => forwarding[o] = null
      /\ \A i \in VariableSlots(o) : fields[o][i] = Fields[o][i]

PoolLinks(c, x) == Pooled(c) # nil /\ x = Pooled(c)

ValueLinked(v) == fields[v][2] = nil \/ Links(Fields[v][2], fields[v][2])

VariableForwarded(v) == Pooled(v) # nil /\ (forwarding[v] = null => Pooled(v) = v)

Pooling(n) ==
  /\ \A o \in Objects : \A i \in VariableSlots(o) :
       fields[o][i] = Fields[o][i] \/ PoolLinks(Fields[o][i], fields[o][i])
  /\ \A h \in MayNeedFixingUp :
       /\ \A v \in Done(h, 4, n) : v \in Are("classVariable") => ValueLinked(v)
       /\ \A v \in Done(h, 6, n) :
            v \in Are("classVariable") /\ ClassText(v) \notin KernelNames => VariableForwarded(v)
       /\ \A o \in Done(h, 7, n) : \A i \in VariableSlots(o) :
            ClassText(Fields[o][i]) \notin KernelNames =>
              PoolLinks(Fields[o][i], fields[o][i])

Shared(n) == KernelKept /\ GlobalsKept /\ PoolsKept /\ Fresh(n) /\ Pooling(n)

SharedInv == IInv /\ \A n \in Stages(heap) : passes = Left(heap, n) => Shared(n)

-----------------------------------------------------------------------------
\* The passes that are left tell the stage.
LEMMA StageUnique ==
  ASSUME NEW h, NEW n \in Stages(h), NEW m \in Stages(h), Left(h, n) = Left(h, m)
  PROVE  n = m
<1> DEFINE Only(k) == \A j \in Stages(h) : Left(h, k) = Left(h, j) => j = k
<1>1. /\ n \in 1 .. 9 /\ \A j \in Stages(h) : j \in 1 .. 9
      /\ h \notin HasPackageRegistration => 5 \notin Stages(h)
  BY DEF Stages
<1>2. Left(h, 9) = <<>>
  BY DEF Left
<1>3. Only(9)
  BY <1>2, LeftProps
<1>4. ASSUME NEW k \in Stages(h), k # 9, Only(After(h, k))
      PROVE  Only(k)
  <2> SUFFICES ASSUME NEW j \in Stages(h), Left(h, k) = Left(h, j) PROVE j = k
    OBVIOUS
  <2>1. j # 9
    BY <1>2, <1>4, LeftProps
  <2>2. After(h, j) \in Stages(h) /\ Left(h, After(h, k)) = Left(h, After(h, j))
    BY <1>4, <2>1, LeftProps
  <2>3. After(h, j) = After(h, k)
    BY <1>4, <2>2
  <2> QED BY <1>1, <2>3 DEF After
<1>5. \A k \in Stages(h) : k # 9 => After(h, k) \in Stages(h)
  BY LeftProps
<1> HIDE DEF Only
<1>6. /\ After(h, 8) = 9 /\ After(h, 7) = 8 /\ After(h, 6) = 7 /\ After(h, 5) = 6
      /\ After(h, 4) \in {5, 6} /\ After(h, 3) = 4 /\ After(h, 2) = 3 /\ After(h, 1) = 2
  BY DEF After
<1>7. 8 \in Stages(h) => Only(8)
  BY <1>3, <1>4, <1>6
<1>8. 7 \in Stages(h) => Only(7)
  BY <1>4, <1>5, <1>6, <1>7
<1>9. 6 \in Stages(h) => Only(6)
  BY <1>4, <1>5, <1>6, <1>8
<1>10. 5 \in Stages(h) => Only(5)
  BY <1>4, <1>5, <1>6, <1>9
<1>11. 4 \in Stages(h) => Only(4)
  BY <1>4, <1>5, <1>6, <1>9, <1>10
<1>12. 3 \in Stages(h) => Only(3)
  BY <1>4, <1>5, <1>6, <1>11
<1>13. 2 \in Stages(h) => Only(2)
  BY <1>4, <1>5, <1>6, <1>12
<1>14. 1 \in Stages(h) => Only(1)
  BY <1>4, <1>5, <1>6, <1>13
<1>15. Only(n)
  BY <1>1, <1>3, <1>7, <1>8, <1>9, <1>10, <1>11, <1>12, <1>13, <1>14
<1> QED BY <1>15 DEF Only

\* The name of a class variable and of its class, as compiled.
LEMMA VariableTexts ==
  ASSUME NEW v \in Are("classVariable")
  PROVE  /\ v \in Objects /\ v # nil /\ Fields[v][1] \in Are("symbol") /\ Fields[v][2] \in Are("global")
         /\ KeyText(v) \in Texts /\ ClassText(v) \in Texts
         /\ KeyText(v) = TextOf[Fields[v][1]]
         /\ ClassText(v) = TextOf[Fields[Fields[v][2]][1]]
BY VariableProps, TextProps, Kinds, Apart DEF KeyText, ClassText

\* A pool holds class variables.
LEMMA PooledProps ==
  ASSUME NamesKept
  PROVE  /\ \A t, u \in Texts : classPool[Class(t)][u] \in Are("classVariable") \union {nil}
         /\ \A v \in Are("classVariable") : Pooled(v) \in Are("classVariable") \union {nil}
<1>1. \A t \in Texts : Class(t) \in ClassObjects
  BY DEF ClassObjects
<1>2. \A t, u \in Texts : classPool[Class(t)][u] \in Are("classVariable") \union {nil}
  BY <1>1 DEF NamesKept
<1> QED BY <1>2, VariableTexts DEF Pooled

\* The names grow, no variable gets or loses a value, and a class variable is only
\* forwarded to the one in its pool.
LEMMA KeptStays ==
  ASSUME NamesKept, NamesKept', KernelKept, GlobalsKept, PoolsKept, Growing,
         UNCHANGED <<kernelInitialized, classPool>>,
         \A a \in Associations : fields'[a][2] = fields[a][2],
         \A v \in Are("classVariable") : fields'[v][2] = nil => fields[v][2] = nil,
         \A v \in Are("classVariable") :
           forwarding'[v] = forwarding[v] \/ PoolLinks(v, forwarding'[v]),
         \A s \in Symbols : globals'[s] # globals[s] =>
           globals'[s] \in Are("global") /\ fields[globals'[s]][2] = nil
  PROVE  KernelKept' /\ GlobalsKept' /\ PoolsKept'
<1>1. /\ symbols' \in [Texts -> Symbols \union {null}]
      /\ globals \in [Symbols -> Associations \union {null}]
      /\ globals' \in [Symbols -> Associations \union {null}]
  BY DEF NamesKept
<1>2. \A s \in Symbols : globals[s] # null =>
        globals'[s] = globals[s] /\ fields'[globals[s]][2] = fields[globals[s]][2]
  BY <1>1 DEF Growing
<1>3. \A s \in Symbols : globals'[s] # null =>
        \/ globals[s] # null
        \/ globals'[s] \in Are("global") /\ fields'[globals'[s]][2] = nil
  BY <1>1
<1>4. KernelKept'
  <2> SUFFICES ASSUME kernelInitialized, NEW t \in KernelNames
               PROVE  symbols'[t] = Symbol(t) /\ globals'[Symbol(t)] = Association(t)
                      /\ fields'[Association(t)][2] = Class(t)
    BY DEF KernelKept
  <2>1. t \in Texts /\ Symbol(t) \in Symbols /\ Symbol(t) # null /\ Association(t) # null
    BY HeapsAssumption, TextProps, Apart
  <2>2. symbols[t] = Symbol(t) /\ globals[Symbol(t)] = Association(t)
        /\ fields[Association(t)][2] = Class(t)
    BY DEF KernelKept
  <2> QED BY <1>2, <2>1, <2>2 DEF Growing
<1>5. GlobalsKept'
  <2>1. ASSUME NEW g \in Are("global"), fields'[g][2] # nil
        PROVE  \E s \in Symbols : globals'[s] = g
    <3>1. g \in Associations /\ g # null
      BY Kinds, Apart DEF Associations
    <3>2. fields[g][2] # nil
      BY <2>1, <3>1
    <3>3. PICK s \in Symbols : globals[s] = g
      BY <3>2 DEF GlobalsKept
    <3> QED BY <1>2, <3>1, <3>3
  <2>2. ASSUME NEW s \in Symbols, globals'[s] # null
        PROVE  /\ fields'[globals'[s]][2] \in {nil, Class(Text(s))}
               /\ \A v \in Are("classVariable") :
                    Text(s) = ClassText(v) /\ Text(s) \notin KernelNames => globals'[s] \in Are("global")
    BY <1>2, <1>3, <2>2 DEF GlobalsKept
  <2> QED BY <2>1, <2>2 DEF GlobalsKept, Text, ClassText, KeyText
<1>6. ASSUME NEW t \in Texts PROVE Registered(t)' <=> Registered(t)
  <2>1. ASSUME Registered(t) PROVE Registered(t)'
    <3>1. symbols[t] \in Symbols
      BY <2>1 DEF Registered, NamesKept
    <3>2. symbols'[t] = symbols[t]
      BY <2>1 DEF Registered, Growing
    <3> QED BY <1>2, <2>1, <3>1, <3>2 DEF Registered
  <2>2. ASSUME Registered(t)' PROVE Registered(t)
    <3>1. PICK s \in Symbols : s = symbols'[t]
      BY <1>1, <2>2 DEF Registered
    <3>2. globals'[s] # null /\ fields'[globals'[s]][2] # nil
      BY <2>2, <3>1 DEF Registered
    <3>3. globals[s] # null
      BY <1>3, <3>2
    <3>4. Text(s) = t
      BY <2>2, <3>1 DEF NamesKept, Registered, Text
    <3>5. symbols[t] = s /\ s # null
      BY <3>3, <3>4, TextProps DEF NamesKept
    <3> QED BY <1>2, <3>2, <3>3, <3>5 DEF Registered
  <2> QED BY <2>1, <2>2
<1>7. PoolsKept'
  <2>1. \A v \in Are("classVariable") : Pooled(v)' = Pooled(v)
    BY DEF Pooled
  <2>2. ASSUME NEW t \in Texts, NEW u \in Texts, classPool[Class(t)][u] # nil
        PROVE  /\ Registered(t)' /\ t \notin KernelNames
               /\ ClassText(classPool[Class(t)][u]) = t /\ KeyText(classPool[Class(t)][u]) = u
    BY <1>6, <2>2 DEF PoolsKept
  <2>3. ASSUME NEW v \in Are("classVariable")
        PROVE  /\ Registered(ClassText(v))' /\ ClassText(v) \notin KernelNames => Pooled(v) # nil
               /\ fields'[v][2] = nil => Pooled(v) = v
               /\ forwarding'[v] # null => Pooled(v) # nil /\ forwarding'[v] = Pooled(v)
    <3>1. ClassText(v) \in Texts
      BY VariableTexts
    <3> QED BY <1>6, <3>1 DEF PoolsKept, PoolLinks
  <2> QED BY <2>1, <2>2, <2>3 DEF PoolsKept, ClassText, KeyText
<1> QED BY <1>4, <1>5, <1>7

\* What linking the class variables has done stays done, as pools only grow.
LEMMA PoolingStays ==
  ASSUME NEW n, NEW m, NamesKept, Growing, Pooling(n),
         \A v \in Are("classVariable") : Pooled(v) # nil => Pooled(v)' = Pooled(v),
         \A v \in Are("classVariable") : forwarding'[v] = null => forwarding[v] = null,
         \A o \in Objects : \A i \in VariableSlots(o) :
           fields'[o][i] = fields[o][i] \/ PoolLinks(Fields[o][i], fields'[o][i]),
         \A v \in Are("classVariable") : ValueLinked(v) =>
           fields'[v][2] = fields[v][2] \/ fields'[v][2] = nil,
         \A h \in MayNeedFixingUp : \A v \in Done(h, 4, m)' :
           v \in Done(h, 4, n) \/ (v \in Are("classVariable") => ValueLinked(v)'),
         \A h \in MayNeedFixingUp : \A v \in Done(h, 6, m)' :
           v \in Done(h, 6, n) \/
           (v \in Are("classVariable") /\ ClassText(v) \notin KernelNames => VariableForwarded(v)'),
         \A h \in MayNeedFixingUp : \A o \in Done(h, 7, m)' :
           o \in Done(h, 7, n) \/ \A i \in VariableSlots(o) :
             ClassText(Fields[o][i]) \notin KernelNames => PoolLinks(Fields[o][i], fields[o][i])'
  PROVE  Pooling(m)'
<1>1. \A c \in Are("classVariable") : \A x : PoolLinks(c, x) => PoolLinks(c, x)'
  BY DEF PoolLinks
<1>2. \A o \in Objects : \A i \in VariableSlots(o) : Fields[o][i] \in Are("classVariable")
  BY DEF VariableSlots
<1>3. ASSUME NEW o \in Objects, NEW i \in VariableSlots(o)
      PROVE  /\ fields'[o][i] = Fields[o][i] \/ PoolLinks(Fields[o][i], fields[o][i])'
             /\ PoolLinks(Fields[o][i], fields[o][i]) => PoolLinks(Fields[o][i], fields[o][i])'
  <2>1. PICK x : x = fields'[o][i]
    OBVIOUS
  <2>2. fields[o][i] = Fields[o][i] \/ PoolLinks(Fields[o][i], fields[o][i])
    BY DEF Pooling
  <2>3. x = fields[o][i] \/ PoolLinks(Fields[o][i], x)
    BY <2>1
  <2>4. /\ x = Fields[o][i] \/ PoolLinks(Fields[o][i], x)'
        /\ PoolLinks(Fields[o][i], fields[o][i]) => PoolLinks(Fields[o][i], x)'
    BY <1>1, <1>2, <2>2, <2>3
  <2> QED BY <2>1, <2>4 DEF PoolLinks
<1>4. ASSUME NEW v \in Are("classVariable"), ValueLinked(v) PROVE ValueLinked(v)'
  <2>1. PICK x : x = fields'[v][2]
    OBVIOUS
  <2>2. x = nil \/ Links(Fields[v][2], x)
    BY <1>4, <2>1 DEF ValueLinked
  <2>3. Fields[v][2] \in Are("global")
    BY VariableProps
  <2>4. x = nil \/ Links(Fields[v][2], x)'
    BY <2>2, <2>3, PointersStay
  <2> QED BY <2>1, <2>4 DEF ValueLinked, Links
<1>5. ASSUME NEW v \in Are("classVariable"), VariableForwarded(v) PROVE VariableForwarded(v)'
  BY <1>5 DEF VariableForwarded
<1>6. \A h \in MayNeedFixingUp : \A k : Done(h, k, m)' \subseteq Objects
  BY Registering, FieldProps DEF Done
<1>7. ASSUME NEW h \in MayNeedFixingUp
      PROVE  /\ \A v \in Done(h, 4, m)' : v \in Are("classVariable") => ValueLinked(v)'
             /\ \A v \in Done(h, 6, m)' :
                  v \in Are("classVariable") /\ ClassText(v) \notin KernelNames => VariableForwarded(v)'
             /\ \A o \in Done(h, 7, m)' : \A i \in VariableSlots(o) :
                  ClassText(Fields[o][i]) \notin KernelNames => PoolLinks(Fields[o][i], fields[o][i])'
  <2>1. ASSUME NEW v \in Done(h, 4, m)', v \in Are("classVariable") PROVE ValueLinked(v)'
    BY <1>4, <2>1 DEF Pooling
  <2>2. ASSUME NEW v \in Done(h, 6, m)', v \in Are("classVariable"), ClassText(v) \notin KernelNames
        PROVE  VariableForwarded(v)'
    BY <1>5, <2>2 DEF Pooling
  <2>3. ASSUME NEW o \in Done(h, 7, m)', NEW i \in VariableSlots(o),
               ClassText(Fields[o][i]) \notin KernelNames
        PROVE  PoolLinks(Fields[o][i], fields[o][i])'
    BY <1>3, <1>6, <2>3 DEF Pooling
  <2> QED BY <2>1, <2>2, <2>3
<1> QED BY <1>3, <1>7 DEF Pooling, ClassText, KeyText, VariableSlots

\* One stage is enough to show.
LEMMA SharedAt ==
  ASSUME IInv', NEW m \in Stages(heap'), passes' = Left(heap', m), Shared(m)'
  PROVE  SharedInv'
<1>1. \A j \in Stages(heap)' : passes' = Left(heap', j) => j = m
  BY StageUnique DEF Stages
<1> QED BY <1>1 DEF SharedInv

\* What holds at the stage that the heap is at.
LEMMA SharedNow ==
  ASSUME SharedInv
  PROVE  /\ NamesKept /\ FieldsKept /\ ForwardingKept
         /\ \E n \in Stages(heap) : At(n) /\ Shared(n)
BY DEF SharedInv, IInv, At

\* A step that changes neither names nor objects, nor finishes a walk.
LEMMA QuietShared ==
  ASSUME NamesKept, NEW n, Shared(n), UNCHANGED <<kernelInitialized, memory, names>>,
         NEW m \in Stages(heap'), passes' = Left(heap', m), IInv',
         \A h \in MayNeedFixingUp : \A k \in {4, 6, 7} : Done(h, k, m)' \subseteq Done(h, k, n),
         \A h \in MayNeedFixingUp \ initialized' : h # heap' \/ m \notin {6, 7, 8} =>
           h \notin initialized /\ (h # heap \/ n \notin {6, 7, 8})
  PROVE  SharedInv'
<1>1. Growing /\ UNCHANGED <<fields, forwarding, symbols, globals, classPool>>
  BY DEF names, memory, Growing
<1>2. KernelKept' /\ GlobalsKept' /\ PoolsKept'
  BY <1>1 DEF Shared, KernelKept, GlobalsKept, PoolsKept, Registered, Pooled, Text, ClassText, KeyText
<1>3. Fresh(m)'
  BY <1>1 DEF Shared, Fresh, VariableSlots
<1>4. /\ \A h \in MayNeedFixingUp : \A v \in Done(h, 4, m)' : v \in Done(h, 4, n)
      /\ \A h \in MayNeedFixingUp : \A v \in Done(h, 6, m)' : v \in Done(h, 6, n)
      /\ \A h \in MayNeedFixingUp : \A v \in Done(h, 7, m)' : v \in Done(h, 7, n)
  OBVIOUS
<1>5. Pooling(m)'
  <2>1. \A v \in Are("classVariable") : Pooled(v)' = Pooled(v)
    BY <1>1 DEF Pooled
  <2> QED BY <1>1, <1>4, <2>1, PoolingStays DEF Shared
<1> QED BY <1>2, <1>3, <1>5, SharedAt DEF Shared

\* No heap is begun, and none goes on.
LEMMA IdleShared ==
  ASSUME SharedInv, IInv', passes = <<>>, UNCHANGED <<kernelInitialized, initialized, memory, names, work>>
  PROVE  SharedInv'
<1>1. PICK n \in Stages(heap) : At(n) /\ Shared(n)
  BY SharedNow
<1>2. n = 9 /\ passes = Left(heap, 9) /\ Shared(9)
  BY <1>1, IdleStage DEF At
<1>3. UNCHANGED <<heap, passes, object>> /\ 9 \in Stages(heap')
  BY DEF work, Stages
<1>4. \A h \in MayNeedFixingUp : \A k \in {4, 6, 7} : Done(h, k, 9)' \subseteq Done(h, k, 9)
  BY DEF Done
<1> QED BY <1>2, <1>3, <1>4, SharedNow, QuietShared

LEMMA BeginShared ==
  ASSUME SharedInv, IInv', passes = <<>>, kernelInitialized, NEW h \in Heaps \union {compactingHeap},
         InitStaticHeap(h), UNCHANGED <<kernelInitialized, initialized, memory, names>>
  PROVE  SharedInv'
<1>1. PICK n \in Stages(heap) : At(n) /\ Shared(n)
  BY SharedNow
<1>2. n = 9 /\ Registry(9) /\ Shared(9)
  BY <1>1, IdleStage DEF At
<1>3. /\ heap' = h /\ object' = 1
      /\ \/ h \in initialized /\ passes' = Left(h, 9) /\ 9 \in Stages(h)
         \/ h \in Heaps \ initialized /\ passes' = Left(h, 1) /\ 1 \in Stages(h)
         \/ /\ h \in Heaps \ initialized /\ passes' = Left(h, 8) /\ 8 \in Stages(h)
            /\ h \notin MayNeedFixingUp
  BY <1>2, BeginProps DEF Registry
<1>4. ASSUME NEW m \in {1, 8, 9}, m = 8 => h \notin MayNeedFixingUp
      PROVE  /\ \A g \in MayNeedFixingUp : \A k \in {4, 6, 7} : Done(g, k, m)' \subseteq Done(g, k, 9)
             /\ \A g \in MayNeedFixingUp \ initialized' : g # heap' \/ m \notin {6, 7, 8} =>
                  g \notin initialized /\ (g # heap \/ 9 \notin {6, 7, 8})
  BY <1>3, <1>4 DEF Done
<1>5. \E m \in Stages(heap') : /\ m \in {1, 8, 9} /\ (m = 8 => h \notin MayNeedFixingUp)
                               /\ passes' = Left(heap', m)
  BY <1>3
<1> QED BY <1>2, <1>4, <1>5, SharedNow, QuietShared

LEMMA RegisterStaticHeapShared ==
  ASSUME SharedInv, IInv', Idle, NEW h \in Heaps, RegisterStaticHeap(h)
  PROVE  SharedInv'
BY IdleShared, BeginShared DEF RegisterStaticHeap, Idle, flags

LEMMA UnregisterStaticHeapShared ==
  ASSUME SharedInv, IInv', Idle, NEW h \in Heaps, UnregisterStaticHeap(h)
  PROVE  SharedInv'
BY IdleShared DEF UnregisterStaticHeap, Idle, flags

LEMMA NextHeapShared ==
  ASSUME SharedInv, IInv', NextHeap
  PROVE  SharedInv'
<1>1. PICK n \in Stages(heap) : At(n)
  BY SharedNow
<1>2. Registry(n) /\ passes = <<>> /\ cursor # 0 /\ UNCHANGED <<kernelInitialized, initialized, memory, names>>
  BY <1>1 DEF NextHeap, registry, flags, At
<1>3. n = 9
  BY <1>1, <1>2, IdleStage
<1>4. kernelInitialized
  BY <1>2, <1>3 DEF Registry
<1>5. CASE cursor <= Len(staticHeaps)
  <2>1. InitStaticHeap(staticHeaps[cursor])
    BY <1>5 DEF NextHeap
  <2>2. staticHeaps[cursor] \in Heaps \union {compactingHeap}
    <3>1. /\ staticHeaps \in Seq(Heaps \union {compactingHeap})
          /\ cursor \in 0 .. Len(staticHeaps) + 1
      BY <1>2 DEF Registry
    <3> QED BY <1>2, <1>5, <3>1
  <2> QED BY <1>2, <1>4, <2>1, <2>2, BeginShared
<1>6. CASE ~(cursor <= Len(staticHeaps))
  BY <1>2, <1>6, IdleShared DEF NextHeap
<1> QED BY <1>5, <1>6

LEMMA EndPassShared ==
  ASSUME SharedInv, IInv', status = "running", EndPass
  PROVE  SharedInv'
<1>1. PICK n \in Stages(heap) : At(n) /\ Shared(n)
  BY SharedNow
<1>2. Registry(n) /\ n \in 1 .. 9
  BY <1>1 DEF At, Stages
<1>3. PICK m : m = After(heap, n)
  OBVIOUS
<1>4. /\ n # 9 /\ Head(passes) = PassOf(n) /\ passes' = Left(heap, m) /\ m \in Stages(heap)
      /\ object' = 1 /\ heap' = heap
  BY <1>1, <1>3, StageProps DEF EndPass, At
<1>5. /\ m = IF n = 4 /\ heap \notin HasPackageRegistration THEN 6 ELSE n + 1
      /\ m \in 1 .. 9 /\ (m = 9 <=> n = 8)
  BY <1>2, <1>3, <1>4 DEF After
<1>6. /\ PassOf(n) = "initialized" <=> n = 8
      /\ PassOf(n) = "register" <=> n = 5
  BY <1>2, <1>4 DEF PassOf
<1>7. /\ initialized' = IF n = 8 THEN initialized \union {heap} ELSE initialized
      /\ n \in {4, 6, 7} => object > Len(Contents[heap])
      /\ UNCHANGED <<memory, names, kernelInitialized, status>>
  BY <1>4, <1>6 DEF EndPass, registry, memory
<1>8. heap \in Heaps \ initialized
  BY <1>2, <1>4 DEF Registry
<1>9. ASSUME NEW h \in MayNeedFixingUp, NEW k \in {4, 6, 7}, NEW o \in Done(h, k, m)'
      PROVE  o \in Done(h, k, n)
  <2>1. o \in ToSet(Contents[h]) /\ Contents[h] \in Seq(Objects)
    BY <1>9, HeapsAssumption DEF Done
  <2>2. CASE h \in initialized
    BY <2>1, <2>2 DEF Done
  <2>3. CASE h = heap /\ n = 8
    BY <2>1, <2>3 DEF Done
  <2>4. CASE h \notin initialized /\ n # 8
    <3>1. h = heap /\ (k < m \/ (k = m /\ \E i \in DOMAIN Contents[h] : i < 1))
      BY <1>4, <1>7, <1>9, <2>4 DEF Done
    <3>2. k < m
      BY <2>1, <3>1
    <3>3. k < n \/ k = n
      BY <1>2, <1>5, <3>2
    <3>4. k = n => \E i \in DOMAIN Contents[h] : i < object /\ o = Contents[h][i]
      <4>1. PICK i \in DOMAIN Contents[h] : o = Contents[h][i]
        BY <2>1 DEF ToSet
      <4>2. i \in 1 .. Len(Contents[heap]) /\ Len(Contents[heap]) \in Nat /\ object \in Nat
        BY <1>2, <2>1, <3>1, <4>1 DEF Registry
      <4> QED BY <1>7, <4>1, <4>2
    <3> QED BY <1>4, <2>1, <3>1, <3>3, <3>4 DEF Done
  <2>5. CASE h \notin initialized /\ h # heap
    BY <1>4, <1>7, <1>9, <2>5 DEF Done
  <2> QED BY <2>2, <2>3, <2>4, <2>5
<1>10. \A h \in MayNeedFixingUp \ initialized' : h # heap' \/ m \notin {6, 7, 8} =>
         h \notin initialized /\ (h # heap \/ n \notin {6, 7, 8})
  BY <1>2, <1>4, <1>5, <1>7
<1> QED BY <1>1, <1>4, <1>7, <1>9, <1>10, SharedNow, QuietShared

\* A step that stops the program, and one that changes nothing.
LEMMA StopShared ==
  ASSUME SharedInv, IInv', UNCHANGED <<kernelInitialized, initialized, memory, names, heap, passes>>,
         status' \in {"aborted", "undefined"} \/ UNCHANGED <<object, status>>
  PROVE  SharedInv'
<1>1. PICK n \in Stages(heap) : At(n) /\ Shared(n)
  BY SharedNow
<1>2. \A h \in MayNeedFixingUp : \A k \in {4, 6, 7} : Done(h, k, n)' \subseteq Done(h, k, n)
  BY DEF Done
<1>3. \A h \in MayNeedFixingUp \ initialized' : h # heap' \/ n \notin {6, 7, 8} =>
        h \notin initialized /\ (h # heap \/ n \notin {6, 7, 8})
  OBVIOUS
<1>4. n \in Stages(heap') /\ passes' = Left(heap', n)
  BY <1>1 DEF At
<1> QED BY <1>1, <1>2, <1>3, <1>4, SharedNow, QuietShared

\* A walk that forwards the object it is at.
LEMMA ForwardShared ==
  ASSUME SharedInv, IInv', status = "running", NEW n \in Stages(heap) \intersect {1, 3, 6}, At(n),
         Visiting(PassOf(n)), NEW v \in Objects, v = Visited, Growing, UNCHANGED <<fields, classPool>>,
         \A w \in Are("classVariable") :
           forwarding'[w] = forwarding[w] \/ (n = 6 /\ w = v /\ PoolLinks(w, forwarding'[w])),
         \A s \in Symbols : globals'[s] # globals[s] =>
           globals'[s] \in Are("global") /\ fields[globals'[s]][2] = nil,
         n = 6 /\ v \in Are("classVariable") /\ ClassText(v) \notin KernelNames => VariableForwarded(v)'
  PROVE  SharedInv'
<1>1. Shared(n) /\ NamesKept /\ NamesKept'
  BY DEF SharedInv, IInv, At
<1>2. /\ UNCHANGED <<kernelInitialized, initialized, heap, passes>>
      /\ PassOf(n) \in {"symbols", "apply", "globals", "classVariables"}
  BY DEF Visiting, registry, flags, PassOf
<1>3. /\ v \in ToSet(Contents[heap]) /\ heap \in Heaps
      /\ \A h \in Heaps : \A k :
           Done(h, k, n)' \subseteq Done(h, k, n) \union (IF h = heap /\ k = n THEN {v} ELSE {})
  BY <1>2, VisitingProps
<1>4. KernelKept' /\ GlobalsKept' /\ PoolsKept'
  BY <1>1, <1>2, KeptStays DEF Shared
<1>5. Fresh(n)'
  <2> SUFFICES ASSUME NEW h \in MayNeedFixingUp \ initialized, h # heap \/ n \notin {6, 7, 8},
                      NEW o \in ToSet(Contents[h])
               PROVE  /\ o \in Are("classVariable") => forwarding'[o] = null
                      /\ \A i \in VariableSlots(o) : fields'[o][i] = Fields[o][i]
    BY <1>2 DEF Fresh, VariableSlots
  <2>1. /\ o \in Are("classVariable") => forwarding[o] = null
        /\ \A i \in VariableSlots(o) : fields[o][i] = Fields[o][i]
    BY <1>1 DEF Shared, Fresh
  <2>2. n = 6 => o # v
    BY <1>3, HeapsAssumption
  <2> QED BY <2>1, <2>2
<1>6. Pooling(n)'
  <2>1. \A w \in Are("classVariable") : Pooled(w)' = Pooled(w)
    BY DEF Pooled
  <2>2. \A w \in Are("classVariable") : forwarding'[w] = null => forwarding[w] = null
    <3>1. \A w \in Are("classVariable") : Pooled(w) # null
      BY <1>1, PooledProps, Apart, Kinds
    <3> QED BY <3>1 DEF PoolLinks
  <2>3. /\ \A h \in MayNeedFixingUp : Done(h, 4, n)' \subseteq Done(h, 4, n)
        /\ \A h \in MayNeedFixingUp : \A w \in Done(h, 6, n)' : w \in Done(h, 6, n) \/ (n = 6 /\ w = v)
        /\ \A h \in MayNeedFixingUp : Done(h, 7, n)' \subseteq Done(h, 7, n)
    BY <1>3, Registering
  <2> QED BY <1>1, <2>1, <2>2, <2>3, PoolingStays DEF Shared
<1>7. n \in Stages(heap') /\ passes' = Left(heap', n)
  BY <1>2 DEF At
<1> QED BY <1>4, <1>5, <1>6, <1>7, SharedAt DEF Shared

LEMMA ForwardSymbolShared ==
  ASSUME SharedInv, IInv', status = "running", ForwardSymbol
  PROVE  SharedInv'
<1>1. PICK n \in Stages(heap) : At(n)
  BY SharedNow
<1>2. Visiting("symbols") /\ UNCHANGED <<fields, globals, classPool, status>>
  BY DEF ForwardSymbol
<1>3. n = 1
  BY <1>1, <1>2, VisitingProps DEF PassOf, Stages
<1>4. PICK v \in Objects : v = Visited
  BY <1>1, <1>2, VisitingProps
<1>5. Growing
  <2>1. \A t \in Texts : symbols[t] # null => symbols'[t] = symbols[t]
    <3>1. symbols \in [Texts -> Symbols \union {null}]
      BY SharedNow DEF NamesKept
    <3> QED BY <3>1 DEF ForwardSymbol
  <2> QED BY <1>2, <2>1 DEF Growing
<1>6. \A w \in Are("classVariable") : forwarding'[w] = forwarding[w]
  <2>1. forwarding \in [Objects -> Values \union {null}]
    BY SharedNow DEF ForwardingKept
  <2>2. ASSUME NEW w \in Are("classVariable") PROVE forwarding'[w] = forwarding[w]
    <3>1. ClassOf[w] # "symbol"
      BY DEF Are
    <3>2. CASE w = v
      BY <1>4, <2>1, <3>1, <3>2, Kinds DEF ForwardSymbol, ForwardTo
    <3>3. CASE w # v
      BY <1>4, <2>1, <3>3, Kinds DEF ForwardSymbol, ForwardTo
    <3> QED BY <3>2, <3>3
  <2> QED BY <2>2
<1> QED BY <1>1, <1>2, <1>3, <1>4, <1>5, <1>6, ForwardShared DEF PassOf

LEMMA ForwardGlobalShared ==
  ASSUME SharedInv, IInv', status = "running", ForwardGlobal
  PROVE  SharedInv'
<1>1. PICK n \in Stages(heap) : At(n) /\ Shared(n)
  BY SharedNow
<1>2. Visiting("globals") /\ UNCHANGED <<fields, symbols, classPool, status>>
  BY DEF ForwardGlobal
<1>3. n = 3
  BY <1>1, <1>2, VisitingProps DEF PassOf, Stages
<1>4. PICK v \in Objects : v = Visited
  BY <1>1, <1>2, VisitingProps
<1>5. NamesKept /\ globals \in [Symbols -> Associations \union {null}]
  BY SharedNow DEF NamesKept
<1>6. \A s \in Symbols : globals'[s] = globals[s] \/
        (globals[s] = null /\ globals'[s] = v /\ v \in Are("global") /\ s = fields[v][1])
  BY <1>4, <1>5 DEF ForwardGlobal, Are
<1>7. Growing
  BY <1>2, <1>6 DEF Growing
<1>8. ASSUME NEW s \in Symbols, globals'[s] # globals[s]
      PROVE  globals'[s] \in Are("global") /\ fields[globals'[s]][2] = nil
  <2>1. globals[s] = null /\ globals'[s] = v /\ v \in Are("global") /\ s = fields[v][1]
    BY <1>6, <1>8
  <2>2. ASSUME fields[v][2] # nil PROVE FALSE
    <3>1. PICK u \in Symbols : globals[u] = v
      BY <1>1, <2>1, <2>2 DEF Shared, GlobalsKept
    <3>2. v # null
      BY Apart
    <3>3. u = fields[v][1]
      BY <1>5, <3>1, <3>2 DEF NamesKept
    <3> QED BY <2>1, <3>1, <3>2, <3>3
  <2> QED BY <2>1, <2>2
<1>9. \A w \in Are("classVariable") : forwarding'[w] = forwarding[w]
  <2>1. forwarding \in [Objects -> Values \union {null}]
    BY SharedNow DEF ForwardingKept
  <2>2. ASSUME NEW w \in Are("classVariable") PROVE forwarding'[w] = forwarding[w]
    <3>1. ClassOf[w] # "global"
      BY DEF Are
    <3>2. CASE w = v
      BY <1>4, <2>1, <3>1, <3>2, Kinds DEF ForwardGlobal, ForwardTo
    <3>3. CASE w # v
      BY <1>4, <2>1, <3>3, Kinds DEF ForwardGlobal, ForwardTo
    <3> QED BY <3>2, <3>3
  <2> QED BY <2>2
<1> QED BY <1>1, <1>2, <1>3, <1>4, <1>7, <1>8, <1>9, ForwardShared DEF PassOf

\* The value of a class variable that the second walk has been at: the class's global.
LEMMA ValueProps ==
  ASSUME NamesKept, NEW n, Shared(n), kernelInitialized,
         NEW v \in Are("classVariable"), ValueLinked(v), fields[v][2] # nil
  PROVE  LET x == fields[v][2]
             t == ClassText(v)
         IN  /\ symbols[t] # null /\ globals[symbols[t]] # null /\ x = globals[symbols[t]]
             /\ fields[x][2] \in {nil, Class(t)}
             /\ x \in Are("global") <=> t \notin KernelNames
<1> DEFINE g == Fields[v][2]
           s == Interned(Fields[g][1])
           x == fields[v][2]
           t == ClassText(v)
<1>1. /\ g \in Are("global") /\ Fields[g][1] \in Are("symbol") /\ t \in Texts
      /\ t = TextOf[Fields[g][1]]
  BY VariableTexts, VariableProps
<1>2. s # null /\ globals[s] # null /\ x = globals[s]
  BY DEF ValueLinked, Links, GlobalOf
<1>3. s \in Symbols /\ Text(s) = t /\ s = symbols[t]
  BY <1>1, <1>2, InternedProps DEF Interned
<1> HIDE DEF s, t, g, x
<1>4. fields[x][2] \in {nil, Class(t)} /\ (t \notin KernelNames => x \in Are("global"))
  BY <1>2, <1>3 DEF Shared, GlobalsKept, t
<1>5. ASSUME t \in KernelNames PROVE x \notin Are("global")
  <2>1. s = Symbol(t) /\ globals[s] = Association(t)
    BY <1>3, <1>5 DEF Shared, KernelKept
  <2> QED BY <1>1, <1>2, <2>1, Apart, Kinds
<1> QED BY <1>2, <1>3, <1>4, <1>5 DEF x, t

LEMMA ForwardClassVariableShared ==
  ASSUME SharedInv, IInv', status = "running", ForwardClassVariable
  PROVE  SharedInv'
<1>1. PICK n \in Stages(heap) : At(n) /\ Shared(n)
  BY SharedNow
<1>2. Visiting("classVariables") /\ UNCHANGED <<fields, names>> /\ UNCHANGED <<symbols, globals, classPool>>
  BY DEF ForwardClassVariable, names
<1>3. n = 6 /\ heap \in MayNeedFixingUp /\ kernelInitialized
  BY <1>1, <1>2, VisitingProps DEF PassOf, Stages
<1>4. PICK v \in Objects : v = Visited /\ v \in ToSet(Contents[heap])
  BY <1>1, <1>2, VisitingProps
<1>5. NamesKept /\ Growing /\ forwarding \in [Objects -> Values \union {null}]
  BY <1>2, SharedNow DEF Growing, ForwardingKept
<1>6. ASSUME v \in Are("classVariable")
      PROVE  ValueLinked(v) /\ Text(fields[v][1]) = KeyText(v)
  <2>1. v \in Done(heap, 2, n) /\ v \in Done(heap, 4, n)
    BY <1>3, <1>4 DEF Done
  <2>2. ValueLinked(v)
    BY <1>1, <1>3, <1>6, <2>1 DEF Shared, Pooling
  <2>3. 1 \in 1 .. Len(Fields[v]) /\ Fields[v][1] \in Are("symbol")
    BY <1>6, VariableProps
  <2>4. Interns(Fields[v][1], fields[v][1])
    BY <1>1, <1>3, <2>1, <2>3 DEF At, Linking
  <2> QED BY <1>5, <1>6, <2>2, <2>3, <2>4, InternedProps, VariableTexts DEF Interns
<1>7. ASSUME NEW target, ForwardTo(target), target = v \/ PoolLinks(v, target),
             v \in Are("classVariable") /\ ClassText(v) \notin KernelNames =>
               Pooled(v) # nil /\ target = Pooled(v)
      PROVE  SharedInv'
  <2>1. \A w \in Objects : forwarding'[w] = IF w = v /\ target # v THEN target ELSE forwarding[w]
    BY <1>4, <1>5, <1>7 DEF ForwardTo
  <2>2. \A w \in Are("classVariable") :
          forwarding'[w] = forwarding[w] \/ (n = 6 /\ w = v /\ PoolLinks(w, forwarding'[w]))
    BY <1>3, <1>7, <2>1, Kinds
  <2>3. ASSUME v \in Are("classVariable"), ClassText(v) \notin KernelNames
        PROVE  VariableForwarded(v)'
    <3>1. target # null
      BY <1>4, <1>5, <1>7, <2>3, PooledProps, Apart, Kinds
    <3>2. Pooled(v)' = Pooled(v)
      BY <1>2 DEF Pooled
    <3> QED BY <1>7, <2>1, <2>3, <3>1, <3>2 DEF VariableForwarded
  <2> QED BY <1>1, <1>2, <1>3, <1>4, <1>5, <2>2, <2>3, ForwardShared DEF PassOf
<1>8. CASE ~OfGlobalVariable(v)
  <2>1. ForwardTo(v)
    BY <1>4, <1>8 DEF ForwardClassVariable
  <2>2. ASSUME v \in Are("classVariable"), ClassText(v) \notin KernelNames PROVE Pooled(v) = v
    <3>1. fields[v][2] \notin Are("global")
      BY <1>8, <2>2 DEF OfGlobalVariable, Are
    <3>2. fields[v][2] = nil
      BY <1>1, <1>3, <1>5, <1>6, <2>2, <3>1, ValueProps
    <3> QED BY <1>1, <2>2, <3>2 DEF Shared, PoolsKept
  <2> QED BY <1>7, <2>1, <2>2, VariableTexts
<1>9. CASE OfGlobalVariable(v)
  <2> DEFINE class == fields[fields[v][2]][2]
  <2>1. v \in Are("classVariable") /\ fields[v][2] \in Are("global") /\ fields[v][2] # nil
    BY <1>9, Kinds, Apart DEF OfGlobalVariable, Are
  <2>2. /\ ClassText(v) \notin KernelNames /\ class \in {nil, Class(ClassText(v))}
        /\ class # nil => Registered(ClassText(v))
    BY <1>1, <1>3, <1>5, <1>6, <2>1, ValueProps DEF Registered
  <2>3. CASE class = nil
    <3>1. status' \in {"aborted", "undefined"} /\ UNCHANGED <<forwarding, bigFlag>>
      BY <1>4, <1>9, <2>3 DEF ForwardClassVariable
    <3> QED BY <1>2, <3>1, StopShared DEF Visiting, memory, registry, flags
  <2>4. CASE class # nil
    <3>1. ForwardTo(classPool[class][Text(fields[v][1])])
      BY <1>4, <1>9, <2>4 DEF ForwardClassVariable
    <3>2. class = Class(ClassText(v)) /\ Text(fields[v][1]) = KeyText(v)
      BY <1>6, <2>1, <2>2, <2>4
    <3>3. ForwardTo(Pooled(v))
      BY <3>1, <3>2 DEF Pooled
    <3>4. Pooled(v) # nil
      BY <1>1, <2>1, <2>2, <2>4 DEF Shared, PoolsKept
    <3> QED BY <1>7, <3>3, <3>4 DEF PoolLinks
  <2> QED BY <2>3, <2>4
<1> QED BY <1>8, <1>9

\* A reference to a class variable is applied the forwarding pointer of the variable.
LEMMA AppliedVariable ==
  ASSUME NamesKept, NEW n, Shared(n), NEW c \in Are("classVariable"), c \in ToSet(Contents[heap]),
         NEW x, x = c \/ PoolLinks(c, x)
  PROVE  /\ Applied(x) = x \/ PoolLinks(c, Applied(x))
         /\ forwarding[c] = null => Applied(c) = c
         /\ VariableForwarded(c) => PoolLinks(c, Applied(x))
<1>1. \A v \in Are("classVariable") : forwarding[v] # null => Pooled(v) # nil /\ forwarding[v] = Pooled(v)
  BY DEF Shared, PoolsKept
<1>2. ASSUME PoolLinks(c, x) PROVE Applied(x) = x
  <2>1. x = Pooled(c) /\ x # nil /\ x \in Are("classVariable")
    BY <1>2, PooledProps DEF PoolLinks
  <2>2. ClassText(x) = ClassText(c) /\ KeyText(x) = KeyText(c)
    <3>1. ClassText(c) \in Texts /\ KeyText(c) \in Texts
      BY VariableTexts
    <3>2. x = classPool[Class(ClassText(c))][KeyText(c)]
      BY <2>1 DEF Pooled
    <3> QED BY <2>1, <3>1, <3>2 DEF Shared, PoolsKept
  <2>3. Pooled(x) = x
    BY <2>1, <2>2 DEF Pooled
  <2> QED BY <1>1, <2>1, <2>3 DEF Applied
<1>3. ASSUME x = c PROVE /\ Applied(x) = x \/ PoolLinks(c, Applied(x))
                         /\ forwarding[c] = null => Applied(c) = c
                         /\ VariableForwarded(c) => PoolLinks(c, Applied(x))
  BY <1>1, <1>3 DEF Applied, PoolLinks, VariableForwarded
<1> QED BY <1>2, <1>3 DEF Applied

\* The value of a class variable, when the walk is at it.
LEMMA AppliedValue ==
  ASSUME NamesKept, FieldsKept, ForwardingKept, NEW n \in {2, 4, 7}, Linking(n),
         status = "running", heap \in MayNeedFixingUp,
         NEW v \in Are("classVariable"), v \in ToSet(Contents[heap])
  PROVE  LET x == fields[v][2]
         IN  /\ Applied(x) = nil <=> x = nil
             /\ ValueLinked(v) => Applied(x) = x
             /\ n # 2 => x = nil \/ Links(Fields[v][2], Applied(x))
<1> DEFINE g == Fields[v][2]
           x == fields[v][2]
<1>1. /\ g \in Are("global") /\ 2 \in 1 .. Len(Fields[v]) /\ IsValue(v, 2) /\ v \in Objects
      /\ heap \in Heaps /\ g \in Objects /\ g # nil
  BY VariableProps, VariableTexts, Registering, Kinds, Apart DEF IsValue
<1>2. g \in ToSet(Contents[heap])
  <2> DEFINE S == ToSet(Contents[heap]) \union {nil}
  <2>1. Fields[v] \in Seq(S)
    BY <1>1, FieldProps
  <2> HIDE DEF S
  <2>2. g \in S
    BY <1>1, <2>1
  <2> QED BY <1>1, <2>2 DEF S
<1>3. x = nil \/ Pointer(g, x)
  BY <1>1 DEF FieldsKept, Value
<1>4. Applied(nil) = nil
  BY <1>1, FieldProps, Apart DEF Applied
<1> HIDE DEF x, g
<1>5. ASSUME Pointer(g, x)
      PROVE  /\ Pointer(g, Applied(x)) /\ (n # 2 => Links(g, Applied(x)))
             /\ Links(g, x) => Applied(x) = x
  BY <1>1, <1>2, <1>5, AppliedPointer
<1>6. \A y : Pointer(g, y) => y # nil
  <2>1. \A y : Links(g, y) => y \in Associations
    <3>1. Fields[g][1] \in Are("symbol")
      BY <1>1, VariableProps
    <3>2. Interned(Fields[g][1]) \in Symbols \union {null}
      BY <3>1, InternedProps
    <3> QED BY <3>2 DEF Links, GlobalOf, NamesKept
  <2>2. nil \notin Associations
    BY Apart, Kinds DEF Associations
  <2> QED BY <1>1, <2>1, <2>2 DEF Pointer
<1>7. /\ Applied(x) = nil <=> x = nil
      /\ x = nil \/ Links(g, x) => Applied(x) = x
      /\ n # 2 => x = nil \/ Links(g, Applied(x))
  <2>1. CASE x = nil
    BY <1>4, <2>1
  <2>2. CASE Pointer(g, x)
    BY <1>5, <1>6, <2>2
  <2> QED BY <1>3, <2>1, <2>2
<1> QED BY <1>7 DEF ValueLinked, x, g

LEMMA ApplyForwardingShared ==
  ASSUME SharedInv, IInv', status = "running", ApplyForwarding
  PROVE  SharedInv'
<1>1. PICK n \in Stages(heap) : At(n) /\ Shared(n)
  BY SharedNow
<1>2. Visiting("apply") /\ UNCHANGED <<forwarding, bigFlag, names, status>>
      /\ UNCHANGED <<symbols, globals, classPool>>
  BY DEF ApplyForwarding, names
<1>3. n \in {2, 4, 7} /\ n # 9 /\ heap \in MayNeedFixingUp /\ heap \in Heaps \ initialized
  BY <1>1, <1>2, VisitingProps DEF PassOf, Stages
<1>4. PICK v \in Objects : v = Visited /\ v \in ToSet(Contents[heap])
  BY <1>1, <1>2, VisitingProps
<1>5. NamesKept /\ FieldsKept /\ ForwardingKept /\ Growing /\ Linking(n) /\ NamesKept'
  BY <1>1, <1>2, SharedNow DEF Growing, At, IInv
<1>6. UNCHANGED <<kernelInitialized, initialized, heap, passes>>
  BY <1>2 DEF Visiting, registry, flags
<1>7. /\ fields \in [Objects \union Made -> Seq(Values)] /\ DOMAIN fields[v] = 1 .. Len(Fields[v])
      /\ Associations \subseteq Objects \union Made
  BY <1>5, Constants DEF FieldsKept
<1>8. /\ \A o \in Objects \union Made : o # v => fields'[o] = fields[o]
      /\ \A i \in 1 .. Len(Fields[v]) : fields'[v][i] = Applied(fields[v][i])
  <2> DEFINE new == [i \in DOMAIN fields[v] |-> Applied(fields[v][i])]
  <2>1. fields' = [fields EXCEPT ![v] = new]
    BY <1>4 DEF ApplyForwarding, Applied
  <2>2. \A i \in 1 .. Len(Fields[v]) : new[i] = Applied(fields[v][i])
    BY <1>7
  <2> HIDE DEF new
  <2> QED BY <1>7, <2>1, <2>2
<1>9. v \in Are("global") \union Are("classVariable") => 2 \in 1 .. Len(Fields[v])
  BY VariableProps
<1>10. \A a \in Associations : fields'[a][2] = fields[a][2]
  <2>1. ASSUME v \in Are("global") PROVE fields'[v][2] = fields[v][2]
    <3>1. fields[v][2] \in ClassObjects \union {nil}
      BY <1>5, <1>9, <2>1 DEF FieldsKept, IsValue, Value
    <3>2. fields[v][2] \notin Objects
      BY <3>1, Apart DEF ClassObjects
    <3> QED BY <1>3, <1>8, <1>9, <2>1, <3>2, FieldProps DEF Applied
  <2> QED BY <1>7, <1>8, <2>1, TextProps
<1>11. ASSUME v \in Are("classVariable")
       PROVE  /\ fields'[v][2] = nil <=> fields[v][2] = nil
              /\ ValueLinked(v) => fields'[v][2] = fields[v][2]
              /\ n # 2 => fields[v][2] = nil \/ Links(Fields[v][2], fields'[v][2])
  BY <1>3, <1>4, <1>5, <1>8, <1>9, <1>11, AppliedValue
<1>12. ASSUME NEW i \in VariableSlots(v)
       PROVE  /\ i \in 1 .. Len(Fields[v]) /\ Fields[v][i] \in Are("classVariable")
              /\ Fields[v][i] \in ToSet(Contents[heap])
              /\ fields[v][i] = Fields[v][i] \/ PoolLinks(Fields[v][i], fields[v][i])
  <2>1. i \in 1 .. Len(Fields[v]) /\ Fields[v][i] \in Are("classVariable")
    BY DEF VariableSlots
  <2> DEFINE S == ToSet(Contents[heap]) \union {nil}
  <2>2. Fields[v] \in Seq(S)
    BY <1>3, <1>4, FieldProps
  <2> HIDE DEF S
  <2>3. Fields[v][i] \in S
    BY <2>1, <2>2
  <2>4. Fields[v][i] # nil
    BY <2>1, VariableTexts
  <2> QED BY <1>1, <2>1, <2>3, <2>4 DEF S, Shared, Pooling
<1>13. ASSUME NEW i \in VariableSlots(v)
       PROVE  /\ fields'[v][i] = fields[v][i] \/ PoolLinks(Fields[v][i], fields'[v][i])
              /\ fields[v][i] = Fields[v][i] /\ forwarding[Fields[v][i]] = null =>
                   fields'[v][i] = Fields[v][i]
              /\ VariableForwarded(Fields[v][i]) => PoolLinks(Fields[v][i], fields'[v][i])
  BY <1>1, <1>5, <1>8, <1>12, AppliedVariable
<1>14. KernelKept' /\ GlobalsKept' /\ PoolsKept'
  <2>1. \A w \in Are("classVariable") : fields'[w][2] = nil => fields[w][2] = nil
    BY <1>8, <1>11, Kinds
  <2> QED BY <1>1, <1>2, <1>5, <1>6, <1>10, <2>1, KeptStays DEF Shared
<1>15. Fresh(n)'
  <2> SUFFICES ASSUME NEW h \in MayNeedFixingUp \ initialized, h # heap \/ n \notin {6, 7, 8},
                      NEW o \in ToSet(Contents[h]), NEW i \in VariableSlots(o)
               PROVE  fields'[o][i] = Fields[o][i]
    BY <1>1, <1>2, <1>6 DEF Fresh, VariableSlots, Shared
  <2>1. o \in Objects /\ fields[o][i] = Fields[o][i]
    BY <1>1, Registering, FieldProps DEF Shared, Fresh
  <2>2. CASE o = v
    <3>1. h = heap /\ n \notin {6, 7, 8}
      BY <1>3, <1>4, <2>2, HeapsAssumption
    <3>2. forwarding[Fields[v][i]] = null
      BY <1>1, <1>12, <2>2, <3>1 DEF Shared, Fresh
    <3> QED BY <1>13, <2>1, <2>2, <3>2
  <2> QED BY <1>8, <2>1, <2>2
<1>16. Pooling(n)'
  <2>1. \A h \in MayNeedFixingUp : \A k :
          Done(h, k, n)' \subseteq Done(h, k, n) \union (IF h = heap /\ k = n THEN {v} ELSE {})
    BY <1>1, <1>2, <1>4, VisitingProps, Registering
  <2>2. \A w \in Are("classVariable") : Pooled(w)' = Pooled(w)
    BY <1>2 DEF Pooled
  <2>3. \A o \in Objects : \A i \in VariableSlots(o) :
          fields'[o][i] = fields[o][i] \/ PoolLinks(Fields[o][i], fields'[o][i])
    BY <1>8, <1>13
  <2>4. \A w \in Are("classVariable") : ValueLinked(w) =>
          fields'[w][2] = fields[w][2] \/ fields'[w][2] = nil
    BY <1>8, <1>11, Kinds
  <2>5. ASSUME n = 4, v \in Are("classVariable") PROVE ValueLinked(v)'
    <3>1. PICK x : x = fields'[v][2]
      OBVIOUS
    <3>2. x = nil \/ Links(Fields[v][2], x)
      BY <1>11, <2>5, <3>1
    <3>3. x = nil \/ Links(Fields[v][2], x)'
      BY <1>5, <2>5, <3>2, PointersStay, VariableProps
    <3> QED BY <3>1, <3>3 DEF ValueLinked, Links
  <2>6. ASSUME n = 7, NEW i \in VariableSlots(v), ClassText(Fields[v][i]) \notin KernelNames
        PROVE  PoolLinks(Fields[v][i], fields[v][i])'
    <3>1. Fields[v][i] \in Done(heap, 6, n)
      BY <1>3, <1>12, <2>6 DEF Done
    <3>2. VariableForwarded(Fields[v][i])
      BY <1>1, <1>3, <1>12, <2>6, <3>1 DEF Shared, Pooling
    <3> QED BY <1>12, <1>13, <2>2, <3>2 DEF PoolLinks
  <2>7. /\ \A h \in MayNeedFixingUp : \A w \in Done(h, 4, n)' :
             w \in Done(h, 4, n) \/ (w \in Are("classVariable") => ValueLinked(w)')
        /\ \A h \in MayNeedFixingUp : \A w \in Done(h, 6, n)' : w \in Done(h, 6, n)
        /\ \A h \in MayNeedFixingUp : \A o \in Done(h, 7, n)' :
             o \in Done(h, 7, n) \/ \A i \in VariableSlots(o) :
               ClassText(Fields[o][i]) \notin KernelNames => PoolLinks(Fields[o][i], fields[o][i])'
    BY <1>3, <2>1, <2>5, <2>6
  <2> QED BY <1>1, <1>2, <1>5, <2>2, <2>3, <2>4, <2>7, PoolingStays DEF Shared
<1>17. n \in Stages(heap') /\ passes' = Left(heap', n)
  BY <1>1, <1>6 DEF At
<1> QED BY <1>5, <1>14, <1>15, <1>16, <1>17, SharedAt DEF Shared

\* The class variables that a package lists for a class, and the pool that is made of them.
LEMMA ListedProps ==
  ASSUME SharedInv, PackagesAgree, status = "running", At(5), Shared(5), heap \in MayNeedFixingUp,
         NEW list \in ToSet(Classes[heap])
  PROVE  LET t == TextOf[Fields[list][1]] IN
         /\ t \in Texts /\ fields[list][1] = symbols[t] /\ symbols[t] \in Symbols /\ Text(symbols[t]) = t
         /\ ClassVariables(list) = Listed(list)
         /\ \A v \in Listed(list) : /\ v \in Are("classVariable") /\ ClassText(v) = t
                                    /\ GlobalForwarded(Fields[v][2])
                                    /\ PoolOf(list)[KeyText(v)] = v
         /\ \A u \in Texts : PoolOf(list)[u] # nil =>
              PoolOf(list)[u] \in Listed(list) /\ KeyText(PoolOf(list)[u]) = u
<1> DEFINE t == TextOf[Fields[list][1]]
<1>1. IInv /\ NamesKept /\ heap \in Heaps /\ heap \notin initialized
  <2>1. Registry(5)
    BY DEF At
  <2>2. heap \notin initialized
    BY <2>1 DEF Registry
  <2> QED BY <2>2, Registering DEF SharedInv, IInv
<1>2. /\ list \in ToSet(Contents[heap]) /\ Fields[list][1] \in Are("symbol")
      /\ 1 \in 1 .. Len(Fields[list]) /\ list \in Objects /\ Len(Fields[list]) \in Nat
  BY <1>1, ListProps, FieldProps
<1>3. \A o \in ToSet(Contents[heap]) : o \in Done(heap, 2, 5) /\ o \in Done(heap, 3, 5)
  BY DEF Done
<1>4. t \in Texts /\ fields[list][1] = symbols[t] /\ symbols[t] \in Symbols /\ Text(symbols[t]) = t
  <2>1. Interns(Fields[list][1], fields[list][1])
    BY <1>2, <1>3 DEF At, Linking
  <2> QED BY <1>1, <1>2, <2>1, InternedProps, TextProps DEF Interns, Interned
<1>5. ASSUME NEW i \in 2 .. Len(Fields[list])
      PROVE  /\ Fields[list][i] \in Are("classVariable") /\ fields[list][i] = Fields[list][i]
             /\ Fields[list][i] \in ToSet(Contents[heap])
  <2>1. Fields[list][i] \in Are("classVariable") /\ i \in 1 .. Len(Fields[list])
    BY <1>1, <1>2, FieldsAssumption
  <2> DEFINE S == ToSet(Contents[heap]) \union {nil}
  <2>2. Fields[list] \in Seq(S)
    BY <1>1, <1>2, FieldProps
  <2> HIDE DEF S
  <2>3. Fields[list][i] \in S
    BY <2>1, <2>2
  <2> QED BY <1>1, <1>2, <2>1, <2>3, VariableTexts DEF S, Shared, Fresh, VariableSlots
<1>6. ClassVariables(list) = Listed(list)
  <2>1. fields[list] \in Seq(Values) /\ Len(fields[list]) = Len(Fields[list])
    BY <1>1, <1>2 DEF IInv, FieldsKept
  <2> DEFINE q == fields[list]
  <2> HIDE DEF q
  <2>2. /\ DOMAIN Tail(q) = 1 .. Len(Fields[list]) - 1
        /\ \A j \in 1 .. Len(Fields[list]) - 1 : Tail(q)[j] = q[j + 1]
    BY <1>2, <2>1 DEF q
  <2>3. ToSet(Tail(q)) = {q[i] : i \in 2 .. Len(Fields[list])}
    <3>1. ASSUME NEW x \in ToSet(Tail(q)) PROVE x \in {q[i] : i \in 2 .. Len(Fields[list])}
      <4>1. PICK j \in 1 .. Len(Fields[list]) - 1 : x = q[j + 1]
        BY <2>2 DEF ToSet
      <4>2. j + 1 \in 2 .. Len(Fields[list])
        BY <1>2
      <4> QED BY <4>1, <4>2
    <3>2. ASSUME NEW i \in 2 .. Len(Fields[list]) PROVE q[i] \in ToSet(Tail(q))
      <4>1. i - 1 \in 1 .. Len(Fields[list]) - 1 /\ (i - 1) + 1 = i
        BY <1>2
      <4>2. Tail(q)[i - 1] = q[i]
        BY <2>2, <4>1
      <4> QED BY <2>2, <4>1, <4>2 DEF ToSet
    <3> QED BY <3>1, <3>2
  <2>4. \A i \in 2 .. Len(Fields[list]) : q[i] = Fields[list][i]
    BY <1>5 DEF q
  <2>5. {q[i] : i \in 2 .. Len(Fields[list])} = {Fields[list][i] : i \in 2 .. Len(Fields[list])}
    BY <2>4
  <2> QED BY <2>3, <2>5 DEF ClassVariables, Listed, q
<1>7. ASSUME NEW v \in Listed(list)
      PROVE  /\ v \in Are("classVariable") /\ ClassText(v) = t /\ GlobalForwarded(Fields[v][2])
             /\ Text(fields[v][1]) = KeyText(v)
  <2>1. v \in Are("classVariable") /\ v \in ToSet(Contents[heap]) /\ v \in Objects
    BY <1>5, Kinds DEF Listed
  <2>2. ClassText(v) = t
    BY <1>1 DEF PackagesAgree
  <2>3. 1 \in 1 .. Len(Fields[v]) /\ 2 \in 1 .. Len(Fields[v]) /\ Fields[v][1] \in Are("symbol")
    BY <2>1, VariableProps
  <2>4. Text(fields[v][1]) = KeyText(v)
    <3>1. Interns(Fields[v][1], fields[v][1])
      BY <1>3, <2>1, <2>3 DEF At, Linking
    <3> QED BY <1>1, <2>1, <2>3, <3>1, InternedProps, VariableTexts DEF Interns
  <2>5. GlobalForwarded(Fields[v][2])
    <3> DEFINE S == ToSet(Contents[heap]) \union {nil}
    <3>1. Fields[v] \in Seq(S)
      BY <1>1, <2>1, FieldProps
    <3> HIDE DEF S
    <3>2. Fields[v][2] \in S
      BY <2>3, <3>1
    <3>3. Fields[v][2] \in Are("global") /\ Fields[v][2] \in ToSet(Contents[heap])
      BY <2>1, <3>2, VariableProps, Kinds, Apart DEF S
    <3> QED BY <1>3, <3>3 DEF At, Linking
  <2> QED BY <2>1, <2>2, <2>4, <2>5
<1> DEFINE named(u) == {v \in Listed(list) : KeyText(v) = u}
<1>8. \A u \in Texts : \/ named(u) = {} /\ PoolOf(list)[u] = nil
                       \/ PoolOf(list)[u] \in named(u)
  <2> SUFFICES ASSUME NEW u \in Texts
               PROVE  \/ named(u) = {} /\ PoolOf(list)[u] = nil
                      \/ PoolOf(list)[u] \in named(u)
    OBVIOUS
  <2> DEFINE S == {v \in ClassVariables(list) : Text(fields[v][1]) = u}
  <2>1. S = named(u)
    BY <1>6, <1>7
  <2>2. PoolOf(list)[u] = IF S = {} THEN nil ELSE CHOOSE v \in S : TRUE
    BY DEF PoolOf
  <2> HIDE DEF S
  <2>3. S # {} => (CHOOSE v \in S : TRUE) \in S
    OBVIOUS
  <2>4. (S = {} /\ PoolOf(list)[u] = nil) \/ PoolOf(list)[u] \in S
    BY <2>2, <2>3
  <2> QED BY <2>1, <2>4
<1>9. ASSUME NEW v \in Listed(list) PROVE PoolOf(list)[KeyText(v)] = v
  <2>1. KeyText(v) \in Texts /\ v \in named(KeyText(v))
    BY <1>7, VariableTexts
  <2>2. \A w \in Listed(list) : KeyText(w) = KeyText(v) => w = v
    BY <1>1 DEF PackagesAgree
  <2> QED BY <1>8, <2>1, <2>2
<1>10. \A u \in Texts : PoolOf(list)[u] # nil =>
         PoolOf(list)[u] \in Listed(list) /\ KeyText(PoolOf(list)[u]) = u
  BY <1>8
<1> QED BY <1>4, <1>6, <1>7, <1>9, <1>10

\* A class that is new gets its pool, its class variables lose their values, and no other
\* variable, of a class or global, gets or loses any.
NewClass(list, key, t, a) ==
  /\ key = symbols[t] /\ key \in Symbols /\ t = Text(key) /\ t \in Texts
  /\ t \notin KernelNames /\ ~Registered(t)
  /\ \A u \in Texts : classPool[Class(t)][u] = nil
  /\ \A u \in Texts : classPool'[Class(t)][u] = PoolOf(list)[u]
  /\ \A s, u \in Texts : s # t => classPool'[Class(s)][u] = classPool[Class(s)][u]
  /\ globals[key] = null => \A v \in Are("classVariable") : ClassText(v) # t
  /\ a # null /\ fields'[a][2] = Class(t)
  /\ \A s \in Symbols : s # key => globals'[s] = globals[s]
  /\ globals[key] # null => a = globals[key]
  /\ \A x \in Associations : x # a => fields'[x][2] = fields[x][2]
  /\ \A s \in Symbols : s # key /\ globals[s] # null => globals[s] # a
  /\ \A v \in Are("classVariable") :
       fields'[v][2] = IF v \in Listed(list) THEN nil ELSE fields[v][2]

LEMMA NewClassProps ==
  ASSUME SharedInv, PackagesAgree, status = "running", At(5), Shared(5), heap \in MayNeedFixingUp,
         NEW list \in ToSet(Classes[heap]), NEW key, key = fields[list][1],
         ~(globals[key] # null /\ fields[globals[key]][2] # nil),
         GlobalsAtPut(key, Class(Text(key)),
           [o \in DOMAIN fields |->
              IF o \in ClassVariables(list) THEN <<fields[o][1], nil>> ELSE fields[o]]),
         classPool' = [classPool EXCEPT ![Class(Text(key))] = PoolOf(list)],
         NEW t, t = TextOf[Fields[list][1]], NEW a, a = globals'[key]
  PROVE  NewClass(list, key, t, a)
<1>1. IInv /\ NamesKept /\ FieldsKept /\ heap \in Heaps
  BY Registering DEF SharedInv, IInv
<1>2. /\ t \in Texts /\ key = symbols[t] /\ key \in Symbols /\ Text(key) = t /\ key # null
      /\ ClassVariables(list) = Listed(list)
      /\ \A v \in Listed(list) : /\ v \in Are("classVariable") /\ ClassText(v) = t
                                 /\ GlobalForwarded(Fields[v][2])
  BY ListedProps, TextProps
<1>3. ~Registered(t)
  BY <1>2 DEF Registered
<1>4. t \notin KernelNames
  <2>1. kernelInitialized
    BY DEF At, Registry
  <2>2. ASSUME t \in KernelNames PROVE FALSE
    <3>1. key = Symbol(t) /\ globals[key] = Association(t) /\ fields[globals[key]][2] = Class(t)
      BY <1>2, <2>1, <2>2 DEF Shared, KernelKept
    <3> QED BY <1>2, <3>1, Apart
  <2> QED BY <2>2
<1>5. \A u \in Texts : classPool[Class(t)][u] = nil
  BY <1>2, <1>3 DEF Shared, PoolsKept
<1>6. /\ \A u \in Texts : classPool'[Class(t)][u] = PoolOf(list)[u]
      /\ \A s, u \in Texts : s # t => classPool'[Class(s)][u] = classPool[Class(s)][u]
  <2>1. classPool \in [ClassObjects -> [Texts -> Are("classVariable") \union {nil}]]
    BY <1>1 DEF NamesKept
  <2>2. \A s \in Texts : Class(s) \in ClassObjects /\ (s # t => Class(s) # Class(t))
    BY <1>2, Apart DEF ClassObjects
  <2>3. classPool' = [classPool EXCEPT ![Class(t)] = PoolOf(list)]
    BY <1>2
  <2> QED BY <1>2, <2>1, <2>2, <2>3
<1>7. PICK made :
        made = [o \in DOMAIN fields |->
                  IF o \in ClassVariables(list) THEN <<fields[o][1], nil>> ELSE fields[o]]
  OBVIOUS
<1>8. /\ GlobalsAtPut(key, Class(Text(key)), made)
      /\ made \in [Objects \union Made -> Seq(Values)]
      /\ \A o \in Objects \union Made : Len(made[o]) = Len(fields[o])
      /\ \A o \in Objects \union Made : o \notin ClassVariables(list) => made[o] = fields[o]
      /\ \A o \in Objects \union Made : o \in ClassVariables(list) =>
           made[o] = <<fields[o][1], nil>>
  <2>1. GlobalsAtPut(key, Class(Text(key)), made)
    BY <1>7 DEF GlobalsAtPut
  <2> QED BY <1>1, <1>7, <2>1, MadeProps
<1>9. /\ \A s \in Symbols : globals'[s] =
           IF s = key THEN (IF globals[key] = null THEN Association(t) ELSE globals[key])
           ELSE globals[s]
      /\ a # null /\ a \in Objects \union Made /\ fields'[a][2] = Class(t)
      /\ \A o \in Objects \union Made : o # a => fields'[o] = made[o]
  <2> DEFINE b == Association(t)
  <2>1. b \in Made /\ b # null /\ key \in Values /\ Class(t) \in Values
    BY <1>2, Constants, Apart DEF Made, Values, ClassObjects
  <2>2. globals \in [Symbols -> Associations \union {null}]
    BY <1>1 DEF NamesKept
  <2>3. IF globals[key] = null
        THEN globals' = [globals EXCEPT ![key] = b] /\ fields' = [made EXCEPT ![b] = <<key, Class(t)>>]
        ELSE globals' = globals /\ fields' = [made EXCEPT ![globals[key]][2] = Class(t)]
    BY <1>2, <1>8 DEF GlobalsAtPut
  <2>4. globals[key] # null => globals[key] \in Are("global") \union {b}
    BY <1>1, <1>2 DEF NamesKept
  <2> HIDE DEF b
  <2>5. CASE globals[key] = null
    <3>1. <<key, Class(t)>>[2] = Class(t)
      OBVIOUS
    <3>2. a = b /\ fields'[b] = <<key, Class(t)>>
      BY <1>2, <1>8, <2>1, <2>2, <2>3, <2>5
    <3> QED BY <1>2, <1>8, <2>1, <2>2, <2>3, <2>5, <3>1, <3>2 DEF b
  <2>6. CASE globals[key] # null
    <3>1. a = globals[key] /\ a \in Objects \union Made /\ Len(fields[a]) = 2
      <4>1. a = globals[key] /\ a \in Are("global") \union {b}
        BY <2>3, <2>4, <2>6
      <4>2. \A o \in Are("global") : o \in Objects /\ Len(fields[o]) = 2
        BY <1>1, VariableProps, Kinds DEF FieldsKept
      <4>3. Len(fields[b]) = 2
        BY <1>1, <2>1 DEF FieldsKept
      <4> QED BY <2>1, <4>1, <4>2, <4>3
    <3>2. made[a] \in Seq(Values) /\ Len(made[a]) = 2
      BY <1>8, <3>1
    <3>3. [made[a] EXCEPT ![2] = Class(t)][2] = Class(t)
      BY <2>1, <3>2, ExceptSeq
    <3>4. fields' = [made EXCEPT ![a] = [made[a] EXCEPT ![2] = Class(t)]]
      BY <2>3, <2>6, <3>1
    <3> QED BY <1>8, <2>3, <2>6, <3>1, <3>3, <3>4
  <2> QED BY <2>5, <2>6
<1>10. a = (IF globals[key] = null THEN Association(t) ELSE globals[key])
       /\ a \in Are("global") \union {Association(t)}
  BY <1>1, <1>2, <1>9 DEF NamesKept
<1>11. \A x \in Associations : x # a => fields'[x][2] = fields[x][2]
  <2>1. \A x \in Associations : x \notin ClassVariables(list)
    BY <1>2, TextProps, Kinds
  <2> QED BY <1>8, <1>9, <2>1, Constants
<1>12. ASSUME NEW s \in Symbols, s # key, globals[s] # null PROVE globals[s] # a
  <2>1. /\ symbols[Text(s)] = s /\ fields[globals[s]][1] = s
        /\ globals[s] \in Are("global") \union {Association(Text(s))}
    BY <1>1, <1>12 DEF NamesKept
  <2>2. CASE globals[key] # null
    <3>1. fields[globals[key]][1] = key
      BY <1>1, <1>2, <2>2 DEF NamesKept
    <3> QED BY <1>10, <1>12, <2>1, <2>2, <3>1
  <2>3. CASE globals[key] = null
    <3>1. a = Association(t)
      BY <1>10, <2>3
    <3>2. Text(s) \in Texts /\ Text(s) # t
      BY <1>2, <1>12, <2>1, TextProps
    <3> QED BY <1>2, <2>1, <3>1, <3>2, Apart, Kinds
  <2> QED BY <2>2, <2>3
<1>13. ASSUME NEW v \in Are("classVariable")
       PROVE  fields'[v][2] = IF v \in Listed(list) THEN nil ELSE fields[v][2]
  <2>1. v \in Objects /\ v # a
    BY <1>2, <1>10, Kinds, Apart
  <2>2. fields'[v] = IF v \in Listed(list) THEN <<fields[v][1], nil>> ELSE fields[v]
    BY <1>2, <1>8, <1>9, <2>1
  <2> QED BY <2>2
<1>14. ASSUME globals[key] = null, NEW v \in Are("classVariable"), ClassText(v) = t PROVE FALSE
  <2>1. PICK w \in Listed(list) : TRUE
    BY <1>1, <1>4, <1>14 DEF PackagesAgree
  <2>2. GlobalForwarded(Fields[w][2]) /\ ClassText(w) = t /\ w \in Are("classVariable")
    BY <1>2, <2>1
  <2>3. Interned(Fields[Fields[w][2]][1]) = symbols[t]
    BY <2>2, VariableTexts DEF Interned
  <2> QED BY <1>2, <1>14, <2>2, <2>3 DEF GlobalForwarded, GlobalOf
<1> QED BY <1>2, <1>3, <1>4, <1>5, <1>6, <1>9, <1>11, <1>12, <1>13, <1>14 DEF NewClass

LEMMA RegisterClassShared ==
  ASSUME SharedInv, IInv', PackagesAgree, status = "running", RegisterClass
  PROVE  SharedInv'
<1>1. PICK n \in Stages(heap) : At(n) /\ Shared(n)
  BY SharedNow
<1>2. /\ passes # <<>> /\ Head(passes) = "register" /\ object <= Len(Classes[heap])
      /\ UNCHANGED <<registry, flags, forwarding, bigFlag, cursor, heap, passes, status>>
      /\ UNCHANGED <<kernelInitialized, initialized>>
  BY DEF RegisterClass, registry, flags
<1>3. n = 5 /\ heap \in Heaps /\ heap \in MayNeedFixingUp
  <2>1. n # 9 /\ PassOf(n) = "register"
    BY <1>1, <1>2, StageProps DEF At
  <2>2. n = 5
    BY <2>1 DEF PassOf, Stages
  <2> QED BY <2>2, Registering DEF Stages
<1>4. PICK list : list = Classes[heap][object] /\ list \in ToSet(Classes[heap])
  <2>1. Classes[heap] \in Seq(Are("other"))
    BY <1>3, HeapsAssumption
  <2>2. object \in Nat \ {0}
    BY <1>1 DEF At, Registry
  <2> QED BY <1>2, <2>1, <2>2 DEF ToSet
<1>5. PICK key : key = fields[list][1]
  OBVIOUS
<1>6. /\ \A h \in MayNeedFixingUp : \A k \in {4, 6, 7} : Done(h, k, 5)' \subseteq Done(h, k, 5)
      /\ 5 \in Stages(heap') /\ passes' = Left(heap', 5)
  BY <1>1, <1>2, <1>3 DEF Done, At
<1>7. CASE globals[key] # null /\ fields[globals[key]][2] # nil
  <2>1. UNCHANGED <<memory, names>>
    BY <1>2, <1>4, <1>5, <1>7 DEF RegisterClass, memory
  <2> QED BY <1>1, <1>2, <1>3, <1>6, <2>1, SharedNow, QuietShared
<1>8. CASE ~(globals[key] # null /\ fields[globals[key]][2] # nil)
  <2>1. /\ GlobalsAtPut(key, Class(Text(key)),
             [o \in DOMAIN fields |->
                IF o \in ClassVariables(list) THEN <<fields[o][1], nil>> ELSE fields[o]])
        /\ classPool' = [classPool EXCEPT ![Class(Text(key))] = PoolOf(list)]
        /\ UNCHANGED symbols
    BY <1>4, <1>5, <1>8 DEF RegisterClass
  <2>2. PICK t : t = TextOf[Fields[list][1]]
    OBVIOUS
  <2>3. PICK a : a = globals'[key]
    OBVIOUS
  <2>4. /\ key = symbols[t] /\ key \in Symbols /\ t = Text(key) /\ t \in Texts
        /\ t \notin KernelNames /\ ~Registered(t)
        /\ \A u \in Texts : classPool[Class(t)][u] = nil
        /\ \A u \in Texts : classPool'[Class(t)][u] = PoolOf(list)[u]
        /\ \A s, u \in Texts : s # t => classPool'[Class(s)][u] = classPool[Class(s)][u]
        /\ globals[key] = null => \A v \in Are("classVariable") : ClassText(v) # t
        /\ a # null /\ fields'[a][2] = Class(t)
        /\ \A s \in Symbols : s # key => globals'[s] = globals[s]
        /\ globals[key] # null => a = globals[key]
        /\ \A x \in Associations : x # a => fields'[x][2] = fields[x][2]
        /\ \A s \in Symbols : s # key /\ globals[s] # null => globals[s] # a
        /\ \A v \in Are("classVariable") :
             fields'[v][2] = IF v \in Listed(list) THEN nil ELSE fields[v][2]
    <3>1. At(5) /\ Shared(5)
      BY <1>1, <1>3
    <3>2. NewClass(list, key, t, a)
      BY <1>3, <1>4, <1>5, <1>8, <2>1, <2>2, <2>3, <3>1, NewClassProps
    <3> QED BY <3>2 DEF NewClass
  <2>5. /\ NamesKept /\ NamesKept' /\ Growing
        /\ globals \in [Symbols -> Associations \union {null}]
    BY <2>1, <2>3, <2>4, SharedNow DEF IInv, NamesKept, Growing
  <2>6. /\ \A v \in Listed(list) : /\ v \in Are("classVariable") /\ ClassText(v) = t
                                   /\ PoolOf(list)[KeyText(v)] = v
        /\ \A u \in Texts : PoolOf(list)[u] # nil =>
             PoolOf(list)[u] \in Listed(list) /\ KeyText(PoolOf(list)[u]) = u
    BY <1>1, <1>3, <1>4, <2>2, ListedProps
  <2>7. \A s \in Symbols : s # key /\ globals[s] # null =>
          globals'[s] = globals[s] /\ fields'[globals[s]][2] = fields[globals[s]][2]
    BY <2>4, <2>5
  <2>8. KernelKept'
    <3> SUFFICES ASSUME kernelInitialized, NEW u \in KernelNames
                 PROVE  symbols[u] = Symbol(u) /\ globals'[Symbol(u)] = Association(u)
                        /\ fields'[Association(u)][2] = Class(u)
      BY <1>2, <2>1 DEF KernelKept
    <3>1. u \in Texts /\ Symbol(u) \in Symbols /\ Text(Symbol(u)) = u /\ Association(u) # null
      BY HeapsAssumption, TextProps, Apart
    <3>2. symbols[u] = Symbol(u) /\ globals[Symbol(u)] = Association(u)
          /\ fields[Association(u)][2] = Class(u)
      BY <1>1 DEF Shared, KernelKept
    <3> QED BY <2>4, <2>7, <3>1, <3>2
  <2>9. GlobalsKept'
    <3>1. ASSUME NEW g \in Are("global"), fields'[g][2] # nil
          PROVE  \E s \in Symbols : globals'[s] = g
      <4>1. CASE g = a
        BY <2>3, <2>4, <4>1
      <4>2. CASE g # a
        <5>1. g \in Associations /\ g # null
          BY Kinds, Apart DEF Associations
        <5>2. fields[g][2] # nil
          BY <2>4, <3>1, <4>2, <5>1
        <5>3. PICK s \in Symbols : globals[s] = g
          BY <1>1, <5>2 DEF Shared, GlobalsKept
        <5> QED BY <2>3, <2>4, <4>2, <5>1, <5>3
      <4> QED BY <4>1, <4>2
    <3>2. ASSUME NEW s \in Symbols, globals'[s] # null
          PROVE  /\ fields'[globals'[s]][2] \in {nil, Class(Text(s))}
                 /\ \A v \in Are("classVariable") :
                      Text(s) = ClassText(v) /\ Text(s) \notin KernelNames => globals'[s] \in Are("global")
      <4>1. CASE s = key
        <5>1. fields'[globals'[s]][2] = Class(Text(s))
          BY <2>3, <2>4, <4>1
        <5>2. ASSUME NEW v \in Are("classVariable"), Text(s) = ClassText(v)
              PROVE  globals'[s] \in Are("global")
          <6>1. globals[key] # null /\ globals'[s] = globals[key]
            BY <2>3, <2>4, <4>1, <5>2
          <6> QED BY <1>1, <2>4, <4>1, <5>2, <6>1 DEF Shared, GlobalsKept
        <5> QED BY <5>1, <5>2
      <4>2. CASE s # key
        BY <1>1, <2>4, <2>7, <3>2, <4>2 DEF Shared, GlobalsKept
      <4> QED BY <4>1, <4>2
    <3> QED BY <3>1, <3>2 DEF GlobalsKept, Text, ClassText, KeyText
  <2>10. ASSUME NEW u \in Texts
         PROVE  Registered(u)' <=> Registered(u) \/ u = t
    <3>1. Registered(t)'
      <4>1. key # null /\ symbols'[t] = key /\ globals'[key] = a /\ fields'[a][2] # nil
        BY <2>1, <2>3, <2>4, TextProps, Apart
      <4> QED BY <2>4, <4>1 DEF Registered
    <3>2. ASSUME u # t, symbols[u] # null
          PROVE  symbols[u] \in Symbols /\ symbols[u] # key
      BY <2>4, <2>5, <3>2 DEF NamesKept
    <3>3. ASSUME u # t PROVE Registered(u)' <=> Registered(u)
      <4>1. CASE symbols[u] = null
        BY <2>1, <4>1 DEF Registered
      <4>2. CASE symbols[u] # null
        <5>1. PICK s \in Symbols : s = symbols[u] /\ s # key
          BY <3>2, <3>3, <4>2
        <5>2. symbols'[u] = s /\ globals'[s] = globals[s]
          BY <2>1, <2>4, <5>1
        <5> QED BY <2>7, <4>2, <5>1, <5>2 DEF Registered
      <4> QED BY <4>1, <4>2
    <3> QED BY <3>1, <3>3
  <2>11. ASSUME NEW v \in Are("classVariable")
         PROVE  /\ Pooled(v)' = IF ClassText(v) = t THEN PoolOf(list)[KeyText(v)] ELSE Pooled(v)
                /\ ClassText(v) = t => Pooled(v) = nil
                /\ ClassText(v) \in Texts /\ KeyText(v) \in Texts
    BY <2>4, VariableTexts DEF Pooled
  <2>12. PoolsKept'
    <3>1. ASSUME NEW s \in Texts, NEW u \in Texts, classPool'[Class(s)][u] # nil
          PROVE  /\ Registered(s)' /\ s \notin KernelNames
                 /\ ClassText(classPool'[Class(s)][u]) = s /\ KeyText(classPool'[Class(s)][u]) = u
      <4>1. CASE s = t
        BY <2>4, <2>6, <2>10, <3>1, <4>1
      <4>2. CASE s # t
        BY <1>1, <2>4, <2>10, <3>1, <4>2 DEF Shared, PoolsKept
      <4> QED BY <4>1, <4>2
    <3>2. ASSUME NEW v \in Are("classVariable")
          PROVE  /\ Registered(ClassText(v))' /\ ClassText(v) \notin KernelNames => Pooled(v)' # nil
                 /\ fields'[v][2] = nil => Pooled(v)' = v
                 /\ forwarding[v] # null => Pooled(v)' # nil /\ forwarding[v] = Pooled(v)'
      <4>1. /\ Registered(ClassText(v)) /\ ClassText(v) \notin KernelNames => Pooled(v) # nil
            /\ fields[v][2] = nil => Pooled(v) = v
            /\ forwarding[v] # null => Pooled(v) # nil /\ forwarding[v] = Pooled(v)
        BY <1>1 DEF Shared, PoolsKept
      <4>2. v # nil
        BY VariableTexts
      <4>3. CASE ClassText(v) # t
        BY <2>4, <2>6, <2>10, <2>11, <4>1, <4>3
      <4>4. CASE ClassText(v) = t
        <5>1. PICK w \in Listed(list) : KeyText(w) = KeyText(v)
          <6>1. TextOf[Fields[list][1]] \notin KernelNames =>
                  \A u \in Are("classVariable") : ClassText(u) = TextOf[Fields[list][1]] =>
                    \E w \in Listed(list) : KeyText(w) = KeyText(u)
            BY <1>3, <1>4 DEF PackagesAgree
          <6> QED BY <2>2, <2>4, <4>4, <6>1
        <5>2. Pooled(v)' = w /\ w # nil
          BY <2>6, <2>11, <4>4, <5>1, VariableTexts
        <5>3. fields'[v][2] = nil => v \in Listed(list)
          BY <2>4, <2>11, <4>1, <4>2, <4>4
        <5>4. v \in Listed(list) => Pooled(v)' = v
          BY <2>6, <2>11, <4>4
        <5> QED BY <2>11, <4>1, <4>4, <5>2, <5>3, <5>4
      <4> QED BY <4>3, <4>4
    <3> QED BY <1>2, <3>1, <3>2 DEF PoolsKept, ClassText, KeyText
  <2>13. \A o \in Objects : \A i \in VariableSlots(o) : fields'[o][i] = fields[o][i]
    <3>1. \A o \in Objects : \A i \in 1 .. Len(Fields[o]) :
            fields'[o][i] = fields[o][i] \/ IsValue(o, i)
      BY <1>3, <1>4, <1>5, <2>1, <2>4, RegisterClassProps DEF SharedInv
    <3>2. \A o \in Objects : \A i \in VariableSlots(o) : i \in 1 .. Len(Fields[o]) /\ ~IsValue(o, i)
      BY VariableProps, Kinds, Apart DEF VariableSlots, IsValue
    <3> QED BY <3>1, <3>2
  <2>14. Fresh(5)'
    <3> SUFFICES ASSUME NEW h \in MayNeedFixingUp \ initialized, NEW o \in ToSet(Contents[h])
                 PROVE  /\ o \in Are("classVariable") => forwarding[o] = null
                        /\ \A i \in VariableSlots(o) : fields'[o][i] = Fields[o][i]
      BY <1>2 DEF Fresh, VariableSlots
    <3>1. o \in Objects
      BY Registering, FieldProps
    <3> QED BY <1>1, <1>3, <2>13, <3>1 DEF Shared, Fresh
  <2>15. Pooling(5)'
    <3>1. /\ \A v \in Are("classVariable") : Pooled(v) # nil => Pooled(v)' = Pooled(v)
          /\ \A v \in Are("classVariable") : fields'[v][2] = fields[v][2] \/ fields'[v][2] = nil
      BY <2>4, <2>11
    <3>2. /\ \A h \in MayNeedFixingUp : \A v \in Done(h, 4, 5)' : v \in Done(h, 4, 5)
          /\ \A h \in MayNeedFixingUp : \A v \in Done(h, 6, 5)' : v \in Done(h, 6, 5)
          /\ \A h \in MayNeedFixingUp : \A v \in Done(h, 7, 5)' : v \in Done(h, 7, 5)
      BY <1>6
    <3> QED BY <1>1, <1>2, <1>3, <2>5, <2>13, <3>1, <3>2, PoolingStays DEF Shared
  <2> QED BY <1>6, <2>8, <2>9, <2>12, <2>14, <2>15, SharedAt DEF Shared
<1> QED BY <1>7, <1>8

LEMMA InitializeShared ==
  ASSUME SharedInv, IInv', Idle, Initialize
  PROVE  SharedInv'
<1>1. PICK n \in Stages(heap) : At(n) /\ Shared(n)
  BY SharedNow
<1>2. n = 9 /\ IInv /\ NamesKept
  BY <1>1, IdleStage, SharedNow DEF At, Idle, SharedInv
<1>3. /\ Untouched /\ initialized' = {compactingHeap} /\ passes = Left(heap, 9)
      /\ UNCHANGED <<forwarding, classPool, work>>
      /\ \A t \in Texts : symbols'[t] = IF t \in KernelNames THEN Symbol(t) ELSE null
      /\ \A s \in Symbols : \/ globals'[s] = null
                            \/ \E t \in KernelNames : /\ t \in Texts /\ s = Symbol(t)
                                                      /\ globals'[s] = Association(t)
      /\ \A o \in Objects : fields'[o] = fields[o]
      /\ \A t \in Texts : t \in KernelNames => fields'[Association(t)] = <<Symbol(t), Class(t)>>
  BY <1>2, InitializeProps
<1>4. /\ \A t \in Texts : symbols[t] = null
      /\ \A s \in Symbols : globals[s] = null
      /\ \A o \in Objects : forwarding[o] = null
      /\ initialized = {}
  BY <1>3 DEF Untouched
<1>5. \A s, c : <<s, c>>[2] = c
  OBVIOUS
<1>6. \A t \in KernelNames : t \in Texts /\ fields'[Association(t)][2] = Class(t)
  BY <1>3, <1>5, HeapsAssumption
<1>7. KernelKept'
  <2>1. ASSUME NEW t \in KernelNames PROVE globals'[Symbol(t)] = Association(t)
    <3>1. Symbol(t) \in Symbols /\ Symbol(t)[2] = t
      BY <1>6, TextProps DEF Symbol
    <3> QED BY <3>1 DEF Initialize
  <2> QED BY <1>3, <1>6, <2>1 DEF KernelKept
<1>8. GlobalsKept'
  <2>1. ASSUME NEW g \in Are("global") PROVE fields'[g][2] = nil
    <3>1. g \in Objects /\ g # null
      BY Kinds, Apart
    <3> QED BY <1>1, <1>3, <1>4, <3>1 DEF Shared, GlobalsKept
  <2>2. ASSUME NEW s \in Symbols, globals'[s] # null
        PROVE  fields'[globals'[s]][2] = Class(Text(s)) /\ Text(s) \in KernelNames
    BY <1>3, <1>6, <2>2, TextProps
  <2> QED BY <2>1, <2>2 DEF GlobalsKept, Text
<1>9. /\ \A t, u \in Texts : classPool[Class(t)][u] = nil
      /\ \A v \in Are("classVariable") : Pooled(v) = nil /\ fields[v][2] # nil
  <2>1. \A t, u \in Texts : classPool[Class(t)][u] = nil
    BY <1>1, <1>4 DEF Shared, PoolsKept, Registered
  <2> QED BY <1>1, <2>1, VariableTexts DEF Pooled, Shared, PoolsKept
<1>10. PoolsKept'
  <2>1. \A v \in Are("classVariable") : ClassText(v) \in Texts /\ v \in Objects
    BY VariableTexts
  <2>2. \A t \in Texts : Registered(t)' => t \in KernelNames
    BY <1>3 DEF Registered
  <2> QED BY <1>3, <1>4, <1>9, <2>1, <2>2 DEF PoolsKept, ClassText, KeyText
<1>11. \A h \in MayNeedFixingUp : h \in Heaps /\ h \notin initialized'
  BY <1>3, HeapsAssumption
<1>12. Fresh(9)'
  <2> SUFFICES ASSUME NEW h \in MayNeedFixingUp, NEW o \in ToSet(Contents[h])
               PROVE  /\ o \in Are("classVariable") => forwarding'[o] = null
                      /\ \A i \in VariableSlots(o) : fields'[o][i] = Fields[o][i]
    BY DEF Fresh, VariableSlots
  <2>1. o \in Objects
    BY <1>11, FieldProps
  <2> QED BY <1>1, <1>2, <1>3, <1>4, <2>1 DEF Shared, Fresh
<1>13. Pooling(9)'
  <2>1. \A h \in MayNeedFixingUp : \A k : Done(h, k, 9)' = {}
    BY <1>11 DEF Done
  <2>2. ASSUME NEW o \in Objects, NEW i \in VariableSlots(o) PROVE fields'[o][i] = Fields[o][i]
    <3>1. Pooled(Fields[o][i]) = nil
      BY <1>9 DEF VariableSlots
    <3> QED BY <1>1, <1>3, <3>1 DEF Shared, Pooling, PoolLinks
  <2> QED BY <2>1, <2>2 DEF Pooling, VariableSlots
<1>14. 9 \in Stages(heap') /\ passes' = Left(heap', 9)
  BY <1>3 DEF work, Stages
<1> QED BY <1>7, <1>8, <1>10, <1>12, <1>13, <1>14, SharedAt DEF Shared

LEMMA InitShared == Init => SharedInv
<1> SUFFICES ASSUME Init PROVE SharedInv
  OBVIOUS
<1>1. IInv
  BY InitIInv
<1>2. /\ \A t \in Texts : symbols[t] = null
      /\ \A s \in Symbols : globals[s] = null
      /\ \A o \in Objects : forwarding[o] = null /\ fields[o] = Fields[o]
      /\ \A t, u \in Texts : classPool[Class(t)][u] = nil
      /\ initialized = {} /\ ~kernelInitialized
  <2>1. \A t \in Texts : Class(t) \in ClassObjects
    BY DEF ClassObjects
  <2> QED BY <2>1 DEF Init, ClassObjects
<1>3. KernelKept /\ GlobalsKept
  BY <1>2, VariableProps, Kinds DEF KernelKept, GlobalsKept
<1>4. PoolsKept
  <2>1. ASSUME NEW v \in Are("classVariable")
        PROVE  /\ v \in Objects /\ fields[v][2] # nil /\ ~Registered(ClassText(v))
    <3>1. v \in Objects /\ Fields[v][2] \in Objects /\ ClassText(v) \in Texts
      BY VariableTexts, Kinds
    <3> QED BY <1>2, <3>1, Apart DEF Registered
  <2> QED BY <1>2, <2>1 DEF PoolsKept
<1>5. Fresh(9)
  BY <1>2, Registering, FieldProps DEF Fresh, VariableSlots
<1>6. Pooling(9)
  <2>1. \A h, k : Done(h, k, 9) = {}
    BY <1>2 DEF Done
  <2> QED BY <1>2, <2>1 DEF Pooling, VariableSlots
<1>7. passes = Left(heap, 9) /\ 9 \in Stages(heap)
  BY DEF Init, Left, Stages
<1>8. \A j \in Stages(heap) : passes = Left(heap, j) => j = 9
  BY <1>7, StageUnique
<1> QED BY <1>1, <1>3, <1>4, <1>5, <1>6, <1>8 DEF SharedInv, Shared

LEMMA NextShared ==
  ASSUME PackagesAgree, SharedInv, [Next]_vars
  PROVE  SharedInv'
<1>1. IInv'
  BY NextIInv DEF SharedInv
<1>2. ASSUME Call PROVE SharedInv'
  BY <1>1, <1>2, RegisterStaticHeapShared, UnregisterStaticHeapShared, InitializeShared DEF Call
<1>3. ASSUME status = "running", Walk PROVE SharedInv'
  <2>1. ASSUME Astray PROVE SharedInv'
    BY <1>1, <2>1, StopShared DEF Astray, registry, flags, work
  <2> QED BY <1>1, <1>3, <2>1, ForwardSymbolShared, ForwardGlobalShared, ForwardClassVariableShared,
          ApplyForwardingShared DEF Walk
<1>4. ASSUME status = "running", NextHeap PROVE SharedInv'
  BY <1>1, <1>4, NextHeapShared
<1>5. ASSUME status = "running", RegisterClass PROVE SharedInv'
  BY <1>1, <1>5, RegisterClassShared
<1>6. ASSUME status = "running", EndPass PROVE SharedInv'
  BY <1>1, <1>6, EndPassShared
<1>7. ASSUME UNCHANGED vars PROVE SharedInv'
  BY <1>1, <1>7, StopShared DEF vars, registry, flags, work
<1> QED BY <1>2, <1>3, <1>4, <1>5, <1>6, <1>7 DEF Next, Stopped

LEMMA InvarianceShared ==
  ASSUME PackagesAgree
  PROVE  Spec => []SharedInv
<1>1. SharedInv /\ [Next]_vars => SharedInv'
  BY NextShared
<1> QED BY <1>1, InitShared, PTL DEF Spec

-----------------------------------------------------------------------------
\* Whatever packages there are and in whatever order they come, an object is only ever
\* forwarded to one of its own kind (slvm_spur_forward), a class variable never to nil.
THEOREM TypeCorrect ==
  ASSUME PackagesAgree
  PROVE  Spec => []TypeOK
<1>1. ASSUME SharedInv PROVE TypeOK
  <2>1. PICK n \in Stages(heap) : At(n) /\ Shared(n)
    BY <1>1, SharedNow
  <2>2. NamesKept /\ ForwardingKept /\ Registry(n)
    BY <1>1, <2>1, SharedNow DEF At
  <2>3. ASSUME NEW o \in Objects, forwarding[o] # null
        PROVE  /\ ClassOf[o] = "symbol" => forwarding[o] \in Symbols
               /\ ClassOf[o] = "global" => forwarding[o] \in Associations
               /\ ClassOf[o] = "classVariable" => forwarding[o] \in Are("classVariable")
               /\ ClassOf[o] \in {"symbol", "global", "classVariable"}
    <3>1. Forwards(o, forwarding[o])
      BY <2>2, <2>3 DEF ForwardingKept
    <3>2. ASSUME o \in Are("symbol") PROVE forwarding[o] \in Symbols
      BY <2>2, <3>1, <3>2, InternedProps DEF Forwards, Interns
    <3>3. ASSUME o \in Are("global") PROVE forwarding[o] \in Associations
      <4>1. Fields[o][1] \in Are("symbol") /\ Links(o, forwarding[o])
        BY <3>1, <3>3, VariableProps DEF Forwards
      <4>2. Interned(Fields[o][1]) \in Symbols
        BY <2>2, <4>1, InternedProps DEF Links
      <4> QED BY <2>2, <4>1, <4>2 DEF Links, GlobalOf, NamesKept
    <3>4. ASSUME o \in Are("classVariable") PROVE forwarding[o] \in Are("classVariable")
      BY <2>1, <2>2, <2>3, <3>4, PooledProps DEF Shared, PoolsKept
    <3> QED BY <3>1, <3>2, <3>3, <3>4, Kinds DEF Are, Forwards
  <2>4. \A o \in Objects : forwarding[o] \in {null} \union
          CASE ClassOf[o] = "symbol" -> Symbols
            [] ClassOf[o] = "global" -> Associations
            [] ClassOf[o] = "classVariable" -> Are("classVariable")
            [] OTHER -> {}
    BY <2>3
  <2>5. ToSet(staticHeaps) \subseteq Heaps \union {compactingHeap}
    <3> DEFINE S == Heaps \union {compactingHeap}
    <3>1. staticHeaps \in Seq(S)
      BY <2>2 DEF Registry
    <3> HIDE DEF S
    <3> QED BY <3>1 DEF ToSet, S
  <2> QED BY <2>2, <2>4, <2>5 DEF TypeOK, Registry, NamesKept
<1> QED BY <1>1, InvarianceShared, PTL

\* Every package that uses a class variable, in whatever order the packages are registered,
\* has the association of the class's pool (slvm_internal_fixStaticHeapPass2), when those
\* that define one class agree on its variables.
THEOREM ClassVariablesAreShared ==
  ASSUME PackagesAgree
  PROVE  Spec => []ClassVariablesShared
<1>1. ASSUME SharedInv PROVE ClassVariablesShared
  <2>1. PICK n \in Stages(heap) : At(n) /\ Shared(n)
    BY <1>1, SharedNow
  <2>2. ASSUME NEW r \in References("classVariable"), ClassText(Compiled(r)) \notin KernelNames
        PROVE  PoolLinks(Compiled(r), Refers(r))
    <3>1. PICK h \in MayNeedFixingUp \intersect initialized : r[1] \in ToSet(Contents[h])
      BY ReferenceProps
    <3>2. r[1] \in Done(h, 7, n)
      BY <3>1 DEF Done
    <3>3. r[2] \in VariableSlots(r[1])
      BY ReferenceProps DEF VariableSlots, Compiled
    <3> QED BY <2>1, <2>2, <3>1, <3>2, <3>3 DEF Shared, Pooling, Compiled, Refers
  <2> QED BY <2>2 DEF ClassVariablesShared, PoolLinks, Pooled, ClassText
<1> QED BY <1>1, InvarianceShared, PTL

=============================================================================
