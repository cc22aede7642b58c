------------------------- MODULE MC_KernelClasses -------------------------
(***************************************************************************)
(* The kernel classes for TLC: ProtoObject, Class, Metaclass and Method-   *)
(* Dictionary, and the classes of a package.  ProtoObject also stands for  *)
(* SmallInteger, the class with an alias.                                  *)
(***************************************************************************)
EXTENDS KernelClasses, TLC

CONSTANTS ProtoObject, Class, Metaclass, MethodDictionary, A, B, doIt, m1, m2

Supers ==
  ProtoObject :> nil @@ [name \in {Class, Metaclass, MethodDictionary} |-> ProtoObject]

Compact == <<ProtoObject, ProtoObject, Class, Metaclass, MethodDictionary>>
Indices == ProtoObject :> 1 @@ Class :> 3 @@ Metaclass :> 4 @@ MethodDictionary :> 5

\* The packages' classes and the methods are alike.
Alike == Permutations({A, B}) \union Permutations({m1, m2})
=============================================================================
