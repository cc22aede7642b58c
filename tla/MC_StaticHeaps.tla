--------------------------- MODULE MC_StaticHeaps ---------------------------
(***************************************************************************)
(* The first and the second package both define class C with the variable  *)
(* V, so that the later one finds it there; the second also uses a         *)
(* variable of the compact class Object.  The third uses C and V, which    *)
(* must be there.  They bring symbols for the same texts, the first one    *)
(* twice.  A last heap, data only, has a big object.                       *)
(***************************************************************************)
EXTENDS StaticHeaps, TLC

CONSTANTS first, second, third, data,
          aC, aC2, aV, aGlobal, aVariable, aClass, aCode,
          bC, bV, bObject, bGlobal, bSystem, bVariable, bKernel, bClass, bCode,
          cC, cV, cGlobal, cVariable, cCode,
          dC, dBig,
          C, V, Object

MCContents ==
  (first :> <<aCode, aC, aC2, aV, aGlobal, aVariable, aClass>>) @@
  (second :> <<bVariable, bKernel, bGlobal, bSystem, bClass, bC, bV, bObject, bCode>>) @@
  (third :> <<cVariable, cC, cV, cGlobal, cCode>>) @@
  (data :> <<dC, dBig>>)

Kind(os, kind) == [o \in os |-> kind]
MCClassOf ==
  Kind({aC, aC2, aV, bC, bV, bObject, cC, cV, dC}, "symbol") @@
  Kind({aGlobal, bGlobal, bSystem, cGlobal}, "global") @@
  Kind({aVariable, bVariable, bKernel, cVariable}, "classVariable") @@
  Kind({aClass, aCode, bClass, bCode, cCode, dBig}, "other")

MCTextOf ==
  Kind({aC, aC2, bC, cC, dC}, C) @@ Kind({aV, bV, cV}, V) @@ (bObject :> Object)

MCFields ==
  Kind({aC, aC2, aV, bC, bV, bObject, cC, cV, dC}, <<>>) @@
  (aGlobal :> <<aC2, nil>>) @@ (aVariable :> <<aV, aGlobal>>) @@
  (aClass :> <<aC, aVariable>>) @@ (aCode :> <<aC2, aGlobal, aVariable, aV>>) @@
  (bGlobal :> <<bC, nil>>) @@ (bSystem :> <<bObject, nil>>) @@
  (bVariable :> <<bV, bGlobal>>) @@ (bKernel :> <<bV, bSystem>>) @@
  (bClass :> <<bC, bVariable>>) @@
  (bCode :> <<bC, bGlobal, bSystem, bVariable, bKernel>>) @@
  (cGlobal :> <<cC, nil>>) @@ (cVariable :> <<cV, cGlobal>>) @@
  (cCode :> <<cVariable, cGlobal, cC>>) @@
  (dBig :> <<dC>>)

MCClasses ==
  (first :> <<aClass>>) @@ (second :> <<bClass>>) @@ (third :> <<>>) @@ (data :> <<>>)
=============================================================================
