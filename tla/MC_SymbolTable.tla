--------------------------- MODULE MC_SymbolTable ---------------------------
(***************************************************************************)
(* Seven texts, with the hash the code computes, whose probe sequences     *)
(* collide and wrap round: enough to enlarge a set of 4 slots twice, to 8  *)
(* and to 16.  One text has both a byte symbol and a wide one, and two     *)
(* have only a wide one; the strings are byte strings.                     *)
(***************************************************************************)
EXTENDS SymbolTable, TLC

CONSTANTS s1, s2, s3, s4, s5, s6, s7, wide1, string1, string5

e == <<101>>                                    \* "e"
Keyword == <<97, 116, 58, 112, 117, 116, 58>>   \* "at:put:"

MCTextOf ==
  (s1 :> e) @@ (s2 :> <<325>>) @@ (s3 :> <<105>>) @@ (s4 :> <<97>>) @@ (s5 :> Keyword)
    @@ (s6 :> <<112>>) @@ (s7 :> <<945, 951>>)
    @@ (wide1 :> e) @@ (string1 :> e) @@ (string5 :> Keyword)

MCKeys == {MCTextOf[o] : o \in DOMAIN MCTextOf}
MCHash == [t \in MCKeys |-> TextHash(t)]
=============================================================================
