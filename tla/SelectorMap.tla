----------------------------- MODULE SelectorMap ----------------------------
(***************************************************************************)
(* What a method dictionary promises to the method lookup: the method last *)
(* stored at a selector, nil when there is none.                           *)
(***************************************************************************)
CONSTANTS Keys, Methods, nil

VARIABLES methodAt,    \* the method of each selector, or nil
          answer       \* the selector of the last call, and what it stored or found

vars == <<methodAt, answer>>

Init == methodAt = [k \in Keys |-> nil] /\ answer = <<>>

AtPut(k, m) == methodAt' = [methodAt EXCEPT ![k] = m] /\ answer' = <<k, m>>

AtOrNil(k) == answer' = <<k, methodAt[k]>> /\ UNCHANGED methodAt

Next == \E k \in Keys: AtOrNil(k) \/ \E m \in Methods: AtPut(k, m)

Spec == Init /\ [][Next]_vars
=============================================================================
