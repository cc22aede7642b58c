-------------------------- MODULE SymbolInterning ---------------------------
(***************************************************************************)
(* What the symbol table promises: a text has one symbol, for ever, and    *)
(* every request for the text is answered with it.                         *)
(***************************************************************************)
CONSTANTS Texts, Symbols, TextOf, nil

VARIABLES symbolOf,   \* the symbol of each text, nil before it has one
          answer      \* the text last asked for, and the symbol returned

vars == <<symbolOf, answer>>

Init == symbolOf = [t \in Texts |-> nil] /\ answer = <<>>

Intern(t) ==
  /\ \/ symbolOf[t] # nil /\ UNCHANGED symbolOf
     \/ /\ symbolOf[t] = nil
        /\ \E s \in Symbols: /\ TextOf[s] = t
                             /\ symbolOf' = [symbolOf EXCEPT ![t] = s]
  /\ answer' = <<t, symbolOf'[t]>>

Next == \E t \in Texts: Intern(t)

Spec == Init /\ [][Next]_vars
=============================================================================
