--------------------------- MODULE AssociationMap ---------------------------
(***************************************************************************)
(* What a dictionary of the runtime promises: at most one association per  *)
(* key, the value in the association, no trace of hashing or growth.       *)
(* Compiled code keeps pointers to associations (a global variable is an   *)
(* association), so it matters which operation changes the association a   *)
(* key is bound to and which only the value in it.                         *)
(***************************************************************************)
CONSTANTS Keys, Values, Associations,
          KeyOf,     \* the key of each association, set once and for all
          nil

VARIABLES binding,   \* the association of each key, or nil
          value,     \* the value of each association, nil before it is made
          answer     \* the key of the last call, and what it stored or found

vars == <<binding, value, answer>>

Init ==
  /\ binding = [k \in Keys |-> nil]
  /\ value = [a \in Associations |-> nil]
  /\ answer = <<>>

\* The caller passes an association it has made before, or makes one.
Passed(a, v) == value[a] \in {nil, v} /\ value' = [value EXCEPT ![a] = v]

Add(a, v) ==
  /\ Passed(a, v)
  /\ binding' = [binding EXCEPT ![KeyOf[a]] = a]
  /\ answer' = <<KeyOf[a], a>>

AddIfNotExistent(a, v) ==
  /\ Passed(a, v)
  /\ binding' = [binding EXCEPT ![KeyOf[a]] = IF @ = nil THEN a ELSE @]
  /\ answer' = <<KeyOf[a], binding'[KeyOf[a]]>>

AtPut(k, v) ==
  /\ IF binding[k] = nil
     THEN \E a \in Associations:
            /\ value[a] = nil /\ KeyOf[a] = k
            /\ binding' = [binding EXCEPT ![k] = a]
            /\ value' = [value EXCEPT ![a] = v]
     ELSE value' = [value EXCEPT ![binding[k]] = v] /\ UNCHANGED binding
  /\ answer' = <<k, v>>

AssociationAt(k) == answer' = <<k, binding[k]>> /\ UNCHANGED <<binding, value>>

AtOrNil(k) ==
  /\ answer' = <<k, IF binding[k] = nil THEN nil ELSE value[binding[k]]>>
  /\ UNCHANGED <<binding, value>>

Next ==
  \/ \E a \in Associations, v \in Values: Add(a, v) \/ AddIfNotExistent(a, v)
  \/ \E k \in Keys, v \in Values: AtPut(k, v)
  \/ \E k \in Keys: AssociationAt(k) \/ AtOrNil(k)

Spec == Init /\ [][Next]_vars
=============================================================================
