--------------------------- MODULE ClassHierarchy ---------------------------
(***************************************************************************)
(* What the kernel classes promise the senders of messages: classes form a *)
(* tree, class methods are inherited along the same tree and then from the *)
(* class Class, and a message finds the most specific method for it.  How  *)
(* a receiver's class is found is not here: see KernelClasses.             *)
(***************************************************************************)
EXTENDS Naturals, FiniteSets

CONSTANTS
  Root,       \* the class without a superclass
  ClassName,  \* the class that the classes themselves inherit from
  Selectors, nil

Sides == {"instance", "class"}

VARIABLES parent,   \* the superclass that every class was declared with
          defined   \* the method declared on a class's side for a selector, or nil

Exists == DOMAIN parent

\* A class or its class side, and all that it inherits from.
Up(behavior) ==
  CASE behavior = <<Root, "instance">> -> behavior
    [] behavior = <<Root, "class">>    -> <<ClassName, "instance">>
    [] OTHER                           -> <<parent[behavior[1]], behavior[2]>>

Ancestors(behavior) ==
  LET depth == 2 * Cardinality(Exists)
      upTo[n \in 0 .. depth] ==
        IF n = 0 THEN {behavior}
        ELSE LET nearer == upTo[n - 1] IN nearer \union {Up(b) : b \in nearer}
  IN  upTo[depth]

\* Those of them that a method is declared on.
Definers(behavior, selector) ==
  {b \in Ancestors(behavior) : defined[b][selector] # nil}

\* The method of the definer that inherits from all the others.
MostSpecific(behavior, selector) ==
  LET definers == Definers(behavior, selector)
      nearest  == CHOOSE b \in definers : definers \subseteq Ancestors(b)
  IN  IF definers = {} THEN nil ELSE defined[nearest][selector]

Start(parents) ==
  /\ parent = parents
  /\ defined = [b \in Exists \X Sides |-> [s \in Selectors |-> nil]]

AddClass(name, super) ==
  /\ parent' = [n \in Exists \union {name} |-> IF n = name THEN super ELSE parent[n]]
  /\ defined' = [b \in (Exists \union {name}) \X Sides |->
                   IF b[1] = name THEN [s \in Selectors |-> nil] ELSE defined[b]]

AddMethod(behavior, selector, method) ==
  /\ defined' = [defined EXCEPT ![behavior][selector] = method]
  /\ UNCHANGED parent
=============================================================================
