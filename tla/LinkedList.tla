----------------------------- MODULE LinkedList -----------------------------
(***************************************************************************)
(* The intrusive doubly linked list of src/src/datastructures.c.  A list   *)
(* is a pair of pointers (first, last) and a node a pair (next, previous); *)
(* all of them are kept in one record of functions, so that a node wired   *)
(* into two lists, or removed from a list that does not hold it, does here *)
(* what it does in memory.                                                 *)
(***************************************************************************)
EXTENDS Naturals, Sequences, FiniteSets

CONSTANTS Nodes,    \* the addresses of the list nodes
          Lists,    \* the addresses of the list heads
          NULL      \* the null pointer, not a node

Pointers == Nodes \union {NULL}

LinksType == [first: [Lists -> Pointers], last: [Lists -> Pointers],
              next: [Nodes -> Pointers], previous: [Nodes -> Pointers]]

\* Zero-initialised list heads and nodes.
EmptyLinks ==
  [first    |-> [l \in Lists |-> NULL], last     |-> [l \in Lists |-> NULL],
   next     |-> [n \in Nodes |-> NULL], previous |-> [n \in Nodes |-> NULL]]

\* slvm_list_addNode: append the node after the list's last one.
AddNode(L, l, n) ==
  LET p == L.last[l] IN
  [first    |-> IF p = NULL THEN [L.first EXCEPT ![l] = n] ELSE L.first,
   last     |-> [L.last EXCEPT ![l] = n],
   next     |-> IF p = NULL THEN [L.next EXCEPT ![n] = NULL]
                            ELSE [L.next EXCEPT ![n] = NULL, ![p] = n],
   previous |-> [L.previous EXCEPT ![n] = p]]

\* slvm_list_removeNode: join the neighbours, or move the list's ends.
RemoveNode(L, l, n) ==
  LET p == L.previous[n]
      x == L.next[n] IN
  [first    |-> IF p = NULL THEN [L.first EXCEPT ![l] = x] ELSE L.first,
   last     |-> IF x = NULL THEN [L.last EXCEPT ![l] = p] ELSE L.last,
   next     |-> IF p = NULL THEN [L.next EXCEPT ![n] = NULL]
                            ELSE [L.next EXCEPT ![p] = x, ![n] = NULL],
   previous |-> IF x = NULL THEN [L.previous EXCEPT ![n] = NULL]
                            ELSE [L.previous EXCEPT ![x] = p, ![n] = NULL]]

\* The nodes met when following next from first; a cyclic list yields one
\* node more than there are.
ListNodes(L, l) ==
  LET steps == 1 .. Cardinality(Nodes) + 1
      at[i \in steps] == IF i = 1 THEN L.first[l]
                         ELSE IF at[i-1] = NULL THEN NULL ELSE L.next[at[i-1]]
  IN  [i \in {j \in steps : at[j] # NULL} |-> at[i]]
=============================================================================
