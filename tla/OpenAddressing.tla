--------------------------- MODULE OpenAddressing ---------------------------
(***************************************************************************)
(* The open-addressing scheme that the hashed collections of               *)
(* src/src/classes/collections.c share.  A table is seen through the keys  *)
(* in its slots: a function on 0 .. n - 1, nil where a slot is empty.      *)
(* A key stands for a class of equal key objects, and Hash for the hash    *)
(* function the collection is used with.                                   *)
(***************************************************************************)
EXTENDS Integers, FiniteSets

CONSTANTS Keys, nil,
          Hash        \* slvm_identityHash or the hash function, of each key

ASSUME HashAssumption == Hash \in [Keys -> Nat] /\ nil \notin Keys

Slots(n) == 0 .. n - 1

\* The slot a probe sequence reaches after d < n steps, wrapping round the end
\* of the array, and where it stops.
Start(k, n) == Hash[k] % n
Probe(k, n, d) == IF Start(k, n) + d < n THEN Start(k, n) + d
                                         ELSE Start(k, n) + d - n
Stops(k, keyAt, n, d) == keyAt[Probe(k, n, d)] \in {nil, k}

\* Mutants of ScanFor: it looks for an empty slot only; it stops at the end of
\* the array.
ScanForEmpty(k, keyAt, n) ==
  LET stops == {d \in Slots(n): keyAt[Probe(k, n, d)] = nil} IN
  IF stops = {} THEN -1
  ELSE Probe(k, n, CHOOSE d \in stops: \A e \in stops: d <= e)

ScanToEnd(k, keyAt, n) ==
  LET stops == {d \in Slots(n): Start(k, n) + d < n /\ Stops(k, keyAt, n, d)} IN
  IF stops = {} THEN -1
  ELSE Probe(k, n, CHOOSE d \in stops: \A e \in stops: d <= e)

\* scanFor: the first slot that is empty or has the key; -1 when the array has
\* no slot or the probe sequence comes back to its start.
ScanFor(k, keyAt, n) ==
  LET stops == {d \in Slots(n): Stops(k, keyAt, n, d)} IN
  IF stops = {} THEN -1
  ELSE Probe(k, n, CHOOSE d \in stops: \A e \in stops: d <= e)

\* slvm_HashedCollection_fullCondition, and the size a full array grows to.
FullCondition(n, tally) == n < 4 \/ n - tally < n \div 4

\* Mutants of GrownSize: the array stays as large; it is only doubled.
SameSize(n) == IF n < 4 THEN 4 ELSE n
DoubleOnly(n) == 2 * n

GrownSize(n) == IF 2 * n < 4 THEN 4 ELSE 2 * n
-----------------------------------------------------------------------------
Occupied(keyAt, n) == {i \in Slots(n): keyAt[i] # nil}

\* No key is in two slots.
KeysOnce(keyAt, n) ==
  \A i, j \in Occupied(keyAt, n): keyAt[i] = keyAt[j] => i = j

\* Every key is where its probe sequence gets to before it meets an empty slot:
\* no scan can miss a key that is there.
Reachable(keyAt, n, i) ==
  \E d \in Slots(n):
    /\ Probe(keyAt[i], n, d) = i
    /\ \A e \in 0 .. d - 1: keyAt[Probe(keyAt[i], n, e)] # nil

AllReachable(keyAt, n) == \A i \in Occupied(keyAt, n): Reachable(keyAt, n, i)
=============================================================================
