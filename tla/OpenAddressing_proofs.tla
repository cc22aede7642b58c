------------------------ MODULE OpenAddressing_proofs -----------------------
(***************************************************************************)
(* What a scan finds and what storing a key where a scan stops preserves,  *)
(* for any table, size and hash function.                                  *)
(***************************************************************************)
EXTENDS OpenAddressing, FiniteSetTheorems, WellFoundedInduction, TLAPS

Tables(n) == [Slots(n) -> Keys \union {nil}]
Stored(keyAt, i, k) == [keyAt EXCEPT ![i] = k]

\* Every nonempty set of natural numbers has a least element.
LEMMA LeastNatural ==
  ASSUME NEW S \in SUBSET Nat, S # {}
  PROVE  \E d \in S: \A e \in S: d <= e
<1> DEFINE R == OpToRel(<, Nat)
<1>1. IsWellFoundedOn(R, Nat)
  BY NatLessThanWellFounded
<1>2. \E d \in S: \A e \in S: ~(<<e, d>> \in R)
  <2> HIDE DEF R
  <2> QED BY <1>1, WFMin
<1>3. \A d \in S, e \in S: e < d => <<e, d>> \in R
  BY DEF OpToRel
<1>4. PICK d \in S: \A e \in S: ~(<<e, d>> \in R)
  BY <1>2
<1> HIDE DEF R
<1>5. ASSUME NEW e \in S PROVE d <= e
  <2>1. ~(e < d)
    BY <1>3, <1>4
  <2>2. d \in Nat /\ e \in Nat
    OBVIOUS
  <2> QED BY <2>1, <2>2
<1> QED BY <1>5

\* The probe sequence of a key stays in the array and visits every slot.
LEMMA ProbeVisits ==
  ASSUME NEW n \in Nat \ {0}, NEW k \in Keys
  PROVE  /\ \A d \in Slots(n): Probe(k, n, d) \in Slots(n)
         /\ \A i \in Slots(n): \E d \in Slots(n): Probe(k, n, d) = i
<1>1. Start(k, n) \in Slots(n)
  BY HashAssumption DEF Start, Slots
<1>2. \A d \in Slots(n): Probe(k, n, d) \in Slots(n)
  BY <1>1 DEF Probe, Slots
<1>3. ASSUME NEW i \in Slots(n) PROVE \E d \in Slots(n): Probe(k, n, d) = i
  <2>1. CASE i >= Start(k, n)
    <3>1. i - Start(k, n) \in Slots(n) /\ Probe(k, n, i - Start(k, n)) = i
      BY <1>1, <2>1 DEF Probe, Slots
    <3> QED BY <3>1
  <2>2. CASE i < Start(k, n)
    <3>1. /\ i - Start(k, n) + n \in Slots(n)
          /\ Probe(k, n, i - Start(k, n) + n) = i
      BY <1>1, <2>2 DEF Probe, Slots
    <3> QED BY <3>1
  <2> QED BY <1>1, <2>1, <2>2 DEF Slots
<1> QED BY <1>2, <1>3

\* The occupied slots are as many as the slots only if there is no other.
LEMMA OccupiedFinite ==
  ASSUME NEW n \in Nat, NEW keyAt \in Tables(n)
  PROVE  /\ IsFiniteSet(Occupied(keyAt, n))
         /\ Cardinality(Occupied(keyAt, n)) \in Nat
         /\ Cardinality(Occupied(keyAt, n)) < n => \E i \in Slots(n): keyAt[i] = nil
<1>1. IsFiniteSet(Slots(n)) /\ Cardinality(Slots(n)) = n
  BY FS_Interval DEF Slots
<1>2. Occupied(keyAt, n) \in SUBSET Slots(n)
  BY DEF Occupied
<1>3. IsFiniteSet(Occupied(keyAt, n)) /\ Cardinality(Occupied(keyAt, n)) \in Nat
  BY <1>1, <1>2, FS_Subset, FS_CardinalityType
<1>4. Cardinality(Occupied(keyAt, n)) < n => \E i \in Slots(n): keyAt[i] = nil
  <2> SUFFICES ASSUME Cardinality(Occupied(keyAt, n)) < n PROVE Occupied(keyAt, n) # Slots(n)
    BY <1>2 DEF Occupied
  <2> QED BY <1>1
<1> QED BY <1>3, <1>4

\* scanFor returns the first slot of the probe sequence that is empty or has
\* the key: it always finds one when a slot is empty.
LEMMA ScanForFirst ==
  ASSUME NEW n \in Nat \ {0}, NEW keyAt \in Tables(n), NEW k \in Keys,
         \E i \in Slots(n): keyAt[i] = nil
  PROVE  \E d \in Slots(n):
            /\ ScanFor(k, keyAt, n) = Probe(k, n, d) /\ Stops(k, keyAt, n, d)
            /\ ScanFor(k, keyAt, n) \in Slots(n)
            /\ \A e \in 0 .. d - 1: ~Stops(k, keyAt, n, e)
<1> DEFINE stops == {d \in Slots(n): Stops(k, keyAt, n, d)}
           least == CHOOSE d \in stops: \A e \in stops: d <= e
<1>1. stops \in SUBSET Nat /\ stops # {}
  BY ProbeVisits DEF Slots, Stops
<1>2. least \in stops /\ \A e \in stops: least <= e
  <2>1. \E d \in stops: \A e \in stops: d <= e
    <3> HIDE DEF stops
    <3> QED BY <1>1, LeastNatural
  <2> HIDE DEF stops
  <2> QED BY <2>1
<1>3. ScanFor(k, keyAt, n) = Probe(k, n, least)
  BY <1>1 DEF ScanFor
<1>4. \A e \in 0 .. least - 1: ~Stops(k, keyAt, n, e)
  <2> SUFFICES ASSUME NEW e \in 0 .. least - 1, Stops(k, keyAt, n, e) PROVE FALSE
    OBVIOUS
  <2>1. e \in stops
    BY <1>2 DEF Slots
  <2> QED BY <2>1, <1>2 DEF Slots
<1>5. least \in Slots(n) /\ Stops(k, keyAt, n, least)
  BY <1>2
<1> HIDE DEF least
<1> QED BY <1>3, <1>4, <1>5, ProbeVisits

\* A scan that stops at an occupied slot found the key.
LEMMA ScanPresent ==
  ASSUME NEW n \in Nat \ {0}, NEW keyAt \in Tables(n), NEW k \in Keys,
         \E i \in Slots(n): keyAt[i] = nil,
         keyAt[ScanFor(k, keyAt, n)] # nil
  PROVE  /\ ScanFor(k, keyAt, n) \in Occupied(keyAt, n)
         /\ keyAt[ScanFor(k, keyAt, n)] = k
BY ScanForFirst DEF Stops, Occupied

\* A scan that stops at an empty slot shows that the key is in no slot.
LEMMA ScanAbsent ==
  ASSUME NEW n \in Nat \ {0}, NEW keyAt \in Tables(n), NEW k \in Keys,
         \E i \in Slots(n): keyAt[i] = nil,
         AllReachable(keyAt, n), keyAt[ScanFor(k, keyAt, n)] = nil
  PROVE  \A j \in Occupied(keyAt, n): keyAt[j] # k
<1> SUFFICES ASSUME NEW j \in Occupied(keyAt, n), keyAt[j] = k PROVE FALSE
  OBVIOUS
<1>1. PICK d \in Slots(n): /\ ScanFor(k, keyAt, n) = Probe(k, n, d)
                           /\ \A e \in 0 .. d - 1: ~Stops(k, keyAt, n, e)
  BY ScanForFirst
<1>2. PICK c \in Slots(n): /\ Probe(k, n, c) = j
                           /\ \A e \in 0 .. c - 1: keyAt[Probe(k, n, e)] # nil
  BY DEF AllReachable, Reachable
<1>3. c \in Nat /\ d \in Nat
  BY DEF Slots
<1>4. ~(c < d)
  <2>1. Stops(k, keyAt, n, c)
    BY <1>2 DEF Stops
  <2> QED BY <1>1, <1>3, <2>1
<1>5. ~(d < c)
  BY <1>1, <1>2, <1>3
<1>6. c = d
  BY <1>3, <1>4, <1>5
<1> QED BY <1>1, <1>2, <1>6 DEF Occupied

\* Storing a key where the scan for it stops keeps the table searchable, and
\* occupies one more slot exactly when the slot was empty.
LEMMA StoreSlot ==
  ASSUME NEW n \in Nat \ {0}, NEW keyAt \in Tables(n), NEW k \in Keys,
         \E i \in Slots(n): keyAt[i] = nil,
         KeysOnce(keyAt, n), AllReachable(keyAt, n),
         NEW i, i = ScanFor(k, keyAt, n),
         NEW stored, stored = Stored(keyAt, i, k)
  PROVE  /\ i \in Slots(n) /\ stored \in Tables(n)
         /\ Occupied(stored, n) = Occupied(keyAt, n) \union {i}
         /\ KeysOnce(stored, n) /\ AllReachable(stored, n)
         /\ Cardinality(Occupied(stored, n)) =
              IF keyAt[i] = nil THEN Cardinality(Occupied(keyAt, n)) + 1
                                ELSE Cardinality(Occupied(keyAt, n))
<1>1. PICK d \in Slots(n): /\ i = Probe(k, n, d) /\ i \in Slots(n)
                           /\ \A e \in 0 .. d - 1: ~Stops(k, keyAt, n, e)
  BY ScanForFirst
<1>2. /\ stored \in Tables(n) /\ stored[i] = k /\ k # nil
      /\ \A j \in Slots(n): j # i => stored[j] = keyAt[j]
  BY <1>1, HashAssumption DEF Tables, Stored
<1>3. Occupied(stored, n) = Occupied(keyAt, n) \union {i}
  BY <1>1, <1>2 DEF Occupied
<1>4. \A j \in Occupied(keyAt, n): j # i => keyAt[j] # k
  <2>1. CASE keyAt[i] = nil
    BY <2>1, ScanAbsent
  <2>2. CASE keyAt[i] # nil
    BY <2>2, ScanPresent DEF KeysOnce
  <2> QED BY <2>1, <2>2
<1>5. KeysOnce(stored, n)
  BY <1>2, <1>3, <1>4 DEF KeysOnce, Occupied
<1>6. ASSUME NEW j \in Occupied(stored, n) PROVE Reachable(stored, n, j)
  <2>1. CASE j = i
    <3>1. \A e \in 0 .. d - 1: Probe(k, n, e) \in Slots(n)
      <4>1. 0 .. d - 1 \subseteq Slots(n)
        BY DEF Slots
      <4> QED BY <4>1, ProbeVisits
    <3>2. \A e \in 0 .. d - 1: stored[Probe(k, n, e)] # nil
      BY <1>1, <1>2, <3>1 DEF Stops
    <3> QED BY <1>1, <1>2, <2>1, <3>2 DEF Reachable
  <2>2. CASE j # i
    <3>1. j \in Occupied(keyAt, n) /\ stored[j] = keyAt[j] /\ keyAt[j] \in Keys
      BY <1>2, <1>3, <2>2 DEF Occupied, Tables
    <3>2. PICK c \in Slots(n): /\ Probe(keyAt[j], n, c) = j
                               /\ \A e \in 0 .. c - 1: keyAt[Probe(keyAt[j], n, e)] # nil
      BY <3>1 DEF AllReachable, Reachable
    <3>3. \A e \in 0 .. c - 1: Probe(keyAt[j], n, e) \in Slots(n)
      <4>1. 0 .. c - 1 \subseteq Slots(n)
        BY DEF Slots
      <4> QED BY <3>1, <4>1, ProbeVisits
    <3>4. \A e \in 0 .. c - 1: stored[Probe(keyAt[j], n, e)] # nil
      BY <1>2, <3>2, <3>3
    <3> QED BY <3>1, <3>2, <3>4 DEF Reachable
  <2> QED BY <2>1, <2>2
<1>7. Cardinality(Occupied(stored, n)) =
        IF keyAt[i] = nil THEN Cardinality(Occupied(keyAt, n)) + 1
                          ELSE Cardinality(Occupied(keyAt, n))
  <2>1. i \in Occupied(keyAt, n) <=> keyAt[i] # nil
    BY <1>1 DEF Occupied
  <2> QED BY <1>3, <2>1, OccupiedFinite, FS_AddElement
<1> QED BY <1>1, <1>2, <1>3, <1>5, <1>6, <1>7 DEF AllReachable
=============================================================================
