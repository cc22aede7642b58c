---------------------------- MODULE SegmentPool -----------------------------
(***************************************************************************)
(* What the segmented execution stack promises about its segments, without *)
(* the pointers it keeps them with: every thread holds its segments in     *)
(* stack order, a thread takes the segment that was released longest ago   *)
(* or else the next page of the pool, and gives back its newest one.       *)
(***************************************************************************)
EXTENDS Naturals, Sequences

CONSTANTS Threads, MaxSegments

VARIABLES free,   \* released segments, the longest released first
          owned,  \* for each thread, the segments of its stack, oldest first
          size    \* pages taken from the pool so far: segments 1 .. size exist

vars == <<free, owned, size>>

Init == free = <<>> /\ owned = [t \in Threads |-> <<>>] /\ size = 0

\* A thread reuses the longest released segment.
Reuse(t) ==
  /\ free # <<>>
  /\ owned' = [owned EXCEPT ![t] = Append(@, Head(free))]
  /\ free' = Tail(free)
  /\ UNCHANGED size

\* With none released, the pool grows by one page.
Grow(t) ==
  /\ free = <<>>
  /\ size < MaxSegments
  /\ owned' = [owned EXCEPT ![t] = Append(@, size + 1)]
  /\ size' = size + 1
  /\ UNCHANGED free

\* A thread gives back the segment on top of its stack.
Release(t) ==
  /\ owned[t] # <<>>
  /\ free' = Append(free, owned[t][Len(owned[t])])
  /\ owned' = [owned EXCEPT ![t] = SubSeq(@, 1, Len(@) - 1)]
  /\ UNCHANGED size

Next == \E t \in Threads: Reuse(t) \/ Grow(t) \/ Release(t)

Spec == Init /\ [][Next]_vars
-----------------------------------------------------------------------------
\* The invariants, first of any free list, stacks and size.
Typing(fr, ow, n) ==
  /\ n \in Nat
  /\ fr \in Seq(1 .. n)
  /\ ow \in [Threads -> Seq(1 .. n)]

Apart(fr, ow) ==
  /\ \A i, j \in 1 .. Len(fr): fr[i] = fr[j] => i = j
  /\ \A t \in Threads: \A i, j \in 1 .. Len(ow[t]): ow[t][i] = ow[t][j] => i = j
  /\ \A t \in Threads: \A i \in 1 .. Len(ow[t]), j \in 1 .. Len(fr): ow[t][i] # fr[j]
  /\ \A t, u \in Threads: t # u =>
        \A i \in 1 .. Len(ow[t]), j \in 1 .. Len(ow[u]): ow[t][i] # ow[u][j]

Complete(fr, ow, n) ==
  \A s \in 1 .. n:
     \/ \E i \in 1 .. Len(fr): fr[i] = s
     \/ \E t \in Threads: \E i \in 1 .. Len(ow[t]): ow[t][i] = s

\* The pool holds pages it has taken.
TypeOK == Typing(free, owned, size)

\* No segment has two places: it is not free and in use, not in the stacks of
\* two threads, and not twice in one of them (two frames would share words).
OnePlace == Apart(free, owned)

\* No segment is lost: every page taken from the pool is free or in a stack.
NoneLost == Complete(free, owned, size)
=============================================================================
