----------------------- MODULE ExecutionStack_proofs ------------------------
(***************************************************************************)
(* Proofs about the segmented execution stack and about the pool of        *)
(* segments it implements, for any number of threads, segments, calls and  *)
(* arguments and for any size of a segment.                                *)
(***************************************************************************)
EXTENDS ExecutionStack, FiniteSetTheorems, SequenceTheorems, WellFoundedInduction, TLAPS

VARIABLES free, owned    \* of the pool on its own

Abstract == INSTANCE SegmentPool

(***************************************************************************)
(* The inductive invariant: the lists that are threaded through the        *)
(* segment headers, and what every thread's registers, C stack and         *)
(* segments hold, given the history of its calls.                          *)
(***************************************************************************)
\* List l of L is q: its ends and the neighbours of its nodes agree.
IsList(L, l, q) ==
  LET n == Len(q) IN
  /\ q \in Seq(Segments)
  /\ \A i, j \in 1 .. n : q[i] = q[j] => i = j
  /\ L.first[l] = IF n = 0 THEN NoSegment ELSE q[1]
  /\ L.last[l] = IF n = 0 THEN NoSegment ELSE q[n]
  /\ \A i \in 1 .. n : /\ L.previous[q[i]] = IF i = 1 THEN NoSegment ELSE q[i - 1]
                       /\ L.next[q[i]] = IF i = n THEN NoSegment ELSE q[i + 1]

\* The free list, and the segments of each thread, oldest first.
Free == ListNodes(links, FreeList)
Held == [t \in Threads |-> IF current[t] = NoSegment THEN <<>>
                           ELSE ListNodes(links, current[t])]

Placed(fr, ow, n) ==
  /\ Abstract!Typing(fr, ow, n)
  /\ Abstract!Apart(fr, ow)
  /\ Abstract!Complete(fr, ow, n)

ListsKept ==
  /\ links \in LinksType /\ current \in [Threads -> Pointers]
  /\ size <= MaxSegments
  /\ IsList(links, FreeList, Free)
  /\ \A t \in Threads : current[t] # NoSegment =>
       /\ IsList(links, current[t], Held[t])
       /\ Held[t] # <<>> /\ Held[t][1] = current[t]
  /\ Placed(Free, Held, size)

FrameType == [kind: {"function", "switch"}, act: 0 .. MaxCalls, seg: Pointers, depth: Nat,
              saved: Nat, base: BOOLEAN]
CpuType == [mode: {"C", "Smalltalk"}, at: {"body", "entry", "checked", "popTrap", "toC"},
            act: 0 .. MaxCalls, seg: Pointers, fp: Pointers \X Nat, rax: Nat]
CallType == [lang: {"C", "Smalltalk"}, arguments: Nat, seg: Pointers, fp: Pointers \X Nat,
             depth: Nat, sent: BOOLEAN]

HeaderType == [threadData: Pointers, framePointer: Pointers \X Nat,
               stackPointer: 0 .. SegmentWords]
StackType == [Segments -> Seq(WordType)]

TypesKept ==
  /\ header \in [Segments -> HeaderType]
  /\ cpointer \in [Segments -> Nat]
  /\ stack \in StackType
  /\ \A s \in Segments : Len(stack[s]) <= SegmentWords
  /\ running \in BOOLEAN
  /\ cstack \in [Threads -> Seq(FrameType)]
  /\ cpu \in [Threads -> CpuType]
  /\ calls \in [Threads -> Seq(CallType)]

(***************************************************************************)
(* A thread's stack.  Of its calls c, those up to k are C, called by C;    *)
(* those from there to m are Smalltalk; and any above m are C again, which *)
(* Smalltalk called.  q are its segments, b the depth where the first of   *)
(* its Smalltalk activations was called, in the first of its segments.     *)
(***************************************************************************)
\* Where activation i was called: the segment and the depth of its caller, the
\* return address and the frame pointer that it has to bring back.
Caller(q, c, k, b, i) ==
  IF i = k + 1 THEN [seg |-> q[1], depth |-> b, word |-> ToC, fp |-> NullFrame]
  ELSE [seg |-> c[i - 1].seg, depth |-> c[i - 1].depth, word |-> Return(i - 1),
        fp |-> c[i - 1].fp]

\* The return address is at depth e of segment s, above n arguments and the
\* receiver, in the caller's segment itself.
Direct(st, S, n, s, e) ==
  s = S.seg /\ e = S.depth + n + 2 /\ e <= Len(st[s]) /\ st[s][e] = S.word

\* The caller's segment ends with the return address and the frame pointer,
\* for the trap that gives back s, the next one.
Waits(q, hd, st, S, s) ==
  \E y \in 2 .. Len(q) :
    /\ q[y] = s /\ q[y - 1] = S.seg
    /\ hd[S.seg].stackPointer = S.depth + 2 /\ Len(st[S.seg]) = S.depth + 2
    /\ st[S.seg][S.depth + 1] = S.word /\ st[S.seg][S.depth + 2] = Frame(S.fp)

\* The copy of the message starts segment s, with the trap's address.
Moved(q, hd, st, S, n, s, e) ==
  Waits(q, hd, st, S, s) /\ e = n + 2 /\ e <= Len(st[s]) /\ st[s][e] = PopTrap

\* Activation i has its frame.
Framed(q, hd, st, c, k, b, i) ==
  LET S == Caller(q, c, k, b, i)
      s == c[i].seg
      d == c[i].depth IN
  /\ c[i].fp = <<s, d>> /\ \E x \in 1 .. Len(q) : q[x] = s
  /\ d \in 2 .. Len(st[s]) /\ (s = q[1] => d > ThreadDataWords)
  /\ \/ Direct(st, S, c[i].arguments, s, d - 1) /\ st[s][d] = Frame(S.fp)
     \/ Moved(q, hd, st, S, c[i].arguments, s, d - 1) /\ st[s][d] = Frame(NullFrame)

\* The frame of j is above that of i.
Above(q, c, i, j) ==
  \A x, y \in 1 .. Len(q) :
    q[x] = c[i].seg /\ q[y] = c[j].seg => x <= y /\ (x = y => c[i].depth < c[j].depth)

Frames(q, hd, st, c, k, b, m) ==
  /\ \A i \in k + 1 .. m : Framed(q, hd, st, c, k, b, i)
  /\ \A i, j \in k + 1 .. m : i < j => Above(q, c, i, j)

\* The languages of the calls, and the C stack under the first Smalltalk one.
Nesting(cs, c, k, m) ==
  /\ k \in 1 .. m /\ m <= Len(c) /\ Len(c) <= MaxCalls
  /\ \A i \in 1 .. Len(c) : c[i].lang = IF k < i /\ i <= m THEN "Smalltalk" ELSE "C"
  /\ \A i \in 1 .. k : c[i].depth = i
  /\ k <= Len(cs) /\ \A i \in 1 .. k : cs[i] = CFrame(i, NoSegment, 0)

Result(r, c, m) == c[m].sent => r.rax = m + 1

\* The code of the innermost activation runs, ...
InBody(q, st, r, c, k, m) ==
  LET s == q[Len(q)] IN
  /\ m > k /\ m = Len(c) /\ r = InSmalltalk("body", m, s, c[m].fp, r.rax) /\ Result(r, c, m)
  /\ c[m].seg = s /\ Len(st[s]) = c[m].depth

\* ... or is just called, on its caller's segment ...
AtEntry(q, st, r, c, k, b, m) ==
  LET s == q[Len(q)]
      S == Caller(q, c, k, b, m) IN
  /\ m > k /\ m = Len(c) /\ r = InSmalltalk("entry", m, s, S.fp, r.rax) /\ ~c[m].sent
  /\ Direct(st, S, c[m].arguments, s, Len(st[s])) /\ Fits(Len(st[s]))

\* ... or on a new one ...
AfterCheck(q, hd, st, r, c, k, b, m) ==
  LET s == q[Len(q)] IN
  /\ m > k /\ m = Len(c) /\ r = InSmalltalk("checked", m, s, NullFrame, r.rax) /\ ~c[m].sent
  /\ Moved(q, hd, st, Caller(q, c, k, b, m), c[m].arguments, s, Len(st[s]))

\* ... or it has returned to the trap, ...
AtTrap(q, hd, st, r, c, k, b, m) ==
  LET s == q[Len(q)] IN
  /\ m = Len(c) /\ r = InSmalltalk("popTrap", r.act, s, r.fp, m + 1)
  /\ Waits(q, hd, st, Caller(q, c, k, b, m + 1), s)

\* ... or to C, ...
AtReturnToC(q, r, c, k, m) ==
  m = k /\ m = Len(c) /\ Len(q) = 1 /\ r = InSmalltalk("toC", r.act, q[1], r.fp, m + 1)

\* ... or it has called C.
InCalledC(q, st, cs, r, c, k, m) ==
  LET s == q[Len(q)]
      d == c[m].depth + c[m + 1].arguments + 2 IN
  /\ m > k /\ m < Len(c) /\ r = InC(Len(c), r.rax) /\ Result(r, c, Len(c))
  /\ c[m].seg = s /\ Len(st[s]) = d + 3 /\ Fits(d)
  /\ st[s][d] = Return(m) /\ st[s][d + 1] = Frame(c[m].fp)
  /\ Len(cs) = k + 1 + Len(c) - m
  /\ cs[k + 2] = CFrame(m + 1, s, d + 3)
  /\ \A i \in m + 1 .. Len(c) : c[i].depth = k + 1 + i - m
  /\ \A i \in m + 2 .. Len(c) : cs[k + 1 + i - m] = CFrame(i, NoSegment, 0)

\* What all of these keep of the thread data: the segments lead to it, and it to
\* the C frame under the first Smalltalk activation.
Base(q, hd, cp, st, cs, k, b) ==
  /\ b >= ThreadDataWords
  /\ Len(cs) > k /\ cs[k + 1] = SwitchFrame(k, q[1], 0, TRUE) /\ cp[q[1]] = k + 1
  /\ \A x \in 1 .. Len(q) : hd[q[x]].threadData = q[1]
  /\ Len(st[q[1]]) >= ThreadDataWords
  /\ \A i \in 1 .. ThreadDataWords : st[q[1]][i] = Word("threadData", 0, 0)

Runs(q, hd, st, cs, r, c, k, m, b) ==
  \/ InBody(q, st, r, c, k, m) /\ Frames(q, hd, st, c, k, b, m)
  \/ AtEntry(q, st, r, c, k, b, m) /\ Frames(q, hd, st, c, k, b, m - 1)
  \/ AfterCheck(q, hd, st, r, c, k, b, m) /\ Frames(q, hd, st, c, k, b, m - 1)
  \/ AtTrap(q, hd, st, r, c, k, b, m) /\ Frames(q, hd, st, c, k, b, m)
  \/ AtReturnToC(q, r, c, k, m)
  \/ InCalledC(q, st, cs, r, c, k, m) /\ Frames(q, hd, st, c, k, b, m)

Inside(q, hd, cp, st, cs, r, c, k, m, b) ==
  /\ Nesting(cs, c, k, m) /\ Base(q, hd, cp, st, cs, k, b)
  /\ Runs(q, hd, st, cs, r, c, k, m, b)

\* A thread without a segment runs C that only C has called.
Outside(cs, r, c) ==
  /\ Nesting(cs, c, Len(c), Len(c)) /\ Len(cs) = Len(c)
  /\ r = InC(Len(c), r.rax) /\ Result(r, c, Len(c))

ThreadKept(q, hd, cp, st, cs, r, c) ==
  \/ q = <<>> /\ Outside(cs, r, c)
  \/ q # <<>> /\ \E k, m, b \in Nat : Inside(q, hd, cp, st, cs, r, c, k, m, b)

IInv ==
  /\ ListsKept /\ TypesKept
  /\ \A t \in Threads :
       ThreadKept(Held[t], header, cpointer, stack, cstack[t], cpu[t], calls[t])
-----------------------------------------------------------------------------
(***************************************************************************)
(* The lists threaded through the segment headers.                         *)
(***************************************************************************)
LEMMA Constants ==
  /\ MaxSegments \in Nat /\ SegmentWords \in Nat /\ MaxArguments \in Nat
  /\ MaxCalls \in Nat /\ 1 <= MaxCalls
  /\ ThreadDataWords \in Nat \ {0} /\ ThreadDataWords % 2 = 0
  /\ Segments = 1 .. MaxSegments /\ NoSegment = 0 /\ FreeList = 0
  /\ Pointers = 0 .. MaxSegments /\ NoSegment \notin Segments /\ Segments \subseteq Nat
BY StackAssumption DEF StackAssumption, Segments, NoSegment, FreeList, Pointers

LEMMA LinksTyped ==
  ASSUME NEW L
  PROVE  L \in LinksType <=>
           /\ L = [first |-> L.first, last |-> L.last, next |-> L.next, previous |-> L.previous]
           /\ L.first \in [Pointers -> Pointers] /\ L.last \in [Pointers -> Pointers]
           /\ L.next \in [Segments -> Pointers] /\ L.previous \in [Segments -> Pointers]
<1>1. Segments \union {FreeList} = Pointers
  BY DEF FreeList, NoSegment, Pointers
<1> QED BY <1>1 DEF LinksType

LEMMA Least ==
  ASSUME NEW T \in SUBSET Nat, T # {}
  PROVE  \E n \in T : n = 0 \/ n - 1 \notin T
<1>1. PICK n \in T : \A m \in T : ~(<<m, n>> \in OpToRel(<, Nat))
  BY Zenon, NatLessThanWellFounded, WFMin
<1>2. ASSUME n # 0, n - 1 \in T PROVE FALSE
  <2>1. ~(<<n - 1, n>> \in {ss \in Nat \X Nat : ss[1] < ss[2]})
    BY <1>1, <1>2 DEF OpToRel
  <2>2. <<n - 1, n>> \in Nat \X Nat /\ <<n - 1, n>>[1] = n - 1 /\ <<n - 1, n>>[2] = n
    BY <1>2
  <2> QED BY <2>1, <2>2
<1> QED BY <1>2

\* A list is no longer than there are segments.
LEMMA NoLonger ==
  ASSUME NEW q \in Seq(Segments), \A i, j \in 1 .. Len(q) : q[i] = q[j] => i = j
  PROVE  Len(q) \in 0 .. MaxSegments
<1>1. Len(q) \in Nat /\ q \in [1 .. Len(q) -> Segments]
  BY LenProperties
<1>2. q \in Injection(1 .. Len(q), Segments)
  BY <1>1 DEF Injection, IsInjective
<1>3. IsFiniteSet(Segments) /\ Cardinality(Segments) = MaxSegments
  BY Constants, FS_Interval
<1>4. Cardinality(1 .. Len(q)) <= MaxSegments
  BY <1>2, <1>3, FS_Injection
<1>5. Cardinality(1 .. Len(q)) = Len(q)
  BY SMTT(20), <1>1, FS_Interval
<1> QED BY <1>1, <1>4, <1>5, Constants

\* Following next from a list's first node meets its nodes in their order.
LEMMA ListOf ==
  ASSUME NEW L \in LinksType, NEW l, NEW q, IsList(L, l, q)
  PROVE  ListNodes(L, l) = q
<1> DEFINE steps == 1 .. Cardinality(Segments) + 1
           Is(f) == f = [i \in steps |-> IF i = 1 THEN L.first[l]
                           ELSE IF f[i - 1] = NoSegment THEN NoSegment ELSE L.next[f[i - 1]]]
           at == CHOOSE f : Is(f)
           g == [i \in steps |-> IF i <= Len(q) THEN q[i] ELSE NoSegment]
<1>1. /\ Cardinality(Segments) = MaxSegments /\ MaxSegments \in Nat
      /\ steps = 1 .. MaxSegments + 1
  BY SMTT(20), Constants, FS_Interval
<1>2. /\ q \in Seq(Segments) /\ Len(q) \in 0 .. MaxSegments /\ NoSegment \notin Segments
      /\ \A i \in 1 .. Len(q) : q[i] # NoSegment
  BY NoLonger, Constants DEF IsList
<1>3. Is(g)
  <2> SUFFICES ASSUME NEW i \in steps
               PROVE  g[i] = IF i = 1 THEN L.first[l]
                             ELSE IF g[i - 1] = NoSegment THEN NoSegment ELSE L.next[g[i - 1]]
    OBVIOUS
  <2>1. CASE i = 1
    BY <1>1, <1>2, <2>1 DEF IsList
  <2>2. CASE i # 1
    <3>1. i - 1 \in steps
      BY <1>1, <2>2
    <3>2. CASE i <= Len(q)
      <4>1. i - 1 \in 1 .. Len(q) /\ i - 1 # Len(q) /\ (i - 1) + 1 = i
        BY <1>1, <1>2, <2>2, <3>2
      <4>2. L.next[q[i - 1]] = q[i]
        BY <4>1 DEF IsList
      <4>3. g[i - 1] = q[i - 1] /\ g[i] = q[i] /\ g[i - 1] # NoSegment
        BY <1>1, <1>2, <3>1, <3>2, <4>1
      <4> QED BY <2>2, <4>2, <4>3
    <3>3. CASE i = Len(q) + 1
      <4>1. i - 1 = Len(q) /\ i - 1 \in 1 .. Len(q)
        BY <1>1, <1>2, <2>2, <3>3
      <4>2. L.next[q[i - 1]] = NoSegment
        BY <4>1 DEF IsList
      <4>3. g[i - 1] = q[i - 1] /\ g[i] = NoSegment
        BY <1>1, <1>2, <3>1, <3>3, <4>1
      <4> QED BY <2>2, <4>2, <4>3
    <3>4. CASE i > Len(q) + 1
      BY <1>1, <1>2, <2>2, <3>1, <3>4
    <3> QED BY <1>1, <1>2, <3>2, <3>3, <3>4
  <2> QED BY <2>1, <2>2
<1>4. Is(at)
  <2> HIDE DEF g, Is
  <2> QED BY <1>3
<1>5. \A i \in steps : at[i] = g[i]
  <2> DEFINE T == {i \in steps : at[i] # g[i]}
  <2>1. SUFFICES ASSUME T # {} PROVE FALSE
    OBVIOUS
  <2>2. T \in SUBSET Nat
    BY <1>1
  <2> HIDE DEF T
  <2>3. PICK i \in T : i = 0 \/ i - 1 \notin T
    BY <2>1, <2>2, Least
  <2>4. i \in steps /\ at[i] # g[i] /\ (i # 1 => i - 1 \in steps /\ at[i - 1] = g[i - 1])
    BY <1>1, <2>3 DEF T
  <2> HIDE DEF at, g
  <2>5. /\ at[i] = IF i = 1 THEN L.first[l]
                   ELSE IF at[i - 1] = NoSegment THEN NoSegment ELSE L.next[at[i - 1]]
        /\ g[i] = IF i = 1 THEN L.first[l]
                  ELSE IF g[i - 1] = NoSegment THEN NoSegment ELSE L.next[g[i - 1]]
    BY <1>3, <1>4, <2>4
  <2> QED BY <2>4, <2>5
<1>6. ListNodes(L, l) = [i \in {j \in steps : at[j] # NoSegment} |-> at[i]]
  BY DEF ListNodes
<1>7. {j \in steps : at[j] # NoSegment} = 1 .. Len(q)
  <2> HIDE DEF at
  <2> QED BY <1>1, <1>2, <1>5
<1>8. ListNodes(L, l) = [i \in 1 .. Len(q) |-> q[i]]
  <2> HIDE DEF at
  <2>1. \A i \in 1 .. Len(q) : at[i] = q[i]
    BY <1>1, <1>2, <1>5
  <2> QED BY <1>6, <1>7, <2>1
<1> QED BY <1>2, <1>8, LenProperties

\* What a list is depends on its ends and its nodes only.
LEMMA ListSame ==
  ASSUME NEW L, NEW M, NEW l, NEW q, IsList(L, l, q),
         M.first[l] = L.first[l], M.last[l] = L.last[l],
         \A i \in 1 .. Len(q) : /\ M.next[q[i]] = L.next[q[i]]
                                /\ M.previous[q[i]] = L.previous[q[i]]
  PROVE  IsList(M, l, q)
BY DEF IsList

LEMMA ListIntro ==
  ASSUME NEW L, NEW l, NEW r \in Seq(Segments), NEW n \in Nat, Len(r) = n,
         \A i, j \in 1 .. n : r[i] = r[j] => i = j,
         L.first[l] = IF n = 0 THEN NoSegment ELSE r[1],
         L.last[l] = IF n = 0 THEN NoSegment ELSE r[n],
         \A i \in 1 .. n : /\ L.previous[r[i]] = IF i = 1 THEN NoSegment ELSE r[i - 1]
                           /\ L.next[r[i]] = IF i = n THEN NoSegment ELSE r[i + 1]
  PROVE  IsList(L, l, r)
BY DEF IsList

Disjoint(q, p) == \A i \in 1 .. Len(q), j \in 1 .. Len(p) : q[i] # p[j]
Without(q, n) == \A i \in 1 .. Len(q) : q[i] # n

\* The lists after a change of list l and of the nodes in q or n.
OthersKept(L, M, l, q, n) ==
  \A l2 \in Pointers : \A q2 :
    l2 # l /\ IsList(L, l2, q2) /\ Without(q2, n) /\ Disjoint(q2, q) => IsList(M, l2, q2)

LEMMA Appended ==
  ASSUME NEW L \in LinksType, NEW l \in Pointers, NEW n \in Segments,
         NEW q, IsList(L, l, q), Without(q, n)
  PROVE  /\ AddNode(L, l, n) \in LinksType
         /\ IsList(AddNode(L, l, n), l, Append(q, n))
         /\ OthersKept(L, AddNode(L, l, n), l, q, n)
<1> DEFINE M == AddNode(L, l, n)
           p == L.last[l]
           e == Len(q)
<1>1. /\ q \in Seq(Segments) /\ e \in Nat /\ (\A i \in 1 .. e : q[i] \in Segments)
      /\ L.first[l] = (IF e = 0 THEN NoSegment ELSE q[1])
      /\ p = (IF e = 0 THEN NoSegment ELSE q[e])
      /\ \A i \in 1 .. e : L.previous[q[i]] = (IF i = 1 THEN NoSegment ELSE q[i - 1])
      /\ \A i \in 1 .. e : L.next[q[i]] = (IF i = e THEN NoSegment ELSE q[i + 1])
      /\ \A i, j \in 1 .. e : q[i] = q[j] => i = j
  BY DEF IsList
<1>2. /\ L.first \in [Pointers -> Pointers] /\ L.last \in [Pointers -> Pointers]
      /\ L.next \in [Segments -> Pointers] /\ L.previous \in [Segments -> Pointers]
      /\ n \in Pointers /\ NoSegment \in Pointers /\ NoSegment \notin Segments
      /\ n # NoSegment
  BY LinksTyped, Constants DEF Pointers
<1>3. /\ M.first = (IF p = NoSegment THEN [L.first EXCEPT ![l] = n] ELSE L.first)
      /\ M.last = [L.last EXCEPT ![l] = n]
      /\ M.next = (IF p = NoSegment THEN [L.next EXCEPT ![n] = NoSegment]
                   ELSE [L.next EXCEPT ![n] = NoSegment, ![p] = n])
      /\ M.previous = [L.previous EXCEPT ![n] = p]
      /\ M = [first |-> M.first, last |-> M.last, next |-> M.next, previous |-> M.previous]
  BY DEF AddNode
<1>4. p = NoSegment <=> e = 0
  BY <1>1, <1>2
<1> HIDE DEF M, p, e
<1>5. M \in LinksType
  <2>1. p \in Pointers
    BY <1>2 DEF p
  <2> QED BY SMTT(20), <1>2, <1>3, <2>1, LinksTyped
<1>6. IsList(M, l, Append(q, n))
  <2> DEFINE r == Append(q, n)
  <2>1. /\ r \in Seq(Segments) /\ Len(r) = e + 1 /\ r[e + 1] = n
        /\ \A i \in 1 .. e : r[i] = q[i]
    BY <1>1, AppendProperties DEF e
  <2>2. \A i \in 1 .. e : q[i] # n
    BY DEF Without, e
  <2> HIDE DEF r
  <2>3. \A i, j \in 1 .. e + 1 : r[i] = r[j] => i = j
    <3>1. \A i \in 1 .. e + 1 : i = e + 1 \/ i \in 1 .. e
      BY <1>1
    <3>2. \A i, j \in 1 .. e : r[i] = r[j] => i = j
      BY <1>1, <2>1
    <3>3. \A i \in 1 .. e : r[i] # r[e + 1]
      BY <2>1, <2>2
    <3> QED BY <3>1, <3>2, <3>3
  <2>4. M.first[l] = r[1] /\ M.last[l] = r[e + 1]
    BY <1>1, <1>2, <1>3, <1>4, <2>1
  <2>5. ASSUME NEW i \in 1 .. e + 1
        PROVE  /\ M.previous[r[i]] = IF i = 1 THEN NoSegment ELSE r[i - 1]
               /\ M.next[r[i]] = IF i = e + 1 THEN NoSegment ELSE r[i + 1]
    <3>1. CASE i = e + 1
      <4>1. e # 0 => e \in 1 .. e
        BY <1>1
      <4> QED BY <1>1, <1>2, <1>3, <1>4, <2>1, <2>2, <3>1, <4>1
    <3>2. CASE i # e + 1
      <4>1. i \in 1 .. e /\ e \in 1 .. e /\ e # 0 /\ (i # 1 => i - 1 \in 1 .. e)
            /\ (i # e => i + 1 \in 1 .. e)
        BY <1>1, <3>2
      <4>2. M.previous[r[i]] = L.previous[q[i]]
        BY <1>1, <1>2, <1>3, <2>1, <2>2, <4>1
      <4>3. M.next[r[i]] = IF i = e THEN n ELSE L.next[q[i]]
        BY SMTT(20), <1>1, <1>2, <1>3, <1>4, <2>1, <2>2, <4>1
      <4> QED BY <1>1, <2>1, <3>2, <4>1, <4>2, <4>3
    <3> QED BY <3>1, <3>2
  <2>6. e + 1 \in Nat /\ e + 1 # 0
    BY <1>1
  <2>7. IsList(M, l, r)
    BY <2>1, <2>3, <2>4, <2>5, <2>6, ListIntro
  <2> QED BY <2>7 DEF r
<1>7. OthersKept(L, M, l, q, n)
  <2> SUFFICES ASSUME NEW l2 \in Pointers, NEW q2, l2 # l, IsList(L, l2, q2),
                      Without(q2, n), Disjoint(q2, q)
               PROVE  IsList(M, l2, q2)
    BY DEF OthersKept
  <2>1. M.first[l2] = L.first[l2] /\ M.last[l2] = L.last[l2]
    BY <1>2, <1>3
  <2>2. q2 \in Seq(Segments)
    BY DEF IsList
  <2>3. ASSUME NEW i \in 1 .. Len(q2)
        PROVE  M.next[q2[i]] = L.next[q2[i]] /\ M.previous[q2[i]] = L.previous[q2[i]]
    <3>1. q2[i] \in Segments /\ q2[i] # n
      BY <2>2 DEF Without
    <3>2. e # 0 => q2[i] # p
      BY <1>1 DEF Disjoint, e
    <3> QED BY <1>2, <1>3, <1>4, <3>1, <3>2
  <2> QED BY <2>1, <2>3, ListSame
<1> QED BY <1>5, <1>6, <1>7 DEF M

LEMMA FirstRemoved ==
  ASSUME NEW L \in LinksType, NEW l \in Pointers,
         NEW q, IsList(L, l, q), q # <<>>
  PROVE  /\ RemoveNode(L, l, q[1]) \in LinksType
         /\ IsList(RemoveNode(L, l, q[1]), l, Tail(q))
         /\ OthersKept(L, RemoveNode(L, l, q[1]), l, q, q[1])
<1> DEFINE M == RemoveNode(L, l, q[1])
           e == Len(q)
           n == q[1]
           x == L.next[n]
<1>1. /\ q \in Seq(Segments) /\ e \in Nat \ {0} /\ (\A i \in 1 .. e : q[i] \in Segments)
      /\ L.last[l] = q[e]
      /\ \A i \in 1 .. e : L.previous[q[i]] = (IF i = 1 THEN NoSegment ELSE q[i - 1])
      /\ \A i \in 1 .. e : L.next[q[i]] = (IF i = e THEN NoSegment ELSE q[i + 1])
      /\ \A i, j \in 1 .. e : q[i] = q[j] => i = j
  BY DEF IsList
<1>2. /\ L.first \in [Pointers -> Pointers] /\ L.last \in [Pointers -> Pointers]
      /\ L.next \in [Segments -> Pointers] /\ L.previous \in [Segments -> Pointers]
      /\ NoSegment \in Pointers /\ NoSegment \notin Segments /\ Segments \subseteq Pointers
  BY LinksTyped, Constants DEF Pointers
<1>3. L.previous[n] = NoSegment /\ n \in Segments
      /\ x = (IF e = 1 THEN NoSegment ELSE q[2]) /\ (x = NoSegment <=> e = 1)
  <2> HIDE DEF e
  <2>1. 1 \in 1 .. e /\ (e # 1 => 2 \in 1 .. e)
    BY <1>1
  <2> QED BY <1>1, <1>2, <2>1
<1>4. /\ M.first = [L.first EXCEPT ![l] = x]
      /\ M.last = (IF x = NoSegment THEN [L.last EXCEPT ![l] = NoSegment] ELSE L.last)
      /\ M.next = [L.next EXCEPT ![n] = NoSegment]
      /\ M.previous = (IF x = NoSegment THEN [L.previous EXCEPT ![n] = NoSegment]
                       ELSE [L.previous EXCEPT ![x] = NoSegment, ![n] = NoSegment])
      /\ M = [first |-> M.first, last |-> M.last, next |-> M.next, previous |-> M.previous]
  BY <1>3 DEF RemoveNode
<1> HIDE DEF M, e, n, x
<1>5. M \in LinksType
  <2>1. x \in Pointers
    BY <1>2, <1>3 DEF x
  <2> QED BY <1>2, <1>4, <2>1, LinksTyped
<1>6. IsList(M, l, Tail(q))
  <2> DEFINE r == Tail(q)
  <2>1. /\ r \in Seq(Segments) /\ Len(r) = e - 1
        /\ \A i \in 1 .. e - 1 : r[i] = q[i + 1]
    BY <1>1, HeadTailProperties DEF e
  <2> HIDE DEF r
  <2>2. \A i \in 1 .. e - 1 : i + 1 \in 1 .. e /\ i + 1 # 1
    BY <1>1
  <2>3. \A i, j \in 1 .. e - 1 : r[i] = r[j] => i = j
    BY <1>1, <2>1, <2>2
  <2>4. /\ M.first[l] = IF e - 1 = 0 THEN NoSegment ELSE r[1]
        /\ M.last[l] = IF e - 1 = 0 THEN NoSegment ELSE r[e - 1]
    <3>1. CASE e = 1
      BY <1>2, <1>3, <1>4, <3>1
    <3>2. CASE e # 1
      <4>1. e - 1 \in 1 .. e - 1 /\ 1 \in 1 .. e - 1 /\ (e - 1) + 1 = e
        BY <1>1, <3>2
      <4>2. M.first[l] = x /\ M.last[l] = q[e]
        BY <1>1, <1>2, <1>3, <1>4, <3>2
      <4>3. r[1] = q[2] /\ r[e - 1] = q[e]
        BY <2>1, <4>1
      <4> QED BY <1>3, <3>2, <4>1, <4>2, <4>3
    <3> QED BY <3>1, <3>2
  <2>5. ASSUME NEW i \in 1 .. e - 1
        PROVE  /\ M.previous[r[i]] = IF i = 1 THEN NoSegment ELSE r[i - 1]
               /\ M.next[r[i]] = IF i = e - 1 THEN NoSegment ELSE r[i + 1]
    <3>1. /\ r[i] = q[i + 1] /\ i + 1 \in 1 .. e /\ i + 1 # 1 /\ e # 1
          /\ r[i] \in Segments /\ r[i] # n /\ 2 \in 1 .. e
      BY <1>1, <2>1, <2>2 DEF n
    <3>2. r[i] = x <=> i = 1
      BY <1>1, <1>3, <3>1
    <3>3. M.previous[r[i]] = IF i = 1 THEN NoSegment ELSE L.previous[q[i + 1]]
      BY <1>2, <1>3, <1>4, <3>1, <3>2
    <3>4. M.next[r[i]] = L.next[q[i + 1]]
      BY <1>2, <1>4, <3>1
    <3>5. /\ i # 1 => i - 1 \in 1 .. e - 1 /\ (i - 1) + 1 = i /\ (i + 1) - 1 = i
          /\ i # e - 1 => i + 1 \in 1 .. e - 1
          /\ i = e - 1 <=> i + 1 = e
      BY <1>1
    <3>6. i # 1 => L.previous[q[i + 1]] = r[i - 1]
      <4>1. i # 1 => r[i - 1] = q[i]
        BY <2>1, <3>5
      <4> QED BY SMTT(20), <1>1, <3>1, <3>5, <4>1
    <3>7. L.next[q[i + 1]] = IF i = e - 1 THEN NoSegment ELSE r[i + 1]
      <4>1. i # e - 1 => r[i + 1] = q[(i + 1) + 1]
        BY <2>1, <3>5
      <4>2. L.next[q[i + 1]] = IF i + 1 = e THEN NoSegment ELSE q[(i + 1) + 1]
        BY <1>1, <3>1
      <4> QED BY <3>5, <4>1, <4>2
    <3> QED BY <3>3, <3>4, <3>6, <3>7
  <2>6. e - 1 \in Nat
    BY <1>1
  <2>7. IsList(M, l, r)
    BY <2>1, <2>3, <2>4, <2>5, <2>6, ListIntro
  <2> QED BY <2>7 DEF r
<1>7. OthersKept(L, M, l, q, n)
  <2> SUFFICES ASSUME NEW l2 \in Pointers, NEW q2, l2 # l, IsList(L, l2, q2),
                      Disjoint(q2, q)
               PROVE  IsList(M, l2, q2)
    BY DEF OthersKept
  <2>1. M.first[l2] = L.first[l2] /\ M.last[l2] = L.last[l2]
    BY <1>2, <1>4
  <2>2. q2 \in Seq(Segments)
    BY DEF IsList
  <2>3. ASSUME NEW i \in 1 .. Len(q2)
        PROVE  M.next[q2[i]] = L.next[q2[i]] /\ M.previous[q2[i]] = L.previous[q2[i]]
    <3>1. q2[i] \in Segments /\ q2[i] # n
      BY <1>1, <2>2 DEF Disjoint, e, n
    <3>2. e # 1 => q2[i] # x
      <4>1. e # 1 => 2 \in 1 .. e
        BY <1>1
      <4>2. e = Len(q)
        BY DEF e
      <4> QED BY <1>3, <4>1, <4>2 DEF Disjoint
    <3> QED BY <1>2, <1>3, <1>4, <3>1, <3>2
  <2> QED BY <2>1, <2>3, ListSame
<1> QED BY <1>5, <1>6, <1>7 DEF M, n

LEMMA LastRemoved ==
  ASSUME NEW L \in LinksType, NEW l \in Pointers,
         NEW q, IsList(L, l, q), q # <<>>
  PROVE  /\ RemoveNode(L, l, q[Len(q)]) \in LinksType
         /\ IsList(RemoveNode(L, l, q[Len(q)]), l, SubSeq(q, 1, Len(q) - 1))
         /\ OthersKept(L, RemoveNode(L, l, q[Len(q)]), l, q, q[Len(q)])
<1> DEFINE e == Len(q)
           n == q[e]
           M == RemoveNode(L, l, n)
           p == L.previous[n]
<1>1. /\ q \in Seq(Segments) /\ e \in Nat \ {0} /\ (\A i \in 1 .. e : q[i] \in Segments)
      /\ L.first[l] = q[1]
      /\ \A i \in 1 .. e : L.previous[q[i]] = (IF i = 1 THEN NoSegment ELSE q[i - 1])
      /\ \A i \in 1 .. e : L.next[q[i]] = (IF i = e THEN NoSegment ELSE q[i + 1])
      /\ \A i, j \in 1 .. e : q[i] = q[j] => i = j
  BY DEF IsList
<1>2. /\ L.first \in [Pointers -> Pointers] /\ L.last \in [Pointers -> Pointers]
      /\ L.next \in [Segments -> Pointers] /\ L.previous \in [Segments -> Pointers]
      /\ NoSegment \in Pointers /\ NoSegment \notin Segments /\ Segments \subseteq Pointers
  BY LinksTyped, Constants DEF Pointers
<1>3. L.next[n] = NoSegment /\ n \in Segments
      /\ p = (IF e = 1 THEN NoSegment ELSE q[e - 1]) /\ (p = NoSegment <=> e = 1)
  <2> HIDE DEF e
  <2>1. e \in 1 .. e /\ (e # 1 => e - 1 \in 1 .. e)
    BY <1>1
  <2> QED BY <1>1, <1>2, <2>1
<1>4. /\ M.first = (IF p = NoSegment THEN [L.first EXCEPT ![l] = NoSegment] ELSE L.first)
      /\ M.last = [L.last EXCEPT ![l] = p]
      /\ M.next = (IF p = NoSegment THEN [L.next EXCEPT ![n] = NoSegment]
                   ELSE [L.next EXCEPT ![p] = NoSegment, ![n] = NoSegment])
      /\ M.previous = [L.previous EXCEPT ![n] = NoSegment]
      /\ M = [first |-> M.first, last |-> M.last, next |-> M.next, previous |-> M.previous]
  BY <1>3 DEF RemoveNode
<1> HIDE DEF M, e, n, p
<1>5. M \in LinksType
  <2>1. p \in Pointers
    BY <1>2, <1>3 DEF p
  <2> QED BY <1>2, <1>4, <2>1, LinksTyped
<1>6. IsList(M, l, SubSeq(q, 1, e - 1))
  <2> DEFINE r == SubSeq(q, 1, e - 1)
  <2>1. /\ r \in Seq(Segments) /\ Len(r) = e - 1
        /\ \A i \in 1 .. e - 1 : r[i] = q[i]
    <3>1. e - 1 \in Int /\ \A i \in 1 .. e - 1 : q[i] \in Segments
      BY <1>1
    <3> QED BY <1>1, <3>1, SubSeqProperties
  <2> HIDE DEF r
  <2>2. \A i \in 1 .. e - 1 : i \in 1 .. e /\ i # e
    BY <1>1
  <2>3. \A i, j \in 1 .. e - 1 : r[i] = r[j] => i = j
    BY <1>1, <2>1, <2>2
  <2>4. /\ M.first[l] = IF e - 1 = 0 THEN NoSegment ELSE r[1]
        /\ M.last[l] = IF e - 1 = 0 THEN NoSegment ELSE r[e - 1]
    <3>1. CASE e = 1
      BY <1>2, <1>3, <1>4, <3>1
    <3>2. CASE e # 1
      <4>1. e - 1 \in 1 .. e - 1 /\ 1 \in 1 .. e - 1 /\ (e - 1) + 1 = e
        BY <1>1, <3>2
      <4> QED BY SMTT(20), <1>1, <1>2, <1>3, <1>4, <2>1, <3>2, <4>1
    <3> QED BY <3>1, <3>2
  <2>5. ASSUME NEW i \in 1 .. e - 1
        PROVE  /\ M.previous[r[i]] = IF i = 1 THEN NoSegment ELSE r[i - 1]
               /\ M.next[r[i]] = IF i = e - 1 THEN NoSegment ELSE r[i + 1]
    <3>1. /\ r[i] = q[i] /\ i \in 1 .. e /\ i # e /\ e # 1 /\ e \in 1 .. e
          /\ r[i] \in Segments /\ r[i] # n /\ e - 1 \in 1 .. e
      BY <1>1, <2>1, <2>2 DEF n
    <3>2. r[i] = p <=> i = e - 1
      BY <1>1, <1>3, <3>1
    <3>3. M.previous[r[i]] = L.previous[q[i]]
      BY <1>2, <1>4, <3>1
    <3>4. M.next[r[i]] = IF i = e - 1 THEN NoSegment ELSE L.next[q[i]]
      BY <1>2, <1>3, <1>4, <3>1, <3>2
    <3>5. /\ i # 1 => i - 1 \in 1 .. e - 1
          /\ i # e - 1 => i + 1 \in 1 .. e - 1
      BY <1>1
    <3> QED BY <1>1, <2>1, <3>1, <3>3, <3>4, <3>5
  <2>6. e - 1 \in Nat
    BY <1>1
  <2>7. IsList(M, l, r)
    BY <2>1, <2>3, <2>4, <2>5, <2>6, ListIntro
  <2> QED BY <2>7 DEF r
<1>7. OthersKept(L, M, l, q, n)
  <2> SUFFICES ASSUME NEW l2 \in Pointers, NEW q2, l2 # l, IsList(L, l2, q2),
                      Disjoint(q2, q)
               PROVE  IsList(M, l2, q2)
    BY DEF OthersKept
  <2>1. M.first[l2] = L.first[l2] /\ M.last[l2] = L.last[l2]
    BY <1>2, <1>4
  <2>2. q2 \in Seq(Segments)
    BY DEF IsList
  <2>3. ASSUME NEW i \in 1 .. Len(q2)
        PROVE  M.next[q2[i]] = L.next[q2[i]] /\ M.previous[q2[i]] = L.previous[q2[i]]
    <3>1. q2[i] \in Segments /\ q2[i] # n
      BY <1>1, <2>2 DEF Disjoint, e, n
    <3>2. e # 1 => q2[i] # p
      <4>1. e # 1 => e - 1 \in 1 .. e
        BY <1>1
      <4>2. e = Len(q)
        BY DEF e
      <4> QED BY <1>3, <4>1, <4>2 DEF Disjoint
    <3> QED BY <1>2, <1>3, <1>4, <3>1, <3>2
  <2> QED BY <2>1, <2>3, ListSame
<1> QED BY <1>5, <1>6, <1>7 DEF M, n, e

-----------------------------------------------------------------------------
(***************************************************************************)
(* The pool of segments.                                                   *)
(***************************************************************************)
\* A thread has one segment more on top of its stack.
LEMMA Pushed ==
  ASSUME NEW t \in Threads, NEW n \in Nat, NEW s \in 1 .. n, NEW f,
         f \in [Threads -> Seq(1 .. n)],
         NEW g, g = [f EXCEPT ![t] = Append(@, s)]
  PROVE  /\ g \in [Threads -> Seq(1 .. n)]
         /\ Len(g[t]) = Len(f[t]) + 1 /\ g[t][Len(f[t]) + 1] = s
         /\ \A i \in 1 .. Len(f[t]): g[t][i] = f[t][i]
         /\ \A u \in Threads: u # t => g[u] = f[u]
OBVIOUS

\* The sequences of a pool are sequences of the larger pool.
LEMMA Larger ==
  ASSUME NEW n \in Nat, NEW q \in Seq(1 .. n)
  PROVE  q \in Seq(1 .. n + 1)
<1>1. 1 .. n \subseteq 1 .. n + 1
  OBVIOUS
<1> QED BY <1>1, SeqMonotonic

LEMMA ReuseKeeps ==
  ASSUME NEW fr, NEW ow, NEW n, Placed(fr, ow, n), NEW t \in Threads, fr # <<>>
  PROVE  Placed(Tail(fr), [ow EXCEPT ![t] = Append(@, fr[1])], n)
<1> DEFINE fr2 == Tail(fr)
           ow2 == [ow EXCEPT ![t] = Append(@, fr[1])]
           s == fr[1]
<1>1. Abstract!Typing(fr, ow, n) /\ Abstract!Apart(fr, ow) /\ Abstract!Complete(fr, ow, n)
  BY DEF Placed
<1>2. /\ n \in Nat /\ fr \in Seq(1 .. n)
      /\ ow \in [Threads -> Seq(1 .. n)] /\ s \in 1 .. n
      /\ ow2 = [ow EXCEPT ![t] = Append(@, s)] /\ fr2 = Tail(fr)
  BY <1>1 DEF Abstract!Typing
<1> HIDE DEF ow2, fr2
<1>3. /\ Len(fr2) = Len(fr) - 1 /\ fr2 \in Seq(1 .. n) /\ Len(fr) \in Nat \ {0}
      /\ \A i \in 1 .. Len(fr2): i + 1 \in 1 .. Len(fr) /\ fr2[i] = fr[i + 1]
  BY <1>2, HeadTailProperties
<1>4. /\ ow2 \in [Threads -> Seq(1 .. n)]
      /\ Len(ow2[t]) = Len(ow[t]) + 1 /\ ow2[t][Len(ow[t]) + 1] = s
      /\ \A i \in 1 .. Len(ow[t]): ow2[t][i] = ow[t][i]
      /\ \A u \in Threads: u # t => ow2[u] = ow[u]
  <2> HIDE DEF s
  <2> QED BY <1>2, Pushed
<1>5. \A u \in Threads: Len(ow[u]) \in Nat
  BY <1>2
<1>6. /\ \A i, j \in 1 .. Len(fr): fr[i] = fr[j] => i = j
      /\ \A u \in Threads: \A i, j \in 1 .. Len(ow[u]):
            ow[u][i] = ow[u][j] => i = j
      /\ \A u \in Threads: \A i \in 1 .. Len(ow[u]), j \in 1 .. Len(fr):
            ow[u][i] # fr[j]
      /\ \A u, v \in Threads: u # v =>
            \A i \in 1 .. Len(ow[u]), j \in 1 .. Len(ow[v]):
               ow[u][i] # ow[v][j]
  BY <1>1 DEF Abstract!Apart
<1>7. Abstract!Typing(fr2, ow2, n)
  BY <1>2, <1>3, <1>4 DEF Abstract!Typing
<1>8. \A u \in Threads: \A i \in 1 .. Len(ow2[u]):
        \/ u = t /\ i = Len(ow[t]) + 1 /\ ow2[u][i] = fr[1]
        \/ i \in 1 .. Len(ow[u]) /\ ow2[u][i] = ow[u][i]
  BY <1>4, <1>5
<1>9. Abstract!Apart(fr2, ow2)
  <2>1. \A i, j \in 1 .. Len(fr2): fr2[i] = fr2[j] => i = j
    <3> SUFFICES ASSUME NEW i \in 1 .. Len(fr2), NEW j \in 1 .. Len(fr2),
                        fr2[i] = fr2[j]
                 PROVE  i = j
      OBVIOUS
    <3>1. i + 1 = j + 1
      BY ZenonT(40), <1>3, <1>6
    <3> QED BY <1>3, <3>1
  <2>2. \A u \in Threads: \A i, j \in 1 .. Len(ow2[u]):
           ow2[u][i] = ow2[u][j] => i = j
    <3>1. 1 \in 1 .. Len(fr)
      BY <1>3
    <3>2. \A u \in Threads: \A i \in 1 .. Len(ow[u]): ow[u][i] # fr[1]
      BY <1>6, <3>1
    <3> QED BY <1>6, <1>8, <3>2
  <2>3. \A u \in Threads: \A i \in 1 .. Len(ow2[u]), j \in 1 .. Len(fr2):
           ow2[u][i] # fr2[j]
    <3> SUFFICES ASSUME NEW u \in Threads, NEW i \in 1 .. Len(ow2[u]),
                        NEW j \in 1 .. Len(fr2)
                 PROVE  ow2[u][i] # fr2[j]
      OBVIOUS
    <3>1. fr2[j] = fr[j + 1] /\ j + 1 \in 1 .. Len(fr)
      BY <1>3
    <3>2. CASE u = t /\ i = Len(ow[t]) + 1 /\ ow2[u][i] = fr[1]
      <4>1. 1 \in 1 .. Len(fr) /\ j + 1 # 1
        BY <1>3
      <4>2. fr[1] # fr[j + 1]
        BY <1>6, <3>1, <4>1
      <4> QED BY <3>1, <3>2, <4>2
    <3>3. CASE i \in 1 .. Len(ow[u]) /\ ow2[u][i] = ow[u][i]
      BY <1>6, <3>1, <3>3
    <3> QED BY <1>8, <3>2, <3>3
  <2>4. \A u, v \in Threads: u # v =>
           \A i \in 1 .. Len(ow2[u]), j \in 1 .. Len(ow2[v]):
              ow2[u][i] # ow2[v][j]
    <3>1. 1 \in 1 .. Len(fr)
      BY <1>3
    <3>2. \A u \in Threads: \A i \in 1 .. Len(ow[u]): ow[u][i] # fr[1]
      BY <1>6, <3>1
    <3> QED BY <1>6, <1>8, <3>2
  <2> QED BY <1>1, <2>1, <2>2, <2>3, <2>4 DEF Abstract!Apart
<1>10. Abstract!Complete(fr2, ow2, n)
  <2> SUFFICES ASSUME NEW p \in 1 .. n
               PROVE  \/ \E i \in 1 .. Len(fr2): fr2[i] = p
                      \/ \E u \in Threads: \E i \in 1 .. Len(ow2[u]): ow2[u][i] = p
    BY <1>1, <1>2 DEF Abstract!Complete
  <2>1. CASE \E i \in 1 .. Len(fr): fr[i] = p
    <3>1. PICK i \in 1 .. Len(fr): fr[i] = p
      BY <2>1
    <3>2. CASE i = 1
      BY <1>4, <1>5, <3>1, <3>2
    <3>3. CASE i # 1
      <4>1. i - 1 \in 1 .. Len(fr2) /\ (i - 1) + 1 = i
        BY <1>3, <3>1, <3>3
      <4> QED BY <1>3, <3>1, <4>1
    <3> QED BY <3>2, <3>3
  <2>2. CASE \E u \in Threads: \E i \in 1 .. Len(ow[u]): ow[u][i] = p
    <3>1. PICK u \in Threads: \E i \in 1 .. Len(ow[u]): ow[u][i] = p
      BY <2>2
    <3>2. PICK i \in 1 .. Len(ow[u]): ow[u][i] = p
      BY <3>1
    <3>3. i \in 1 .. Len(ow2[u]) /\ ow2[u][i] = p
      BY <1>4, <1>5, <3>2
    <3> QED BY <3>3
  <2> QED BY <1>1, <2>1, <2>2 DEF Abstract!Complete
<1> QED BY <1>7, <1>9, <1>10 DEF Placed, ow2, fr2

LEMMA GrowKeeps ==
  ASSUME NEW fr, NEW ow, NEW n, Placed(fr, ow, n), NEW t \in Threads, fr = <<>>
  PROVE  Placed(fr, [ow EXCEPT ![t] = Append(@, n + 1)], n + 1)
<1> DEFINE ow2 == [ow EXCEPT ![t] = Append(@, n + 1)]
<1>1. Abstract!Typing(fr, ow, n) /\ Abstract!Apart(fr, ow) /\ Abstract!Complete(fr, ow, n)
  BY DEF Placed
<1>2. /\ n \in Nat /\ ow \in [Threads -> Seq(1 .. n)]
      /\ ow2 = [ow EXCEPT ![t] = Append(@, n + 1)]
  BY <1>1 DEF Abstract!Typing
<1> HIDE DEF ow2
<1>3. ow \in [Threads -> Seq(1 .. n + 1)]
  BY <1>2, Larger
<1>4. /\ ow2 \in [Threads -> Seq(1 .. n + 1)]
      /\ Len(ow2[t]) = Len(ow[t]) + 1 /\ ow2[t][Len(ow[t]) + 1] = n + 1
      /\ \A i \in 1 .. Len(ow[t]): ow2[t][i] = ow[t][i]
      /\ \A u \in Threads: u # t => ow2[u] = ow[u]
  <2>1. n + 1 \in Nat /\ n + 1 \in 1 .. n + 1
    BY <1>2
  <2> QED BY <1>2, <1>3, <2>1, Pushed
<1>5. \A u \in Threads: /\ Len(ow[u]) \in Nat
                        /\ \A i \in 1 .. Len(ow[u]): ow[u][i] \in 1 .. n
  BY <1>2
<1>6. Abstract!Typing(fr, ow2, n + 1)
  BY <1>2, <1>4 DEF Abstract!Typing
<1>7. \A u \in Threads: \A i \in 1 .. Len(ow2[u]):
        \/ u = t /\ i = Len(ow[t]) + 1 /\ ow2[u][i] = n + 1
        \/ /\ i \in 1 .. Len(ow[u]) /\ ow2[u][i] = ow[u][i]
           /\ ow2[u][i] # n + 1
  BY <1>2, <1>4, <1>5
<1>8. Abstract!Apart(fr, ow2)
  <2>1. Len(fr) = 0
    BY <1>2
  <2>2. \A u \in Threads: \A i, j \in 1 .. Len(ow2[u]):
           ow2[u][i] = ow2[u][j] => i = j
    BY <1>1, <1>7 DEF Abstract!Apart
  <2>3. \A u, v \in Threads: u # v =>
           \A i \in 1 .. Len(ow2[u]), j \in 1 .. Len(ow2[v]):
              ow2[u][i] # ow2[v][j]
    BY <1>1, <1>7 DEF Abstract!Apart
  <2> QED BY <1>1, <2>1, <2>2, <2>3 DEF Abstract!Apart
<1>9. Abstract!Complete(fr, ow2, n + 1)
  <2> SUFFICES ASSUME NEW p \in 1 .. n + 1
               PROVE  \E u \in Threads: \E i \in 1 .. Len(ow2[u]): ow2[u][i] = p
    BY <1>1, <1>2 DEF Abstract!Complete
  <2>1. CASE p = n + 1
    <3>1. Len(ow[t]) + 1 \in 1 .. Len(ow2[t])
      BY <1>4, <1>5
    <3> QED BY <1>4, <2>1, <3>1
  <2>2. CASE p # n + 1
    <3>1. p \in 1 .. n
      BY <1>2, <2>2
    <3>2. PICK u \in Threads: \E i \in 1 .. Len(ow[u]): ow[u][i] = p
      <4>1. 1 .. Len(fr) = {}
        BY <1>2
      <4>2. \/ \E i \in 1 .. Len(fr): fr[i] = p
            \/ \E u \in Threads: \E i \in 1 .. Len(ow[u]): ow[u][i] = p
        BY <1>1, <3>1 DEF Abstract!Complete
      <4> QED BY <4>1, <4>2
    <3>3. PICK i \in 1 .. Len(ow[u]): ow[u][i] = p
      BY <3>2
    <3>4. i \in 1 .. Len(ow2[u]) /\ ow2[u][i] = p
      BY <1>4, <1>5, <3>3
    <3> QED BY <3>4
  <2> QED BY <2>1, <2>2
<1> QED BY <1>6, <1>8, <1>9 DEF Placed, ow2

LEMMA ReleaseKeeps ==
  ASSUME NEW fr, NEW ow, NEW n, Placed(fr, ow, n), NEW t \in Threads, ow[t] # <<>>
  PROVE  Placed(Append(fr, ow[t][Len(ow[t])]),
                [ow EXCEPT ![t] = SubSeq(@, 1, Len(@) - 1)], n)
<1> DEFINE e == Len(ow[t])
           s == ow[t][e]
           fr2 == Append(fr, s)
           ow2 == [ow EXCEPT ![t] = SubSeq(@, 1, e - 1)]
<1>1. Abstract!Typing(fr, ow, n) /\ Abstract!Apart(fr, ow) /\ Abstract!Complete(fr, ow, n)
  BY DEF Placed
<1>2. /\ n \in Nat /\ fr \in Seq(1 .. n) /\ ow \in [Threads -> Seq(1 .. n)]
      /\ ow2 = [ow EXCEPT ![t] = SubSeq(@, 1, e - 1)] /\ fr2 = Append(fr, s)
  BY <1>1 DEF Abstract!Typing
<1> HIDE DEF ow2, fr2
<1>3. e \in Nat \ {0} /\ s \in 1 .. n
  BY <1>2
<1>4. /\ Len(fr2) = Len(fr) + 1 /\ fr2 \in Seq(1 .. n) /\ Len(fr) \in Nat
      /\ fr2[Len(fr) + 1] = s
      /\ \A i \in 1 .. Len(fr): fr2[i] = fr[i]
  BY <1>2, <1>3
<1>5. /\ ow2 \in [Threads -> Seq(1 .. n)]
      /\ Len(ow2[t]) = e - 1
      /\ \A i \in 1 .. e - 1: ow2[t][i] = ow[t][i]
      /\ \A u \in Threads: u # t => ow2[u] = ow[u]
  <2>1. ow2[t] = SubSeq(ow[t], 1, e - 1)
    BY <1>2
  <2>2. /\ ow2[t] \in Seq(1 .. n) /\ Len(ow2[t]) = e - 1
        /\ \A i \in 1 .. e - 1: ow2[t][i] = ow[t][i]
    <3>1. e - 1 \in Int /\ \A i \in 1 .. e - 1: ow[t][i] \in 1 .. n
      BY SMTT(20), <1>2, <1>3
    <3> HIDE DEF e
    <3> QED BY <1>3, <2>1, <3>1, SubSeqProperties
  <2> QED BY <1>2, <2>2
<1>6. \A u \in Threads: Len(ow[u]) \in Nat
  BY <1>2
<1>7. Abstract!Typing(fr2, ow2, n)
  BY <1>2, <1>4, <1>5 DEF Abstract!Typing
<1>8. /\ \A u \in Threads: \A i \in 1 .. Len(ow2[u]):
           /\ i \in 1 .. Len(ow[u]) /\ ow2[u][i] = ow[u][i]
           /\ u = t => i # e
      /\ \A i \in 1 .. Len(fr2):
           \/ i = Len(fr) + 1 /\ fr2[i] = s
           \/ i \in 1 .. Len(fr) /\ fr2[i] = fr[i]
      /\ e \in 1 .. Len(ow[t])
  <2>1. e \in Nat \ {0} /\ e = Len(ow[t])
    BY <1>3
  <2> HIDE DEF e
  <2>2. e \in 1 .. Len(ow[t])
    BY <2>1
  <2>3. ASSUME NEW u \in Threads, NEW i \in 1 .. Len(ow2[u])
        PROVE  /\ i \in 1 .. Len(ow[u]) /\ ow2[u][i] = ow[u][i]
               /\ u = t => i # e
    <3>1. CASE u = t
      BY <1>5, <2>1, <2>3, <3>1
    <3>2. CASE u # t
      BY <1>5, <2>3, <3>2
    <3> QED BY <3>1, <3>2
  <2>4. \A i \in 1 .. Len(fr2) :
           \/ i = Len(fr) + 1 /\ fr2[i] = s
           \/ i \in 1 .. Len(fr) /\ fr2[i] = fr[i]
    BY <1>4
  <2> QED BY <2>2, <2>3, <2>4
<1>9. Abstract!Apart(fr2, ow2)
  <2> HIDE DEF e
  <2>1. \A i, j \in 1 .. Len(fr2): fr2[i] = fr2[j] => i = j
    BY <1>1, <1>8 DEF Abstract!Apart
  <2>2. \A u \in Threads: \A i, j \in 1 .. Len(ow2[u]):
           ow2[u][i] = ow2[u][j] => i = j
    BY <1>1, <1>8 DEF Abstract!Apart
  <2>3. \A u \in Threads: \A i \in 1 .. Len(ow2[u]), j \in 1 .. Len(fr2):
           ow2[u][i] # fr2[j]
    BY <1>1, <1>8 DEF Abstract!Apart
  <2>4. \A u, v \in Threads: u # v =>
           \A i \in 1 .. Len(ow2[u]), j \in 1 .. Len(ow2[v]):
              ow2[u][i] # ow2[v][j]
    BY <1>1, <1>8 DEF Abstract!Apart
  <2> QED BY <1>1, <2>1, <2>2, <2>3, <2>4 DEF Abstract!Apart
<1>10. Abstract!Complete(fr2, ow2, n)
  <2> SUFFICES ASSUME NEW p \in 1 .. n
               PROVE  \/ \E i \in 1 .. Len(fr2): fr2[i] = p
                      \/ \E u \in Threads: \E i \in 1 .. Len(ow2[u]): ow2[u][i] = p
    BY <1>1, <1>2 DEF Abstract!Complete
  <2>1. CASE \E i \in 1 .. Len(fr): fr[i] = p
    <3>1. PICK i \in 1 .. Len(fr): fr[i] = p
      BY <2>1
    <3>2. i \in 1 .. Len(fr2) /\ fr2[i] = p
      BY <1>4, <3>1
    <3> QED BY <3>2
  <2>2. CASE \E u \in Threads: \E i \in 1 .. Len(ow[u]): ow[u][i] = p
    <3>1. PICK u \in Threads: \E i \in 1 .. Len(ow[u]): ow[u][i] = p
      BY <2>2
    <3>2. PICK i \in 1 .. Len(ow[u]): ow[u][i] = p
      BY <3>1
    <3>3. CASE u = t /\ i = e
      <4>1. Len(fr) + 1 \in 1 .. Len(fr2) /\ fr2[Len(fr) + 1] = p
        BY <1>4, <3>2, <3>3
      <4> QED BY <4>1
    <3>4. CASE ~(u = t /\ i = e)
      <4>1. i \in 1 .. Len(ow2[u]) /\ ow2[u][i] = p
        BY <1>3, <1>5, <1>6, <3>2, <3>4
      <4> QED BY <4>1
    <3> QED BY <3>3, <3>4
  <2> QED BY <1>1, <2>1, <2>2 DEF Abstract!Complete
<1> QED BY <1>7, <1>9, <1>10 DEF Placed, ow2, fr2

\* Of a segment's places, the free list and the threads' stacks, it has exactly
\* one: no two frames ever share words, and no page taken from the pool is lost.
THEOREM SegmentsApart ==
  Abstract!Spec => [](Abstract!TypeOK /\ Abstract!OnePlace /\ Abstract!NoneLost)
<1> DEFINE Inv == Abstract!TypeOK /\ Abstract!OnePlace /\ Abstract!NoneLost
<1>1. Inv <=> Placed(free, owned, size)
  BY DEF Placed, Abstract!Typing, Abstract!Apart, Abstract!Complete,
         Abstract!TypeOK, Abstract!OnePlace, Abstract!NoneLost
<1>2. Abstract!Init => Inv
  BY DEF Abstract!Init, Abstract!TypeOK, Abstract!OnePlace, Abstract!NoneLost,
         Abstract!Typing, Abstract!Apart, Abstract!Complete
<1>3. Inv /\ [Abstract!Next]_(Abstract!vars) => Inv'
  <2> SUFFICES ASSUME Inv, [Abstract!Next]_(Abstract!vars) PROVE Inv'
    OBVIOUS
  <2>1. Inv' <=> Placed(free', owned', size')
    BY DEF Placed, Abstract!Typing, Abstract!Apart, Abstract!Complete,
           Abstract!TypeOK, Abstract!OnePlace, Abstract!NoneLost
  <2>2. Placed(free, owned, size)
    BY <1>1
  <2> HIDE DEF Inv
  <2>3. CASE UNCHANGED Abstract!vars
    BY <2>1, <2>2, <2>3 DEF Abstract!vars
  <2>4. ASSUME NEW t \in Threads, Abstract!Reuse(t) PROVE Placed(free', owned', size')
    <3>1. free # <<>> /\ Head(free) = free[1]
      BY <2>4 DEF Abstract!Reuse
    <3> QED BY <2>2, <2>4, <3>1, ReuseKeeps DEF Abstract!Reuse
  <2>5. ASSUME NEW t \in Threads, Abstract!Grow(t) PROVE Placed(free', owned', size')
    BY <2>2, <2>5, GrowKeeps DEF Abstract!Grow
  <2>6. ASSUME NEW t \in Threads, Abstract!Release(t) PROVE Placed(free', owned', size')
    BY <2>2, <2>6, ReleaseKeeps DEF Abstract!Release
  <2> QED BY <2>1, <2>3, <2>4, <2>5, <2>6 DEF Abstract!Next
<1> QED BY <1>2, <1>3, PTL DEF Abstract!Spec

-----------------------------------------------------------------------------
(***************************************************************************)
(* memory.c keeps the lists.                                               *)
(***************************************************************************)
\* What the lists of the invariant say of the segments.
LEMMA ListFacts ==
  ASSUME ListsKept
  PROVE  /\ links \in LinksType /\ size \in Nat /\ size <= MaxSegments
         /\ current \in [Threads -> Pointers]
         /\ IsList(links, FreeList, Free) /\ Free \in Seq(Segments)
         /\ Placed(Free, Held, size)
         /\ \A t \in Threads :
              /\ current[t] # NoSegment => /\ IsList(links, current[t], Held[t])
                                           /\ Held[t] # <<>> /\ Held[t][1] = current[t]
                                           /\ current[t] \in Segments
              /\ current[t] = NoSegment => Held[t] = <<>>
              /\ Held[t] \in Seq(Segments)
              /\ \A i, j \in 1 .. Len(Held[t]) : Held[t][i] = Held[t][j] => i = j
              /\ Disjoint(Held[t], Free)
              /\ \A u \in Threads : t # u => Disjoint(Held[t], Held[u])
<1>1. /\ links \in LinksType /\ size <= MaxSegments /\ current \in [Threads -> Pointers]
      /\ IsList(links, FreeList, Free) /\ Placed(Free, Held, size)
      /\ \A t \in Threads : current[t] # NoSegment => /\ IsList(links, current[t], Held[t])
                                                      /\ Held[t] # <<>> /\ Held[t][1] = current[t]
  BY DEF ListsKept
<1>2. size \in Nat /\ Free \in Seq(Segments)
  BY <1>1 DEF Placed, Abstract!Typing, IsList
<1>3. ASSUME NEW t \in Threads
      PROVE  /\ current[t] = NoSegment => Held[t] = <<>>
             /\ current[t] # NoSegment => current[t] \in Segments
             /\ Held[t] \in Seq(Segments)
             /\ \A i, j \in 1 .. Len(Held[t]) : Held[t][i] = Held[t][j] => i = j
             /\ Disjoint(Held[t], Free)
             /\ \A u \in Threads : t # u => Disjoint(Held[t], Held[u])
  <2>1. current[t] = NoSegment => Held[t] = <<>>
    BY DEF Held
  <2>2. Held[t] \in Seq(Segments)
    <3>1. CASE current[t] = NoSegment
      BY <2>1, <3>1, EmptySeq
    <3>2. CASE current[t] # NoSegment
      BY <1>1, <3>2 DEF IsList
    <3> QED BY <3>1, <3>2
  <2> QED BY <1>1, <2>1, <2>2 DEF Placed, Abstract!Apart, Disjoint, Pointers
<1> QED BY <1>1, <1>2, <1>3

\* New lists that keep the invariant are the ones it will speak of.
LEMMA ListsSet ==
  ASSUME links' \in LinksType, current' \in [Threads -> Pointers], size' <= MaxSegments,
         NEW fr, NEW ow, IsList(links', FreeList, fr), Placed(fr, ow, size'),
         \A t \in Threads :
           \/ current'[t] = NoSegment /\ ow[t] = <<>>
           \/ /\ current'[t] # NoSegment /\ IsList(links', current'[t], ow[t])
              /\ ow[t] # <<>> /\ ow[t][1] = current'[t]
  PROVE  ListsKept' /\ Free' = fr /\ Held' = ow
<1>1. Free' = fr
  BY ListOf DEF Free
<1>2. DOMAIN ow = Threads /\ ow = [t \in Threads |-> ow[t]]
  BY DEF Placed, Abstract!Typing
<1>3. \A t \in Threads : ow[t] = IF current'[t] = NoSegment THEN <<>>
                                 ELSE ListNodes(links', current'[t])
  BY ListOf
<1>4. Held' = [t \in Threads |-> IF current'[t] = NoSegment THEN <<>>
                                 ELSE ListNodes(links', current'[t])]
  BY DEF Held
<1>5. Held' = ow
  BY <1>2, <1>3, <1>4
<1>6. ListsKept' <=>
        /\ links' \in LinksType /\ current' \in [Threads -> Pointers]
        /\ size' <= MaxSegments
        /\ IsList(links', FreeList, Free')
        /\ \A t \in Threads : current'[t] # NoSegment =>
             /\ IsList(links', current'[t], Held'[t])
             /\ Held'[t] # <<>> /\ Held'[t][1] = current'[t]
        /\ Placed(Free', Held', size')
  BY DEF ListsKept
<1> QED BY <1>1, <1>5, <1>6

\* The lists once segment s is allocated, and before it is put anywhere.
Taken(s) ==
  [IF links.first[FreeList] # NoSegment THEN RemoveNode(links, FreeList, s) ELSE links
     EXCEPT !.next[s] = NoSegment, !.previous[s] = NoSegment]
Allocated == IF Free # <<>> THEN Free[1] ELSE size + 1
FreeLeft  == IF Free # <<>> THEN Tail(Free) ELSE <<>>
SizeTaken == IF Free # <<>> THEN size ELSE size + 1

LEMMA Allocation ==
  ASSUME ListsKept, CanAllocate
  PROVE  /\ Allocated \in Segments /\ Taken(Allocated) \in LinksType
         /\ SizeTaken \in Nat /\ SizeTaken <= MaxSegments
         /\ Free # <<>> <=> links.first[FreeList] # NoSegment
         /\ Free # <<>> => links.first[FreeList] = Free[1]
         /\ IsList(Taken(Allocated), FreeList, FreeLeft)
         /\ Without(FreeLeft, Allocated)
         /\ \A t \in Threads :
              /\ Without(Held[t], Allocated) /\ Disjoint(Held[t], FreeLeft)
              /\ current[t] # NoSegment => IsList(Taken(Allocated), current[t], Held[t])
              /\ current[t] # Allocated
              /\ Placed(FreeLeft, [Held EXCEPT ![t] = Append(@, Allocated)], SizeTaken)
<1> DEFINE s == Allocated
           U == IF links.first[FreeList] # NoSegment THEN RemoveNode(links, FreeList, s)
                ELSE links
           T == Taken(s)
<1>1. /\ Free # <<>> <=> links.first[FreeList] # NoSegment
      /\ Free # <<>> => links.first[FreeList] = Free[1] /\ Free[1] \in Segments
  <2>1. /\ links.first[FreeList] = IF Len(Free) = 0 THEN NoSegment ELSE Free[1]
        /\ Free \in Seq(Segments)
    BY ListFacts DEF IsList
  <2>2. Free # <<>> => Len(Free) # 0 /\ Free[1] \in Segments
    BY <2>1
  <2> QED BY <2>1, <2>2, Constants
<1>2. s \in Segments /\ SizeTaken \in Nat /\ SizeTaken <= MaxSegments
  BY <1>1, ListFacts, Constants DEF CanAllocate, Allocated, SizeTaken
<1>3. FreeList \in Pointers /\ NoSegment \in Pointers /\ NoSegment \notin Segments
      /\ FreeList = NoSegment
  BY Constants
<1>4. FreeLeft \in Seq(Segments) /\ Without(FreeLeft, s)
      /\ \A i \in 1 .. Len(FreeLeft) : \E j \in 1 .. Len(Free) : FreeLeft[i] = Free[j]
  <2>1. CASE Free # <<>>
    <3>1. /\ FreeLeft = Tail(Free) /\ Free \in Seq(Segments) /\ s = Free[1]
          /\ \A i, j \in 1 .. Len(Free) : Free[i] = Free[j] => i = j
      BY <2>1, ListFacts DEF IsList, FreeLeft, Allocated
    <3>2. /\ FreeLeft \in Seq(Segments) /\ Len(FreeLeft) = Len(Free) - 1
          /\ \A i \in 1 .. Len(FreeLeft) : FreeLeft[i] = Free[i + 1]
          /\ Len(Free) \in Nat \ {0}
      BY <2>1, <3>1, HeadTailProperties
    <3>3. ASSUME NEW i \in 1 .. Len(FreeLeft)
          PROVE  i + 1 \in 1 .. Len(Free) /\ 1 \in 1 .. Len(Free) /\ i + 1 # 1
      BY <3>2
    <3>4. ASSUME NEW i \in 1 .. Len(FreeLeft) PROVE FreeLeft[i] # s
      BY <3>1, <3>2, <3>3
    <3> QED BY <3>2, <3>3, <3>4 DEF Without
  <2>2. CASE Free = <<>>
    BY <2>2 DEF FreeLeft, Without
  <2> QED BY <2>1, <2>2
<1>5. \A t \in Threads : /\ Without(Held[t], s) /\ Disjoint(Held[t], FreeLeft)
                         /\ current[t] # s
  <2> SUFFICES ASSUME NEW t \in Threads
               PROVE  Without(Held[t], s) /\ Disjoint(Held[t], FreeLeft) /\ current[t] # s
    OBVIOUS
  <2>1. Disjoint(Held[t], FreeLeft)
    BY <1>4, ListFacts DEF Disjoint
  <2>2. Without(Held[t], s)
    <3>1. CASE Free # <<>>
      <4>1. 1 \in 1 .. Len(Free) /\ s = Free[1]
        BY <3>1, ListFacts DEF Allocated
      <4> QED BY <4>1, ListFacts DEF Disjoint, Without
    <3>2. CASE Free = <<>>
      <4>1. Held[t] \in Seq(1 .. size) /\ size \in Nat /\ s = size + 1
        BY <3>2, ListFacts DEF Placed, Abstract!Typing, Allocated
      <4> QED BY <4>1 DEF Without
    <3> QED BY <3>1, <3>2
  <2>3. current[t] # s
    <3>1. CASE current[t] = NoSegment
      BY <1>2, <1>3, <3>1
    <3>2. CASE current[t] # NoSegment
      <4>1. Held[t][1] = current[t] /\ 1 \in 1 .. Len(Held[t])
        BY <3>2, ListFacts
      <4> QED BY <2>2, <4>1 DEF Without
    <3> QED BY <3>1, <3>2
  <2> QED BY <2>1, <2>2, <2>3
<1>6. /\ U \in LinksType /\ IsList(U, FreeList, FreeLeft)
      /\ \A t \in Threads : current[t] # NoSegment => IsList(U, current[t], Held[t])
  <2>1. CASE Free # <<>>
    <3>1. U = RemoveNode(links, FreeList, Free[1]) /\ FreeLeft = Tail(Free)
      BY <1>1, <2>1 DEF Allocated, FreeLeft
    <3>2. /\ U \in LinksType /\ IsList(U, FreeList, FreeLeft)
          /\ OthersKept(links, U, FreeList, Free, Free[1])
      <4> HIDE DEF U
      <4> QED BY <1>3, <2>1, <3>1, ListFacts, FirstRemoved
    <3>3. \A t \in Threads : current[t] # NoSegment => IsList(U, current[t], Held[t])
      <4> HIDE DEF U
      <4>1. Free[1] = s
        BY <2>1 DEF Allocated
      <4> QED BY <1>3, <1>5, <3>2, <4>1, ListFacts DEF OthersKept
    <3> QED BY <3>2, <3>3
  <2>2. CASE Free = <<>>
    BY <1>1, <2>2, ListFacts DEF FreeLeft
  <2> QED BY <2>1, <2>2
<1>7. /\ T.first = U.first /\ T.last = U.last
      /\ T.next = [U.next EXCEPT ![s] = NoSegment]
      /\ T.previous = [U.previous EXCEPT ![s] = NoSegment]
      /\ T = [first |-> T.first, last |-> T.last, next |-> T.next, previous |-> T.previous]
  <2>1. T = [U EXCEPT !.next[s] = NoSegment, !.previous[s] = NoSegment]
    BY DEF Taken
  <2> HIDE DEF T, U
  <2> QED BY <1>6, <2>1 DEF LinksType
<1> HIDE DEF T, U
<1>8. T \in LinksType
  BY <1>2, <1>3, <1>6, <1>7, LinksTyped
<1>9. ASSUME NEW l \in Pointers, NEW q, IsList(U, l, q), Without(q, s)
      PROVE  IsList(T, l, q)
  <2>1. U.next \in [Segments -> Pointers] /\ U.previous \in [Segments -> Pointers]
    BY <1>6, LinksTyped
  <2>2. q \in Seq(Segments)
    BY <1>9 DEF IsList
  <2>3. \A i \in 1 .. Len(q) : T.next[q[i]] = U.next[q[i]] /\ T.previous[q[i]] = U.previous[q[i]]
    BY <1>7, <1>9, <2>1, <2>2 DEF Without
  <2> QED BY <1>7, <1>9, <2>3, ListSame
<1>10. IsList(T, FreeList, FreeLeft)
  BY <1>3, <1>4, <1>6, <1>9
<1>11. \A t \in Threads : current[t] # NoSegment => IsList(T, current[t], Held[t])
  BY <1>5, <1>6, <1>9, ListFacts
<1>12. \A t \in Threads : Placed(FreeLeft, [Held EXCEPT ![t] = Append(@, s)], SizeTaken)
  <2>1. CASE Free # <<>>
    BY <2>1, ListFacts, ReuseKeeps DEF FreeLeft, Allocated, SizeTaken
  <2>2. CASE Free = <<>>
    BY <2>2, ListFacts, GrowKeeps DEF FreeLeft, Allocated, SizeTaken
  <2> QED BY <2>1, <2>2
<1> HIDE DEF s
<1> QED BY <1>1, <1>2, <1>4, <1>5, <1>8, <1>10, <1>11, <1>12 DEF T, s

\* A thread's first segment: its thread data, in it, is the head of its list.
LEMMA FirstTaken ==
  ASSUME ListsKept, CanAllocate, NEW t \in Threads, current[t] = NoSegment,
         links' = AddNode([Taken(Allocated) EXCEPT !.first[Allocated] = NoSegment,
                                                   !.last[Allocated] = NoSegment],
                          Allocated, Allocated),
         current' = [current EXCEPT ![t] = Allocated], size' = SizeTaken
  PROVE  ListsKept' /\ Free' = FreeLeft /\ Held' = [Held EXCEPT ![t] = <<Allocated>>]
<1> DEFINE s == Allocated
           T == Taken(s)
           C == [T EXCEPT !.first[s] = NoSegment, !.last[s] = NoSegment]
           ow == [Held EXCEPT ![t] = <<s>>]
<1>1. /\ s \in Segments /\ T \in LinksType /\ SizeTaken <= MaxSegments
      /\ IsList(T, FreeList, FreeLeft) /\ Without(FreeLeft, s)
      /\ \A u \in Threads : /\ Without(Held[u], s)
                            /\ current[u] # NoSegment => IsList(T, current[u], Held[u])
                            /\ current[u] # s
      /\ Placed(FreeLeft, [Held EXCEPT ![t] = Append(@, s)], SizeTaken)
  BY Allocation
<1>2. /\ s \in Pointers /\ FreeList \in Pointers /\ FreeList # s /\ s # NoSegment
      /\ NoSegment \in Pointers /\ FreeList = NoSegment
  BY <1>1, Constants DEF Pointers
<1>3. links' = AddNode(C, s, s) /\ current' = [current EXCEPT ![t] = s]
  OBVIOUS
<1> HIDE DEF s
<1>4. /\ C.first = [T.first EXCEPT ![s] = NoSegment]
      /\ C.last = [T.last EXCEPT ![s] = NoSegment]
      /\ C.next = T.next /\ C.previous = T.previous
      /\ C = [first |-> C.first, last |-> C.last, next |-> C.next, previous |-> C.previous]
  <2>1. C = [T EXCEPT !.first[s] = NoSegment, !.last[s] = NoSegment] /\ T \in LinksType
    BY <1>1
  <2> HIDE DEF T, C
  <2> QED BY <2>1 DEF LinksType
<1> HIDE DEF C, T
<1>5. C \in LinksType /\ IsList(C, s, <<>>)
  <2>1. C \in LinksType
    BY <1>1, <1>2, <1>4, LinksTyped
  <2>2. C.first[s] = NoSegment /\ C.last[s] = NoSegment
    BY <1>1, <1>2, <1>4, LinksTyped
  <2>3. IsList(C, s, <<>>)
    BY <2>2 DEF IsList
  <2> QED BY <2>1, <2>3
<1>6. ASSUME NEW l \in Pointers, NEW q, l # s, IsList(T, l, q) PROVE IsList(C, l, q)
  <2>1. C.first[l] = T.first[l] /\ C.last[l] = T.last[l]
    BY <1>1, <1>4, <1>6, LinksTyped
  <2> QED BY <1>4, <1>6, <2>1, ListSame
<1>7. /\ links' \in LinksType /\ IsList(links', s, Append(<<>>, s))
      /\ OthersKept(C, links', s, <<>>, s)
  <2> DEFINE e == <<>>
  <2>1. Without(e, s) /\ IsList(C, s, e)
    BY <1>5 DEF Without
  <2> HIDE DEF e
  <2>2. /\ AddNode(C, s, s) \in LinksType /\ IsList(AddNode(C, s, s), s, Append(e, s))
        /\ OthersKept(C, AddNode(C, s, s), s, e, s)
    BY <1>1, <1>2, <1>5, <2>1, Appended
  <2> QED BY <1>3, <2>2 DEF e
<1>8. ASSUME NEW l \in Pointers, NEW q, l # s, IsList(T, l, q), Without(q, s)
      PROVE  IsList(links', l, q)
  <2>1. Disjoint(q, <<>>)
    BY DEF Disjoint
  <2> QED BY <1>6, <1>7, <1>8, <2>1 DEF OthersKept
<1>9. Append(<<>>, s) = <<s>> /\ Held[t] = <<>> /\ Held \in [Threads -> Seq(Segments)]
  <2>1. Append(<<>>, s) = <<s>>
    OBVIOUS
  <2> QED BY <2>1, ListFacts DEF Held
<1>10. ow = [Held EXCEPT ![t] = Append(@, s)]
  BY <1>9
<1>11. ASSUME NEW u \in Threads
       PROVE  \/ current'[u] = NoSegment /\ ow[u] = <<>>
              \/ /\ current'[u] # NoSegment /\ IsList(links', current'[u], ow[u])
                 /\ ow[u] # <<>> /\ ow[u][1] = current'[u]
  <2>1. CASE u = t
    <3>1. current'[u] = s /\ ow[u] = <<s>>
      BY <1>3, <1>9, <2>1, ListFacts
    <3>2. <<s>> # <<>> /\ <<s>>[1] = s
      OBVIOUS
    <3> HIDE DEF ow
    <3> QED BY <1>2, <1>7, <1>9, <3>1, <3>2
  <2>2. CASE u # t
    <3>1. current'[u] = current[u] /\ ow[u] = Held[u]
      BY <1>3, <1>9, <2>2, ListFacts
    <3> HIDE DEF ow
    <3> QED BY <1>1, <1>8, <3>1, ListFacts
  <2> QED BY <2>1, <2>2
<1>12. current' \in [Threads -> Pointers] /\ IsList(links', FreeList, FreeLeft)
  BY <1>1, <1>2, <1>3, <1>8, ListFacts
<1>13. ListsKept' /\ Free' = FreeLeft /\ Held' = ow
  <2> HIDE DEF ow
  <2> QED BY <1>1, <1>7, <1>10, <1>11, <1>12, ListsSet
<1> QED BY <1>13 DEF s

\* A further segment of a thread.
LEMMA NextTaken ==
  ASSUME ListsKept, CanAllocate, NEW t \in Threads, current[t] # NoSegment,
         links' = AddNode(Taken(Allocated), current[t], Allocated),
         current' = current, size' = SizeTaken
  PROVE  ListsKept' /\ Free' = FreeLeft /\ Held' = [Held EXCEPT ![t] = Append(@, Allocated)]
<1> DEFINE s == Allocated
           T == Taken(s)
           ow == [Held EXCEPT ![t] = Append(@, s)]
<1>1. /\ s \in Segments /\ T \in LinksType /\ SizeTaken <= MaxSegments
      /\ IsList(T, FreeList, FreeLeft) /\ Without(FreeLeft, s)
      /\ \A u \in Threads : /\ Without(Held[u], s) /\ Disjoint(Held[u], FreeLeft)
                            /\ current[u] # NoSegment => IsList(T, current[u], Held[u])
      /\ Placed(FreeLeft, ow, SizeTaken)
  BY Allocation
<1>2. current[t] \in Pointers /\ FreeList \in Pointers /\ current[t] # FreeList
  BY ListFacts, Constants
<1>3. links' = AddNode(T, current[t], s)
  OBVIOUS
<1>4. Held \in [Threads -> Seq(Segments)] /\ Held[t] \in Seq(Segments)
  BY ListFacts DEF Held
<1> HIDE DEF s, T
<1>5. /\ links' \in LinksType /\ IsList(links', current[t], Append(Held[t], s))
      /\ OthersKept(T, links', current[t], Held[t], s)
  BY <1>1, <1>2, <1>3, Appended
<1>6. IsList(links', FreeList, FreeLeft)
  <2>1. Disjoint(FreeLeft, Held[t])
    BY <1>1 DEF Disjoint
  <2> QED BY <1>1, <1>2, <1>5, <2>1 DEF OthersKept
<1>7. ASSUME NEW u \in Threads
      PROVE  \/ current'[u] = NoSegment /\ ow[u] = <<>>
             \/ /\ current'[u] # NoSegment /\ IsList(links', current'[u], ow[u])
                /\ ow[u] # <<>> /\ ow[u][1] = current'[u]
  <2>1. CASE u = t
    <3>1. ow[u] = Append(Held[t], s) /\ Held[t] # <<>> /\ Held[t][1] = current[t]
      BY <1>4, <2>1, ListFacts
    <3>2. Len(Append(Held[t], s)) = Len(Held[t]) + 1 /\ Append(Held[t], s)[1] = Held[t][1]
          /\ Append(Held[t], s) # <<>>
      BY <1>1, <1>4, <3>1
    <3> HIDE DEF ow
    <3> QED BY <1>5, <2>1, <3>1, <3>2
  <2>2. CASE u # t
    <3>1. current'[u] = current[u] /\ ow[u] = Held[u]
      BY <1>4, <2>2
    <3> HIDE DEF ow
    <3>2. CASE current[u] = NoSegment
      BY <3>1, <3>2, ListFacts
    <3>3. CASE current[u] # NoSegment
      <4>1. Held[u] # <<>> /\ Held[u][1] = current[u] /\ IsList(T, current[u], Held[u])
            /\ Without(Held[u], s) /\ Disjoint(Held[u], Held[t]) /\ current[u] \in Pointers
        BY <1>1, <2>2, <3>3, ListFacts
      <4>2. current[u] # current[t]
        <5>1. 1 \in 1 .. Len(Held[u]) /\ 1 \in 1 .. Len(Held[t]) /\ Held[t][1] = current[t]
          BY <4>1, ListFacts
        <5> QED BY <4>1, <5>1 DEF Disjoint
      <4>3. IsList(links', current[u], Held[u])
        BY <1>5, <4>1, <4>2 DEF OthersKept
      <4> QED BY <3>1, <3>3, <4>1, <4>3
    <3> QED BY <3>2, <3>3
  <2> QED BY <2>1, <2>2
<1>8. ListsKept' /\ Free' = FreeLeft /\ Held' = ow
  <2> HIDE DEF ow
  <2> QED BY <1>1, <1>5, <1>6, <1>7, ListFacts, ListsSet
<1> QED BY <1>8 DEF s

\* The words of a stack below a depth, or a list without its last nodes.
LEMMA Prefix ==
  ASSUME NEW S, NEW w \in Seq(S), NEW d \in 0 .. Len(w)
  PROVE  /\ SubSeq(w, 1, d) \in Seq(S) /\ Len(SubSeq(w, 1, d)) = d
         /\ \A i \in 1 .. d : SubSeq(w, 1, d)[i] = w[i]
<1>1. d \in Int /\ \A i \in 1 .. d : w[i] \in S
  OBVIOUS
<1> QED BY <1>1, SubSeqProperties

LEMMA Middle ==
  ASSUME NEW A, NEW w, NEW lo \in Int, NEW hi \in Int, lo <= hi,
         \A i \in lo .. hi : w[i] \in A, NEW C, C = SubSeq(w, lo, hi)
  PROVE  /\ C \in Seq(A) /\ Len(C) = hi - lo + 1
         /\ \A i \in 1 .. hi - lo + 1 : C[i] = w[lo + i - 1]
<1>1. /\ SubSeq(w, lo, hi) \in Seq(A) /\ Len(SubSeq(w, lo, hi)) = hi - lo + 1
      /\ \A i \in 1 .. hi - lo + 1 : SubSeq(w, lo, hi)[i] = w[lo + i - 1]
  BY SubSeqProperties
<1> QED BY <1>1

\* A thread's newest segment is its list's last node.
LEMMA Newest ==
  ASSUME ListsKept, NEW t \in Threads, current[t] # NoSegment
  PROVE  LET q == Held[t] IN
         /\ q \in Seq(Segments) /\ Len(q) \in Nat \ {0} /\ q[1] = current[t]
         /\ links.last[current[t]] = q[Len(q)] /\ q[Len(q)] \in Segments
         /\ \A i \in 1 .. Len(q) : links.previous[q[i]] = IF i = 1 THEN NoSegment ELSE q[i - 1]
<1> DEFINE q == Held[t]
<1>1. IsList(links, current[t], q) /\ q # <<>> /\ q[1] = current[t] /\ q \in Seq(Segments)
  BY ListFacts
<1>2. Len(q) \in Nat \ {0} /\ Len(q) \in 1 .. Len(q)
  BY <1>1
<1> HIDE DEF q
<1>3. q[Len(q)] \in Segments
  BY <1>1, <1>2
<1>4. links.last[current[t]] = q[Len(q)]
  BY <1>1, <1>2 DEF IsList
<1>5. \A i \in 1 .. Len(q) : links.previous[q[i]] = IF i = 1 THEN NoSegment ELSE q[i - 1]
  BY <1>1 DEF IsList
<1> QED BY <1>1, <1>2, <1>3, <1>4, <1>5 DEF q

\* A thread's newest segment is given back: with its first one, the list goes.
LEMMA NewestReleased ==
  ASSUME ListsKept, NEW t \in Threads, current[t] # NoSegment,
         NEW s, s = Held[t][Len(Held[t])],
         NEW U, U = RemoveNode(links, current[t], s),
         links' = AddNode(U, FreeList, s), size' = size,
         current' = [current EXCEPT ![t] = IF U.first[current[t]] = NoSegment THEN NoSegment
                                           ELSE @]
  PROVE  /\ ListsKept' /\ Free' = Append(Free, s)
         /\ Held' = [Held EXCEPT ![t] = SubSeq(@, 1, Len(@) - 1)]
         /\ current'[t] = IF Len(Held[t]) = 1 THEN NoSegment ELSE current[t]
<1> DEFINE q == Held[t]
           r == SubSeq(q, 1, Len(q) - 1)
           ow == [Held EXCEPT ![t] = SubSeq(@, 1, Len(@) - 1)]
<1>1. /\ links \in LinksType /\ IsList(links, current[t], q) /\ q # <<>>
      /\ q[1] = current[t] /\ q \in Seq(Segments) /\ Len(q) \in Nat \ {0}
      /\ current[t] \in Pointers /\ FreeList \in Pointers /\ current[t] # FreeList
      /\ s = q[Len(q)] /\ s \in Segments /\ Len(q) \in 1 .. Len(q)
      /\ \A i, j \in 1 .. Len(q) : q[i] = q[j] => i = j
  <2>1. Len(q) \in Nat \ {0}
    BY ListFacts
  <2> QED BY <2>1, ListFacts, Constants
<1>2. Held \in [Threads -> Seq(Segments)]
  BY ListFacts DEF Held
<1>3. ow[t] = r /\ \A u \in Threads : u # t => ow[u] = Held[u]
  BY <1>2
<1>4. /\ U \in LinksType /\ IsList(U, current[t], r)
      /\ OthersKept(links, U, current[t], q, s)
  BY <1>1, LastRemoved
<1>5. r \in Seq(Segments) /\ Len(r) = Len(q) - 1 /\ \A i \in 1 .. Len(q) - 1 : r[i] = q[i]
  <2> DEFINE d == Len(q) - 1
  <2>1. d \in 0 .. Len(q)
    BY <1>1
  <2> HIDE DEF q, d
  <2>2. /\ SubSeq(q, 1, d) \in Seq(Segments) /\ Len(SubSeq(q, 1, d)) = d
        /\ \A i \in 1 .. d : SubSeq(q, 1, d)[i] = q[i]
    BY <1>1, <2>1, Prefix
  <2> QED BY <2>2 DEF d
<1>6. /\ Placed(Append(Free, s), ow, size) /\ Free \in Seq(Segments)
      /\ IsList(links, FreeList, Free) /\ Disjoint(q, Free) /\ size <= MaxSegments
  <2>1. Placed(Free, Held, size) /\ Held[t] # <<>>
    BY ListFacts
  <2>2. Placed(Append(Free, Held[t][Len(Held[t])]), ow, size)
    BY <2>1, ReleaseKeeps
  <2>3. Placed(Append(Free, s), ow, size)
    BY <2>2
  <2>4. /\ Free \in Seq(Segments) /\ IsList(links, FreeList, Free) /\ Disjoint(q, Free)
        /\ size <= MaxSegments
    BY ListFacts
  <2> QED BY <2>3, <2>4
<1> HIDE DEF q, r, ow
<1>7. Without(Free, s) /\ Disjoint(Free, q) /\ Without(r, s)
      /\ Disjoint(r, Free)
  <2>1. Without(Free, s) /\ Disjoint(Free, q)
    BY <1>1, <1>6 DEF Disjoint, Without
  <2>2. \A i \in 1 .. Len(q) - 1 : i \in 1 .. Len(q) /\ i # Len(q)
    BY <1>1
  <2>3. Without(r, s)
    BY <1>1, <1>5, <2>2 DEF Without
  <2>4. Disjoint(r, Free)
    BY <1>5, <1>6, <2>2 DEF Disjoint
  <2> QED BY <2>1, <2>3, <2>4
<1>8. IsList(U, FreeList, Free)
  BY <1>1, <1>4, <1>6, <1>7 DEF OthersKept
<1>9. /\ links' \in LinksType /\ IsList(links', FreeList, Append(Free, s))
      /\ OthersKept(U, links', FreeList, Free, s)
  BY <1>1, <1>4, <1>7, <1>8, Appended
<1>10. IsList(links', current[t], r)
  BY <1>1, <1>4, <1>7, <1>9 DEF OthersKept
<1>11. /\ U.first[current[t]] = NoSegment <=> Len(q) = 1
       /\ Len(q) # 1 => r # <<>> /\ r[1] = current[t]
       /\ Len(q) = 1 => r = <<>>
  <2>1. U.first[current[t]] = IF Len(r) = 0 THEN NoSegment ELSE r[1]
    BY <1>4 DEF IsList
  <2>2. CASE Len(q) = 1
    <3>1. Len(r) = 0
      BY <1>5, <2>2
    <3>2. r = <<>>
      BY <1>5, <3>1
    <3> QED BY <2>1, <2>2, <3>1, <3>2
  <2>3. CASE Len(q) # 1
    <3>1. Len(r) # 0 /\ 1 \in 1 .. Len(q) - 1 /\ q[1] \in Segments
      BY <1>1, <1>5, <2>3
    <3>2. r # <<>> /\ r[1] = q[1] /\ r[1] # NoSegment
      BY SMTT(20), <1>5, <3>1, Constants
    <3> QED BY <1>1, <2>1, <2>3, <3>1, <3>2
  <2> QED BY <2>2, <2>3
<1>12. /\ current' \in [Threads -> Pointers]
       /\ current'[t] = IF Len(q) = 1 THEN NoSegment ELSE current[t]
       /\ \A u \in Threads : u # t => current'[u] = current[u]
  BY <1>1, <1>11, ListFacts, Constants
<1>13. ASSUME NEW u \in Threads
       PROVE  \/ current'[u] = NoSegment /\ ow[u] = <<>>
              \/ /\ current'[u] # NoSegment /\ IsList(links', current'[u], ow[u])
                 /\ ow[u] # <<>> /\ ow[u][1] = current'[u]
  <2>1. CASE u = t
    BY <1>1, <1>3, <1>10, <1>11, <1>12, <2>1
  <2>2. CASE u # t /\ current[u] = NoSegment
    BY <1>3, <1>12, <2>2, ListFacts
  <2>3. CASE u # t /\ current[u] # NoSegment
    <3>1. /\ Held[u] # <<>> /\ Held[u][1] = current[u] /\ IsList(links, current[u], Held[u])
          /\ current[u] \in Pointers /\ Disjoint(Held[u], q) /\ Disjoint(Held[u], Free)
          /\ current[u] # FreeList /\ 1 \in 1 .. Len(Held[u])
      BY <2>3, ListFacts, Constants DEF q
    <3>2. Without(Held[u], s)
      BY <1>1, <3>1 DEF Disjoint, Without
    <3>3. current[u] # current[t]
      <4>1. 1 \in 1 .. Len(q)
        BY <1>1
      <4> QED BY <1>1, <3>1, <4>1 DEF Disjoint
    <3>4. IsList(U, current[u], Held[u])
      BY <1>4, <3>1, <3>2, <3>3 DEF OthersKept
    <3>5. IsList(links', current[u], Held[u])
      BY SMTT(20), <1>9, <3>1, <3>2, <3>4 DEF OthersKept
    <3> QED BY <1>3, <1>12, <2>3, <3>1, <3>5
  <2> QED BY <2>1, <2>2, <2>3
<1>14. ListsKept' /\ Free' = Append(Free, s) /\ Held' = ow
  BY <1>6, <1>9, <1>12, <1>13, ListsSet
<1> QED BY <1>12, <1>14 DEF ow, q

-----------------------------------------------------------------------------
(***************************************************************************)
(* Frames of the activations.                                              *)
(***************************************************************************)
Distinct(q) == q \in Seq(Segments) /\ \A i, j \in 1 .. Len(q) : q[i] = q[j] => i = j

\* The first p segments of q are those of q2, and the words up to depth d of the
\* last of them, and those before it, are the same.
Retained(q, hd, st, q2, hd2, st2, p, d) ==
  /\ p \in 1 .. Len(q) /\ p \in 1 .. Len(q2) /\ \A x \in 1 .. p : q2[x] = q[x]
  /\ \A x \in 1 .. p : x # p => /\ st2[q[x]] = st[q[x]]
                                /\ hd2[q[x]].stackPointer = hd[q[x]].stackPointer
  /\ d \in Nat /\ d <= Len(st2[q[p]]) /\ \A j \in 1 .. d : st2[q[p]][j] = st[q[p]][j]

SameCall(c, c2, i) ==
  /\ c2[i].seg = c[i].seg /\ c2[i].depth = c[i].depth /\ c2[i].fp = c[i].fp
  /\ c2[i].arguments = c[i].arguments

LEMMA CallerSame ==
  ASSUME NEW q, NEW c, NEW q2, NEW c2, NEW k \in Nat, NEW b, NEW i \in Nat, i > k, q2[1] = q[1],
         i # k + 1 => SameCall(c, c2, i - 1)
  PROVE  Caller(q2, c2, k, b, i) = Caller(q, c, k, b, i)
BY DEF Caller, SameCall

LEMMA WaitsSame ==
  ASSUME NEW q, NEW hd, NEW st, NEW q2, NEW hd2, NEW st2, NEW p, NEW d, NEW S, NEW s,
         Len(q) \in Nat, Len(q2) \in Nat,
         Retained(q, hd, st, q2, hd2, st2, p, d), Waits(q, hd, st, S, s),
         \A x \in 1 .. Len(q) : q[x] = s => x <= p
  PROVE  Waits(q2, hd2, st2, S, s)
<1>1. PICK y \in 2 .. Len(q) :
        /\ q[y] = s /\ q[y - 1] = S.seg
        /\ hd[S.seg].stackPointer = S.depth + 2 /\ Len(st[S.seg]) = S.depth + 2
        /\ st[S.seg][S.depth + 1] = S.word /\ st[S.seg][S.depth + 2] = Frame(S.fp)
  BY DEF Waits
<1>2. y \in 1 .. p /\ y - 1 \in 1 .. p /\ y - 1 # p /\ y \in 2 .. Len(q2)
  BY <1>1 DEF Retained
<1>3. /\ q2[y] = s /\ q2[y - 1] = S.seg
      /\ st2[S.seg] = st[S.seg] /\ hd2[S.seg].stackPointer = hd[S.seg].stackPointer
  BY <1>1, <1>2 DEF Retained
<1> QED BY <1>1, <1>2, <1>3 DEF Waits

\* Frames stay what they are while the words they are in do.
LEMMA FramesSame ==
  ASSUME NEW q, NEW hd, NEW st, NEW c, NEW q2, NEW hd2, NEW st2, NEW c2,
         NEW k \in Nat, NEW b, NEW m \in Nat, NEW p, NEW d,
         st \in StackType, st2 \in StackType, Distinct(q), Distinct(q2), Frames(q, hd, st, c, k, b, m),
         Retained(q, hd, st, q2, hd2, st2, p, d),
         \A i \in k + 1 .. m : \A x \in 1 .. Len(q) :
            q[x] = c[i].seg => x <= p /\ (x = p => c[i].depth <= d),
         \A i \in k + 1 .. m : SameCall(c, c2, i)
  PROVE  Frames(q2, hd2, st2, c2, k, b, m)
<1>1. Len(q) \in Nat /\ Len(q2) \in Nat /\ 1 \in 1 .. p /\ q2[1] = q[1] /\ p \in Nat
  BY DEF Distinct, Retained
<1>2. ASSUME NEW i \in k + 1 .. m
      PROVE  /\ Framed(q2, hd2, st2, c2, k, b, i)
             /\ \A x \in 1 .. Len(q2) : q2[x] = c2[i].seg => x <= p /\ q[x] = c[i].seg
  <2> DEFINE S == Caller(q, c, k, b, i)
             s == c[i].seg
             e == c[i].depth
  <2>1. /\ c[i].fp = <<s, e>> /\ (\E x \in 1 .. Len(q) : q[x] = s)
        /\ e \in 2 .. Len(st[s]) /\ (s = q[1] => e > ThreadDataWords)
        /\ \/ Direct(st, S, c[i].arguments, s, e - 1) /\ st[s][e] = Frame(S.fp)
           \/ Moved(q, hd, st, S, c[i].arguments, s, e - 1) /\ st[s][e] = Frame(NullFrame)
    BY DEF Frames, Framed
  <2>2. PICK x \in 1 .. Len(q) : q[x] = s
    BY <2>1
  <2>3. x \in 1 .. p /\ q2[x] = s /\ x \in 1 .. Len(q2) /\ (x = p => e <= d)
    <3>1. x <= p /\ (x = p => e <= d)
      BY <2>2
    <3>2. x \in 1 .. p
      BY <1>1, <3>1
    <3> HIDE DEF s, e
    <3> QED BY SMTT(20), <1>1, <2>2, <3>1, <3>2 DEF Retained
  <2>4. Caller(q2, c2, k, b, i) = S
    <3>1. i \in Nat /\ i > k /\ (i # k + 1 => i - 1 \in k + 1 .. m)
      OBVIOUS
    <3> QED BY <1>1, <3>1, CallerSame
  <2> HIDE DEF S, s, e
  <2>5. /\ e \in 2 .. Len(st2[s]) /\ st2[s][e] = st[s][e]
        /\ e - 1 <= Len(st2[s]) /\ st2[s][e - 1] = st[s][e - 1]
    <3>1. s \in Segments /\ Len(st[s]) \in Nat /\ Len(st2[s]) \in Nat
      BY <2>2 DEF Distinct, StackType
    <3>2. CASE x = p
      <4>1. d \in Nat /\ d <= Len(st2[s]) /\ \A j \in 1 .. d : st2[s][j] = st[s][j]
        BY <2>2, <3>2 DEF Retained
      <4>2. e \in 1 .. d /\ e - 1 \in 1 .. d
        BY <2>1, <2>3, <3>1, <3>2, <4>1
      <4>3. st2[s][e] = st[s][e] /\ st2[s][e - 1] = st[s][e - 1]
        BY <4>1, <4>2
      <4>4. e \in 2 .. Len(st2[s]) /\ e - 1 <= Len(st2[s])
        BY SMTT(20), <2>1, <3>1, <4>1, <4>2
      <4> QED BY <4>3, <4>4
    <3>3. CASE x # p
      <4>1. st2[s] = st[s]
        BY <2>2, <2>3, <3>3 DEF Retained
      <4> QED BY <2>1, <3>1, <4>1
    <3> QED BY <3>2, <3>3
  <2>6. \/ Direct(st2, S, c[i].arguments, s, e - 1) /\ st2[s][e] = Frame(S.fp)
        \/ Moved(q2, hd2, st2, S, c[i].arguments, s, e - 1) /\ st2[s][e] = Frame(NullFrame)
    <3>1. CASE Direct(st, S, c[i].arguments, s, e - 1) /\ st[s][e] = Frame(S.fp)
      BY <2>5, <3>1 DEF Direct
    <3>2. CASE Moved(q, hd, st, S, c[i].arguments, s, e - 1) /\ st[s][e] = Frame(NullFrame)
      <4>1. Waits(q2, hd2, st2, S, s)
        <5>1. \A z \in 1 .. Len(q) : q[z] = s => z <= p
          BY DEF s
        <5> QED BY <1>1, <3>2, <5>1, WaitsSame DEF Moved
      <4> QED BY <2>5, <3>2, <4>1 DEF Moved
    <3> QED BY <2>1, <3>1, <3>2
  <2>7. c2[i].seg = s /\ c2[i].depth = e /\ c2[i].fp = c[i].fp /\ c2[i].arguments = c[i].arguments
    BY DEF SameCall, s, e
  <2>8. Framed(q2, hd2, st2, c2, k, b, i)
    BY <1>1, <2>1, <2>3, <2>4, <2>5, <2>6, <2>7 DEF Framed
  <2>9. ASSUME NEW z \in 1 .. Len(q2), q2[z] = s PROVE z = x
    BY <2>3, <2>9 DEF Distinct
  <2> QED BY <2>2, <2>3, <2>7, <2>8, <2>9 DEF s
<1>3. ASSUME NEW i \in k + 1 .. m, NEW j \in k + 1 .. m, i < j
      PROVE  Above(q2, c2, i, j)
  <2>1. Above(q, c, i, j)
    BY <1>3 DEF Frames
  <2>2. /\ c2[i].depth = c[i].depth /\ c2[j].depth = c[j].depth
    BY DEF SameCall
  <2> SUFFICES ASSUME NEW x \in 1 .. Len(q2), NEW y \in 1 .. Len(q2),
                      q2[x] = c2[i].seg, q2[y] = c2[j].seg
               PROVE  x <= y /\ (x = y => c2[i].depth < c2[j].depth)
    BY DEF Above
  <2>3. q[x] = c[i].seg /\ q[y] = c[j].seg /\ x \in 1 .. Len(q) /\ y \in 1 .. Len(q)
    BY SMTT(20), <1>1, <1>2 DEF Retained
  <2> QED BY <2>1, <2>2, <2>3 DEF Above
<1> QED BY <1>2, <1>3 DEF Frames

\* The caller S of the activation after m: its frame is in one of the segments,
\* and those of the activations up to m are not above it.
CallerPlaced(q, c, k, m, S) ==
  /\ S.depth \in Nat /\ S.fp \in Pointers \X Nat /\ S.word \in WordType
  /\ S.seg = q[1] => S.depth >= ThreadDataWords
  /\ \E y \in 1 .. Len(q) : q[y] = S.seg
  /\ \A i \in k + 1 .. m : \A x, y \in 1 .. Len(q) :
       q[x] = c[i].seg /\ q[y] = S.seg => x <= y /\ (x = y => c[i].depth <= S.depth)

LEMMA UnderCaller ==
  ASSUME NEW q, NEW hd, NEW st, NEW c, NEW k \in Nat, NEW b \in Nat, NEW m \in Nat, k <= m,
         Distinct(q), q # <<>>, st \in StackType, c \in Seq(CallType), m <= Len(c),
         b >= ThreadDataWords, Frames(q, hd, st, c, k, b, m)
  PROVE  CallerPlaced(q, c, k, m, Caller(q, c, k, b, m + 1))
<1> DEFINE S == Caller(q, c, k, b, m + 1)
<1> SUFFICES /\ S.depth \in Nat /\ S.fp \in Pointers \X Nat /\ S.word \in WordType
             /\ S.seg = q[1] => S.depth >= ThreadDataWords
             /\ \E y \in 1 .. Len(q) : q[y] = S.seg
             /\ \A i \in k + 1 .. m : \A x, y \in 1 .. Len(q) :
                  q[x] = c[i].seg /\ q[y] = S.seg => x <= y /\ (x = y => c[i].depth <= S.depth)
  BY DEF CallerPlaced
<1>1. /\ Len(q) \in Nat \ {0} /\ ThreadDataWords \in Nat
      /\ \A x, y \in 1 .. Len(q) : q[x] = q[y] => x = y
  BY Constants DEF Distinct
<1>2. CASE m = k
  <2>1. S = [seg |-> q[1], depth |-> b, word |-> ToC, fp |-> NullFrame]
    BY <1>2 DEF Caller
  <2> HIDE DEF S
  <2>2. k + 1 .. m = {} /\ 1 \in 1 .. Len(q)
    BY <1>1, <1>2
  <2>3. NullFrame \in Pointers \X Nat /\ ToC \in WordType
    BY Constants DEF NullFrame, ToC, Word, WordType
  <2>4. S.seg = q[1] /\ S.depth = b /\ S.word = ToC /\ S.fp = NullFrame
    BY <2>1
  <2>5. \E y \in 1 .. Len(q) : q[y] = S.seg
    BY <2>2, <2>4
  <2> QED BY <2>2, <2>3, <2>4, <2>5
<1>3. CASE m # k
  <2>1. m \in 1 .. Len(c) /\ c[m] \in CallType
    BY <1>3
  <2>2. /\ S = [seg |-> c[m].seg, depth |-> c[m].depth, word |-> Return(m), fp |-> c[m].fp]
        /\ m \in k + 1 .. m
    <3>1. m + 1 # k + 1 /\ (m + 1) - 1 = m
      BY <1>3
    <3> QED BY <1>3, <3>1 DEF Caller
  <2> HIDE DEF S
  <2>3. S.depth \in Nat /\ S.fp \in Pointers \X Nat /\ S.word \in WordType
    BY <2>1, <2>2 DEF CallType, Return, Word, WordType
  <2>4. Framed(q, hd, st, c, k, b, m)
    BY <2>2 DEF Frames
  <2>5. (\E y \in 1 .. Len(q) : q[y] = c[m].seg) /\ (c[m].seg = q[1] => c[m].depth > ThreadDataWords)
    BY <2>4 DEF Framed
  <2>6. ASSUME NEW i \in k + 1 .. m, NEW x \in 1 .. Len(q), NEW y \in 1 .. Len(q),
               q[x] = c[i].seg, q[y] = c[m].seg
        PROVE  x <= y /\ (x = y => c[i].depth <= c[m].depth)
    <3>1. CASE i = m
      BY <1>1, <2>2, <2>3, <2>6, <3>1
    <3>2. CASE i # m
      <4>1. Above(q, c, i, m)
        BY <2>2, <3>2 DEF Frames
      <4>2. i \in 1 .. Len(c) /\ c[i].depth \in Nat
        <5>1. i \in 1 .. Len(c)
          BY <2>1
        <5>2. c[i] \in CallType
          BY <5>1
        <5> QED BY <5>1, <5>2 DEF CallType
      <4>3. x <= y /\ (x = y => c[i].depth < c[m].depth)
        BY <2>6, <4>1 DEF Above
      <4> QED BY <2>2, <2>3, <4>2, <4>3
    <3> QED BY <3>1, <3>2
  <2>7. S.seg = c[m].seg /\ S.depth = c[m].depth
    BY <2>2
  <2>8. S.seg = q[1] => S.depth >= ThreadDataWords
    BY <1>1, <2>3, <2>5, <2>7
  <2>9. \A i \in k + 1 .. m : \A x, y \in 1 .. Len(q) :
          q[x] = c[i].seg /\ q[y] = S.seg => x <= y /\ (x = y => c[i].depth <= S.depth)
    BY <2>6, <2>7
  <2> QED BY <2>3, <2>5, <2>7, <2>8, <2>9
<1> QED BY <1>2, <1>3

\* Where a thread is in the code tells what its stack is like.
LEMMA Where ==
  ASSUME NEW q, NEW hd, NEW cp, NEW st, NEW cs, NEW r, NEW c,
         ThreadKept(q, hd, cp, st, cs, r, c)
  PROVE  \/ q = <<>> /\ Outside(cs, r, c) /\ r.mode = "C" /\ r.at = "body"
         \/ /\ q # <<>>
            /\ \E k, m, b \in Nat :
                 /\ Nesting(cs, c, k, m) /\ Base(q, hd, cp, st, cs, k, b)
                 /\ r.mode = "C" =>
                      /\ InCalledC(q, st, cs, r, c, k, m) /\ Frames(q, hd, st, c, k, b, m)
                      /\ r.at = "body"
                 /\ r.mode = "Smalltalk" =>
                      /\ r.seg = q[Len(q)] /\ m = Len(c)
                      /\ r.at = "body" =>
                           InBody(q, st, r, c, k, m) /\ Frames(q, hd, st, c, k, b, m)
                      /\ r.at = "entry" =>
                           AtEntry(q, st, r, c, k, b, m) /\ Frames(q, hd, st, c, k, b, m - 1)
                      /\ r.at = "checked" =>
                           AfterCheck(q, hd, st, r, c, k, b, m) /\ Frames(q, hd, st, c, k, b, m - 1)
                      /\ r.at = "popTrap" =>
                           AtTrap(q, hd, st, r, c, k, b, m) /\ Frames(q, hd, st, c, k, b, m)
                      /\ r.at = "toC" => AtReturnToC(q, r, c, k, m)
                 /\ r.mode \in {"C", "Smalltalk"}
                 /\ r.at \in {"body", "entry", "checked", "popTrap", "toC"}
<1>1. CASE q = <<>>
  BY <1>1 DEF ThreadKept, Outside, InC
<1>2. CASE q # <<>>
  <2>1. PICK k \in Nat, m \in Nat, b \in Nat : Inside(q, hd, cp, st, cs, r, c, k, m, b)
    BY <1>2 DEF ThreadKept
  <2>2. Nesting(cs, c, k, m) /\ Base(q, hd, cp, st, cs, k, b) /\ Runs(q, hd, st, cs, r, c, k, m, b)
    BY <2>1 DEF Inside
  <2>3. CASE InBody(q, st, r, c, k, m) /\ Frames(q, hd, st, c, k, b, m)
    <3>1. r.mode = "Smalltalk" /\ r.at = "body" /\ r.seg = q[Len(q)] /\ m = Len(c)
      BY <2>3 DEF InBody, InSmalltalk
    <3> QED BY <1>2, <2>2, <2>3, <3>1
  <2>4. CASE AtEntry(q, st, r, c, k, b, m) /\ Frames(q, hd, st, c, k, b, m - 1)
    <3>1. r.mode = "Smalltalk" /\ r.at = "entry" /\ r.seg = q[Len(q)] /\ m = Len(c)
      BY <2>4 DEF AtEntry, InSmalltalk
    <3> QED BY <1>2, <2>2, <2>4, <3>1
  <2>5. CASE AfterCheck(q, hd, st, r, c, k, b, m) /\ Frames(q, hd, st, c, k, b, m - 1)
    <3>1. r.mode = "Smalltalk" /\ r.at = "checked" /\ r.seg = q[Len(q)] /\ m = Len(c)
      BY <2>5 DEF AfterCheck, InSmalltalk
    <3> QED BY <1>2, <2>2, <2>5, <3>1
  <2>6. CASE AtTrap(q, hd, st, r, c, k, b, m) /\ Frames(q, hd, st, c, k, b, m)
    <3>1. r.mode = "Smalltalk" /\ r.at = "popTrap" /\ r.seg = q[Len(q)] /\ m = Len(c)
      BY <2>6 DEF AtTrap, InSmalltalk
    <3> QED BY <1>2, <2>2, <2>6, <3>1
  <2>7. CASE AtReturnToC(q, r, c, k, m)
    <3>1. r.mode = "Smalltalk" /\ r.at = "toC" /\ r.seg = q[Len(q)] /\ m = Len(c)
      BY <2>7 DEF AtReturnToC, InSmalltalk
    <3> QED BY <1>2, <2>2, <2>7, <3>1
  <2>8. CASE InCalledC(q, st, cs, r, c, k, m) /\ Frames(q, hd, st, c, k, b, m)
    <3>1. r.mode = "C" /\ r.at = "body"
      BY <2>8 DEF InCalledC, InC
    <3> QED BY <1>2, <2>2, <2>8, <3>1
  <2> QED BY <2>2, <2>3, <2>4, <2>5, <2>6, <2>7, <2>8 DEF Runs
<1> QED BY <1>1, <1>2

\* What a step of another thread does not touch.
LEMMA ThreadSame ==
  ASSUME NEW q, NEW hd, NEW cp, NEW st, NEW hd2, NEW cp2, NEW st2, NEW cs, NEW r, NEW c,
         ThreadKept(q, hd, cp, st, cs, r, c), Distinct(q),
         st \in StackType, st2 \in StackType, c \in Seq(CallType),
         \A x \in 1 .. Len(q) :
           hd2[q[x]] = hd[q[x]] /\ cp2[q[x]] = cp[q[x]] /\ st2[q[x]] = st[q[x]]
  PROVE  ThreadKept(q, hd2, cp2, st2, cs, r, c)
<1>1. CASE q = <<>>
  BY <1>1 DEF ThreadKept
<1>2. CASE q # <<>>
  <2>1. PICK k \in Nat, m \in Nat, b \in Nat : Inside(q, hd, cp, st, cs, r, c, k, m, b)
    BY <1>2 DEF ThreadKept
  <2>2. Nesting(cs, c, k, m) /\ Base(q, hd, cp, st, cs, k, b) /\ Runs(q, hd, st, cs, r, c, k, m, b)
    BY <2>1 DEF Inside
  <2> DEFINE N == Len(q)
             d == Len(st[q[N]])
  <2>3. /\ N \in Nat \ {0} /\ N \in 1 .. N /\ 1 \in 1 .. N
        /\ \A x \in 1 .. N : q[x] \in Segments
        /\ \A x, y \in 1 .. N : q[x] = q[y] => x = y
    <3>1. N \in Nat \ {0}
      BY <1>2 DEF Distinct
    <3> HIDE DEF N
    <3>2. N \in 1 .. N /\ 1 \in 1 .. N
      BY <3>1
    <3> QED BY <3>1, <3>2 DEF Distinct, N
  <2>4. d \in Nat /\ st2[q[N]] = st[q[N]]
    BY <2>3 DEF StackType
  <2> HIDE DEF N, d
  <2>5. Retained(q, hd, st, q, hd2, st2, N, d)
    BY <2>3, <2>4 DEF Retained, N, d
  <2>6. ASSUME NEW M \in Nat, Frames(q, hd, st, c, k, b, M)
        PROVE  Frames(q, hd2, st2, c, k, b, M)
    <3>1. ASSUME NEW i \in k + 1 .. M, NEW x \in 1 .. Len(q), q[x] = c[i].seg
          PROVE  x <= N /\ (x = N => c[i].depth <= d)
      <4>1. Framed(q, hd, st, c, k, b, i)
        BY <2>6 DEF Frames
      <4>2. c[i].depth \in 2 .. Len(st[c[i].seg])
        BY <4>1 DEF Framed
      <4> QED BY <2>3, <2>4, <3>1, <4>2 DEF N, d
    <3>2. \A i \in k + 1 .. M : SameCall(c, c, i)
      BY DEF SameCall
    <3> QED BY <2>5, <2>6, <3>1, <3>2, FramesSame
  <2>7. Base(q, hd2, cp2, st2, cs, k, b)
    BY <2>2, <2>3 DEF Base, N
  <2>8. \A S, s : Waits(q, hd, st, S, s) => Waits(q, hd2, st2, S, s)
    <3>1. Len(q) \in Nat /\ \A x \in 1 .. Len(q) : x <= N
      BY <2>3 DEF N
    <3> QED BY <2>5, <3>1, WaitsSame
  <2>9. st2[q[Len(q)]] = st[q[Len(q)]]
    BY <2>4 DEF N
  <2>10. Runs(q, hd2, st2, cs, r, c, k, m, b)
    <3>1. m - 1 \in Nat
      BY <2>2 DEF Nesting
    <3>2. CASE InBody(q, st, r, c, k, m) /\ Frames(q, hd, st, c, k, b, m)
      BY <2>6, <2>9, <3>2 DEF Runs, InBody
    <3>3. CASE AtEntry(q, st, r, c, k, b, m) /\ Frames(q, hd, st, c, k, b, m - 1)
      BY <2>6, <2>9, <3>1, <3>3 DEF Runs, AtEntry, Direct
    <3>4. CASE AfterCheck(q, hd, st, r, c, k, b, m) /\ Frames(q, hd, st, c, k, b, m - 1)
      BY <2>6, <2>8, <2>9, <3>1, <3>4 DEF Runs, AfterCheck, Moved
    <3>5. CASE AtTrap(q, hd, st, r, c, k, b, m) /\ Frames(q, hd, st, c, k, b, m)
      BY <2>6, <2>8, <3>5 DEF Runs, AtTrap
    <3>6. CASE AtReturnToC(q, r, c, k, m)
      BY <3>6 DEF Runs
    <3>7. CASE InCalledC(q, st, cs, r, c, k, m) /\ Frames(q, hd, st, c, k, b, m)
      BY <2>6, <2>9, <3>7 DEF Runs, InCalledC
    <3> QED BY <2>2, <3>2, <3>3, <3>4, <3>5, <3>6, <3>7 DEF Runs
  <2> QED BY <1>2, <2>2, <2>7, <2>10 DEF Inside, ThreadKept
<1> QED BY <1>1, <1>2

\* The code returned to is the caller's: the rest of its body, or the end of the
\* call from C.
LEMMA Resumes ==
  ASSUME NEW q, NEW hd, NEW st, NEW cs, NEW c, NEW k \in Nat, NEW b \in Nat, NEW m \in Nat,
         k <= m, m = Len(c), Distinct(q), q # <<>>, Frames(q, hd, st, c, k, b, m),
         NEW S, S = Caller(q, c, k, b, m + 1), S.seg = q[Len(q)], Len(st[S.seg]) = S.depth,
         NEW r, r = Land(S.word, S.seg, S.fp, m + 1)
  PROVE  Runs(q, hd, st, cs, r, c, k, m, b)
<1>1. CASE m = k
  <2>1. S = [seg |-> q[1], depth |-> b, word |-> ToC, fp |-> NullFrame]
    BY <1>1 DEF Caller
  <2>2. Len(q) = 1
    <3>1. Len(q) \in Nat \ {0}
      BY DEF Distinct
    <3>2. 1 \in 1 .. Len(q) /\ Len(q) \in 1 .. Len(q) /\ q[1] = q[Len(q)]
      BY <2>1, <3>1
    <3> QED BY <3>2 DEF Distinct
  <2>3. r = InSmalltalk("toC", 0, q[1], NullFrame, m + 1)
    BY <2>1 DEF Land, ToC, Word
  <2>4. r = InSmalltalk("toC", r.act, q[1], r.fp, m + 1)
    BY <2>3 DEF InSmalltalk
  <2> QED BY <1>1, <2>2, <2>4 DEF Runs, AtReturnToC
<1>2. CASE m # k
  <2>1. S = [seg |-> c[m].seg, depth |-> c[m].depth, word |-> Return(m), fp |-> c[m].fp]
    <3>1. m + 1 # k + 1 /\ (m + 1) - 1 = m
      BY <1>2
    <3> QED BY <3>1 DEF Caller
  <2>2. r = InSmalltalk("body", m, q[Len(q)], c[m].fp, m + 1)
    BY <2>1 DEF Land, Return, Word
  <2>3. r = InSmalltalk("body", m, q[Len(q)], c[m].fp, r.rax) /\ r.rax = m + 1
    BY <2>2 DEF InSmalltalk
  <2>4. m > k
    BY <1>2
  <2> QED BY <2>1, <2>3, <2>4 DEF Runs, InBody, Result
<1> QED BY <1>1, <1>2

-----------------------------------------------------------------------------
(***************************************************************************)
(* Steps: what they leave alone, and what is left to show of them.         *)
(***************************************************************************)
\* A thread's values.
Typed(q, hd, cp, st, cs, r, c) ==
  /\ Distinct(q) /\ hd \in [Segments -> HeaderType] /\ cp \in [Segments -> Nat]
  /\ st \in StackType /\ \A s \in Segments : Len(st[s]) <= SegmentWords
  /\ cs \in Seq(FrameType) /\ r \in CpuType /\ c \in Seq(CallType)

LEMMA ThreadFacts ==
  ASSUME IInv, NEW t \in Threads
  PROVE  /\ ListsKept /\ TypesKept
         /\ Typed(Held[t], header, cpointer, stack, cstack[t], cpu[t], calls[t])
         /\ ThreadKept(Held[t], header, cpointer, stack, cstack[t], cpu[t], calls[t])
         /\ Held[t] = <<>> <=> current[t] = NoSegment
         /\ cpu[t].mode = "C" => cpu[t].at = "body"
<1>1. ListsKept /\ TypesKept
      /\ ThreadKept(Held[t], header, cpointer, stack, cstack[t], cpu[t], calls[t])
  BY DEF IInv
<1>2. Distinct(Held[t])
  BY <1>1, ListFacts DEF Distinct
<1>3. Held[t] = <<>> <=> current[t] = NoSegment
  BY <1>1, ListFacts
<1>4. cpu[t].mode = "C" => cpu[t].at = "body"
  BY <1>1, Where
<1> QED BY <1>1, <1>2, <1>3, <1>4 DEF TypesKept, Typed

\* The segments of the threads other than t stay as they are.
ElsewhereSame(t) ==
  \A u \in Threads : u # t => \A x \in 1 .. Len(Held[u]) :
    /\ header'[Held[u][x]] = header[Held[u][x]]
    /\ cpointer'[Held[u][x]] = cpointer[Held[u][x]]
    /\ stack'[Held[u][x]] = stack[Held[u][x]]

\* A step of thread t changes its own values, and segments that no other holds.
LEMMA StepKeeps ==
  ASSUME IInv, NEW t \in Threads, NEW q2, NEW cs2, NEW r2, NEW c2,
         ListsKept', Held' = [Held EXCEPT ![t] = q2], running' = running,
         cstack' = [cstack EXCEPT ![t] = cs2], cpu' = [cpu EXCEPT ![t] = r2],
         calls' = [calls EXCEPT ![t] = c2],
         Typed(q2, header', cpointer', stack', cs2, r2, c2),
         ElsewhereSame(t),
         ThreadKept(q2, header', cpointer', stack', cs2, r2, c2)
  PROVE  IInv'
<1>1. /\ Held = [u \in Threads |-> Held[u]] /\ cstack \in [Threads -> Seq(FrameType)]
      /\ cpu \in [Threads -> CpuType] /\ calls \in [Threads -> Seq(CallType)]
  BY DEF IInv, TypesKept, Held
<1>2. TypesKept'
  BY <1>1 DEF Typed, IInv, TypesKept
<1>3. ASSUME NEW u \in Threads
      PROVE  ThreadKept(Held'[u], header', cpointer', stack', cstack'[u], cpu'[u], calls'[u])
  <2>1. CASE u = t
    BY <1>1, <2>1
  <2>2. CASE u # t
    <3>1. /\ Held'[u] = Held[u] /\ cstack'[u] = cstack[u] /\ cpu'[u] = cpu[u]
          /\ calls'[u] = calls[u]
      BY <1>1, <2>2
    <3>2. /\ Typed(Held[u], header, cpointer, stack, cstack[u], cpu[u], calls[u])
          /\ ThreadKept(Held[u], header, cpointer, stack, cstack[u], cpu[u], calls[u])
      BY ThreadFacts
    <3>3. stack' \in StackType /\ stack \in StackType /\ Distinct(Held[u])
          /\ calls[u] \in Seq(CallType)
      BY <3>2 DEF Typed
    <3>4. \A x \in 1 .. Len(Held[u]) :
            /\ header'[Held[u][x]] = header[Held[u][x]]
            /\ cpointer'[Held[u][x]] = cpointer[Held[u][x]]
            /\ stack'[Held[u][x]] = stack[Held[u][x]]
      BY <2>2 DEF ElsewhereSame
    <3> QED BY SMTT(20), <3>1, <3>2, <3>3, <3>4, ThreadSame
  <2> QED BY <2>1, <2>2
<1> QED BY <1>2, <1>3 DEF IInv

\* A step of thread t in which its stack keeps its segments and only the newest
\* of them changes.
LEMMA LocalStep ==
  ASSUME IInv, NEW t \in Threads, NEW h, NEW w, NEW cs2, NEW r2, NEW c2,
         current[t] # NoSegment, NEW s, s = Held[t][Len(Held[t])],
         links' = links, current' = current, size' = size, cpointer' = cpointer,
         running' = running,
         header' = [header EXCEPT ![s] = h], stack' = [stack EXCEPT ![s] = w],
         cstack' = [cstack EXCEPT ![t] = cs2], cpu' = [cpu EXCEPT ![t] = r2],
         calls' = [calls EXCEPT ![t] = c2],
         Typed(Held[t], header', cpointer, stack', cs2, r2, c2),
         ThreadKept(Held[t], header', cpointer, stack', cs2, r2, c2)
  PROVE  IInv'
<1>1. ListsKept /\ TypesKept
  BY ThreadFacts
<1>2. ListsKept' /\ Held' = Held
  BY <1>1 DEF ListsKept, Held, Free
<1>3. Held' = [Held EXCEPT ![t] = Held[t]]
  BY <1>2 DEF Held
<1>4. Len(Held[t]) \in 1 .. Len(Held[t])
  BY <1>1, Newest
<1>5. ASSUME NEW u \in Threads, u # t, NEW x \in 1 .. Len(Held[u])
      PROVE  /\ header'[Held[u][x]] = header[Held[u][x]]
             /\ stack'[Held[u][x]] = stack[Held[u][x]]
  <2>1. Held[u][x] # s
    BY <1>1, <1>4, <1>5, ListFacts DEF Disjoint
  <2>2. Held[u][x] \in Segments
    BY <1>1, <1>5, ListFacts
  <2> QED BY <1>1, <2>1, <2>2 DEF TypesKept, StackType
<1>6. /\ Typed(Held[t], header', cpointer', stack', cs2, r2, c2)
      /\ ThreadKept(Held[t], header', cpointer', stack', cs2, r2, c2)
  OBVIOUS
<1>7. ElsewhereSame(t)
  BY <1>5 DEF ElsewhereSame
<1> DEFINE q2 == Held[t]
<1>8. Held' = [Held EXCEPT ![t] = q2] /\ Typed(q2, header', cpointer', stack', cs2, r2, c2)
      /\ ThreadKept(q2, header', cpointer', stack', cs2, r2, c2)
  BY <1>3, <1>6
<1> HIDE DEF q2
<1> QED BY <1>2, <1>7, <1>8, StepKeeps

\* A step that changes no segment.
LEMMA RegistersStep ==
  ASSUME IInv, NEW t \in Threads, NEW cs2, NEW r2, NEW c2,
         UNCHANGED <<memory, stack, running>>,
         cstack' = [cstack EXCEPT ![t] = cs2], cpu' = [cpu EXCEPT ![t] = r2],
         calls' = [calls EXCEPT ![t] = c2],
         cs2 \in Seq(FrameType), r2 \in CpuType, c2 \in Seq(CallType),
         ThreadKept(Held[t], header, cpointer, stack, cs2, r2, c2)
  PROVE  IInv'
<1> DEFINE q2 == Held[t]
<1>1. ListsKept /\ Typed(q2, header, cpointer, stack, cstack[t], cpu[t], calls[t])
  BY ThreadFacts
<1>2. /\ links' = links /\ header' = header /\ current' = current /\ size' = size
      /\ cpointer' = cpointer /\ stack' = stack /\ running' = running
  BY DEF memory
<1>3. ListsKept' /\ Held' = Held
  BY <1>1, <1>2 DEF ListsKept, Held, Free
<1>4. Held' = [Held EXCEPT ![t] = q2]
  BY <1>3 DEF Held
<1>5. Typed(q2, header', cpointer', stack', cs2, r2, c2)
  BY <1>1, <1>2 DEF Typed
<1>6. ThreadKept(q2, header', cpointer', stack', cs2, r2, c2)
  BY <1>2
<1> HIDE DEF q2
<1>7. ElsewhereSame(t)
  BY <1>2 DEF ElsewhereSame
<1> QED BY <1>2, <1>3, <1>4, <1>5, <1>6, <1>7, StepKeeps
-----------------------------------------------------------------------------
(***************************************************************************)
(* Calls and returns within C.                                             *)
(***************************************************************************)
LEMMA RegistersTyped ==
  ASSUME NEW a \in 0 .. MaxCalls, NEW x \in Nat
  PROVE  /\ InC(a, x) \in CpuType
         /\ \A at \in {"body", "entry", "checked", "popTrap", "toC"}, s \in Pointers,
               f \in Pointers \X Nat : InSmalltalk(at, a, s, f, x) \in CpuType
         /\ \A s \in Pointers, d \in Nat : CFrame(a, s, d) \in FrameType
         /\ \A s \in Pointers, d \in Nat, e \in BOOLEAN : SwitchFrame(a, s, d, e) \in FrameType
         /\ NullFrame \in Pointers \X Nat
BY Constants DEF InC, InSmalltalk, CpuType, CFrame, SwitchFrame, FrameType, NullFrame

\* Sequence w2 is w with x at its end, or the first d elements of w.
Longer(w, w2, x) ==
  Len(w2) = Len(w) + 1 /\ w2[Len(w) + 1] = x /\ \A i \in 1 .. Len(w) : w2[i] = w[i]
Shorter(w, w2, d) == d \in 0 .. Len(w) /\ Len(w2) = d /\ \A i \in 1 .. d : w2[i] = w[i]

\* The calls c2 are c and one more call a.
OneMore(c, c2, a) ==
  /\ Len(c2) = Len(c) + 1 /\ c2[Len(c) + 1] = a
  /\ \A i \in 1 .. Len(c) : SameCall(c, c2, i) /\ c2[i].lang = c[i].lang

LEMMA Lengthened ==
  ASSUME NEW S, NEW w \in Seq(S), NEW x \in S
  PROVE  Append(w, x) \in Seq(S) /\ Longer(w, Append(w, x), x)
BY DEF Longer

LEMMA Shortened ==
  ASSUME NEW S, NEW w \in Seq(S), NEW d \in 0 .. Len(w)
  PROVE  SubSeq(w, 1, d) \in Seq(S) /\ Shorter(w, SubSeq(w, 1, d), d)
BY Prefix DEF Shorter

LEMMA CallAppended ==
  ASSUME NEW c \in Seq(CallType), NEW m \in Nat \ {0}, m = Len(c), NEW a \in CallType
  PROVE  LET c2 == Append([c EXCEPT ![m].sent = TRUE], a) IN
         c2 \in Seq(CallType) /\ OneMore(c, c2, a) /\ c2[m].sent
<1> DEFINE e == [c[m] EXCEPT !.sent = TRUE]
           c1 == [c EXCEPT ![m] = e]
           c2 == Append(c1, a)
<1>1. m \in 1 .. Len(c) /\ c[m] \in CallType
  OBVIOUS
<1>2. /\ e \in CallType /\ e.sent = TRUE /\ e.lang = c[m].lang /\ e.seg = c[m].seg
      /\ e.fp = c[m].fp /\ e.depth = c[m].depth /\ e.arguments = c[m].arguments
  BY <1>1 DEF CallType
<1> HIDE DEF e
<1>3. /\ c1 \in Seq(CallType) /\ Len(c1) = m
      /\ \A i \in 1 .. m : c1[i] = IF i = m THEN e ELSE c[i]
  BY <1>1, <1>2
<1> HIDE DEF c1
<1>4. c2 \in Seq(CallType) /\ Longer(c1, c2, a)
  BY <1>3, Lengthened
<1> HIDE DEF c2
<1>5. Len(c2) = m + 1 /\ c2[m + 1] = a /\ \A i \in 1 .. m : c2[i] = c1[i]
  BY <1>3, <1>4 DEF Longer
<1>6. ASSUME NEW i \in 1 .. m PROVE SameCall(c, c2, i) /\ c2[i].lang = c[i].lang
  BY <1>2, <1>3, <1>5 DEF SameCall
<1>7. m \in 1 .. m
  OBVIOUS
<1>8. c2[m].sent
  BY <1>2, <1>3, <1>5, <1>7
<1>9. OneMore(c, c2, a)
  BY <1>5, <1>6 DEF OneMore
<1> QED BY <1>4, <1>8, <1>9 DEF c1, c2, e

\* The frames do not depend on anything else in the calls.
LEMMA CallsSame ==
  ASSUME NEW q, NEW hd, NEW st, NEW c, NEW c2, NEW k \in Nat, NEW b, NEW m \in Nat,
         Frames(q, hd, st, c, k, b, m), \A i \in k + 1 .. m : SameCall(c, c2, i)
  PROVE  Frames(q, hd, st, c2, k, b, m)
<1>1. ASSUME NEW i \in k + 1 .. m PROVE Framed(q, hd, st, c2, k, b, i)
  <2>1. Framed(q, hd, st, c, k, b, i) /\ SameCall(c, c2, i)
    BY DEF Frames
  <2>2. i \in Nat /\ i > k /\ (i # k + 1 => SameCall(c, c2, i - 1))
    OBVIOUS
  <2>3. Caller(q, c2, k, b, i) = Caller(q, c, k, b, i)
    BY <2>2, CallerSame
  <2> QED BY <2>1, <2>3 DEF Framed, SameCall
<1>2. ASSUME NEW i \in k + 1 .. m, NEW j \in k + 1 .. m, i < j PROVE Above(q, c2, i, j)
  BY <1>2 DEF Frames, Above, SameCall
<1> QED BY <1>1, <1>2 DEF Frames

LEMMA CActivation ==
  ASSUME NEW n \in Nat, NEW d \in Nat
  PROVE  LET a == [Activation("C", n) EXCEPT !.depth = d] IN
         a \in CallType /\ a.lang = "C" /\ a.depth = d /\ a.arguments = n /\ ~a.sent
<1> DEFINE y == Activation("C", n)
<1>1. NoSegment \in Pointers /\ NullFrame \in Pointers \X Nat
  BY Constants DEF NullFrame
<1>2. y \in CallType /\ y.lang = "C" /\ y.arguments = n /\ ~y.sent
  BY <1>1 DEF CallType, Activation
<1> HIDE DEF y
<1>3. LET a == [y EXCEPT !.depth = d] IN
      a \in CallType /\ a.lang = "C" /\ a.depth = d /\ a.arguments = n /\ ~a.sent
  BY <1>2 DEF CallType
<1> QED BY <1>3 DEF y

LEMMA CCalled ==
  ASSUME NEW q, NEW hd, NEW cp, NEW st, NEW cs, NEW r, NEW c, NEW cs2, NEW r2, NEW c2, NEW a,
         Typed(q, hd, cp, st, cs, r, c), ThreadKept(q, hd, cp, st, cs, r, c), r.mode = "C",
         NEW n \in Nat, n = Len(c), n < MaxCalls, NEW e \in Nat, e = Len(cs),
         Longer(cs, cs2, CFrame(n + 1, NoSegment, 0)), OneMore(c, c2, a),
         r2 = InC(n + 1, 0), a.lang = "C", a.depth = e + 1, ~a.sent
  PROVE  ThreadKept(q, hd, cp, st, cs2, r2, c2)
<1>1. /\ Len(c2) = n + 1 /\ c2[n + 1] = a
      /\ \A i \in 1 .. n : /\ SameCall(c, c2, i) /\ c2[i].lang = c[i].lang
                          /\ c2[i].depth = c[i].depth
  BY DEF OneMore, SameCall
<1>2. /\ Len(cs2) = e + 1 /\ cs2[e + 1] = CFrame(n + 1, NoSegment, 0)
      /\ \A i \in 1 .. e : cs2[i] = cs[i]
  BY DEF Longer
<1>3. r2 = InC(n + 1, r2.rax) /\ Result(r2, c2, n + 1) /\ n + 1 <= MaxCalls
  BY <1>1, Constants DEF InC, Result
<1>4. CASE q = <<>> /\ Outside(cs, r, c)
  <2>1. /\ e = n /\ \A i \in 1 .. n : c[i].lang = "C" /\ c[i].depth = i
        /\ \A i \in 1 .. n : cs[i] = CFrame(i, NoSegment, 0)
    BY <1>4 DEF Outside, Nesting
  <2>2. ASSUME NEW i \in 1 .. n + 1
        PROVE  c2[i].lang = "C" /\ c2[i].depth = i /\ cs2[i] = CFrame(i, NoSegment, 0)
    <3>1. CASE i = n + 1
      BY <1>1, <1>2, <2>1, <3>1
    <3>2. CASE i \in 1 .. n
      BY <1>1, <1>2, <2>1, <3>2
    <3> QED BY <3>1, <3>2
  <2>3. Nesting(cs2, c2, n + 1, n + 1)
    BY <1>1, <1>2, <1>3, <2>1, <2>2 DEF Nesting
  <2>4. Outside(cs2, r2, c2)
    BY <1>1, <1>2, <1>3, <2>1, <2>3 DEF Outside
  <2> QED BY <1>4, <2>4 DEF ThreadKept
<1>5. CASE q # <<>>
  <2>1. PICK k \in Nat, m \in Nat, b \in Nat :
          /\ Nesting(cs, c, k, m) /\ Base(q, hd, cp, st, cs, k, b)
          /\ InCalledC(q, st, cs, r, c, k, m) /\ Frames(q, hd, st, c, k, b, m)
    BY <1>5, Where
  <2>2. /\ m > k /\ m < n /\ k > 0 /\ e = k + 1 + n - m /\ cs[k + 2].act = m + 1
        /\ \A i \in m + 1 .. n : c[i].depth = k + 1 + i - m
        /\ \A i \in m + 2 .. n : cs[k + 1 + i - m] = CFrame(i, NoSegment, 0)
    BY <2>1 DEF InCalledC, Nesting, CFrame
  <2>3. /\ \A i \in 1 .. n : c[i].lang = IF k < i /\ i <= m THEN "Smalltalk" ELSE "C"
        /\ \A i \in 1 .. k : c[i].depth = i /\ cs[i] = CFrame(i, NoSegment, 0)
    BY <2>1 DEF Nesting
  <2>4. Nesting(cs2, c2, k, m)
    <3>1. ASSUME NEW i \in 1 .. n + 1
          PROVE  c2[i].lang = IF k < i /\ i <= m THEN "Smalltalk" ELSE "C"
      <4>1. CASE i = n + 1
        BY <1>1, <2>2, <4>1
      <4>2. CASE i \in 1 .. n
        BY <1>1, <2>3, <4>2
      <4> QED BY <4>1, <4>2
    <3>2. ASSUME NEW i \in 1 .. k PROVE c2[i].depth = i /\ cs2[i] = CFrame(i, NoSegment, 0)
      <4>1. i \in 1 .. n /\ i \in 1 .. e
        BY SMTT(20), <2>2
      <4> QED BY <1>1, <1>2, <2>3, <4>1
    <3>3. k \in 1 .. m /\ m <= n + 1 /\ k <= e + 1
      BY <2>2
    <3> QED BY <1>1, <1>2, <1>3, <3>1, <3>2, <3>3 DEF Nesting
  <2>5. Base(q, hd, cp, st, cs2, k, b)
    <3>1. k + 1 \in 1 .. e /\ e + 1 > k
      BY SMTT(20), <2>2
    <3> QED BY <1>2, <2>1, <3>1 DEF Base
  <2>6. Frames(q, hd, st, c2, k, b, m)
    <3>1. \A i \in k + 1 .. m : SameCall(c, c2, i)
      BY SMTT(20), <1>1, <2>2
    <3> QED BY <2>1, <3>1, CallsSame
  <2>7. InCalledC(q, st, cs2, r2, c2, k, m)
    <3>1. c2[m].seg = c[m].seg /\ c2[m].depth = c[m].depth /\ c2[m].fp = c[m].fp
          /\ c2[m + 1].arguments = c[m + 1].arguments
      <4>1. m \in 1 .. n /\ m + 1 \in 1 .. n
        BY <2>2
      <4> QED BY <1>1, <4>1 DEF SameCall
    <3>2. cs2[k + 2] = cs[k + 2]
      BY <1>2, <2>2
    <3>3. ASSUME NEW i \in m + 1 .. n + 1 PROVE c2[i].depth = k + 1 + i - m
      <4>1. CASE i = n + 1
        BY <1>1, <2>2, <4>1
      <4>2. CASE i \in m + 1 .. n
        BY <1>1, <2>2, <4>2
      <4> QED BY <4>1, <4>2
    <3>4. ASSUME NEW i \in m + 2 .. n + 1 PROVE cs2[k + 1 + i - m] = CFrame(i, NoSegment, 0)
      <4>1. CASE i = n + 1
        BY <1>2, <2>2, <4>1
      <4>2. CASE i \in m + 2 .. n
        <5>1. e = k + 1 + n - m /\ e \in Nat /\ m \in Nat /\ k \in Nat /\ n \in Nat
          BY <2>2
        <5>2. k + 1 + i - m \in 1 .. e
          BY <4>2, <5>1
        <5> QED BY <1>2, <2>2, <4>2, <5>2
      <4> QED BY <4>1, <4>2
    <3>5. Len(cs2) = k + 1 + Len(c2) - m /\ m < Len(c2)
      BY <1>1, <1>2, <2>2
    <3> QED BY <1>1, <1>3, <2>1, <3>1, <3>2, <3>3, <3>4, <3>5 DEF InCalledC
  <2>8. Inside(q, hd, cp, st, cs2, r2, c2, k, m, b)
    BY <2>4, <2>5, <2>6, <2>7 DEF Inside, Runs
  <2> QED BY <1>5, <2>8 DEF ThreadKept
<1> QED BY <1>4, <1>5 DEF ThreadKept

LEMMA CReturned ==
  ASSUME NEW q, NEW hd, NEW cp, NEW st, NEW cs, NEW r, NEW c, NEW cs2, NEW r2, NEW c2,
         Typed(q, hd, cp, st, cs, r, c), ThreadKept(q, hd, cp, st, cs, r, c), r.mode = "C",
         NEW n \in Nat, n = Len(c), n > 1, NEW e \in Nat, e = Len(cs), cs[e].seg = NoSegment,
         Shorter(cs, cs2, e - 1), Shorter(c, c2, n - 1), r2 = InC(cs2[Len(cs2)].act, n)
  PROVE  ThreadKept(q, hd, cp, st, cs2, r2, c2) /\ r2 \in CpuType
<1>1. Len(c2) = n - 1 /\ \A i \in 1 .. n - 1 : c2[i] = c[i]
  BY DEF Shorter
<1>2. Len(cs2) = e - 1 /\ \A i \in 1 .. e - 1 : cs2[i] = cs[i]
  BY DEF Shorter
<1>3. ASSUME cs2[e - 1].act = n - 1, n <= MaxCalls
      PROVE  /\ r2 = InC(n - 1, r2.rax) /\ Result(r2, c2, n - 1)
             /\ r2 \in CpuType
  <2>1. r2 = InC(n - 1, n) /\ n - 1 \in 0 .. MaxCalls
    BY <1>2, <1>3, Constants
  <2>2. r2.rax = (n - 1) + 1
    BY <2>1 DEF InC
  <2> QED BY <2>1, <2>2, RegistersTyped DEF Result
<1>4. CASE q = <<>> /\ Outside(cs, r, c)
  <2>1. /\ e = n /\ n <= MaxCalls
        /\ \A i \in 1 .. n : c[i].lang = "C" /\ c[i].depth = i
        /\ \A i \in 1 .. n : cs[i] = CFrame(i, NoSegment, 0)
    BY <1>4 DEF Outside, Nesting
  <2>2. ASSUME NEW i \in 1 .. n - 1
        PROVE  c2[i].lang = "C" /\ c2[i].depth = i /\ cs2[i] = CFrame(i, NoSegment, 0)
    BY <1>1, <1>2, <2>1
  <2>3. cs2[e - 1].act = n - 1
    <3>1. n - 1 \in 1 .. n - 1
      OBVIOUS
    <3>2. cs2[n - 1] = CFrame(n - 1, NoSegment, 0)
      BY <2>2, <3>1
    <3> QED BY <2>1, <3>2 DEF CFrame
  <2>4. Nesting(cs2, c2, n - 1, n - 1)
    <3>1. n - 1 \in 1 .. n - 1 /\ n - 1 <= MaxCalls
      BY <2>1, Constants
    <3> QED BY <1>1, <1>2, <2>1, <2>2, <3>1 DEF Nesting
  <2>5. Outside(cs2, r2, c2)
    BY <1>1, <1>2, <1>3, <2>1, <2>3, <2>4 DEF Outside
  <2> QED BY <1>3, <1>4, <2>1, <2>3, <2>5 DEF ThreadKept
<1>5. CASE q # <<>>
  <2>1. PICK k \in Nat, m \in Nat, b \in Nat :
          /\ Nesting(cs, c, k, m) /\ Base(q, hd, cp, st, cs, k, b)
          /\ InCalledC(q, st, cs, r, c, k, m) /\ Frames(q, hd, st, c, k, b, m)
    BY <1>5, Where
  <2>2. m > k /\ m < n /\ k > 0 /\ e = k + 1 + n - m /\ n <= MaxCalls
    BY <2>1 DEF InCalledC, Nesting
  <2>3. /\ \A i \in m + 1 .. n : c[i].depth = k + 1 + i - m
       /\ \A i \in m + 2 .. n : cs[k + 1 + i - m] = CFrame(i, NoSegment, 0)
    BY <2>1 DEF InCalledC, Nesting
  <2>4. /\ \A i \in 1 .. n : c[i].lang = IF k < i /\ i <= m THEN "Smalltalk" ELSE "C"
        /\ \A i \in 1 .. k : c[i].depth = i /\ cs[i] = CFrame(i, NoSegment, 0)
    BY <2>1 DEF Nesting
  <2>5. n # m + 1
    <3>1. q[Len(q)] \in Segments
      BY <1>5 DEF Typed, Distinct
    <3>2. cs[k + 2].seg = q[Len(q)]
      BY <2>1 DEF InCalledC, CFrame
    <3>3. cs[k + 2].seg # NoSegment
      BY <3>1, <3>2, Constants
    <3> QED BY <2>2, <3>3
  <2>6. cs2[e - 1].act = n - 1
    <3>1. CASE n = m + 2
      <4>1. e - 1 = k + 2 /\ n - 1 = m + 1 /\ e - 1 \in 1 .. e - 1
        BY <2>2, <3>1
      <4>2. cs[k + 2].act = m + 1
        BY <2>1 DEF InCalledC, CFrame
      <4> QED BY <1>2, <4>1, <4>2
    <3>2. CASE n # m + 2
      <4>1. n - 1 \in m + 2 .. n /\ e - 1 = k + 1 + (n - 1) - m /\ e - 1 \in 1 .. e - 1
        BY <2>2, <2>5, <3>2
      <4>2. cs[e - 1] = CFrame(n - 1, NoSegment, 0)
        BY <2>3, <4>1
      <4> QED BY SMTT(20), <1>2, <4>1, <4>2 DEF CFrame
    <3> QED BY <3>1, <3>2
  <2>7. r2 = InC(n - 1, r2.rax) /\ Result(r2, c2, n - 1) /\ r2 \in CpuType
    BY <1>3, <2>2, <2>6
  <2>8. Nesting(cs2, c2, k, m)
    <3>1. k \in 1 .. m /\ m <= n - 1 /\ n - 1 <= MaxCalls /\ k <= e - 1
      BY <2>2, Constants
    <3>2. ASSUME NEW i \in 1 .. n - 1
          PROVE  c2[i].lang = IF k < i /\ i <= m THEN "Smalltalk" ELSE "C"
      <4>1. i \in 1 .. n
        OBVIOUS
      <4> QED BY <1>1, <2>4, <4>1
    <3>3. ASSUME NEW i \in 1 .. k PROVE c2[i].depth = i /\ cs2[i] = CFrame(i, NoSegment, 0)
      <4>1. i \in 1 .. n - 1 /\ i \in 1 .. e - 1
        BY <2>2
      <4> QED BY <1>1, <1>2, <2>4, <4>1
    <3> QED BY <1>1, <1>2, <3>1, <3>2, <3>3 DEF Nesting
  <2>9. Base(q, hd, cp, st, cs2, k, b)
    <3>1. k + 1 \in 1 .. e - 1 /\ e - 1 > k
      BY <2>2, <2>5
    <3> QED BY <1>2, <2>1, <3>1 DEF Base
  <2>10. Frames(q, hd, st, c2, k, b, m)
    <3>1. ASSUME NEW i \in k + 1 .. m PROVE c2[i] = c[i]
      <4>1. i \in 1 .. n - 1
        BY <2>2
      <4> QED BY <1>1, <4>1
    <3>2. \A i \in k + 1 .. m : SameCall(c, c2, i)
      BY <3>1 DEF SameCall
    <3> QED BY <2>1, <3>2, CallsSame
  <2>11. InCalledC(q, st, cs2, r2, c2, k, m)
    <3>1. c2[m] = c[m] /\ c2[m + 1] = c[m + 1] /\ cs2[k + 2] = cs[k + 2]
      <4>1. m \in 1 .. n - 1 /\ m + 1 \in 1 .. n - 1 /\ k + 2 \in 1 .. e - 1
        BY <2>2, <2>5
      <4> QED BY <1>1, <1>2, <4>1
    <3>2. ASSUME NEW i \in m + 1 .. n - 1 PROVE c2[i].depth = k + 1 + i - m
      <4>1. i \in 1 .. n - 1 /\ i \in m + 1 .. n
        BY <2>2
      <4> QED BY <1>1, <2>3, <4>1
    <3>3. ASSUME NEW i \in m + 2 .. n - 1 PROVE cs2[k + 1 + i - m] = CFrame(i, NoSegment, 0)
      <4>1. k + 1 + i - m \in 1 .. e - 1 /\ i \in m + 2 .. n
        BY <2>2
      <4> QED BY <1>2, <2>3, <4>1
    <3>4. Len(cs2) = k + 1 + Len(c2) - m /\ m < Len(c2)
      BY <1>1, <1>2, <2>2, <2>5
    <3> QED BY <1>1, <2>1, <2>7, <3>1, <3>2, <3>3, <3>4 DEF InCalledC
  <2>12. Inside(q, hd, cp, st, cs2, r2, c2, k, m, b)
    BY <2>8, <2>9, <2>10, <2>11 DEF Inside, Runs
  <2> QED BY <1>5, <2>7, <2>12 DEF ThreadKept
<1> QED BY <1>4, <1>5 DEF ThreadKept

LEMMA KeptByCSendToC ==
  ASSUME IInv, NEW t \in Threads, CSendToC(t), running' = running
  PROVE  IInv'
<1> DEFINE n == Len(calls[t])
           e == Len(cstack[t])
           f == CFrame(n + 1, NoSegment, 0)
           a == [Activation("C", 0) EXCEPT !.depth = e + 1]
           cs2 == Append(cstack[t], f)
           r2 == InC(n + 1, 0)
           c2 == Append([calls[t] EXCEPT ![n].sent = TRUE], a)
<1>1. /\ cpu[t].mode = "C" /\ n < MaxCalls /\ UNCHANGED <<memory, stack, running>>
      /\ cstack' = [cstack EXCEPT ![t] = cs2] /\ cpu' = [cpu EXCEPT ![t] = r2]
      /\ calls' = [calls EXCEPT ![t] = c2]
  BY DEF CSendToC, RunsC, MayCall, Top
<1>2. /\ Typed(Held[t], header, cpointer, stack, cstack[t], cpu[t], calls[t])
      /\ ThreadKept(Held[t], header, cpointer, stack, cstack[t], cpu[t], calls[t])
  BY ThreadFacts
<1>3. cstack[t] \in Seq(FrameType) /\ calls[t] \in Seq(CallType) /\ n \in Nat /\ e \in Nat
  BY <1>2 DEF Typed
<1>4. n # 0
  BY <1>1, <1>2, Where DEF Outside, Nesting, InCalledC
<1> HIDE DEF n, e
<1>5. a \in CallType /\ a.lang = "C" /\ a.depth = e + 1 /\ ~a.sent
  <2>1. e + 1 \in Nat
    BY <1>3
  <2> QED BY <2>1, CActivation
<1>6. f \in FrameType /\ r2 \in CpuType
  <2>1. n + 1 \in 0 .. MaxCalls /\ NoSegment \in Pointers
    BY <1>1, <1>3, Constants
  <2> QED BY <2>1, RegistersTyped
<1> HIDE DEF a
<1>7. c2 \in Seq(CallType) /\ OneMore(calls[t], c2, a)
  BY <1>3, <1>4, <1>5, CallAppended DEF n
<1>8. cs2 \in Seq(FrameType) /\ Longer(cstack[t], cs2, f)
  <2> HIDE DEF f
  <2> QED BY <1>3, <1>6, Lengthened
<1> HIDE DEF cs2, c2
<1>9. ThreadKept(Held[t], header, cpointer, stack, cs2, r2, c2)
  BY <1>1, <1>2, <1>3, <1>5, <1>7, <1>8, CCalled DEF n, e
<1> HIDE DEF r2
<1> QED BY <1>1, <1>6, <1>7, <1>8, <1>9, RegistersStep

LEMMA KeptByCReturnToC ==
  ASSUME IInv, NEW t \in Threads, CReturnToC(t), running' = running
  PROVE  IInv'
<1> DEFINE n == Len(calls[t])
           e == Len(cstack[t])
           cs2 == SubSeq(cstack[t], 1, e - 1)
           r2 == InC(cs2[Len(cs2)].act, n)
           c2 == SubSeq(calls[t], 1, n - 1)
<1>1. /\ Typed(Held[t], header, cpointer, stack, cstack[t], cpu[t], calls[t])
      /\ ThreadKept(Held[t], header, cpointer, stack, cstack[t], cpu[t], calls[t])
  BY ThreadFacts
<1>2. cstack[t] \in Seq(FrameType) /\ calls[t] \in Seq(CallType) /\ n \in Nat /\ e \in Nat
  BY <1>1 DEF Typed
<1>3. /\ cpu[t].mode = "C" /\ n > 1 /\ UNCHANGED <<memory, stack, running>>
      /\ cstack[t][e].seg = NoSegment
      /\ cstack' = [cstack EXCEPT ![t] = cs2] /\ calls' = [calls EXCEPT ![t] = c2]
      /\ cpu' = [cpu EXCEPT ![t] = InC(cstack'[t][Len(cstack'[t])].act, n)]
  BY DEF CReturnToC, RunsC, Top, Upto
<1>4. cpu' = [cpu EXCEPT ![t] = r2]
  <2>1. cstack \in [Threads -> Seq(FrameType)]
    BY ThreadFacts DEF TypesKept
  <2> HIDE DEF cs2
  <2>2. cstack'[t] = cs2
    BY <1>3, <2>1
  <2> QED BY <1>3, <2>2
<1>5. e # 0
  BY <1>1, <1>2, <1>3, Where DEF Outside, Nesting, InCalledC
<1>6. n - 1 \in 0 .. n /\ e - 1 \in 0 .. e
  BY <1>2, <1>3, <1>5
<1>7. /\ cs2 \in Seq(FrameType) /\ Shorter(cstack[t], cs2, e - 1)
      /\ c2 \in Seq(CallType) /\ Shorter(calls[t], c2, n - 1)
  <2> DEFINE x == n - 1
             y == e - 1
  <2>1. x \in 0 .. Len(calls[t]) /\ y \in 0 .. Len(cstack[t])
    BY <1>6
  <2> HIDE DEF x, y
  <2>2. /\ SubSeq(cstack[t], 1, y) \in Seq(FrameType) /\ Shorter(cstack[t], SubSeq(cstack[t], 1, y), y)
        /\ SubSeq(calls[t], 1, x) \in Seq(CallType) /\ Shorter(calls[t], SubSeq(calls[t], 1, x), x)
    BY <1>2, <2>1, Shortened
  <2> QED BY <2>2 DEF x, y
<1>8. n = Len(calls[t]) /\ e = Len(cstack[t]) /\ r2 = InC(cs2[Len(cs2)].act, n)
  OBVIOUS
<1> HIDE DEF n, e, cs2, c2, r2
<1>9. ThreadKept(Held[t], header, cpointer, stack, cs2, r2, c2) /\ r2 \in CpuType
  BY SMTT(20), <1>1, <1>2, <1>3, <1>7, <1>8, CReturned
<1> QED BY <1>3, <1>4, <1>7, <1>9, RegistersStep
-----------------------------------------------------------------------------
(***************************************************************************)
(* Steps on the newest segment of a thread's stack.                        *)
(***************************************************************************)
\* Nothing else changes in the segments, and the thread data is found as before.
TopOnly(s, hd, st, hd2, st2) ==
  /\ \A x \in Segments : x # s => hd2[x] = hd[x] /\ st2[x] = st[x]
  /\ hd2[s].threadData = hd[s].threadData

\* The words up to depth d of segment s, the C stack up to the switch to Smalltalk
\* and the calls up to p are what they were.
SameBelow(hd, st, cs, c, hd2, st2, cs2, c2, k, p, s, d) ==
  /\ TopOnly(s, hd, st, hd2, st2)
  /\ d <= Len(st2[s]) /\ \A j \in 1 .. d : st2[s][j] = st[s][j]
  /\ Len(cs2) \in Nat /\ Len(cs2) > k /\ \A i \in 1 .. k + 1 : cs2[i] = cs[i]
  /\ p <= Len(c) /\ Len(c2) \in Nat /\ p <= Len(c2)
  /\ \A i \in 1 .. p : SameCall(c, c2, i) /\ c2[i].lang = c[i].lang

\* Nothing below depth d of s belongs to what is called above activation p.
CallerBelow(q, c, k, b, p, s, d) ==
  Caller(q, c, k, b, p + 1).seg = s => Caller(q, c, k, b, p + 1).depth <= d

\* The thread data and the frames of the activations up to m are still there.
KeptBelow(q, hd, st, c, hd2, cp, st2, cs2, c2, k, b, m, s) ==
  /\ Base(q, hd2, cp, st2, cs2, k, b)
  /\ Frames(q, hd2, st2, c2, k, b, m)
  /\ Caller(q, c2, k, b, m + 1) = Caller(q, c, k, b, m + 1)
  /\ \A T : Waits(q, hd, st, T, s) => Waits(q, hd2, st2, T, s)

LEMMA BelowKept ==
  ASSUME NEW q, NEW hd, NEW cp, NEW st, NEW cs, NEW c, NEW hd2, NEW st2, NEW cs2, NEW c2,
         NEW k \in Nat, NEW m \in Nat, NEW b \in Nat, k <= m, NEW s, NEW d \in Nat,
         Distinct(q), q # <<>>, st \in StackType, st2 \in StackType, c \in Seq(CallType),
         Base(q, hd, cp, st, cs, k, b), Frames(q, hd, st, c, k, b, m),
         s = q[Len(q)], SameBelow(hd, st, cs, c, hd2, st2, cs2, c2, k, m, s, d),
         CallerBelow(q, c, k, b, m, s, d)
  PROVE  KeptBelow(q, hd, st, c, hd2, cp, st2, cs2, c2, k, b, m, s)
<1> DEFINE N == Len(q)
           S == Caller(q, c, k, b, m + 1)
<1>1. /\ N \in Nat \ {0} /\ N \in 1 .. N /\ 1 \in 1 .. N
      /\ \A x \in 1 .. N : q[x] \in Segments
      /\ \A x, y \in 1 .. N : q[x] = q[y] => x = y
  <2>1. N \in Nat \ {0}
    BY DEF Distinct
  <2> HIDE DEF N
  <2>2. N \in 1 .. N /\ 1 \in 1 .. N
    BY <2>1
  <2> QED BY <2>1, <2>2 DEF Distinct, N
<1>2. s = q[N] /\ N = Len(q) /\ (S.seg = s => S.depth <= d)
  BY DEF CallerBelow
<1>3. CallerPlaced(q, c, k, m, S)
  <2>1. b >= ThreadDataWords /\ m <= Len(c)
    BY DEF Base, SameBelow
  <2> QED BY <2>1, UnderCaller
<1>4. /\ TopOnly(s, hd, st, hd2, st2) /\ d <= Len(st2[s]) /\ m <= Len(c)
      /\ \A j \in 1 .. d : st2[s][j] = st[s][j]
      /\ Len(cs2) > k /\ \A i \in 1 .. k + 1 : cs2[i] = cs[i]
      /\ \A i \in 1 .. m : SameCall(c, c2, i)
  BY DEF SameBelow
<1>5. cs2[k + 1] = cs[k + 1] /\ \A i \in k + 1 .. m : SameCall(c, c2, i)
  <2>1. k + 1 \in 1 .. k + 1 /\ \A i \in k + 1 .. m : i \in 1 .. m
    OBVIOUS
  <2> QED BY <1>4, <2>1
<1>6. Caller(q, c2, k, b, m + 1) = Caller(q, c, k, b, m + 1)
  <2>1. m + 1 \in Nat /\ m + 1 > k /\ (m + 1 # k + 1 => m \in 1 .. m /\ (m + 1) - 1 = m)
    OBVIOUS
  <2>2. m + 1 # k + 1 => SameCall(c, c2, (m + 1) - 1)
    BY <1>4, <2>1
  <2> QED BY <2>1, <2>2, CallerSame
<1> HIDE DEF N, S
<1>7. b >= ThreadDataWords
  BY DEF Base
<1>8. /\ S.depth \in Nat /\ (S.seg = q[1] => S.depth >= ThreadDataWords)
      /\ \E y \in 1 .. N : q[y] = S.seg
      /\ \A i \in k + 1 .. m : \A x, y \in 1 .. N :
            q[x] = c[i].seg /\ q[y] = S.seg => x <= y /\ (x = y => c[i].depth <= S.depth)
  BY <1>2, <1>3 DEF CallerPlaced
<1>9. ASSUME NEW x \in 1 .. N, x # N
      PROVE  hd2[q[x]] = hd[q[x]] /\ st2[q[x]] = st[q[x]]
  <2>1. q[x] \in Segments /\ q[x] # s
    BY <1>1, <1>2, <1>9
  <2> QED BY <1>4, <2>1 DEF TopOnly
<1>10. Retained(q, hd, st, q, hd2, st2, N, d)
  BY <1>1, <1>2, <1>9, <1>4 DEF Retained
<1>11. ASSUME NEW i \in k + 1 .. m, NEW x \in 1 .. N, q[x] = c[i].seg
       PROVE  x <= N /\ (x = N => c[i].depth <= d)
  <2>1. PICK y \in 1 .. N : q[y] = S.seg
    BY <1>8
  <2>2. x <= y /\ (x = y => c[i].depth <= S.depth)
    BY <1>8, <1>11, <2>1
  <2>3. c[i].depth \in Nat
    <3>1. i \in 1 .. Len(c)
      BY <1>4
    <3>2. c[i] \in CallType
      BY <3>1
    <3> QED BY <3>2 DEF CallType
  <2>4. CASE x = N
    <3>1. y = N
      BY <1>1, <2>1, <2>2, <2>4
    <3>2. S.seg = s
      BY <1>2, <2>1, <3>1
    <3> QED BY <1>1, <1>2, <1>8, <2>2, <2>3, <2>4, <3>1, <3>2
  <2> QED BY <1>1, <2>4
<1>12. Frames(q, hd2, st2, c2, k, b, m)
  BY <1>2, <1>10, <1>11, <1>5, FramesSame
<1>13. \A T : Waits(q, hd, st, T, s) => Waits(q, hd2, st2, T, s)
  <2>1. Len(q) \in Nat /\ \A x \in 1 .. Len(q) : x <= N
    BY <1>1, <1>2
  <2> QED BY <1>10, <2>1, WaitsSame
<1>14. Base(q, hd2, cp, st2, cs2, k, b)
  <2>1. \A x \in 1 .. N : hd2[q[x]].threadData = q[1]
    <3>1. ASSUME NEW x \in 1 .. N PROVE hd2[q[x]].threadData = hd[q[x]].threadData
      BY <1>2, <1>9, <1>4 DEF TopOnly
    <3> QED BY <1>2, <3>1 DEF Base
  <2>2. Len(st2[q[1]]) >= ThreadDataWords
        /\ \A i \in 1 .. ThreadDataWords : st2[q[1]][i] = Word("threadData", 0, 0)
    <3>1. CASE N # 1
      BY <1>1, <1>9, <3>1 DEF Base
    <3>2. CASE N = 1
      <4>1. S.seg = s /\ S.depth >= ThreadDataWords /\ s = q[1]
        BY <1>2, <1>8, <3>2
      <4>2. d >= ThreadDataWords /\ Len(st2[s]) >= ThreadDataWords
        <5>1. st2[s] \in Seq(WordType)
          BY <1>1, <1>2 DEF StackType
        <5>2. Len(st2[s]) \in Nat /\ ThreadDataWords \in Nat
          BY <5>1, Constants
        <5>3. d >= ThreadDataWords
          BY <1>2, <1>8, <4>1, <5>2
        <5> QED BY <1>4, <5>2, <5>3
      <4>3. ASSUME NEW i \in 1 .. ThreadDataWords PROVE st2[s][i] = st[s][i]
        <5>1. ThreadDataWords \in Nat
          BY Constants
        <5>2. i \in 1 .. d
          BY <4>2, <5>1
        <5> QED BY <1>4, <5>2
      <4>4. \A i \in 1 .. ThreadDataWords : st[q[1]][i] = Word("threadData", 0, 0)
        BY DEF Base
      <4> QED BY <4>1, <4>2, <4>3, <4>4
    <3> QED BY <3>1, <3>2
  <2> QED BY <1>2, <1>4, <1>5, <2>1, <2>2 DEF Base
<1> QED BY <1>12, <1>13, <1>14, <1>6 DEF KeptBelow

\* Above p of the calls there may be one more in Smalltalk, up to m2, and then C.
CallsAbove(c2, p, m2) ==
  /\ m2 = p \/ (m2 = p + 1 /\ c2[p + 1].lang = "Smalltalk")
  /\ m2 <= Len(c2) /\ Len(c2) <= MaxCalls
  /\ \A i \in m2 + 1 .. Len(c2) : c2[i].lang = "C"

LEMMA NestingKept ==
  ASSUME NEW hd, NEW st, NEW cs, NEW c, NEW hd2, NEW st2, NEW cs2, NEW c2, NEW k, NEW s, NEW d,
         NEW m \in Nat, NEW p \in Nat, NEW m2 \in Nat, k <= p, p <= m,
         Nesting(cs, c, k, m), SameBelow(hd, st, cs, c, hd2, st2, cs2, c2, k, p, s, d),
         CallsAbove(c2, p, m2)
  PROVE  Nesting(cs2, c2, k, m2)
<1>1. /\ k \in 1 .. m /\ m <= Len(c)
      /\ \A i \in 1 .. Len(c) : c[i].lang = IF k < i /\ i <= m THEN "Smalltalk" ELSE "C"
      /\ \A i \in 1 .. k : c[i].depth = i /\ cs[i] = CFrame(i, NoSegment, 0)
  BY DEF Nesting
<1>2. /\ Len(cs2) \in Nat /\ Len(cs2) > k /\ \A i \in 1 .. k + 1 : cs2[i] = cs[i]
      /\ p <= Len(c) /\ Len(c2) \in Nat /\ p <= Len(c2)
      /\ \A i \in 1 .. p : c2[i].lang = c[i].lang /\ c2[i].depth = c[i].depth
  BY DEF SameBelow, SameCall
<1>3. /\ m2 = p \/ (m2 = p + 1 /\ c2[p + 1].lang = "Smalltalk")
      /\ m2 <= Len(c2) /\ Len(c2) <= MaxCalls
      /\ \A i \in m2 + 1 .. Len(c2) : c2[i].lang = "C"
  BY DEF CallsAbove
<1>4. k \in Nat
  BY <1>1
<1>5. ASSUME NEW i \in 1 .. Len(c2)
      PROVE  c2[i].lang = IF k < i /\ i <= m2 THEN "Smalltalk" ELSE "C"
  <2>1. CASE i <= p
    <3>1. i \in 1 .. p /\ i \in 1 .. Len(c)
      BY <1>1, <1>2, <2>1
    <3>2. c2[i].lang = IF k < i /\ i <= m THEN "Smalltalk" ELSE "C"
      BY <1>1, <1>2, <3>1
    <3>3. i <= m /\ i <= m2
      BY <1>3, <2>1
    <3> QED BY <1>4, <3>2, <3>3
  <2>2. CASE i > p /\ i <= m2
    BY <1>4, <1>3, <2>2
  <2>3. CASE i > m2
    BY <1>2, <1>3, <2>3
  <2> QED BY <1>2, <1>3, <2>1, <2>2, <2>3
<1>6. k \in 1 .. m2 /\ k <= Len(cs2)
  BY <1>1, <1>2, <1>3
<1>7. ASSUME NEW i \in 1 .. k PROVE c2[i].depth = i /\ cs2[i] = CFrame(i, NoSegment, 0)
  <2>1. i \in 1 .. p /\ i \in 1 .. k + 1
    BY <1>4
  <2> QED BY <1>1, <1>2, <2>1
<1> QED BY <1>5, <1>6, <1>7, <1>3 DEF Nesting

\* One more frame.
LEMMA FramesMore ==
  ASSUME NEW q, NEW hd, NEW st, NEW c, NEW k \in Nat, NEW b, NEW m \in Nat, m > k,
         Frames(q, hd, st, c, k, b, m - 1), Framed(q, hd, st, c, k, b, m),
         \A i \in k + 1 .. m - 1 : Above(q, c, i, m)
  PROVE  Frames(q, hd, st, c, k, b, m)
<1>1. ASSUME NEW i \in k + 1 .. m PROVE Framed(q, hd, st, c, k, b, i)
  <2>1. i = m \/ i \in k + 1 .. m - 1
    OBVIOUS
  <2> QED BY <2>1 DEF Frames
<1>2. ASSUME NEW i \in k + 1 .. m, NEW j \in k + 1 .. m, i < j PROVE Above(q, c, i, j)
  <2>1. i \in k + 1 .. m - 1 /\ (j = m \/ j \in k + 1 .. m - 1)
    BY <1>2
  <2> QED BY <1>2, <2>1 DEF Frames
<1> QED BY <1>1, <1>2 DEF Frames

\* The code that runs is the caller of what it sends.
SentBy(S, c, m) ==
  S.seg = c[m].seg /\ S.depth = c[m].depth /\ S.word = Return(m) /\ S.fp = c[m].fp

LEMMA Sender ==
  ASSUME NEW q, NEW c, NEW k \in Nat, NEW b, NEW m \in Nat, m > k
  PROVE  SentBy(Caller(q, c, k, b, m + 1), c, m)
<1>1. m + 1 # k + 1 /\ (m + 1) - 1 = m
  OBVIOUS
<1> QED BY <1>1 DEF Caller, SentBy

\* A message of activation m reaches a Smalltalk method, whose activation has
\* the return address at the end of the segment.  This is also what a primitive
\* does that activates a method in its place.
LEMMA SentToSmalltalk ==
  ASSUME NEW q, NEW hd, NEW cp, NEW st, NEW cs, NEW r, NEW c, NEW hd2, NEW st2, NEW cs2,
         NEW r2, NEW c2, NEW k \in Nat, NEW m \in Nat, NEW b \in Nat, NEW s, NEW n \in Nat,
         Typed(q, hd, cp, st, cs, r, c), q # <<>>, st2 \in StackType,
         Nesting(cs, c, k, m), Base(q, hd, cp, st, cs, k, b), Frames(q, hd, st, c, k, b, m),
         m > k, c[m].seg = s, m < MaxCalls, s = q[Len(q)],
         NEW L \in Nat, L = c[m].depth, SameBelow(hd, st, cs, c, hd2, st2, cs2, c2, k, m, s, L),
         Len(c2) = m + 1, c2[m + 1].lang = "Smalltalk", c2[m + 1].arguments = n, ~c2[m + 1].sent,
         NEW e \in Nat, e = L + n + 2, Len(st2[s]) = e, Fits(e), st2[s][e] = Return(m),
         r2 = InSmalltalk("entry", m + 1, s, c[m].fp, 0)
  PROVE  ThreadKept(q, hd2, cp, st2, cs2, r2, c2)
<1> DEFINE S == Caller(q, c, k, b, m + 1)
<1>1. m > k /\ c[m].seg = s
  OBVIOUS
<1>2. SentBy(S, c, m)
  BY <1>1, Sender
<1>3. CallerBelow(q, c, k, b, m, s, L)
  BY <1>2 DEF CallerBelow, SentBy
<1>4. Distinct(q) /\ st \in StackType /\ c \in Seq(CallType) /\ k <= m
  BY <1>1 DEF Typed
<1> HIDE DEF S
<1>5. /\ Base(q, hd2, cp, st2, cs2, k, b) /\ Frames(q, hd2, st2, c2, k, b, m)
      /\ Caller(q, c2, k, b, m + 1) = S
  <2>1. KeptBelow(q, hd, st, c, hd2, cp, st2, cs2, c2, k, b, m, s)
    BY <1>3, <1>4, BelowKept
  <2> QED BY <2>1 DEF KeptBelow, S
<1>6. Direct(st2, S, n, s, e)
  <2>1. S.seg = s /\ S.depth = L /\ S.word = Return(m)
    BY <1>1, <1>2 DEF SentBy
  <2>2. e <= e
    OBVIOUS
  <2> QED BY <2>1, <2>2 DEF Direct
<1>7. r2 = InSmalltalk("entry", m + 1, s, S.fp, r2.rax)
  BY <1>2 DEF InSmalltalk, SentBy
<1>8. AtEntry(q, st2, r2, c2, k, b, m + 1)
  <2>1. m + 1 > k
    BY <1>1
  <2> QED BY <1>5, <1>6, <1>7, <2>1 DEF AtEntry
<1>9. Nesting(cs2, c2, k, m + 1)
  <2>1. Len(c2) <= MaxCalls /\ m + 1 <= Len(c2)
    BY SMTT(20), Constants
  <2>2. \A i \in m + 1 + 1 .. Len(c2) : c2[i].lang = "C"
    OBVIOUS
  <2>3. m <= m /\ m + 1 \in Nat
    OBVIOUS
  <2>4. CallsAbove(c2, m, m + 1)
    BY <2>1, <2>2 DEF CallsAbove
  <2> QED BY <1>4, <2>3, <2>4, NestingKept
<1>10. Runs(q, hd2, st2, cs2, r2, c2, k, m + 1, b)
  <2>1. (m + 1) - 1 = m
    OBVIOUS
  <2> QED BY <1>5, <1>8, <2>1 DEF Runs
<1>11. m + 1 \in Nat
  OBVIOUS
<1> QED BY <1>5, <1>9, <1>10, <1>11 DEF Inside, ThreadKept

\* It reaches a primitive: its C frame is on the C stack, above the switch frame,
\* and the return address is at depth e of segment s, above n arguments.
PrimitiveCalled(st2, cs2, c2, k, m, s, L, n, e, f) ==
  /\ Len(c2) = m + 1 /\ c2[m + 1].lang = "C" /\ c2[m + 1].arguments = n
  /\ ~c2[m + 1].sent /\ c2[m + 1].depth = k + 2
  /\ e = L + n + 2 /\ Len(st2[s]) = e + 3 /\ Fits(e)
  /\ st2[s][e] = Return(m) /\ st2[s][e + 1] = Frame(f)
  /\ Len(cs2) = k + 2 /\ cs2[k + 2] = CFrame(m + 1, s, e + 3)

LEMMA SentToPrimitive ==
  ASSUME NEW q, NEW hd, NEW cp, NEW st, NEW cs, NEW r, NEW c, NEW hd2, NEW st2, NEW cs2,
         NEW r2, NEW c2, NEW k \in Nat, NEW m \in Nat, NEW b \in Nat, NEW s, NEW n \in Nat,
         Typed(q, hd, cp, st, cs, r, c), q # <<>>, st2 \in StackType,
         Nesting(cs, c, k, m), Base(q, hd, cp, st, cs, k, b), Frames(q, hd, st, c, k, b, m),
         InBody(q, st, r, c, k, m), m < MaxCalls, s = q[Len(q)],
         NEW L \in Nat, L = c[m].depth, SameBelow(hd, st, cs, c, hd2, st2, cs2, c2, k, m, s, L),
         NEW e \in Nat, PrimitiveCalled(st2, cs2, c2, k, m, s, L, n, e, c[m].fp),
         r2 = InC(m + 1, 0)
  PROVE  ThreadKept(q, hd2, cp, st2, cs2, r2, c2)
<1> DEFINE S == Caller(q, c, k, b, m + 1)
<1>1. /\ Len(c2) = m + 1 /\ c2[m + 1].lang = "C" /\ c2[m + 1].arguments = n
      /\ ~c2[m + 1].sent /\ c2[m + 1].depth = k + 2
      /\ e = L + n + 2 /\ Len(st2[s]) = e + 3 /\ Fits(e)
      /\ st2[s][e] = Return(m) /\ st2[s][e + 1] = Frame(c[m].fp)
      /\ Len(cs2) = k + 2 /\ cs2[k + 2] = CFrame(m + 1, s, e + 3)
  BY DEF PrimitiveCalled
<1>2. m > k /\ m = Len(c) /\ c[m].seg = s
  BY DEF InBody
<1>3. SentBy(S, c, m)
  BY <1>2, Sender
<1>4. CallerBelow(q, c, k, b, m, s, L)
  BY <1>3 DEF CallerBelow, SentBy
<1>5. Distinct(q) /\ st \in StackType /\ c \in Seq(CallType) /\ k <= m
  BY <1>2 DEF Typed
<1> HIDE DEF S
<1>6. Base(q, hd2, cp, st2, cs2, k, b) /\ Frames(q, hd2, st2, c2, k, b, m)
  <2>1. KeptBelow(q, hd, st, c, hd2, cp, st2, cs2, c2, k, b, m, s)
    BY <1>4, <1>5, BelowKept
  <2> QED BY <2>1 DEF KeptBelow
<1>7. c2[m].seg = s /\ c2[m].depth = L /\ c2[m].fp = c[m].fp
  <2>1. m \in 1 .. m
    BY <1>2
  <2> QED BY <1>2, <2>1 DEF SameBelow, SameCall
<1>8. InCalledC(q, st2, cs2, r2, c2, k, m)
  <2>1. r2 = InC(m + 1, r2.rax) /\ Result(r2, c2, m + 1)
    BY <1>1 DEF InC, Result
  <2>2. m > k /\ m < Len(c2)
    BY <1>1, <1>2
  <2>3. Len(cs2) = k + 1 + Len(c2) - m
    BY <1>1
  <2>4. \A i \in m + 1 .. m + 1 : c2[i].depth = k + 1 + i - m
    BY <1>1
  <2>5. m + 2 .. m + 1 = {}
    OBVIOUS
  <2>6. e = c2[m].depth + c2[m + 1].arguments + 2
    BY <1>1, <1>7
  <2> QED BY <1>1, <1>7, <2>1, <2>2, <2>3, <2>4, <2>5, <2>6 DEF InCalledC
<1>9. Nesting(cs2, c2, k, m)
  <2>1. Len(c2) <= MaxCalls /\ m <= Len(c2)
    <3>1. MaxCalls \in Nat
      BY Constants
    <3> QED BY <1>1, <3>1
  <2>2. \A i \in m + 1 .. Len(c2) : c2[i].lang = "C"
    BY <1>1
  <2>3. m <= m
    OBVIOUS
  <2>4. CallsAbove(c2, m, m)
    BY <1>1, <2>1, <2>2 DEF CallsAbove
  <2> QED BY <1>5, <2>3, <2>4, NestingKept
<1>10. Runs(q, hd2, st2, cs2, r2, c2, k, m, b)
  BY <1>6, <1>8 DEF Runs
<1> QED BY <1>6, <1>9, <1>10 DEF Inside, ThreadKept

\* Control comes back to the sender m, with the stack as it left it: from C to
\* which it sent a message, or from a runtime primitive.
LEMMA BackInBody ==
  ASSUME NEW q, NEW hd, NEW cp, NEW st, NEW cs, NEW c, NEW hd2, NEW st2, NEW cs2,
         NEW r2, NEW c2, NEW k \in Nat, NEW m \in Nat, NEW b \in Nat, NEW s,
         Distinct(q), q # <<>>, st \in StackType, st2 \in StackType, c \in Seq(CallType),
         Nesting(cs, c, k, m), Base(q, hd, cp, st, cs, k, b), Frames(q, hd, st, c, k, b, m),
         m > k, c[m].seg = s, s = q[Len(q)],
         NEW L \in Nat, L = c[m].depth, SameBelow(hd, st, cs, c, hd2, st2, cs2, c2, k, m, s, L),
         Len(c2) = m, Len(st2[s]) = L, r2 = Land(Return(m), s, c[m].fp, m + 1)
  PROVE  ThreadKept(q, hd2, cp, st2, cs2, r2, c2)
<1> DEFINE S == Caller(q, c, k, b, m + 1)
<1>1. SentBy(S, c, m)
  BY Sender
<1>2. CallerBelow(q, c, k, b, m, s, L)
  BY <1>1 DEF CallerBelow, SentBy
<1>3. k <= m
  OBVIOUS
<1> HIDE DEF S
<1>4. /\ Base(q, hd2, cp, st2, cs2, k, b) /\ Frames(q, hd2, st2, c2, k, b, m)
      /\ Caller(q, c2, k, b, m + 1) = S
  <2>1. KeptBelow(q, hd, st, c, hd2, cp, st2, cs2, c2, k, b, m, s)
    BY <1>2, <1>3, BelowKept
  <2> QED BY <2>1 DEF KeptBelow, S
<1>5. Runs(q, hd2, st2, cs2, r2, c2, k, m, b)
  <2>1. r2 = Land(S.word, S.seg, S.fp, m + 1) /\ Len(st2[S.seg]) = S.depth /\ S.seg = q[Len(q)]
    BY <1>1 DEF SentBy
  <2> QED BY <1>3, <1>4, <2>1, Resumes
<1>6. Nesting(cs2, c2, k, m)
  <2>1. Len(c2) <= MaxCalls
    <3>1. m <= Len(c) /\ Len(c) <= MaxCalls
      BY DEF Nesting
    <3> QED BY <3>1, Constants
  <2>2. \A i \in m + 1 .. Len(c2) : c2[i].lang = "C"
    OBVIOUS
  <2>3. m <= m /\ m <= Len(c2)
    OBVIOUS
  <2>4. CallsAbove(c2, m, m)
    BY <2>1, <2>2, <2>3 DEF CallsAbove
  <2> QED BY <1>3, <2>3, <2>4, NestingKept
<1> QED BY <1>4, <1>5, <1>6 DEF Inside, ThreadKept
-----------------------------------------------------------------------------
(***************************************************************************)
(* Entering a method and returning from it.                                *)
(***************************************************************************)
OnTop(q, s) == q # <<>> /\ s = q[Len(q)]

LEMMA WaitsBefore ==
  ASSUME NEW q, NEW hd, NEW st, NEW S, NEW s, Distinct(q), OnTop(q, s),
         Waits(q, hd, st, S, s)
  PROVE  Len(q) > 1 /\ S.seg = q[Len(q) - 1] /\ S.seg # s /\ s # q[1]
<1> DEFINE N == Len(q)
<1>1. PICK y \in 2 .. N : q[y] = s /\ q[y - 1] = S.seg
  BY DEF Waits
<1>2. N \in Nat \ {0} /\ s = q[N] /\ \A i, j \in 1 .. N : q[i] = q[j] => i = j
  BY DEF Distinct, OnTop
<1> HIDE DEF N
<1>3. y \in 1 .. N /\ N \in 1 .. N /\ y - 1 \in 1 .. N /\ 1 \in 1 .. N
  BY <1>1, <1>2
<1>4. y = N
  BY <1>1, <1>2, <1>3
<1>5. N > 1 /\ N - 1 # N /\ 1 # N
  BY <1>4
<1>6. N > 1 /\ S.seg = q[N - 1] /\ S.seg # s /\ s # q[1]
  BY <1>1, <1>2, <1>3, <1>4, <1>5
<1> QED BY <1>6 DEF N

\* The activation m that was called by S and is about to have its frame at depth
\* e of s.
Entering(q, hd, st, S, n, s, e, fp) ==
  \/ Direct(st, S, n, s, e - 1) /\ fp = S.fp
  \/ Moved(q, hd, st, S, n, s, e - 1) /\ fp = NullFrame

\* Calls c2 are c with the frame of m.
Entered(c, c2, m, s, e) ==
  /\ Len(c2) = Len(c) /\ \A i \in 1 .. m - 1 : c2[i] = c[i]
  /\ c2[m].seg = s /\ c2[m].depth = e /\ c2[m].fp = <<s, e>>
  /\ c2[m].lang = c[m].lang /\ c2[m].arguments = c[m].arguments /\ c2[m].sent = c[m].sent

LEMMA FrameAdded ==
  ASSUME NEW q, NEW hd, NEW st, NEW c, NEW st2, NEW c2, NEW S,
         NEW k \in Nat, NEW m \in Nat, NEW b, NEW s, m > k, Distinct(q),
         NEW N \in Nat \ {0}, N = Len(q), s = q[N], NEW e \in Nat, NEW fp,
         Frames(q, hd, st2, c2, k, b, m - 1), CallerPlaced(q, c, k, m - 1, S),
         Caller(q, c2, k, b, m) = S,
         \A T : Waits(q, hd, st, T, s) => Waits(q, hd, st2, T, s),
         Entering(q, hd, st, S, c[m].arguments, s, e, fp), Entered(c, c2, m, s, e),
         e - 1 = Len(st[s]), Longer(st[s], st2[s], Frame(fp)), c[m].arguments \in Nat,
         \A i \in k + 1 .. m - 1 : c[i].depth \in Nat
  PROVE  Frames(q, hd, st2, c2, k, b, m)
<1> DEFINE n == c[m].arguments
<1>1. /\ Len(st2[s]) = e /\ st2[s][e] = Frame(fp) /\ \A i \in 1 .. e - 1 : st2[s][i] = st[s][i]
  <2>1. (e - 1) + 1 = e
    OBVIOUS
  <2> QED BY <2>1 DEF Longer
<1>2. /\ c2[m].seg = s /\ c2[m].depth = e /\ c2[m].fp = <<s, e>> /\ c2[m].arguments = n
      /\ \A i \in 1 .. m - 1 : c2[i] = c[i]
  BY DEF Entered
<1>3. /\ S.depth \in Nat /\ (S.seg = q[1] => S.depth >= ThreadDataWords)
      /\ \A i \in k + 1 .. m - 1 : \A x, y \in 1 .. N :
           q[x] = c[i].seg /\ q[y] = S.seg => x <= y /\ (x = y => c[i].depth <= S.depth)
  BY DEF CallerPlaced
<1>4. N \in 1 .. N /\ \A x, y \in 1 .. N : q[x] = q[y] => x = y
  BY DEF Distinct
<1>5. n \in Nat /\ ThreadDataWords \in Nat
  BY Constants
<1> HIDE DEF n
<1>6. CASE Direct(st, S, n, s, e - 1) /\ fp = S.fp
  <2>1. s = S.seg /\ e - 1 = S.depth + n + 2 /\ st[s][e - 1] = S.word
    BY <1>6 DEF Direct
  <2>2. e - 1 \in 1 .. e - 1 /\ e \in 2 .. e /\ e > S.depth /\ e - 1 <= e
    BY <1>3, <1>5, <2>1
  <2>3. Direct(st2, S, n, s, e - 1)
    BY <1>1, <2>1, <2>2 DEF Direct
  <2>4. s = q[1] => e > ThreadDataWords
    BY <1>3, <1>5, <2>1, <2>2
  <2>5. \E x \in 1 .. N : q[x] = s
    BY <1>4
  <2>6. Framed(q, hd, st2, c2, k, b, m)
    BY <1>1, <1>2, <1>6, <2>2, <2>3, <2>4, <2>5 DEF Framed
  <2>7. ASSUME NEW i \in k + 1 .. m - 1 PROVE Above(q, c2, i, m)
    <3>1. c2[i] = c[i] /\ c[i].depth \in Nat
      BY <1>2
    <3>2. ASSUME NEW x \in 1 .. N, NEW y \in 1 .. N, q[x] = c[i].seg, q[y] = s
          PROVE  x <= y /\ (x = y => c[i].depth < e)
      <4>1. x <= y /\ (x = y => c[i].depth <= S.depth)
        BY <1>3, <2>1, <3>2
      <4> QED BY <1>3, <2>2, <3>1, <4>1
    <3> QED BY <1>2, <3>1, <3>2 DEF Above
  <2> QED BY <2>6, <2>7, FramesMore
<1>7. CASE Moved(q, hd, st, S, n, s, e - 1) /\ fp = NullFrame
  <2>1. Waits(q, hd, st, S, s) /\ e - 1 = n + 2 /\ st[s][e - 1] = PopTrap
    BY <1>7 DEF Moved
  <2>2. e - 1 \in 1 .. e - 1 /\ e \in 2 .. e /\ e - 1 <= e
    BY <1>5, <2>1
  <2>3. Moved(q, hd, st2, S, n, s, e - 1)
    BY <1>1, <2>1, <2>2 DEF Moved
  <2>4. N > 1 /\ S.seg = q[N - 1] /\ S.seg # s /\ s # q[1]
    <3>1. OnTop(q, s)
      BY DEF OnTop
    <3> QED BY <2>1, <3>1, WaitsBefore
  <2>5. \E x \in 1 .. N : q[x] = s
    BY <1>4
  <2>6. Framed(q, hd, st2, c2, k, b, m)
    BY <1>1, <1>2, <1>7, <2>2, <2>3, <2>4, <2>5 DEF Framed
  <2>7. ASSUME NEW i \in k + 1 .. m - 1 PROVE Above(q, c2, i, m)
    <3>1. c2[i] = c[i]
      BY <1>2
    <3>2. ASSUME NEW x \in 1 .. N, NEW y \in 1 .. N, q[x] = c[i].seg, q[y] = s
          PROVE  x <= y /\ x # y
      <4>1. N - 1 \in 1 .. N /\ y = N
        BY <1>4, <2>4, <3>2
      <4>2. x <= N - 1
        BY <1>3, <2>4, <3>2, <4>1
      <4> QED BY <4>1, <4>2
    <3> QED BY <1>2, <3>1, <3>2 DEF Above
  <2> QED BY <2>6, <2>7, FramesMore
<1> QED BY <1>6, <1>7 DEF Entering, n

\* The frame pointer in r is pushed on segment s, at depth e.
PushedFrame(st, st2, s, e, r) ==
  e \in Nat /\ e - 1 = Len(st[s]) /\ Longer(st[s], st2[s], Frame(r.fp))

\* The prologue.
LEMMA EnteredBody ==
  ASSUME NEW q, NEW hd, NEW cp, NEW st, NEW cs, NEW r, NEW c, NEW st2, NEW r2, NEW c2,
         NEW k \in Nat, NEW m \in Nat, NEW b \in Nat, NEW s, NEW e,
         Typed(q, hd, cp, st, cs, r, c), st2 \in StackType,
         Nesting(cs, c, k, m), Base(q, hd, cp, st, cs, k, b), Frames(q, hd, st, c, k, b, m - 1),
         AtEntry(q, st, r, c, k, b, m) \/ AfterCheck(q, hd, st, r, c, k, b, m),
         OnTop(q, s), TopOnly(s, hd, st, hd, st2), PushedFrame(st, st2, s, e, r),
         Entered(c, c2, m, s, e),
         r2 = InSmalltalk("body", m, s, <<s, e>>, r.rax)
  PROVE  ThreadKept(q, hd, cp, st2, cs, r2, c2)
<1> DEFINE N == Len(q)
           S == Caller(q, c, k, b, m)
           n == c[m].arguments
<1>1. /\ q # <<>> /\ s = q[Len(q)]
      /\ e \in Nat /\ e - 1 = Len(st[s]) /\ Longer(st[s], st2[s], Frame(r.fp))
  BY DEF OnTop, PushedFrame
<1>2. m > k /\ m = Len(c) /\ ~c[m].sent /\ Entering(q, hd, st, S, n, s, e, r.fp)
  BY <1>1 DEF AtEntry, AfterCheck, Entering, InSmalltalk
<1>3. /\ Distinct(q) /\ st \in StackType /\ cs \in Seq(FrameType) /\ c \in Seq(CallType)
      /\ N \in Nat \ {0} /\ b >= ThreadDataWords /\ Len(cs) > k
  <2>1. Distinct(q) /\ st \in StackType /\ cs \in Seq(FrameType) /\ c \in Seq(CallType)
    BY DEF Typed
  <2>2. N \in Nat \ {0}
    BY <1>1, <2>1 DEF Distinct
  <2>3. b >= ThreadDataWords /\ Len(cs) > k
    BY DEF Base
  <2> QED BY <2>1, <2>2, <2>3
<1>4. N = Len(q) /\ s = q[N]
  BY <1>1
<1>5. /\ m - 1 \in Nat /\ k <= m - 1 /\ m - 1 <= Len(c) /\ (m - 1) + 1 = m
      /\ m \in 1 .. Len(c) /\ \A i \in k + 1 .. m - 1 : i \in 1 .. Len(c)
  BY <1>2
<1>6. c[m].arguments \in Nat /\ \A i \in k + 1 .. m - 1 : c[i].depth \in Nat
  <2>1. \A i \in 1 .. Len(c) : c[i] \in CallType
    BY <1>3
  <2> QED BY <1>5, <2>1 DEF CallType
<1> HIDE DEF N, S, n
<1>7. CallerPlaced(q, c, k, m - 1, S)
  <2>1. CallerPlaced(q, c, k, m - 1, Caller(q, c, k, b, (m - 1) + 1))
    BY <1>3, <1>5, <1>1, UnderCaller
  <2> QED BY <1>5, <2>1 DEF S
<1>8. S.seg = s => S.depth <= e - 1
  <2>1. S.depth \in Nat /\ n \in Nat
    BY <1>6, <1>7 DEF CallerPlaced, n
  <2>2. CASE Direct(st, S, n, s, e - 1)
    BY <2>1, <2>2 DEF Direct
  <2>3. CASE Moved(q, hd, st, S, n, s, e - 1)
    <3>1. Waits(q, hd, st, S, s)
      BY <2>3 DEF Moved
    <3>2. S.seg # s
      BY <1>3, <3>1, WaitsBefore
    <3> QED BY <3>2
  <2> QED BY <1>2, <2>2, <2>3 DEF Entering
<1>9. CallerBelow(q, c, k, b, m - 1, s, e - 1)
  BY <1>5, <1>8 DEF CallerBelow, S
<1>10. SameBelow(hd, st, cs, c, hd, st2, cs, c2, k, m - 1, s, e - 1)
  <2>1. TopOnly(s, hd, st, hd, st2)
    OBVIOUS
  <2>2. e - 1 <= Len(st2[s]) /\ \A j \in 1 .. e - 1 : st2[s][j] = st[s][j]
    BY <1>1 DEF Longer
  <2>3. Len(c2) = Len(c) /\ \A i \in 1 .. m - 1 : c2[i] = c[i]
    BY DEF Entered
  <2>4. Len(cs) \in Nat /\ Len(c) \in Nat
    BY <1>3
  <2> QED BY <1>3, <1>5, <2>1, <2>2, <2>3, <2>4 DEF SameBelow, SameCall
<1>11. KeptBelow(q, hd, st, c, hd, cp, st2, cs, c2, k, b, m - 1, s)
  <2>1. e - 1 \in Nat
    <3>1. s \in Segments
      BY <1>3, <1>4 DEF Distinct
    <3>2. st[s] \in Seq(WordType)
      BY <1>3, <3>1 DEF StackType
    <3> QED BY <1>1, <3>2
  <2> QED BY <1>3, <1>5, <1>9, <1>10, <1>1, <2>1, BelowKept
<1>12. /\ Base(q, hd, cp, st2, cs, k, b) /\ Frames(q, hd, st2, c2, k, b, m - 1)
       /\ Caller(q, c2, k, b, m) = S
       /\ \A T : Waits(q, hd, st, T, s) => Waits(q, hd, st2, T, s)
  BY <1>5, <1>11 DEF KeptBelow, S
<1>13. Frames(q, hd, st2, c2, k, b, m)
  BY <1>2, <1>3, <1>4, <1>6, <1>7, <1>12, <1>1, FrameAdded DEF n
<1>14. InBody(q, st2, r2, c2, k, m)
  <2>1. /\ Len(c2) = m /\ ~c2[m].sent /\ c2[m].seg = s /\ c2[m].depth = e
        /\ c2[m].fp = <<s, e>>
    BY <1>2 DEF Entered
  <2>2. Len(st2[s]) = e
    <3>1. (e - 1) + 1 = e
      BY <1>1
    <3> QED BY <1>1, <3>1 DEF Longer
  <2>3. r2 = InSmalltalk("body", m, s, c2[m].fp, r2.rax)
    BY <2>1 DEF InSmalltalk
  <2> QED BY <1>2, <1>1, <2>1, <2>2, <2>3 DEF InBody, Result
<1>15. Nesting(cs, c2, k, m)
  <2>1. c2[m].lang = "Smalltalk" /\ Len(c2) = m /\ m <= MaxCalls
    BY <1>2, <1>5 DEF Nesting, Entered
  <2>2. CallsAbove(c2, m - 1, m)
    <3>1. \A i \in m + 1 .. m : c2[i].lang = "C"
      OBVIOUS
    <3> QED BY <1>5, <2>1, <3>1 DEF CallsAbove
  <2>3. m - 1 <= m
    OBVIOUS
  <2> QED BY <1>5, <1>10, <2>2, <2>3, NestingKept
<1> QED BY <1>12, <1>13, <1>14, <1>15, <1>1 DEF ThreadKept, Inside, Runs

LEMMA FramesFewer ==
  ASSUME NEW q, NEW hd, NEW st, NEW c, NEW k \in Nat, NEW b, NEW m \in Nat,
         Frames(q, hd, st, c, k, b, m)
  PROVE  Frames(q, hd, st, c, k, b, m - 1)
<1>1. \A i \in k + 1 .. m - 1 : i \in k + 1 .. m
  OBVIOUS
<1> QED BY <1>1 DEF Frames

LEMMA LandTyped ==
  ASSUME NEW q, NEW c, NEW k \in Nat, NEW b, NEW m \in Nat, k <= m, m <= MaxCalls,
         NEW s \in Pointers, NEW f \in Pointers \X Nat, NEW x \in Nat
  PROVE  Land(Caller(q, c, k, b, m + 1).word, s, f, x) \in CpuType
<1>1. CASE m = k
  <2>1. Caller(q, c, k, b, m + 1).word = ToC
    BY <1>1 DEF Caller
  <2>2. Land(ToC, s, f, x) = InSmalltalk("toC", 0, s, f, x)
    BY DEF Land, ToC, Word
  <2>3. 0 \in 0 .. MaxCalls
    BY Constants
  <2> QED BY <2>1, <2>2, <2>3, RegistersTyped
<1>2. CASE m # k
  <2>1. m > k /\ m \in 0 .. MaxCalls
    BY <1>2, Constants
  <2>2. Caller(q, c, k, b, m + 1).word = Return(m)
    BY <2>1, Sender DEF SentBy
  <2>3. Land(Return(m), s, f, x) = InSmalltalk("body", m, s, f, x)
    BY DEF Land, Return, Word
  <2> QED BY <2>1, <2>2, <2>3, RegistersTyped
<1> QED BY <1>1, <1>2

LEMMA FrameRead ==
  ASSUME NEW f \in Pointers \X Nat
  PROVE  <<Frame(f).a, Frame(f).b>> = f
BY DEF Frame, Word

\* The frame of m is at depth e, above n arguments, the receiver and the return
\* address; without them there are d words.
FrameSpan(c, m, e, n, d) == e = c[m].depth /\ n = c[m].arguments /\ e = d + n + 3

\* leave and ret: control is at the return address of m, with nothing left of it
\* on the stack.
LEMMA ReturnedFromBody ==
  ASSUME NEW q, NEW hd, NEW cp, NEW st, NEW cs, NEW r, NEW c, NEW st2, NEW r2, NEW c2,
         NEW k \in Nat, NEW m \in Nat, NEW b \in Nat, NEW s, NEW e \in Nat, NEW n \in Nat,
         NEW d \in Nat,
         Typed(q, hd, cp, st, cs, r, c), st2 \in StackType,
         Nesting(cs, c, k, m), Base(q, hd, cp, st, cs, k, b), Frames(q, hd, st, c, k, b, m),
         InBody(q, st, r, c, k, m), OnTop(q, s),
         TopOnly(s, hd, st, hd, st2),
         FrameSpan(c, m, e, n, d), Shorter(st[s], st2[s], d),
         Shorter(c, c2, m - 1), r2 = ReturnToSender(st[s], s, e, m)
  PROVE  ThreadKept(q, hd, cp, st2, cs, r2, c2) /\ r2 \in CpuType
<1> DEFINE S == Caller(q, c, k, b, m)
<1>1. m > k /\ m = Len(c) /\ c[m].seg = s /\ Len(st[s]) = e /\ e = c[m].depth
  BY DEF InBody, OnTop, FrameSpan
<1>2. /\ Distinct(q) /\ st \in StackType /\ cs \in Seq(FrameType) /\ c \in Seq(CallType)
      /\ q # <<>> /\ s = q[Len(q)] /\ b >= ThreadDataWords /\ Len(cs) > k
  BY DEF Typed, OnTop, Base
<1>3. /\ m - 1 \in Nat /\ k <= m - 1 /\ m - 1 <= Len(c) /\ (m - 1) + 1 = m
      /\ m \in 1 .. Len(c) /\ m \in k + 1 .. m /\ m - 1 <= m
  BY <1>1
<1>4. Framed(q, hd, st, c, k, b, m)
  BY <1>3 DEF Frames
<1>5. /\ e \in 2 .. Len(st[s])
      /\ \/ Direct(st, S, n, s, e - 1) /\ st[s][e] = Frame(S.fp)
         \/ Moved(q, hd, st, S, n, s, e - 1) /\ st[s][e] = Frame(NullFrame)
  BY <1>1, <1>4 DEF Framed, FrameSpan
<1> HIDE DEF S
<1>6. S.depth \in Nat /\ S.fp \in Pointers \X Nat /\ S.word \in WordType
  <2>1. Frames(q, hd, st, c, k, b, m - 1)
    BY FramesFewer
  <2>2. CallerPlaced(q, c, k, m - 1, Caller(q, c, k, b, (m - 1) + 1))
    BY <1>2, <1>3, <2>1, UnderCaller
  <2> QED BY <1>3, <2>2 DEF CallerPlaced, S
<1>7. Len(st2[s]) = d /\ e = d + n + 3
  BY DEF Shorter, FrameSpan
<1>8. \/ s = S.seg /\ d = S.depth /\ r2 = Land(S.word, S.seg, S.fp, m)
      \/ /\ Waits(q, hd, st, S, s) /\ S.seg # s /\ d = 0
         /\ r2 = InSmalltalk("popTrap", 0, s, NullFrame, m)
  <2>1. CASE Direct(st, S, n, s, e - 1) /\ st[s][e] = Frame(S.fp)
    <3>1. s = S.seg /\ e - 1 = S.depth + n + 2 /\ st[s][e - 1] = S.word
      BY <2>1 DEF Direct
    <3>2. d = S.depth
      BY <1>6, <1>7, <3>1
    <3>3. FrameAt(st[s], e) = S.fp
      BY <1>6, <2>1, FrameRead DEF FrameAt
    <3> QED BY <3>1, <3>2, <3>3 DEF ReturnToSender
  <2>2. CASE Moved(q, hd, st, S, n, s, e - 1) /\ st[s][e] = Frame(NullFrame)
    <3>1. Waits(q, hd, st, S, s) /\ e - 1 = n + 2 /\ st[s][e - 1] = PopTrap
      BY <2>2 DEF Moved
    <3>2. d = 0
      BY <1>7, <3>1
    <3>3. FrameAt(st[s], e) = NullFrame
      <4>1. NullFrame \in Pointers \X Nat
        BY Constants DEF NullFrame
      <4> QED BY <2>2, <4>1, FrameRead DEF FrameAt
    <3>4. r2 = InSmalltalk("popTrap", 0, s, NullFrame, m)
      BY <3>1, <3>3 DEF ReturnToSender, Land, PopTrap, Word
    <3>5. S.seg # s
      BY <1>2, <3>1, WaitsBefore
    <3> QED BY <3>1, <3>2, <3>4, <3>5
  <2> QED BY <1>5, <2>1, <2>2
<1>9. CallerBelow(q, c, k, b, m - 1, s, d)
  <2>1. S.seg = s => S.depth <= d
    BY <1>6, <1>8
  <2> QED BY <1>3, <2>1 DEF CallerBelow, S
<1>10. SameBelow(hd, st, cs, c, hd, st2, cs, c2, k, m - 1, s, d)
  <2>1. TopOnly(s, hd, st, hd, st2)
    OBVIOUS
  <2>2. d <= Len(st2[s]) /\ \A j \in 1 .. d : st2[s][j] = st[s][j]
    BY <1>7 DEF Shorter
  <2>3. Len(c2) = m - 1 /\ \A i \in 1 .. m - 1 : c2[i] = c[i]
    BY DEF Shorter
  <2>4. Len(cs) \in Nat
    BY <1>2
  <2>5. \A i \in 1 .. m - 1 : SameCall(c, c2, i) /\ c2[i].lang = c[i].lang
    BY <2>3 DEF SameCall
  <2> QED BY <1>2, <1>3, <2>1, <2>2, <2>3, <2>4, <2>5 DEF SameBelow
<1>11. KeptBelow(q, hd, st, c, hd, cp, st2, cs, c2, k, b, m - 1, s)
  <2>1. Frames(q, hd, st, c, k, b, m - 1)
    BY FramesFewer
  <2> QED BY <1>2, <1>3, <1>7, <1>9, <1>10, <2>1, BelowKept
<1>12. /\ Base(q, hd, cp, st2, cs, k, b) /\ Frames(q, hd, st2, c2, k, b, m - 1)
       /\ Caller(q, c2, k, b, (m - 1) + 1) = S
       /\ \A T : Waits(q, hd, st, T, s) => Waits(q, hd, st2, T, s)
  BY <1>3, <1>11 DEF KeptBelow, S
<1>13. Len(c2) = m - 1
  BY DEF Shorter
<1>14. Nesting(cs, c2, k, m - 1)
  <2>1. m - 1 <= MaxCalls
    <3>1. m <= MaxCalls
      BY <1>1 DEF Nesting
    <3> QED BY <3>1, Constants
  <2>2. CallsAbove(c2, m - 1, m - 1)
    <3>1. \A i \in (m - 1) + 1 .. m - 1 : c2[i].lang = "C"
      OBVIOUS
    <3> QED BY <1>3, <1>13, <2>1, <3>1 DEF CallsAbove
  <2> QED BY <1>3, <1>10, <2>2, NestingKept
<1>15. Runs(q, hd, st2, cs, r2, c2, k, m - 1, b)
  <2>1. CASE s = S.seg /\ d = S.depth /\ r2 = Land(S.word, S.seg, S.fp, m)
    <3>1. S.seg = q[Len(q)] /\ Len(st2[S.seg]) = S.depth
      BY <1>2, <1>7, <2>1
    <3>2. S = Caller(q, c2, k, b, (m - 1) + 1) /\ r2 = Land(S.word, S.seg, S.fp, (m - 1) + 1)
      BY <1>3, <1>12, <2>1
    <3> QED BY <1>2, <1>3, <1>12, <1>13, <3>1, <3>2, Resumes
  <2>2. CASE Waits(q, hd, st, S, s) /\ r2 = InSmalltalk("popTrap", 0, s, NullFrame, m)
    <3>1. Waits(q, hd, st2, Caller(q, c2, k, b, (m - 1) + 1), s)
      BY <1>12, <2>2
    <3>2. r2 = InSmalltalk("popTrap", r2.act, s, r2.fp, (m - 1) + 1)
      BY <1>3, <2>2 DEF InSmalltalk
    <3>3. AtTrap(q, hd, st2, r2, c2, k, b, m - 1)
      BY <1>2, <1>13, <3>1, <3>2 DEF AtTrap
    <3> QED BY <1>12, <3>3 DEF Runs
  <2> QED BY <1>8, <2>1, <2>2
<1>16. ThreadKept(q, hd, cp, st2, cs, r2, c2)
  BY <1>2, <1>3, <1>12, <1>14, <1>15 DEF ThreadKept, Inside
<1>17. r2 \in CpuType
  <2>1. m \in Nat /\ m <= MaxCalls /\ m - 1 <= MaxCalls /\ 0 \in 0 .. MaxCalls
    <3>1. m <= MaxCalls
      BY <1>1 DEF Nesting
    <3> QED BY <3>1, Constants
  <2>2. s \in Pointers /\ NullFrame \in Pointers \X Nat
    <3>1. s \in Segments
      BY <1>2 DEF Distinct
    <3> QED BY <3>1, Constants DEF NullFrame
  <2>3. Land(Caller(q, c, k, b, (m - 1) + 1).word, s, S.fp, m) \in CpuType
    BY <1>3, <1>6, <2>1, <2>2, LandTyped
  <2>4. InSmalltalk("popTrap", 0, s, NullFrame, m) \in CpuType
    BY <2>1, <2>2, RegistersTyped
  <2>5. S.word = Caller(q, c, k, b, (m - 1) + 1).word
    BY <1>3 DEF S
  <2> QED BY <1>8, <2>3, <2>4, <2>5
<1> QED BY <1>16, <1>17

\* A frame has its message below it.
WellFramed(c, m) ==
  /\ c[m].fp = <<c[m].seg, c[m].depth>>
  /\ \E d \in Nat : FrameSpan(c, m, c[m].depth, c[m].arguments, d)
  /\ c[m].depth \in Nat /\ c[m].arguments \in Nat /\ c[m].fp \in Pointers \X Nat

LEMMA FrameRoom ==
  ASSUME NEW q, NEW hd, NEW st, NEW c, NEW k \in Nat, NEW m \in Nat, NEW b \in Nat, m > k,
         c \in Seq(CallType), m <= Len(c), Distinct(q), q # <<>>, st \in StackType,
         b >= ThreadDataWords, Frames(q, hd, st, c, k, b, m)
  PROVE  WellFramed(c, m)
<1> DEFINE S == Caller(q, c, k, b, m)
           n == c[m].arguments
           e == c[m].depth
<1>1. m \in k + 1 .. m /\ m \in 1 .. Len(c) /\ m - 1 \in Nat /\ k <= m - 1
      /\ m - 1 <= Len(c) /\ (m - 1) + 1 = m
  OBVIOUS
<1>2. Framed(q, hd, st, c, k, b, m)
  BY <1>1 DEF Frames
<1>3. /\ c[m].fp = <<c[m].seg, e>>
      /\ \/ Direct(st, S, n, c[m].seg, e - 1)
         \/ Moved(q, hd, st, S, n, c[m].seg, e - 1)
  BY <1>2 DEF Framed
<1>4. n \in Nat /\ e \in Nat /\ c[m].fp \in Pointers \X Nat
  <2>1. c[m] \in CallType
    BY <1>1
  <2> QED BY <2>1 DEF CallType
<1> HIDE DEF S, n, e
<1>5. S.depth \in Nat
  <2>1. Frames(q, hd, st, c, k, b, m - 1)
    BY FramesFewer
  <2>2. CallerPlaced(q, c, k, m - 1, Caller(q, c, k, b, (m - 1) + 1))
    BY <1>1, <2>1, UnderCaller
  <2> QED BY <1>1, <2>2 DEF CallerPlaced, S
<1>6. \E d \in Nat : e = d + n + 3
  <2>1. CASE Direct(st, S, n, c[m].seg, e - 1)
    <3>1. e - 1 = S.depth + n + 2
      BY <2>1 DEF Direct
    <3>2. e = S.depth + n + 3
      BY SMTT(20), <1>4, <1>5, <3>1
    <3> QED BY <1>5, <3>2
  <2>2. CASE Moved(q, hd, st, S, n, c[m].seg, e - 1)
    <3>1. e - 1 = n + 2
      BY <2>2 DEF Moved
    <3>2. e = 0 + n + 3
      BY <1>4, <3>1
    <3> QED BY <3>2
  <2> QED BY <1>3, <2>1, <2>2
<1>7. \E d \in Nat : FrameSpan(c, m, e, n, d)
  BY <1>6 DEF FrameSpan, e, n
<1> QED BY <1>3, <1>4, <1>7 DEF e, n, WellFramed
-----------------------------------------------------------------------------
(***************************************************************************)
(* The actions of Smalltalk code and of the C code it calls.               *)
(***************************************************************************)
\* What a step puts in segment s: header h and words w.
Puts(f, f2, x, y) == f2 = [f EXCEPT ![x] = y]

MovesTyped(hd, s, h, w, cs2, r2, c2) ==
  /\ h \in HeaderType /\ h.threadData = hd[s].threadData
  /\ w \in Seq(WordType) /\ Len(w) <= SegmentWords
  /\ cs2 \in Seq(FrameType) /\ r2 \in CpuType /\ c2 \in Seq(CallType)

LEMMA TopTyped ==
  ASSUME NEW q, NEW hd, NEW cp, NEW st, NEW cs, NEW r, NEW c, Typed(q, hd, cp, st, cs, r, c),
         NEW s \in Segments, NEW h, NEW w, NEW cs2, NEW r2, NEW c2, NEW hd2, NEW st2,
         MovesTyped(hd, s, h, w, cs2, r2, c2), Puts(hd, hd2, s, h), Puts(st, st2, s, w)
  PROVE  /\ Typed(q, hd2, cp, st2, cs2, r2, c2) /\ TopOnly(s, hd, st, hd2, st2)
         /\ st2 \in StackType /\ st2[s] = w
<1>1. /\ Distinct(q) /\ cp \in [Segments -> Nat]
      /\ hd \in [Segments -> HeaderType] /\ st \in [Segments -> Seq(WordType)]
      /\ \A x \in Segments : Len(st[x]) <= SegmentWords
  BY DEF Typed, StackType
<1>2. /\ h \in HeaderType /\ h.threadData = hd[s].threadData
      /\ w \in Seq(WordType) /\ Len(w) <= SegmentWords
      /\ cs2 \in Seq(FrameType) /\ r2 \in CpuType /\ c2 \in Seq(CallType)
  BY DEF MovesTyped
<1>3. /\ hd2 \in [Segments -> HeaderType] /\ hd2[s] = h
      /\ \A x \in Segments : x # s => hd2[x] = hd[x]
  BY <1>1, <1>2 DEF Puts
<1>4. /\ st2 \in [Segments -> Seq(WordType)] /\ st2[s] = w
      /\ \A x \in Segments : x # s => st2[x] = st[x]
  BY <1>1, <1>2 DEF Puts
<1>5. \A x \in Segments : Len(st2[x]) <= SegmentWords
  BY <1>1, <1>2, <1>4
<1>6. Typed(q, hd2, cp, st2, cs2, r2, c2)
  BY <1>1, <1>2, <1>3, <1>4, <1>5 DEF Typed, StackType
<1>7. TopOnly(s, hd, st, hd2, st2)
  BY <1>2, <1>3, <1>4 DEF TopOnly
<1> QED BY <1>4, <1>6, <1>7 DEF StackType

LEMMA TopPut ==
  ASSUME NEW hd, NEW st, NEW st2, NEW s \in Segments, NEW w \in Seq(WordType),
         st \in StackType, Puts(st, st2, s, w)
  PROVE  TopOnly(s, hd, st, hd, st2) /\ st2 \in StackType /\ st2[s] = w
<1>1. st2 \in StackType /\ st2[s] = w /\ \A x \in Segments : x # s => st2[x] = st[x]
  BY DEF StackType, Puts
<1> QED BY <1>1 DEF TopOnly

LEMMA CallSet ==
  ASSUME NEW c \in Seq(CallType), NEW n \in 1 .. Len(c), NEW a \in CallType
  PROVE  LET c2 == [c EXCEPT ![n] = a] IN
         /\ c2 \in Seq(CallType) /\ Len(c2) = Len(c) /\ c2[n] = a
         /\ \A i \in 1 .. n - 1 : c2[i] = c[i]
OBVIOUS

\* A step of thread t on segment s: its header is h then, its words are w.
Moves(t, s, h, w, cs2, r2, c2) ==
  /\ links' = links /\ current' = current /\ size' = size /\ cpointer' = cpointer
  /\ running' = running
  /\ header' = [header EXCEPT ![s] = h] /\ stack' = [stack EXCEPT ![s] = w]
  /\ cstack' = [cstack EXCEPT ![t] = cs2] /\ cpu' = [cpu EXCEPT ![t] = r2]
  /\ calls' = [calls EXCEPT ![t] = c2]

LEMMA MovesTop ==
  ASSUME IInv, NEW t \in Threads, NEW s, NEW h, NEW w, NEW cs2, NEW r2, NEW c2,
         OnTop(Held[t], s), Moves(t, s, h, w, cs2, r2, c2), MovesTyped(header, s, h, w, cs2, r2, c2)
  PROVE  /\ Typed(Held[t], header', cpointer, stack', cs2, r2, c2)
         /\ TopOnly(s, header, stack, header', stack')
         /\ stack' \in StackType /\ stack'[s] = w
<1>1. Typed(Held[t], header, cpointer, stack, cstack[t], cpu[t], calls[t])
  BY ThreadFacts
<1>2. s \in Segments
  BY <1>1 DEF Typed, Distinct, OnTop
<1>3. Puts(header, header', s, h) /\ Puts(stack, stack', s, w)
  BY DEF Moves, Puts
<1> QED BY <1>1, <1>2, <1>3, TopTyped

LEMMA MovedKeeps ==
  ASSUME IInv, NEW t \in Threads, NEW s, NEW h, NEW w, NEW cs2, NEW r2, NEW c2,
         OnTop(Held[t], s), Moves(t, s, h, w, cs2, r2, c2), MovesTyped(header, s, h, w, cs2, r2, c2),
         ThreadKept(Held[t], header', cpointer, stack', cs2, r2, c2)
  PROVE  IInv'
<1>1. Typed(Held[t], header', cpointer, stack', cs2, r2, c2)
  BY MovesTop
<1>2. current[t] # NoSegment /\ s = Held[t][Len(Held[t])]
  BY ThreadFacts DEF OnTop
<1>3. /\ links' = links /\ current' = current /\ size' = size /\ cpointer' = cpointer
      /\ running' = running
      /\ header' = [header EXCEPT ![s] = h] /\ stack' = [stack EXCEPT ![s] = w]
      /\ cstack' = [cstack EXCEPT ![t] = cs2] /\ cpu' = [cpu EXCEPT ![t] = r2]
      /\ calls' = [calls EXCEPT ![t] = c2]
  BY DEF Moves
<1> QED BY <1>1, <1>2, <1>3, LocalStep

\* A thread in Smalltalk runs on the newest of its segments.
LEMMA SmalltalkFacts ==
  ASSUME IInv, NEW t \in Threads, cpu[t].mode = "Smalltalk"
  PROVE  /\ OnTop(Held[t], cpu[t].seg) /\ cpu[t].seg \in Segments
         /\ Typed(Held[t], header, cpointer, stack, cstack[t], cpu[t], calls[t])
         /\ Len(calls[t]) \in Nat /\ Len(calls[t]) <= MaxCalls
<1>1. /\ Typed(Held[t], header, cpointer, stack, cstack[t], cpu[t], calls[t])
      /\ ThreadKept(Held[t], header, cpointer, stack, cstack[t], cpu[t], calls[t])
  BY ThreadFacts
<1>2. OnTop(Held[t], cpu[t].seg) /\ Len(calls[t]) <= MaxCalls
  BY <1>1, Where DEF OnTop, Nesting
<1>3. cpu[t].seg \in Segments
  BY <1>1, <1>2 DEF Typed, Distinct, OnTop
<1>4. Len(calls[t]) \in Nat
  BY <1>1 DEF Typed
<1> QED BY <1>1, <1>2, <1>3, <1>4

LEMMA InTheBody ==
  ASSUME NEW r \in CpuType, r.mode = "Smalltalk", NEW f
  PROVE  [r EXCEPT !.at = "body", !.fp = f] = InSmalltalk("body", r.act, r.seg, f, r.rax)
<1> DEFINE r1 == [r EXCEPT !.at = "body"]
<1>1. r = [mode |-> "Smalltalk", at |-> r.at, act |-> r.act, seg |-> r.seg, fp |-> r.fp,
           rax |-> r.rax]
  BY DEF CpuType
<1>2. r1 = [mode |-> "Smalltalk", at |-> "body", act |-> r.act, seg |-> r.seg, fp |-> r.fp,
            rax |-> r.rax]
  BY <1>1
<1> HIDE DEF r1
<1>3. [r1 EXCEPT !.fp = f]
        = [mode |-> "Smalltalk", at |-> "body", act |-> r.act, seg |-> r.seg, fp |-> f,
           rax |-> r.rax]
  BY <1>2
<1>4. [r EXCEPT !.at = "body", !.fp = f] = [r1 EXCEPT !.fp = f]
  BY DEF r1
<1> QED BY <1>3, <1>4 DEF InSmalltalk

LEMMA KeptByPrologue ==
  ASSUME IInv, NEW t \in Threads, Prologue(t), running' = running
  PROVE  IInv'
<1> DEFINE s == cpu[t].seg
           n == Len(calls[t])
           e == Len(stack[s]) + 1
           w == Append(stack[s], Frame(cpu[t].fp))
           a == [calls[t][n] EXCEPT !.seg = s, !.fp = <<s, e>>, !.depth = e]
           c2 == [calls[t] EXCEPT ![n] = a]
           r2 == InSmalltalk("body", n, s, <<s, e>>, cpu[t].rax)
<1>1. /\ cpu[t].mode = "Smalltalk" /\ cpu[t].at \in {"entry", "checked"} /\ Fits(e)
      /\ stack' = [stack EXCEPT ![s] = w]
      /\ cpu' = [cpu EXCEPT ![t].at = "body", ![t].fp = <<s, e>>]
      /\ calls' = [calls EXCEPT ![t][n].seg = s, ![t][n].fp = <<s, e>>, ![t][n].depth = e]
      /\ links' = links /\ header' = header /\ current' = current /\ size' = size
      /\ cpointer' = cpointer /\ cstack' = cstack
  BY SMTT(20) DEF Prologue, Top, memory
<1>2. /\ OnTop(Held[t], s) /\ s \in Segments
      /\ Typed(Held[t], header, cpointer, stack, cstack[t], cpu[t], calls[t])
      /\ ThreadKept(Held[t], header, cpointer, stack, cstack[t], cpu[t], calls[t])
      /\ TypesKept
  BY <1>1, SmalltalkFacts, ThreadFacts
<1>3. PICK k \in Nat, m \in Nat, b \in Nat :
        /\ Nesting(cstack[t], calls[t], k, m)
        /\ Base(Held[t], header, cpointer, stack, cstack[t], k, b)
        /\ Frames(Held[t], header, stack, calls[t], k, b, m - 1)
        /\ \/ AtEntry(Held[t], stack, cpu[t], calls[t], k, b, m)
           \/ AfterCheck(Held[t], header, stack, cpu[t], calls[t], k, b, m)
  <2>1. Held[t] # <<>>
    BY SMTT(20), <1>2 DEF OnTop
  <2> DEFINE q == Held[t]
             cs == cstack[t]
             r == cpu[t]
             c == calls[t]
  <2>2. ThreadKept(q, header, cpointer, stack, cs, r, c) /\ q # <<>>
        /\ r.mode = "Smalltalk" /\ (r.at = "entry" \/ r.at = "checked")
    BY <1>1, <1>2, <2>1
  <2> HIDE DEF q, cs, r, c
  <2>3. PICK k \in Nat, m \in Nat, b \in Nat :
          /\ Nesting(cs, c, k, m) /\ Base(q, header, cpointer, stack, cs, k, b)
          /\ Frames(q, header, stack, c, k, b, m - 1)
          /\ AtEntry(q, stack, r, c, k, b, m) \/ AfterCheck(q, header, stack, r, c, k, b, m)
    <3>1. CASE r.at = "entry"
      BY <2>2, <3>1, Where
    <3>2. CASE r.at = "checked"
      BY <2>2, <3>2, Where
    <3> QED BY <2>2, <3>1, <3>2
  <2> QED BY <2>3 DEF q, cs, r, c
<1>4. m = n /\ n \in 1 .. Len(calls[t]) /\ n \in 0 .. MaxCalls
  BY <1>3, Constants DEF AtEntry, AfterCheck, Nesting
<1>5. /\ cpu[t].mode = "Smalltalk" /\ cpu[t].act = n
  BY <1>3, <1>4 DEF AtEntry, AfterCheck, InSmalltalk
<1>6. /\ stack[s] \in Seq(WordType) /\ cpu[t] \in CpuType /\ calls[t] \in Seq(CallType)
      /\ cstack[t] \in Seq(FrameType) /\ header[s] \in HeaderType
      /\ cpu[t].fp \in Pointers \X Nat /\ cpu[t].rax \in Nat
  BY <1>2 DEF Typed, StackType, CpuType
<1>7. e \in Nat /\ Len(stack[s]) = e - 1 /\ e <= SegmentWords
  <2>1. Len(stack[s]) \in Nat /\ SegmentWords \in Nat
    BY <1>6, Constants
  <2>2. e + 5 <= SegmentWords
    BY <1>1 DEF Fits, Slack
  <2> QED BY <2>1, <2>2
<1>8. Frame(cpu[t].fp) \in WordType
  BY <1>6, Constants DEF Frame, Word, WordType
<1> HIDE DEF e
<1>9. w \in Seq(WordType) /\ Longer(stack[s], w, Frame(cpu[t].fp)) /\ Len(w) = e
  <2> DEFINE x == Frame(cpu[t].fp)
             v == stack[s]
  <2>1. v \in Seq(WordType) /\ x \in WordType
    BY <1>6, <1>8
  <2> HIDE DEF x, v
  <2>2. Append(v, x) \in Seq(WordType) /\ Longer(v, Append(v, x), x)
    BY <2>1, Lengthened
  <2>3. Len(Append(v, x)) = Len(v) + 1
    BY <2>2 DEF Longer
  <2> QED BY <1>7, <2>2, <2>3 DEF x, v
<1>10. <<s, e>> \in Pointers \X Nat
  BY <1>2, <1>7, Constants
<1>11. r2 \in CpuType
  BY <1>4, <1>6, <1>10, <1>2, RegistersTyped, Constants
<1>12. cpu' = [cpu EXCEPT ![t] = r2]
  <2>1. cpu \in [Threads -> CpuType]
    BY <1>2 DEF TypesKept
  <2>2. cpu' = [cpu EXCEPT ![t] = [cpu[t] EXCEPT !.at = "body", !.fp = <<s, e>>]]
    BY <1>1, <2>1
  <2>3. [cpu[t] EXCEPT !.at = "body", !.fp = <<s, e>>] = r2
    BY Zenon, <1>5, <1>6, InTheBody
  <2> QED BY <2>2, <2>3
<1>13. calls[t][n] \in CallType
  BY <1>4, <1>6
<1>14. a \in CallType
  BY <1>2, <1>7, <1>10, <1>13, Constants DEF CallType
<1>15. calls' = [calls EXCEPT ![t] = c2]
  <2>1. a = [[[calls[t][n] EXCEPT !.seg = s] EXCEPT !.fp = <<s, e>>] EXCEPT !.depth = e]
    OBVIOUS
  <2> QED BY ZenonT(40), <1>1, <1>2, <1>4, <1>6, <1>13, <2>1 DEF TypesKept, CallType
<1>16. /\ a.seg = s /\ a.depth = e /\ a.fp = <<s, e>> /\ a.lang = calls[t][n].lang
       /\ a.arguments = calls[t][n].arguments /\ a.sent = calls[t][n].sent
  BY <1>13 DEF CallType
<1> HIDE DEF a
<1>17. c2 \in Seq(CallType) /\ Entered(calls[t], c2, m, s, e)
  <2>1. /\ c2 \in Seq(CallType) /\ Len(c2) = Len(calls[t]) /\ c2[n] = a
        /\ \A i \in 1 .. n - 1 : c2[i] = calls[t][i]
    BY <1>4, <1>6, <1>14, CallSet
  <2> HIDE DEF c2, n, s
  <2> QED BY <1>4, <1>16, <2>1 DEF Entered
<1> HIDE DEF c2, r2, w
<1>18. Moves(t, s, header[s], w, cstack[t], r2, c2)
  <2>1. header' = [header EXCEPT ![s] = header[s]] /\ cstack' = [cstack EXCEPT ![t] = cstack[t]]
    BY <1>1, <1>2 DEF TypesKept
  <2> QED BY <1>1, <1>12, <1>15, <2>1 DEF Moves
<1>19. MovesTyped(header, s, header[s], w, cstack[t], r2, c2)
  BY <1>6, <1>7, <1>9, <1>11, <1>17 DEF MovesTyped
<1>20. /\ TopOnly(s, header, stack, header', stack') /\ stack' \in StackType /\ stack'[s] = w
  BY <1>2, <1>18, <1>19, MovesTop
<1>21. PushedFrame(stack, stack', s, e, cpu[t])
  BY <1>7, <1>9, <1>20 DEF PushedFrame
<1>22. TopOnly(s, header, stack, header, stack')
  BY <1>1, <1>20
<1>23. r2 = InSmalltalk("body", m, s, <<s, e>>, cpu[t].rax)
  BY <1>4 DEF r2
<1>24. ThreadKept(Held[t], header', cpointer, stack', cstack[t], r2, c2)
  <2> HIDE DEF n, s
  <2>1. ThreadKept(Held[t], header, cpointer, stack', cstack[t], r2, c2)
    BY <1>2, <1>3, <1>17, <1>20, <1>21, <1>22, <1>23, EnteredBody
  <2> QED BY <1>1, <2>1
<1> QED BY SMTT(20), <1>2, <1>18, <1>19, <1>24, MovedKeeps

\* A thread in the body of a Smalltalk activation.
LEMMA BodyFacts ==
  ASSUME IInv, NEW t \in Threads, RunsSmalltalk(t)
  PROVE  \E k, b \in Nat : LET m == Len(calls[t]) IN
           /\ Nesting(cstack[t], calls[t], k, m)
           /\ Base(Held[t], header, cpointer, stack, cstack[t], k, b)
           /\ Frames(Held[t], header, stack, calls[t], k, b, m)
           /\ InBody(Held[t], stack, cpu[t], calls[t], k, m)
           /\ m > k /\ m \in 1 .. Len(calls[t]) /\ m \in 0 .. MaxCalls
           /\ calls[t][m].seg = cpu[t].seg /\ calls[t][m].depth = Len(stack[cpu[t].seg])
           /\ cpu[t].fp = calls[t][m].fp /\ cpu[t].act = m /\ WellFramed(calls[t], m)
<1>1. /\ OnTop(Held[t], cpu[t].seg)
      /\ Typed(Held[t], header, cpointer, stack, cstack[t], cpu[t], calls[t])
      /\ ThreadKept(Held[t], header, cpointer, stack, cstack[t], cpu[t], calls[t])
      /\ cpu[t].mode = "Smalltalk" /\ cpu[t].at = "body"
  BY SmalltalkFacts, ThreadFacts DEF RunsSmalltalk
<1>2. PICK k \in Nat, m \in Nat, b \in Nat :
        /\ Nesting(cstack[t], calls[t], k, m)
        /\ Base(Held[t], header, cpointer, stack, cstack[t], k, b)
        /\ Frames(Held[t], header, stack, calls[t], k, b, m)
        /\ InBody(Held[t], stack, cpu[t], calls[t], k, m)
  BY <1>1, Where DEF OnTop
<1>3. m = Len(calls[t]) /\ m > k /\ m <= MaxCalls /\ b >= ThreadDataWords
  BY <1>2 DEF InBody, Nesting, Base
<1>4. m \in 1 .. Len(calls[t]) /\ m \in 0 .. MaxCalls
  BY <1>3, Constants
<1>5. /\ calls[t][m].seg = cpu[t].seg /\ calls[t][m].depth = Len(stack[cpu[t].seg])
      /\ cpu[t].fp = calls[t][m].fp /\ cpu[t].act = m
  BY <1>1, <1>2 DEF InBody, OnTop, InSmalltalk
<1>6. WellFramed(calls[t], m)
  <2>1. /\ Held[t] # <<>> /\ Distinct(Held[t]) /\ stack \in StackType
        /\ calls[t] \in Seq(CallType) /\ m <= Len(calls[t])
    BY <1>1, <1>4 DEF Typed, OnTop
  <2> QED BY <1>2, <1>3, <2>1, FrameRoom
<1> QED BY <1>2, <1>3, <1>4, <1>5, <1>6

LEMMA KeptBySmalltalkReturn ==
  ASSUME IInv, NEW t \in Threads, SmalltalkReturn(t), running' = running
  PROVE  IInv'
<1> DEFINE s == cpu[t].seg
           m == Len(calls[t])
           n == calls[t][m].arguments
           e == calls[t][m].depth
           c2 == SubSeq(calls[t], 1, m - 1)
           r2 == ReturnToSender(stack[s], s, e, m)
<1>1. /\ RunsSmalltalk(t) /\ cpu[t].mode = "Smalltalk"
      /\ stack' = [stack EXCEPT ![s] = SubSeq(@, 1, cpu[t].fp[2] - 2 - (n + 1))]
      /\ cpu' = [cpu EXCEPT ![t] = ReturnToSender(stack[s], s, cpu[t].fp[2], m)]
      /\ calls' = [calls EXCEPT ![t] = c2]
      /\ links' = links /\ header' = header /\ current' = current /\ size' = size
      /\ cpointer' = cpointer /\ cstack' = cstack
  BY DEF SmalltalkReturn, RunsSmalltalk, Top, Upto, memory
<1>2. /\ OnTop(Held[t], s) /\ s \in Segments
      /\ Typed(Held[t], header, cpointer, stack, cstack[t], cpu[t], calls[t])
      /\ TypesKept
  BY <1>1, SmalltalkFacts, ThreadFacts
<1>3. PICK k \in Nat, b \in Nat :
        /\ Nesting(cstack[t], calls[t], k, m)
        /\ Base(Held[t], header, cpointer, stack, cstack[t], k, b)
        /\ Frames(Held[t], header, stack, calls[t], k, b, m)
        /\ InBody(Held[t], stack, cpu[t], calls[t], k, m)
        /\ m \in 1 .. Len(calls[t])
        /\ calls[t][m].seg = s /\ e = Len(stack[s])
        /\ cpu[t].fp = calls[t][m].fp /\ WellFramed(calls[t], m)
  BY <1>1, BodyFacts
<1> HIDE DEF n, e
<1>4. cpu[t].fp = <<s, e>> /\ e \in Nat /\ n \in Nat
  BY <1>3 DEF WellFramed, n, e
<1>5. PICK d \in Nat : FrameSpan(calls[t], m, e, n, d)
  BY <1>3 DEF WellFramed, n, e
<1>6. cpu[t].fp[2] - 2 - (n + 1) = d /\ cpu[t].fp[2] = e /\ d \in 0 .. Len(stack[s])
  <2>1. e = d + n + 3 /\ e = Len(stack[s])
    BY <1>3, <1>5 DEF FrameSpan
  <2>2. cpu[t].fp[2] = e
    BY <1>4
  <2> HIDE DEF s, m
  <2>3. e - 2 - (n + 1) = d /\ d \in 0 .. e
    BY <1>4, <2>1
  <2> QED BY <2>1, <2>2, <2>3
<1>7. /\ stack[s] \in Seq(WordType) /\ calls[t] \in Seq(CallType)
      /\ cstack[t] \in Seq(FrameType) /\ header[s] \in HeaderType
      /\ Len(stack[s]) <= SegmentWords
  BY <1>2 DEF Typed, StackType
<1> DEFINE w == SubSeq(stack[s], 1, d)
<1>8. stack' = [stack EXCEPT ![s] = w] /\ cpu' = [cpu EXCEPT ![t] = r2]
  BY <1>1, <1>6
<1>9. w \in Seq(WordType) /\ Shorter(stack[s], w, d)
  <2> DEFINE v == stack[s]
  <2>1. v \in Seq(WordType) /\ d \in 0 .. Len(v)
    BY <1>6, <1>7
  <2> HIDE DEF v
  <2>2. SubSeq(v, 1, d) \in Seq(WordType) /\ Shorter(v, SubSeq(v, 1, d), d)
    BY <2>1, Shortened
  <2> QED BY <2>2 DEF v
<1>10. c2 \in Seq(CallType) /\ Shorter(calls[t], c2, m - 1)
  <2> DEFINE v == calls[t]
             x == m - 1
  <2>1. v \in Seq(CallType) /\ x \in 0 .. Len(v)
    BY <1>3, <1>7
  <2> HIDE DEF v, x
  <2>2. SubSeq(v, 1, x) \in Seq(CallType) /\ Shorter(v, SubSeq(v, 1, x), x)
    BY <2>1, Shortened
  <2> QED BY <2>2 DEF v, x
<1>11. Len(w) <= SegmentWords
  BY <1>7, <1>9, Constants DEF Shorter
<1> HIDE DEF c2, w
<1>12. Moves(t, s, header[s], w, cstack[t], r2, c2)
  <2>1. header' = [header EXCEPT ![s] = header[s]] /\ cstack' = [cstack EXCEPT ![t] = cstack[t]]
    BY <1>1, <1>2 DEF TypesKept
  <2> QED BY <1>1, <1>8, <2>1 DEF Moves
<1>13. TopOnly(s, header, stack, header, stack') /\ stack' \in StackType /\ stack'[s] = w
  <2>1. stack \in StackType /\ Puts(stack, stack', s, w)
    BY <1>2, <1>8 DEF Typed, Puts
  <2> QED BY <1>2, <1>9, <2>1, TopPut
<1>14. ThreadKept(Held[t], header, cpointer, stack', cstack[t], r2, c2) /\ r2 \in CpuType
  <2>1. Shorter(stack[s], stack'[s], d)
    BY <1>9, <1>13
  <2>2. r2 = ReturnToSender(stack[s], s, e, m)
    BY DEF r2
  <2> HIDE DEF m, s, r2
  <2>3. m \in Nat
    BY <1>3
  <2> QED BY <1>2, <1>3, <1>4, <1>5, <1>10, <1>13, <2>1, <2>2, <2>3, ReturnedFromBody
<1> HIDE DEF r2
<1>15. MovesTyped(header, s, header[s], w, cstack[t], r2, c2)
  BY <1>7, <1>9, <1>10, <1>11, <1>14 DEF MovesTyped
<1>16. ThreadKept(Held[t], header', cpointer, stack', cstack[t], r2, c2)
  BY <1>1, <1>14
<1> QED BY <1>2, <1>12, <1>15, <1>16, MovedKeeps

\* The words w are those of u, then those of v.
Joins(w, u, v) ==
  /\ w \in Seq(WordType) /\ Len(w) = Len(u) + Len(v)
  /\ \A i \in 1 .. Len(u) : w[i] = u[i]
  /\ \A i \in 1 .. Len(v) : w[Len(u) + i] = v[i]

LEMMA Joined ==
  ASSUME NEW u \in Seq(WordType), NEW v \in Seq(WordType)
  PROVE  Joins(u \o v, u, v)
BY DEF Joins

\* The words W are v with a message of n arguments, the return address and the
\* frame pointer of activation m, and the words of the trampoline.
SentWords(v, W, m, n, f) ==
  /\ W \in Seq(WordType) /\ Len(W) = Len(v) + n + 5
  /\ \A i \in 1 .. Len(v) : W[i] = v[i]
  /\ W[Len(v) + n + 2] = Return(m) /\ W[Len(v) + n + 3] = Frame(f)

LEMMA WordsTyped ==
  ASSUME NEW m \in Nat, NEW n \in Nat, NEW f \in Pointers \X Nat
  PROVE  /\ Return(m) \in WordType /\ Frame(f) \in WordType /\ Resume(m) \in WordType
         /\ PopTrap \in WordType /\ ToC \in WordType /\ Garbage \in WordType
         /\ Word("threadData", 0, 0) \in WordType
         /\ Message(m, n) \in Seq(WordType) /\ Len(Message(m, n)) = n + 1
         /\ SendInfo \in Seq(WordType) /\ Len(SendInfo) = 2
<1>1. f[1] \in Nat /\ f[2] \in Nat
  BY Constants
<1>2. /\ Return(m) \in WordType /\ Frame(f) \in WordType /\ Resume(m) \in WordType
      /\ PopTrap \in WordType /\ ToC \in WordType /\ Garbage \in WordType
      /\ Word("threadData", 0, 0) \in WordType
  BY <1>1 DEF Return, Frame, Resume, PopTrap, ToC, Garbage, Word, WordType
<1>3. \A i \in 1 .. n + 1 : Word("oop", m, n + 1 - i) \in WordType
  <2>1. ASSUME NEW i \in 1 .. n + 1 PROVE n + 1 - i \in Nat
    OBVIOUS
  <2> QED BY <2>1 DEF Word, WordType
<1>4. Message(m, n) \in Seq(WordType) /\ Len(Message(m, n)) = n + 1
  <2>1. n + 1 \in Nat
    OBVIOUS
  <2> QED BY <1>3, <2>1 DEF Message
<1>5. SendInfo \in Seq(WordType) /\ Len(SendInfo) = 2
  <2>1. Word("selector", 0, 0) \in WordType /\ Word("descriptor", 0, 0) \in WordType
    BY DEF Word, WordType
  <2> QED BY <2>1 DEF SendInfo
<1> QED BY <1>2, <1>4, <1>5

LEMMA WordsSent ==
  ASSUME NEW v \in Seq(WordType), NEW m \in Nat, NEW n \in Nat, NEW f \in Pointers \X Nat
  PROVE  SentWords(v, v \o Message(m, n) \o <<Return(m), Frame(f)>> \o SendInfo, m, n, f)
<1> DEFINE M == Message(m, n)
           R == <<Return(m), Frame(f)>>
           x == v \o M
           y == x \o R
           W == y \o SendInfo
           L == Len(v)
<1>1. /\ M \in Seq(WordType) /\ Len(M) = n + 1 /\ Return(m) \in WordType
      /\ Frame(f) \in WordType /\ SendInfo \in Seq(WordType) /\ Len(SendInfo) = 2
  BY WordsTyped
<1>2. R \in Seq(WordType) /\ Len(R) = 2 /\ R[1] = Return(m) /\ R[2] = Frame(f)
  BY <1>1
<1> HIDE DEF M, R
<1>3. Joins(x, v, M)
  BY <1>1, Joined
<1> HIDE DEF x
<1>4. Joins(y, x, R)
  <2>1. x \in Seq(WordType)
    BY <1>3 DEF Joins
  <2> QED BY <1>2, <2>1, Joined DEF y
<1> HIDE DEF y
<1>5. Joins(W, y, SendInfo)
  <2>1. y \in Seq(WordType)
    BY <1>4 DEF Joins
  <2> QED BY <1>1, <2>1, Joined DEF W
<1> HIDE DEF W
<1>6. L \in Nat
  OBVIOUS
<1> HIDE DEF L
<1>7. /\ Len(x) = L + n + 1 /\ Len(y) = L + n + 3
      /\ W \in Seq(WordType) /\ Len(W) = L + n + 5
  BY <1>1, <1>2, <1>3, <1>4, <1>5, <1>6 DEF Joins, L
<1>8. ASSUME NEW i \in 1 .. L PROVE W[i] = v[i]
  <2>1. i \in 1 .. Len(x) /\ i \in 1 .. Len(y)
    BY <1>6, <1>7
  <2>2. x[i] = v[i]
    BY <1>3 DEF Joins, L
  <2>3. y[i] = x[i]
    BY <1>4, <2>1 DEF Joins
  <2>4. W[i] = y[i]
    BY <1>5, <2>1 DEF Joins
  <2> QED BY <2>2, <2>3, <2>4
<1>9. W[L + n + 2] = Return(m) /\ W[L + n + 3] = Frame(f)
  <2>1. /\ L + n + 2 \in 1 .. Len(y) /\ L + n + 3 \in 1 .. Len(y)
        /\ L + n + 2 = Len(x) + 1 /\ L + n + 3 = Len(x) + 2 /\ 1 \in 1 .. 2 /\ 2 \in 1 .. 2
    BY <1>6, <1>7
  <2>2. y[Len(x) + 1] = R[1] /\ y[Len(x) + 2] = R[2]
    BY <1>2, <1>4, <2>1 DEF Joins
  <2>3. W[L + n + 2] = y[L + n + 2] /\ W[L + n + 3] = y[L + n + 3]
    BY <1>5, <2>1 DEF Joins
  <2> QED BY <1>2, <2>1, <2>2, <2>3
<1>10. SentWords(v, W, m, n, f)
  BY <1>7, <1>8, <1>9 DEF SentWords, L
<1> QED BY <1>10 DEF W, y, x, M, R
-----------------------------------------------------------------------------
(***************************************************************************)
(* The state of memory.c as a record, and what the trampolines do with it. *)
(***************************************************************************)
State(L, hd, cu, sz, cp, st) ==
  [links |-> L, header |-> hd, current |-> cu, size |-> sz, cpointer |-> cp, stack |-> st]

\* A header once the stack and frame pointers are saved in it.
SavedHeader(h, d, f) == [threadData |-> h.threadData, framePointer |-> f, stackPointer |-> d]

LEMMA MemoryState == Memory = State(links, header, current, size, cpointer, stack)
BY DEF Memory, State

LEMMA StateSet ==
  ASSUME NEW L, NEW hd, NEW cu, NEW sz, NEW cp, NEW st,
         SetMemory(State(L, hd, cu, sz, cp, st))
  PROVE  /\ links' = L /\ header' = hd /\ current' = cu /\ size' = sz /\ cpointer' = cp
         /\ stack' = st
BY DEF SetMemory, State

LEMMA HeaderSaved ==
  ASSUME NEW h \in HeaderType, NEW d, NEW f
  PROVE  [[h EXCEPT !.stackPointer = d] EXCEPT !.framePointer = f] = SavedHeader(h, d, f)
<1> DEFINE g == [h EXCEPT !.stackPointer = d]
<1>1. h = [threadData |-> h.threadData, framePointer |-> h.framePointer,
           stackPointer |-> h.stackPointer]
  BY DEF HeaderType
<1>2. g = [threadData |-> h.threadData, framePointer |-> h.framePointer, stackPointer |-> d]
  BY <1>1
<1> HIDE DEF g
<1>3. [g EXCEPT !.framePointer = f]
        = [threadData |-> h.threadData, framePointer |-> f, stackPointer |-> d]
  BY <1>2
<1> QED BY <1>3 DEF g, SavedHeader

LEMMA StateSaved ==
  ASSUME NEW L, NEW hd \in [Segments -> HeaderType], NEW cu, NEW sz, NEW cp, NEW st,
         NEW s \in Segments, NEW d, NEW f, NEW hd2, Puts(hd, hd2, s, SavedHeader(hd[s], d, f))
  PROVE  SaveSmalltalk(State(L, hd, cu, sz, cp, st), s, d, f) = State(L, hd2, cu, sz, cp, st)
<1> DEFINE m == State(L, hd, cu, sz, cp, st)
           g == [hd[s] EXCEPT !.stackPointer = d]
           hd1 == [hd EXCEPT ![s] = g]
           m1 == [m EXCEPT !.header[s].stackPointer = d]
           h == SavedHeader(hd[s], d, f)
<1>1. SaveSmalltalk(m, s, d, f) = [m1 EXCEPT !.header[s].framePointer = f]
  BY DEF SaveSmalltalk
<1>2. m1 = State(L, hd1, cu, sz, cp, st)
  BY DEF State
<1>3. hd1[s] = g
  OBVIOUS
<1>4. [hd1 EXCEPT ![s] = h] = [hd EXCEPT ![s] = h]
  <2> HIDE DEF g, h
  <2> QED OBVIOUS
<1>5. [g EXCEPT !.framePointer = f] = h
  BY Zenon, HeaderSaved
<1> HIDE DEF m1, hd1, g, h
<1>6. [m1 EXCEPT !.header[s].framePointer = f]
        = State(L, [hd1 EXCEPT ![s] = [hd1[s] EXCEPT !.framePointer = f]], cu, sz, cp, st)
  BY <1>2 DEF State
<1>7. [m1 EXCEPT !.header[s].framePointer = f]
        = State(L, [hd EXCEPT ![s] = h], cu, sz, cp, st)
  BY <1>3, <1>4, <1>5, <1>6
<1> QED BY <1>1, <1>7 DEF h, Puts

\* The trampolines continue on the C stack at the switch to Smalltalk.
LEMMA OnSwitch ==
  ASSUME NEW t \in Threads, NEW s, NEW q, OnTop(q, s), Distinct(q),
         NEW hd, NEW st, NEW cs, NEW k, NEW b, Base(q, hd, cpointer, st, cs, k, b),
         NEW L, NEW cu, NEW sz, NEW st2, NEW hd2, hd2[s].threadData = hd[s].threadData
  PROVE  OnCStack(State(L, hd2, cu, sz, cpointer, st2), t, s) = SubSeq(cstack[t], 1, k + 1)
<1>1. hd[s].threadData = q[1] /\ cpointer[q[1]] = k + 1
  <2>1. Len(q) \in 1 .. Len(q)
    BY DEF OnTop, Distinct
  <2> QED BY <2>1 DEF Base, OnTop
<1> QED BY <1>1 DEF OnCStack, State, Upto
-----------------------------------------------------------------------------
(***************************************************************************)
(* Sends from Smalltalk.                                                   *)
(***************************************************************************)
\* The state that the trampoline of a send saves: on segment s, of L words.
SentState(s, L, n, W) ==
  State(links, [header EXCEPT ![s] = SavedHeader(@, L + n + 5, <<s, L + n + 3>>)],
        current, size, cpointer, [stack EXCEPT ![s] = W])

LEMMA HeaderTyped ==
  ASSUME NEW h \in HeaderType, NEW s \in Segments, NEW d \in Nat, NEW e \in Nat,
         d <= SegmentWords
  PROVE  /\ SavedHeader(h, d, <<s, e>>) \in HeaderType
         /\ SavedHeader(h, d, <<s, e>>).threadData = h.threadData
<1>1. d \in 0 .. SegmentWords /\ s \in Pointers
  BY Constants
<1> QED BY <1>1 DEF SavedHeader, HeaderType

LEMMA Sending ==
  ASSUME IInv, NEW t \in Threads, RunsSmalltalk(t), NEW n \in Nat, NEW s, s = cpu[t].seg,
         NEW L, L = Len(stack[s]), Fits(L + n + 2)
  PROVE  /\ SentWords(stack[s], SendWords(t, n), Len(calls[t]), n, cpu[t].fp)
         /\ SendSaved(t, n) = SentState(s, L, n, SendWords(t, n))
         /\ SavedHeader(header[s], L + n + 5, <<s, L + n + 3>>) \in HeaderType
         /\ L \in Nat /\ L + n + 5 <= SegmentWords
<1> DEFINE m == Len(calls[t])
           W == SendWords(t, n)
<1>1. cpu[t].act = m /\ m \in Nat
  BY BodyFacts, SmalltalkFacts DEF RunsSmalltalk
<1>2. /\ s \in Segments /\ TypesKept
      /\ stack \in StackType /\ stack[s] \in Seq(WordType) /\ header \in [Segments -> HeaderType]
      /\ header[s] \in HeaderType /\ cpu[t].fp \in Pointers \X Nat
  <2>1. s \in Segments /\ Typed(Held[t], header, cpointer, stack, cstack[t], cpu[t], calls[t])
        /\ TypesKept
    BY SmalltalkFacts, ThreadFacts DEF RunsSmalltalk
  <2> QED BY <2>1 DEF Typed, StackType, CpuType
<1>3. L \in Nat
  BY <1>2
<1>4. L + n + 5 <= SegmentWords
  <2>1. L + n + 2 + 5 <= SegmentWords
    BY DEF Fits, Slack
  <2> QED BY <1>3, <2>1, Constants
<1> HIDE DEF m
<1>5. SentWords(stack[s], W, m, n, cpu[t].fp)
  <2> DEFINE v == stack[s]
             f == cpu[t].fp
  <2>1. v \in Seq(WordType) /\ f \in Pointers \X Nat
    BY <1>2
  <2>2. W = v \o Message(m, n) \o <<Return(m), Frame(f)>> \o SendInfo
    BY <1>1 DEF SendWords, Top, m
  <2> HIDE DEF v, f, W
  <2>3. SentWords(v, W, m, n, f)
    BY <1>1, <2>1, <2>2, WordsSent
  <2> QED BY <2>3 DEF v, f
<1> HIDE DEF W
<1>6. Len(W) = L + n + 5
  BY <1>5 DEF SentWords
<1>7. SendSaved(t, n) = SentState(s, L, n, W)
  <2> DEFINE st2 == [stack EXCEPT ![s] = W]
             sent == [Memory EXCEPT !.stack[s] = W]
  <2>1. st2[s] = W
    BY <1>2 DEF StackType
  <2> HIDE DEF st2
  <2>2. sent = State(links, header, current, size, cpointer, st2)
    BY DEF Memory, State, st2
  <2> HIDE DEF sent
  <2>3. sent.stack[s] = W
    BY <2>1, <2>2 DEF State
  <2>4. SendSaved(t, n) = SaveSmalltalk(sent, s, Len(sent.stack[s]), <<s, Len(sent.stack[s]) - 2>>)
    BY DEF SendSaved, sent, W
  <2>5. (L + n + 5) - 2 = L + n + 3
    BY <1>3
  <2>6. SendSaved(t, n) = SaveSmalltalk(sent, s, L + n + 5, <<s, L + n + 3>>)
    BY <1>6, <2>3, <2>4, <2>5
  <2> DEFINE d == L + n + 5
             f == <<s, L + n + 3>>
  <2>7. SendSaved(t, n) = SaveSmalltalk(sent, s, d, f)
    BY <2>6
  <2> HIDE DEF d, f
  <2> DEFINE hd2 == [header EXCEPT ![s] = SavedHeader(header[s], d, f)]
  <2>8. Puts(header, hd2, s, SavedHeader(header[s], d, f))
    BY DEF Puts
  <2> HIDE DEF hd2
  <2>9. SendSaved(t, n) = State(links, hd2, current, size, cpointer, st2)
    BY <1>2, <2>2, <2>7, <2>8, StateSaved
  <2> QED BY <2>9 DEF SentState, st2, d, f, hd2
<1>8. SavedHeader(header[s], L + n + 5, <<s, L + n + 3>>) \in HeaderType
  <2>1. L + n + 5 \in Nat /\ L + n + 3 \in Nat
    BY <1>3
  <2> QED BY <1>2, <1>4, <2>1, HeaderTyped
<1> QED BY <1>3, <1>4, <1>5, <1>7, <1>8 DEF m, W

LEMMA SmalltalkActivation ==
  ASSUME NEW n \in Nat
  PROVE  LET a == Activation("Smalltalk", n) IN
         a \in CallType /\ a.lang = "Smalltalk" /\ a.arguments = n /\ ~a.sent
<1>1. NoSegment \in Pointers /\ NullFrame \in Pointers \X Nat
  BY Constants DEF NullFrame
<1> QED BY <1>1 DEF CallType, Activation

\* The words of segment s up to depth L are the same, and the C stack up to the
\* switch to Smalltalk.
WordsKept(st, st2, s, L) ==
  L <= Len(st2[s]) /\ \A j \in 1 .. L : st2[s][j] = st[s][j]
SwitchKept(cs, cs2, k) ==
  Len(cs2) \in Nat /\ Len(cs2) > k /\ \A i \in 1 .. k + 1 : cs2[i] = cs[i]

\* There is one more call.
LEMMA SentOn ==
  ASSUME NEW hd, NEW st, NEW cs, NEW c, NEW hd2, NEW st2, NEW cs2, NEW c2,
         NEW k \in Nat, NEW m \in Nat, NEW s, NEW L \in Nat, NEW a,
         TopOnly(s, hd, st, hd2, st2), m = Len(c), OneMore(c, c2, a),
         WordsKept(st, st2, s, L), SwitchKept(cs, cs2, k)
  PROVE  SameBelow(hd, st, cs, c, hd2, st2, cs2, c2, k, m, s, L)
<1>1. /\ Len(c2) = m + 1
      /\ \A i \in 1 .. m : SameCall(c, c2, i) /\ c2[i].lang = c[i].lang
  BY DEF OneMore
<1>2. m <= Len(c) /\ Len(c2) \in Nat /\ m <= Len(c2)
  BY <1>1
<1> QED BY <1>1, <1>2 DEF SameBelow, WordsKept, SwitchKept

LEMMA KeptBySendToSmalltalk ==
  ASSUME IInv, NEW t \in Threads, NEW n \in Nat, SendToSmalltalk(t, n), running' = running
  PROVE  IInv'
<1> DEFINE s == cpu[t].seg
           m == Len(calls[t])
           L == Len(stack[s])
           e == L + n + 2
           f == cpu[t].fp
           W == SendWords(t, n)
           h == SavedHeader(header[s], L + n + 5, <<s, L + n + 3>>)
           w == SubSeq(W, 1, e)
           a == Activation("Smalltalk", n)
           c2 == Append([calls[t] EXCEPT ![m].sent = TRUE], a)
           r2 == InSmalltalk("entry", m + 1, s, f, 0)
           M == SendSaved(t, n)
<1>1. /\ RunsSmalltalk(t) /\ cpu[t].mode = "Smalltalk" /\ m < MaxCalls /\ Fits(e)
      /\ SetMemory([M EXCEPT !.stack[s] = SubSeq(@, 1, Len(M.stack[s]) - 2 - 1)])
      /\ cstack' = [cstack EXCEPT ![t] = OnCStack(M, t, s)]
      /\ cpu' = [cpu EXCEPT ![t] =
                   InSmalltalk("entry", m + 1, s, FrameAt(M.stack[s], Len(M.stack[s]) - 2), 0)]
      /\ calls' = [calls EXCEPT ![t] = c2]
  BY DEF SendToSmalltalk, RunsSmalltalk, MayCall, Top, Upto, Called
<1>2. /\ OnTop(Held[t], s) /\ s \in Segments
      /\ Typed(Held[t], header, cpointer, stack, cstack[t], cpu[t], calls[t])
      /\ TypesKept
  BY <1>1, SmalltalkFacts, ThreadFacts
<1>3. PICK k \in Nat, b \in Nat :
        /\ Nesting(cstack[t], calls[t], k, m)
        /\ Base(Held[t], header, cpointer, stack, cstack[t], k, b)
        /\ Frames(Held[t], header, stack, calls[t], k, b, m)
        /\ m > k /\ m \in 1 .. Len(calls[t])
        /\ calls[t][m].seg = s /\ calls[t][m].depth = L /\ calls[t][m].fp = f
  BY <1>1, BodyFacts
<1> DEFINE cs2 == SubSeq(cstack[t], 1, k + 1)
<1>4. /\ SentWords(stack[s], W, m, n, f) /\ M = SentState(s, L, n, W) /\ h \in HeaderType
      /\ L \in Nat /\ L + n + 5 <= SegmentWords
  <2> HIDE DEF s, L, W, M, h
  <2>1. s = cpu[t].seg /\ L = Len(stack[s])
    BY DEF s, L
  <2> QED BY <1>1, <2>1, Sending DEF W, M, h
<1>5. h.threadData = header[s].threadData
  BY DEF SavedHeader
<1>6. /\ W \in Seq(WordType) /\ Len(W) = L + n + 5 /\ \A i \in 1 .. L : W[i] = stack[s][i]
      /\ W[L + n + 2] = Return(m) /\ W[L + n + 3] = Frame(f)
  BY <1>4 DEF SentWords
<1>7. /\ stack \in [Segments -> Seq(WordType)] /\ calls[t] \in Seq(CallType) /\ cpu[t] \in CpuType
      /\ cstack[t] \in Seq(FrameType) /\ f \in Pointers \X Nat /\ m \in Nat
  BY <1>2 DEF Typed, StackType, CpuType
<1>8. M.stack[s] = W /\ M.links = links /\ (L + n + 5) - 2 = L + n + 3 /\ (L + n + 5) - 2 - 1 = e
  BY <1>2, <1>4, <1>7 DEF SentState, State
<1> HIDE DEF W, M, h, a
<1>9. /\ links' = links /\ current' = current /\ size' = size /\ cpointer' = cpointer
      /\ header' = [header EXCEPT ![s] = h] /\ stack' = [stack EXCEPT ![s] = w]
  <2> HIDE DEF e, L
  <2>1. SetMemory([M EXCEPT !.stack[s] = SubSeq(W, 1, e)])
    BY <1>1, <1>6, <1>8
  <2>2. SetMemory([SentState(s, L, n, W) EXCEPT !.stack[s] = w])
    BY <1>4, <2>1
  <2> HIDE DEF w
  <2> QED BY <1>2, <2>2 DEF SentState, State, SetMemory, h
<1>10. cpu' = [cpu EXCEPT ![t] = r2]
  <2>1. FrameAt(W, L + n + 3) = f
    BY <1>6, <1>7, FrameRead DEF FrameAt
  <2> QED BY <1>1, <1>6, <1>8, <2>1
<1>11. cstack' = [cstack EXCEPT ![t] = cs2]
  <2> DEFINE hd2 == [header EXCEPT ![s] = h]
  <2>1. hd2[s].threadData = header[s].threadData
    BY <1>2, <1>5 DEF TypesKept
  <2>2. M = State(links, hd2, current, size, cpointer, [stack EXCEPT ![s] = W])
    BY <1>4 DEF SentState, h
  <2> HIDE DEF hd2
  <2>3. Distinct(Held[t])
    BY <1>2 DEF Typed
  <2>4. OnCStack(M, t, s) = cs2
    BY <1>2, <1>3, <2>1, <2>2, <2>3, OnSwitch
  <2> QED BY <1>1, <2>4
<1>12. cs2 \in Seq(FrameType) /\ Len(cs2) = k + 1 /\ \A i \in 1 .. k + 1 : cs2[i] = cstack[t][i]
  <2>1. k + 1 \in 0 .. Len(cstack[t])
    BY <1>3, <1>7 DEF Base
  <2> QED BY <1>7, <2>1, Prefix
<1>13. w \in Seq(WordType) /\ Len(w) = e /\ \A i \in 1 .. e : w[i] = W[i]
  <2>1. e \in 0 .. Len(W)
    BY <1>4, <1>6
  <2> QED BY <1>6, <2>1, Prefix
<1>14. a \in CallType /\ a.lang = "Smalltalk" /\ a.arguments = n /\ ~a.sent
  BY SmalltalkActivation DEF a
<1>15. c2 \in Seq(CallType) /\ OneMore(calls[t], c2, a)
  <2>1. calls[t] \in Seq(CallType) /\ m \in Nat \ {0} /\ m = Len(calls[t]) /\ a \in CallType
    BY <1>3, <1>7, <1>14
  <2> HIDE DEF m
  <2> QED BY <2>1, CallAppended
<1>16. r2 \in CpuType
  <2>1. m + 1 \in 0 .. MaxCalls /\ s \in Pointers
    <3>1. m \in Nat /\ m < MaxCalls
      BY <1>1, <1>7
    <3> HIDE DEF m, s
    <3> QED BY <1>2, <3>1, Constants
  <2> QED BY <1>7, <2>1, RegistersTyped
<1> HIDE DEF w, c2, cs2
<1>17. Moves(t, s, h, w, cs2, r2, c2)
  BY <1>1, <1>9, <1>10, <1>11 DEF Moves
<1>18. MovesTyped(header, s, h, w, cs2, r2, c2)
  <2>1. Len(w) <= SegmentWords
    BY <1>4, <1>13, Constants
  <2> QED BY <1>4, <1>5, <1>12, <1>13, <1>15, <1>16, <2>1 DEF MovesTyped
<1>19. TopOnly(s, header, stack, header', stack') /\ stack' \in StackType /\ stack'[s] = w
  BY <1>2, <1>17, <1>18, MovesTop
<1>20. w[e] = Return(m) /\ e \in Nat /\ L <= e /\ \A j \in 1 .. L : w[j] = stack[s][j]
  <2>1. e \in Nat /\ L <= e /\ e \in 1 .. e /\ \A j \in 1 .. L : j \in 1 .. e
    BY <1>4
  <2> QED BY <1>6, <1>13, <2>1
<1>21. /\ SameBelow(header, stack, cstack[t], calls[t], header', stack', cs2, c2, k, m, s, L)
       /\ Len(c2) = m + 1 /\ c2[m + 1] = a
  <2>1. k + 1 \in Nat /\ k + 1 > k /\ m = Len(calls[t]) /\ m \in Nat /\ L \in Nat
        /\ cstack[t] \in Seq(FrameType)
    BY <1>4, <1>7
  <2> HIDE DEF m, s, L, e
  <2>2. WordsKept(stack, stack', s, L)
    BY <1>13, <1>19, <1>20 DEF WordsKept
  <2>3. SwitchKept(cstack[t], cs2, k)
    BY <1>12, <2>1 DEF SwitchKept
  <2>4. TopOnly(s, header, stack, header', stack') /\ OneMore(calls[t], c2, a)
    BY <1>15, <1>19
  <2>5. SameBelow(header, stack, cstack[t], calls[t], header', stack', cs2, c2, k, m, s, L)
    BY <2>1, <2>2, <2>3, <2>4, SentOn
  <2>6. Len(c2) = m + 1 /\ c2[m + 1] = a
    BY <2>1, <2>4 DEF OneMore
  <2> QED BY <2>5, <2>6
<1>22. ThreadKept(Held[t], header', cpointer, stack', cs2, r2, c2)
  <2>1. /\ e = L + n + 2 /\ r2 = InSmalltalk("entry", m + 1, s, calls[t][m].fp, 0) /\ Fits(e)
        /\ m < MaxCalls /\ L = calls[t][m].depth /\ L \in Nat /\ e \in Nat
    BY Zenon, <1>1, <1>3, <1>4, <1>20
  <2> HIDE DEF m, s, L, e, f, r2
  <2>2. /\ Held[t] # <<>> /\ s = Held[t][Len(Held[t])] /\ m \in Nat /\ m > k
        /\ calls[t][m].seg = s
    BY <1>2, <1>3, <1>7 DEF OnTop
  <2>3. /\ Len(c2) = m + 1 /\ c2[m + 1].lang = "Smalltalk" /\ c2[m + 1].arguments = n
        /\ ~c2[m + 1].sent
    BY <1>14, <1>21
  <2>4. stack' \in StackType /\ Len(stack'[s]) = e /\ stack'[s][e] = Return(m)
    BY <1>13, <1>19, <1>20
  <2>5. /\ Typed(Held[t], header, cpointer, stack, cstack[t], cpu[t], calls[t])
        /\ Nesting(cstack[t], calls[t], k, m)
        /\ Base(Held[t], header, cpointer, stack, cstack[t], k, b)
        /\ Frames(Held[t], header, stack, calls[t], k, b, m)
        /\ SameBelow(header, stack, cstack[t], calls[t], header', stack', cs2, c2, k, m, s, L)
    BY <1>2, <1>3, <1>21
  <2> QED BY ZenonT(40), <2>1, <2>2, <2>3, <2>4, <2>5, SentToSmalltalk
<1> QED BY <1>2, <1>17, <1>18, <1>22, MovedKeeps

LEMMA KeptBySendToPrimitive ==
  ASSUME IInv, NEW t \in Threads, NEW n \in Nat, SendToPrimitive(t, n), running' = running
  PROVE  IInv'
<1> DEFINE s == cpu[t].seg
           m == Len(calls[t])
           L == Len(stack[s])
           e == L + n + 2
           f == cpu[t].fp
           W == SendWords(t, n)
           h == SavedHeader(header[s], L + n + 5, <<s, L + n + 3>>)
           r2 == InC(m + 1, 0)
           M == SendSaved(t, n)
<1>1. /\ RunsSmalltalk(t) /\ cpu[t].mode = "Smalltalk" /\ m < MaxCalls /\ Fits(e)
      /\ SetMemory(M)
      /\ cstack' = [cstack EXCEPT ![t] = Append(OnCStack(M, t, s), CFrame(m + 1, s, Len(M.stack[s])))]
      /\ cpu' = [cpu EXCEPT ![t] = r2]
      /\ calls' = [calls EXCEPT ![t] =
                     Append([@ EXCEPT ![m].sent = TRUE],
                            [Activation("C", n) EXCEPT !.depth = Len(OnCStack(M, t, s)) + 1])]
  BY DEF SendToPrimitive, RunsSmalltalk, MayCall, Top
<1>2. /\ OnTop(Held[t], s) /\ s \in Segments
      /\ Typed(Held[t], header, cpointer, stack, cstack[t], cpu[t], calls[t])
      /\ TypesKept
  BY <1>1, SmalltalkFacts, ThreadFacts
<1>3. PICK k \in Nat, b \in Nat :
        /\ Nesting(cstack[t], calls[t], k, m)
        /\ Base(Held[t], header, cpointer, stack, cstack[t], k, b)
        /\ Frames(Held[t], header, stack, calls[t], k, b, m)
        /\ InBody(Held[t], stack, cpu[t], calls[t], k, m)
        /\ m > k /\ m \in 1 .. Len(calls[t])
        /\ calls[t][m].seg = s /\ calls[t][m].depth = L /\ calls[t][m].fp = f
  BY <1>1, BodyFacts
<1> DEFINE below == SubSeq(cstack[t], 1, k + 1)
           x == CFrame(m + 1, s, e + 3)
           cs2 == Append(below, x)
           a == [Activation("C", n) EXCEPT !.depth = k + 2]
           c2 == Append([calls[t] EXCEPT ![m].sent = TRUE], a)
<1>4. /\ SentWords(stack[s], W, m, n, f) /\ M = SentState(s, L, n, W) /\ h \in HeaderType
      /\ L \in Nat /\ L + n + 5 <= SegmentWords
  <2> HIDE DEF s, L, W, M, h
  <2>1. s = cpu[t].seg /\ L = Len(stack[s])
    BY DEF s, L
  <2> QED BY <1>1, <2>1, Sending DEF W, M, h
<1>5. h.threadData = header[s].threadData
  BY DEF SavedHeader
<1>6. /\ W \in Seq(WordType) /\ Len(W) = L + n + 5 /\ \A i \in 1 .. L : W[i] = stack[s][i]
      /\ W[L + n + 2] = Return(m) /\ W[L + n + 3] = Frame(f)
  BY <1>4 DEF SentWords
<1>7. /\ stack \in [Segments -> Seq(WordType)] /\ calls[t] \in Seq(CallType) /\ cpu[t] \in CpuType
      /\ cstack[t] \in Seq(FrameType) /\ f \in Pointers \X Nat /\ m \in Nat
  BY <1>2 DEF Typed, StackType, CpuType
<1>8. M.stack[s] = W /\ L + n + 5 = e + 3 /\ e \in Nat
  BY <1>2, <1>4, <1>7 DEF SentState, State
<1> HIDE DEF W, M, h
<1>9. /\ links' = links /\ current' = current /\ size' = size /\ cpointer' = cpointer
      /\ header' = [header EXCEPT ![s] = h] /\ stack' = [stack EXCEPT ![s] = W]
  <2> HIDE DEF e, L, s
  <2>1. SetMemory(SentState(s, L, n, W))
    BY <1>1, <1>4
  <2> QED BY <2>1 DEF SentState, State, SetMemory, h
<1>10. OnCStack(M, t, s) = below
  <2> DEFINE hd2 == [header EXCEPT ![s] = h]
  <2>1. hd2[s].threadData = header[s].threadData
    BY <1>2, <1>5 DEF TypesKept
  <2>2. M = State(links, hd2, current, size, cpointer, [stack EXCEPT ![s] = W])
    BY <1>4 DEF SentState, h
  <2> HIDE DEF hd2
  <2>3. Distinct(Held[t])
    BY <1>2 DEF Typed
  <2> QED BY <1>2, <1>3, <2>1, <2>2, <2>3, OnSwitch
<1>11. /\ below \in Seq(FrameType) /\ Len(below) = k + 1
       /\ \A i \in 1 .. k + 1 : below[i] = cstack[t][i]
  <2>1. k + 1 \in 0 .. Len(cstack[t])
    BY <1>3, <1>7 DEF Base
  <2> QED BY <1>7, <2>1, Prefix
<1> HIDE DEF below
<1>12. cstack' = [cstack EXCEPT ![t] = cs2] /\ calls' = [calls EXCEPT ![t] = c2]
  <2>1. Len(OnCStack(M, t, s)) + 1 = k + 2 /\ Len(M.stack[s]) = e + 3
    BY <1>6, <1>8, <1>10, <1>11
  <2> HIDE DEF e, m, s
  <2> QED BY <1>1, <1>10, <2>1
<1>13. x \in FrameType /\ r2 \in CpuType
  <2>1. m + 1 \in 0 .. MaxCalls /\ s \in Pointers /\ e + 3 \in Nat
    <3>1. m \in Nat /\ m < MaxCalls
      BY <1>1, <1>7
    <3> HIDE DEF m, s, e
    <3> QED BY <1>2, <1>8, <3>1, Constants
  <2> QED BY <2>1, RegistersTyped
<1>14. a \in CallType /\ a.lang = "C" /\ a.depth = k + 2 /\ a.arguments = n /\ ~a.sent
  <2>1. k + 2 \in Nat
    OBVIOUS
  <2> QED BY <2>1, CActivation
<1> HIDE DEF a, x
<1>15. c2 \in Seq(CallType) /\ OneMore(calls[t], c2, a)
  <2>1. calls[t] \in Seq(CallType) /\ m \in Nat \ {0} /\ m = Len(calls[t]) /\ a \in CallType
    BY <1>3, <1>7, <1>14
  <2> HIDE DEF m
  <2> QED BY <2>1, CallAppended
<1>16. cs2 \in Seq(FrameType) /\ Longer(below, cs2, x)
  BY <1>11, <1>13, Lengthened
<1> HIDE DEF c2, cs2
<1>17. Moves(t, s, h, W, cs2, r2, c2)
  BY <1>1, <1>9, <1>12 DEF Moves
<1>18. MovesTyped(header, s, h, W, cs2, r2, c2)
  <2>1. Len(W) <= SegmentWords
    BY <1>4, <1>6
  <2> QED BY <1>4, <1>5, <1>6, <1>13, <1>15, <1>16, <2>1 DEF MovesTyped
<1>19. TopOnly(s, header, stack, header', stack') /\ stack' \in StackType /\ stack'[s] = W
  BY <1>2, <1>17, <1>18, MovesTop
<1>20. SameBelow(header, stack, cstack[t], calls[t], header', stack', cs2, c2, k, m, s, L)
  <2>1. m = Len(calls[t]) /\ m \in Nat /\ L \in Nat /\ L <= L + n + 5
    BY SMTT(20), <1>4, <1>7
  <2> HIDE DEF m, s, L, e
  <2>2. WordsKept(stack, stack', s, L)
    BY <1>6, <1>19, <2>1 DEF WordsKept
  <2>3. SwitchKept(cstack[t], cs2, k)
    BY <1>11, <1>16 DEF SwitchKept, Longer
  <2>4. TopOnly(s, header, stack, header', stack') /\ OneMore(calls[t], c2, a)
    BY <1>15, <1>19
  <2> QED BY <2>1, <2>2, <2>3, <2>4, SentOn
<1>21. ThreadKept(Held[t], header', cpointer, stack', cs2, r2, c2)
  <2>1. /\ e = L + n + 2 /\ r2 = InC(m + 1, 0) /\ Fits(e)
        /\ m < MaxCalls /\ L = calls[t][m].depth /\ L \in Nat /\ e \in Nat
    BY <1>1, <1>3, <1>4, <1>8
  <2>2. /\ Held[t] # <<>> /\ s = Held[t][Len(Held[t])] /\ m \in Nat /\ m > k
        /\ calls[t][m].seg = s
    BY <1>2, <1>3, <1>7 DEF OnTop
  <2>3. /\ Len(c2) = m + 1 /\ c2[m + 1].lang = "C" /\ c2[m + 1].arguments = n
        /\ ~c2[m + 1].sent /\ c2[m + 1].depth = k + 2
    BY <1>14, <1>15 DEF OneMore
  <2>4. /\ stack' \in StackType /\ Len(stack'[s]) = e + 3 /\ stack'[s][e] = Return(m)
        /\ stack'[s][e + 1] = Frame(calls[t][m].fp)
    <3>1. L + n + 3 = e + 1
      <4>1. L \in Nat
        BY <1>4
      <4> HIDE DEF L
      <4> QED BY <4>1
    <3> QED BY <1>3, <1>6, <1>8, <1>19, <3>1
  <2> HIDE DEF m, s, L, e, f, r2
  <2>5. Len(cs2) = k + 2 /\ cs2[k + 2] = CFrame(m + 1, s, e + 3)
    BY <1>11, <1>16 DEF Longer, x
  <2>6. /\ Typed(Held[t], header, cpointer, stack, cstack[t], cpu[t], calls[t])
        /\ Nesting(cstack[t], calls[t], k, m)
        /\ Base(Held[t], header, cpointer, stack, cstack[t], k, b)
        /\ Frames(Held[t], header, stack, calls[t], k, b, m)
        /\ InBody(Held[t], stack, cpu[t], calls[t], k, m)
        /\ SameBelow(header, stack, cstack[t], calls[t], header', stack', cs2, c2, k, m, s, L)
    BY <1>2, <1>3, <1>20
  <2>7. PrimitiveCalled(stack', cs2, c2, k, m, s, L, n, e, calls[t][m].fp)
    BY <2>1, <2>3, <2>4, <2>5 DEF PrimitiveCalled
  <2> QED BY <2>1, <2>2, <2>4, <2>6, <2>7, SentToPrimitive
<1> HIDE DEF r2
<1> QED BY <1>2, <1>17, <1>18, <1>21, MovedKeeps

\* In the words W the return address and the frame pointer of v, which end at
\* depth d, are above depth L, with the words below it untouched.
MovedTo(v, W, L, d) ==
  /\ W \in Seq(WordType) /\ Len(W) = Len(v) /\ \A i \in 1 .. L : W[i] = v[i]
  /\ W[L + 1] = v[d - 1] /\ W[L + 2] = v[d]

\* The return address and the frame pointer survive their move, for they may
\* overlap with where they go.
LEMMA ReturnMoved ==
  ASSUME NEW v \in Seq(WordType), NEW L \in Nat, NEW d \in Nat, d >= L + 3, d <= Len(v)
  PROVE  MovedTo(v, MoveReturnFrame(v, d, L + 2), L, d)
<1> DEFINE x == v[d - 1]
           u == [v EXCEPT ![L + 1] = x]
           y == u[d]
           W == [u EXCEPT ![L + 2] = y]
<1>1. /\ Len(v) \in Nat /\ L + 1 \in 1 .. Len(v) /\ L + 2 \in 1 .. Len(v) /\ (L + 2) - 1 = L + 1
      /\ d \in 1 .. Len(v) /\ d - 1 \in 1 .. Len(v) /\ d # L + 1 /\ L + 2 # L + 1
      /\ \A i \in 1 .. L : i \in 1 .. Len(v) /\ i # L + 1 /\ i # L + 2
  <2> DEFINE N == Len(v)
  <2>1. N \in Nat /\ d <= N
    OBVIOUS
  <2> HIDE DEF N
  <2> QED BY <2>1 DEF N
<1>2. x \in WordType
  BY <1>1
<1> HIDE DEF x
<1>3. u \in Seq(WordType) /\ Len(u) = Len(v)
      /\ \A i \in 1 .. Len(v) : u[i] = IF i = L + 1 THEN x ELSE v[i]
  BY <1>1, <1>2
<1> HIDE DEF u
<1>4. y = v[d] /\ y \in WordType
  BY <1>1, <1>3
<1> HIDE DEF y
<1>5. W \in Seq(WordType) /\ Len(W) = Len(v)
      /\ \A i \in 1 .. Len(v) : W[i] = IF i = L + 2 THEN y ELSE u[i]
  BY <1>1, <1>3, <1>4
<1>6. MoveReturnFrame(v, d, L + 2) = W
  BY <1>1 DEF MoveReturnFrame, u, x, y
<1> HIDE DEF W
<1>7. /\ W[L + 1] = v[d - 1] /\ W[L + 2] = v[d]
      /\ \A i \in 1 .. L : W[i] = v[i]
  BY <1>1, <1>3, <1>4, <1>5 DEF x
<1> QED BY <1>5, <1>6, <1>7 DEF MovedTo

\* Control lands in the body of m, at its frame.
ReturnsAt(W, d, m, f) == W[d - 1] = Return(m) /\ W[d] = Frame(f)

LEMMA LandsInBody ==
  ASSUME NEW W, NEW d, NEW m, NEW f \in Pointers \X Nat, ReturnsAt(W, d, m, f), NEW s, NEW x
  PROVE  ReturnToSender(W, s, d, x) = Land(Return(m), s, f, x)
<1>1. W[d - 1] = Return(m) /\ W[d] = Frame(f)
  BY DEF ReturnsAt
<1> QED BY <1>1, FrameRead DEF ReturnToSender, FrameAt

LEMMA BodyTyped ==
  ASSUME NEW m \in 0 .. MaxCalls, NEW f \in Pointers \X Nat, NEW s \in Segments, NEW x \in Nat
  PROVE  Land(Return(m), s, f, x) \in CpuType
<1>1. Land(Return(m), s, f, x) = InSmalltalk("body", m, s, f, x)
  BY DEF Land, Return, Word
<1>2. s \in Pointers
  BY Constants
<1> QED BY <1>1, <1>2, RegistersTyped

\* The words W are v, the arguments of a runtime primitive in E words, the return
\* address and the frame pointer.
CalledWords(v, W, E, m, f) ==
  /\ W \in Seq(WordType) /\ Len(W) = Len(v) + E + 2
  /\ \A i \in 1 .. Len(v) : W[i] = v[i]
  /\ W[Len(v) + E + 1] = Return(m) /\ W[Len(v) + E + 2] = Frame(f)

LEMMA WordsCalled ==
  ASSUME NEW v \in Seq(WordType), NEW E \in Nat, NEW A \in Seq(WordType), Len(A) = E,
         NEW m \in Nat, NEW f \in Pointers \X Nat
  PROVE  CalledWords(v, v \o A \o <<Return(m), Frame(f)>>, E, m, f)
<1> DEFINE R == <<Return(m), Frame(f)>>
           y == v \o A
           W == y \o R
           L == Len(v)
<1>1. Return(m) \in WordType /\ Frame(f) \in WordType
  BY WordsTyped
<1>2. R \in Seq(WordType) /\ Len(R) = 2 /\ R[1] = Return(m) /\ R[2] = Frame(f)
  BY <1>1
<1>3. A \in Seq(WordType) /\ Len(A) = E
  OBVIOUS
<1> HIDE DEF R
<1>4. Joins(y, v, A)
  BY <1>3, Joined
<1> HIDE DEF y
<1>5. Joins(W, y, R)
  <2>1. y \in Seq(WordType)
    BY <1>4 DEF Joins
  <2> QED BY <1>2, <2>1, Joined DEF W
<1> HIDE DEF W
<1>6. L \in Nat
  OBVIOUS
<1> HIDE DEF L
<1>7. /\ Len(y) = L + E /\ W \in Seq(WordType) /\ Len(W) = L + E + 2
  BY <1>2, <1>3, <1>4, <1>5, <1>6 DEF Joins, L
<1>8. ASSUME NEW i \in 1 .. L PROVE W[i] = v[i]
  <2>1. i \in 1 .. Len(y)
    BY <1>6, <1>7
  <2>2. y[i] = v[i]
    BY <1>4 DEF Joins, L
  <2>3. W[i] = y[i]
    BY <1>5, <2>1 DEF Joins
  <2> QED BY <2>2, <2>3
<1>9. W[L + E + 1] = Return(m) /\ W[L + E + 2] = Frame(f)
  <2>1. L + E + 1 = Len(y) + 1 /\ L + E + 2 = Len(y) + 2 /\ 1 \in 1 .. 2 /\ 2 \in 1 .. 2
    BY <1>6, <1>7
  <2>2. W[Len(y) + 1] = R[1] /\ W[Len(y) + 2] = R[2]
    BY <1>2, <1>5, <2>1 DEF Joins
  <2> QED BY <1>2, <2>1, <2>2
<1>10. CalledWords(v, W, E, m, f)
  BY <1>7, <1>8, <1>9 DEF CalledWords, L
<1> QED BY <1>10 DEF W, y, R

CallsKept(c, c2, p) ==
  /\ p <= Len(c) /\ Len(c2) \in Nat /\ p <= Len(c2)
  /\ \A i \in 1 .. p : SameCall(c, c2, i) /\ c2[i].lang = c[i].lang

LEMMA BelowSame ==
  ASSUME NEW hd, NEW st, NEW cs, NEW c, NEW hd2, NEW st2, NEW cs2, NEW c2, NEW k, NEW m, NEW s,
         NEW L, TopOnly(s, hd, st, hd2, st2), WordsKept(st, st2, s, L), SwitchKept(cs, cs2, k),
         CallsKept(c, c2, m)
  PROVE  SameBelow(hd, st, cs, c, hd2, st2, cs2, c2, k, m, s, L)
BY DEF SameBelow, WordsKept, SwitchKept, CallsKept

LEMMA CallMarked ==
  ASSUME NEW c \in Seq(CallType), NEW m \in 1 .. Len(c)
  PROVE  LET c2 == [c EXCEPT ![m].sent = TRUE] IN
         c2 \in Seq(CallType) /\ Len(c2) = Len(c) /\ CallsKept(c, c2, Len(c))
<1> DEFINE e == [c[m] EXCEPT !.sent = TRUE]
           c2 == [c EXCEPT ![m] = e]
<1>1. c[m] \in CallType
  OBVIOUS
<1>2. /\ e \in CallType /\ e.lang = c[m].lang /\ e.seg = c[m].seg
      /\ e.fp = c[m].fp /\ e.depth = c[m].depth /\ e.arguments = c[m].arguments
  BY <1>1 DEF CallType
<1> HIDE DEF e
<1>3. /\ c2 \in Seq(CallType) /\ Len(c2) = Len(c)
      /\ \A i \in 1 .. Len(c) : c2[i] = IF i = m THEN e ELSE c[i]
  BY <1>2
<1> HIDE DEF c2
<1>4. ASSUME NEW i \in 1 .. Len(c) PROVE SameCall(c, c2, i) /\ c2[i].lang = c[i].lang
  BY <1>2, <1>3 DEF SameCall
<1>5. Len(c) \in Nat /\ Len(c) <= Len(c)
  OBVIOUS
<1>6. CallsKept(c, c2, Len(c))
  BY <1>3, <1>4, <1>5 DEF CallsKept
<1> QED BY <1>3, <1>6 DEF c2, e

LEMMA KeptByRuntimePrimitive ==
  ASSUME IInv, NEW t \in Threads, NEW p \in {1, 4}, RuntimePrimitive(t, p), running' = running
  PROVE  IInv'
<1> DEFINE s == cpu[t].seg
           m == Len(calls[t])
           L == Len(stack[s])
           E == Even(p)
           f == cpu[t].fp
           d == L + E + 2
           C == stack[s] \o [i \in 1 .. E |-> Garbage] \o <<Return(cpu[t].act), Frame(f)>>
           W == MoveReturnFrame(C, d, L + 2)
           h == SavedHeader(header[s], d, <<s, d>>)
           w == SubSeq(W, 1, L)
           c2 == [calls[t] EXCEPT ![m].sent = TRUE]
           r2 == Land(Return(m), s, f, m + 1)
           M == SaveSmalltalk(Memory, s, d, <<s, d>>)
<1>1. RunsSmalltalk(t) /\ cpu[t].mode = "Smalltalk"
  BY DEF RuntimePrimitive, RunsSmalltalk
<1>2. /\ OnTop(Held[t], s) /\ s \in Segments
      /\ Typed(Held[t], header, cpointer, stack, cstack[t], cpu[t], calls[t])
      /\ TypesKept
  BY <1>1, SmalltalkFacts, ThreadFacts
<1>3. PICK k \in Nat, b \in Nat :
        /\ Nesting(cstack[t], calls[t], k, m)
        /\ Base(Held[t], header, cpointer, stack, cstack[t], k, b)
        /\ Frames(Held[t], header, stack, calls[t], k, b, m)
        /\ m > k /\ m \in 1 .. Len(calls[t]) /\ m \in 0 .. MaxCalls /\ cpu[t].act = m
        /\ calls[t][m].seg = s /\ calls[t][m].depth = L /\ calls[t][m].fp = f
  BY <1>1, BodyFacts
<1> DEFINE cs2 == SubSeq(cstack[t], 1, k + 1)
<1>4. /\ stack \in [Segments -> Seq(WordType)] /\ calls[t] \in Seq(CallType) /\ cpu[t] \in CpuType
      /\ cstack[t] \in Seq(FrameType) /\ f \in Pointers \X Nat /\ m \in Nat
      /\ header \in [Segments -> HeaderType] /\ L \in Nat /\ stack[s] \in Seq(WordType)
  BY <1>2 DEF Typed, StackType, CpuType
<1>5. E \in Nat /\ E >= 2
  BY DEF Even
<1>6. /\ C \in Seq(WordType) /\ Len(C) = d
      /\ \A i \in 1 .. L : C[i] = stack[s][i]
      /\ C[d - 1] = Return(m) /\ C[d] = Frame(f)
  <2> DEFINE v == stack[s]
             A == [i \in 1 .. E |-> Garbage]
  <2>1. v \in Seq(WordType) /\ cpu[t].act = m /\ Len(v) \in Nat
    BY <1>3, <1>4
  <2>2. A \in Seq(WordType) /\ Len(A) = E
    <3>1. Garbage \in WordType
      BY DEF Garbage, Word, WordType
    <3> HIDE DEF E
    <3> QED BY <1>5, <3>1
  <2> HIDE DEF v, m, f, E, A
  <2>3. CalledWords(v, v \o A \o <<Return(m), Frame(f)>>, E, m, f)
    BY <1>4, <1>5, <2>1, <2>2, WordsCalled
  <2>4. CalledWords(v, C, E, m, f)
    BY <2>1, <2>3 DEF v, A
  <2> HIDE DEF C
  <2>5. d = Len(v) + E + 2 /\ d - 1 = Len(v) + E + 1
    BY <1>5, <2>1 DEF v
  <2> HIDE DEF d
  <2> QED BY <2>4, <2>5 DEF CalledWords, v
<1>7. d \in Nat /\ d >= L + 3 /\ d <= SegmentWords /\ d - 2 - E + 2 = L + 2 /\ L + 2 - 2 = L
  <2>1. Fits(L + E)
    BY DEF RuntimePrimitive
  <2> HIDE DEF L, E
  <2>2. L + E + 5 <= SegmentWords
    BY <2>1 DEF Fits, Slack
  <2> QED BY SMTT(20), <1>4, <1>5, <2>2, Constants
<1>8. /\ Fits(L + E)
      /\ SetMemory([M EXCEPT !.stack[s] = SubSeq(W, 1, L)])
      /\ cstack' = [cstack EXCEPT ![t] = OnCStack(M, t, s)]
      /\ cpu' = [cpu EXCEPT ![t] = ReturnToSender(W, s, L + 2, m + 1)]
      /\ calls' = [calls EXCEPT ![t][m].sent = TRUE]
  <2> DEFINE D == Len(C)
             T == D - 2 - E + 2
             X == MoveReturnFrame(C, D, T)
             Y == SaveSmalltalk(Memory, s, D, <<s, D>>)
  <2>1. /\ Fits(L + E)
        /\ SetMemory([Y EXCEPT !.stack[s] = SubSeq(X, 1, T - 2)])
        /\ cstack' = [cstack EXCEPT ![t] = OnCStack(Y, t, s)]
        /\ cpu' = [cpu EXCEPT ![t] = ReturnToSender(X, s, T, m + 1)]
        /\ calls' = [calls EXCEPT ![t][m].sent = TRUE]
    BY Zenon DEF RuntimePrimitive, Top, Upto
  <2> HIDE DEF C, d, E, L, s, m
  <2>2. D = d /\ T = L + 2 /\ T - 2 = L
    <3>1. D = d
      BY <1>6
    <3> HIDE DEF D
    <3>2. T = L + 2
      BY <1>4, <1>5, <1>7, <3>1
    <3> HIDE DEF T
    <3>3. T - 2 = L
      BY <1>4, <3>2
    <3> QED BY <3>1, <3>2, <3>3
  <2> HIDE DEF D, T
  <2> QED BY Zenon, <2>1, <2>2
<1> HIDE DEF C, d, E
<1>9. MovedTo(C, W, L, d)
  BY <1>4, <1>6, <1>7, ReturnMoved
<1> HIDE DEF W
<1>10. h \in HeaderType /\ h.threadData = header[s].threadData
  BY SMTT(20), <1>2, <1>4, <1>7, HeaderTyped
<1>11. M = State(links, [header EXCEPT ![s] = h], current, size, cpointer, stack)
  <2> DEFINE hd2 == [header EXCEPT ![s] = h]
             g == <<s, d>>
  <2>1. Puts(header, hd2, s, SavedHeader(header[s], d, g))
    BY DEF Puts
  <2> HIDE DEF hd2, g
  <2>2. SaveSmalltalk(State(links, header, current, size, cpointer, stack), s, d, g)
          = State(links, hd2, current, size, cpointer, stack)
    BY <1>2, <1>4, <2>1, StateSaved
  <2> QED BY <2>2, MemoryState DEF hd2, g
<1> HIDE DEF M, h
<1>12. /\ links' = links /\ current' = current /\ size' = size /\ cpointer' = cpointer
       /\ header' = [header EXCEPT ![s] = h] /\ stack' = [stack EXCEPT ![s] = w]
  <2> HIDE DEF L, s, w
  <2>1. SetMemory([State(links, [header EXCEPT ![s] = h], current, size, cpointer, stack)
                     EXCEPT !.stack[s] = w])
    BY <1>8, <1>11 DEF w
  <2> QED BY <2>1 DEF State, SetMemory
<1>13. cstack' = [cstack EXCEPT ![t] = cs2]
  <2> DEFINE hd2 == [header EXCEPT ![s] = h]
  <2>1. hd2[s].threadData = header[s].threadData
    BY <1>2, <1>4, <1>10
  <2> HIDE DEF hd2
  <2>2. Distinct(Held[t]) /\ M = State(links, hd2, current, size, cpointer, stack)
    BY <1>2, <1>11 DEF Typed, hd2
  <2>3. OnCStack(M, t, s) = cs2
    BY <1>2, <1>3, <2>1, <2>2, OnSwitch
  <2> QED BY <1>8, <2>3
<1>14. cs2 \in Seq(FrameType) /\ Len(cs2) = k + 1 /\ \A i \in 1 .. k + 1 : cs2[i] = cstack[t][i]
  <2>1. k + 1 \in 0 .. Len(cstack[t])
    BY <1>3, <1>4 DEF Base
  <2> QED BY <1>4, <2>1, Prefix
<1>15. w \in Seq(WordType) /\ Len(w) = L /\ \A i \in 1 .. L : w[i] = stack[s][i]
  <2>1. W \in Seq(WordType) /\ L \in 0 .. Len(W) /\ \A i \in 1 .. L : W[i] = stack[s][i]
    BY SMTT(20), <1>4, <1>6, <1>7, <1>9 DEF MovedTo
  <2> QED BY <2>1, Prefix
<1>16. r2 \in CpuType /\ cpu' = [cpu EXCEPT ![t] = r2]
  <2> DEFINE x == m + 1
  <2>1. x \in Nat
    BY <1>4
  <2>2. ReturnToSender(W, s, L + 2, x) = Land(Return(m), s, f, x)
    <3> DEFINE T == L + 2
    <3>1. T - 1 = L + 1
      BY <1>4
    <3> HIDE DEF x, L, m, f
    <3>2. ReturnsAt(W, T, m, f)
      BY <1>6, <1>9, <3>1 DEF MovedTo, ReturnsAt
    <3> HIDE DEF T
    <3>3. ReturnToSender(W, s, T, x) = Land(Return(m), s, f, x)
      BY <1>4, <3>2, LandsInBody
    <3> QED BY <3>3 DEF T
  <2>3. Land(Return(m), s, f, x) \in CpuType
    <3> HIDE DEF x, L, m, f
    <3> QED BY <1>2, <1>3, <1>4, <2>1, BodyTyped
  <2> QED BY <1>8, <2>2, <2>3
<1>17. /\ c2 \in Seq(CallType) /\ Len(c2) = m /\ CallsKept(calls[t], c2, m)
       /\ calls' = [calls EXCEPT ![t] = c2]
  <2>1. c2 \in Seq(CallType) /\ Len(c2) = m /\ CallsKept(calls[t], c2, m)
    BY <1>3, <1>4, CallMarked
  <2> QED BY <1>8, <2>1
<1> HIDE DEF w, c2, cs2, r2
<1>18. Moves(t, s, h, w, cs2, r2, c2)
  BY <1>12, <1>13, <1>16, <1>17 DEF Moves
<1>19. MovesTyped(header, s, h, w, cs2, r2, c2)
  <2>1. Len(w) <= SegmentWords
    BY <1>2, <1>15 DEF Typed
  <2> QED BY <1>10, <1>14, <1>15, <1>16, <1>17, <2>1 DEF MovesTyped
<1>20. TopOnly(s, header, stack, header', stack') /\ stack' \in StackType /\ stack'[s] = w
  BY <1>2, <1>18, <1>19, MovesTop
<1>21. SameBelow(header, stack, cstack[t], calls[t], header', stack', cs2, c2, k, m, s, L)
  <2>1. L <= L
    BY <1>4
  <2> HIDE DEF m, s, L
  <2>2. WordsKept(stack, stack', s, L)
    BY <1>15, <1>20, <2>1 DEF WordsKept
  <2>3. SwitchKept(cstack[t], cs2, k)
    BY <1>14 DEF SwitchKept
  <2> QED BY <1>17, <1>20, <2>2, <2>3, BelowSame
<1>22. ThreadKept(Held[t], header', cpointer, stack', cs2, r2, c2)
  <2>1. /\ r2 = Land(Return(m), s, calls[t][m].fp, m + 1) /\ L = calls[t][m].depth /\ L \in Nat
        /\ Held[t] # <<>> /\ s = Held[t][Len(Held[t])] /\ m \in Nat /\ m > k
        /\ calls[t][m].seg = s
    BY <1>2, <1>3, <1>4 DEF OnTop, r2
  <2> HIDE DEF m, s, L
  <2>2. /\ Distinct(Held[t]) /\ stack \in StackType /\ calls[t] \in Seq(CallType)
        /\ stack' \in StackType /\ Len(c2) = m /\ Len(stack'[s]) = L
    BY <1>2, <1>15, <1>17, <1>20 DEF Typed
  <2>3. /\ Nesting(cstack[t], calls[t], k, m)
        /\ Base(Held[t], header, cpointer, stack, cstack[t], k, b)
        /\ Frames(Held[t], header, stack, calls[t], k, b, m)
        /\ SameBelow(header, stack, cstack[t], calls[t], header', stack', cs2, c2, k, m, s, L)
    BY <1>3, <1>21
  <2> QED BY <2>1, <2>2, <2>3, BackInBody
<1> QED BY SMTT(20), <1>2, <1>18, <1>19, <1>22, MovedKeeps

\* A primitive that activation m sent a message to from segment s, where m has L
\* words: it is on the C stack, above the switch to Smalltalk.
InPrimitive(q, hd, cp, st, cs, c, k, m, b, s, L, n) ==
  /\ Nesting(cs, c, k, m) /\ Base(q, hd, cp, st, cs, k, b) /\ Frames(q, hd, st, c, k, b, m)
  /\ m > k /\ m + 1 = Len(c) /\ Len(cs) = k + 2 /\ cs[k + 2] = CFrame(m + 1, s, L + n + 5)
  /\ OnTop(q, s) /\ c[m].seg = s /\ c[m].depth = L /\ c[m + 1].arguments = n
  /\ Len(st[s]) = L + n + 5 /\ Fits(L + n + 2)
  /\ st[s][L + n + 2] = Return(m) /\ st[s][L + n + 3] = Frame(c[m].fp)

LEMMA PrimitiveFacts ==
  ASSUME IInv, NEW t \in Threads, AnswersSmalltalk(t)
  PROVE  \E k, m, b, L, n \in Nat, s \in Segments :
           /\ InPrimitive(Held[t], header, cpointer, stack, cstack[t], calls[t], k, m, b, s, L, n)
           /\ m \in 0 .. MaxCalls /\ calls[t][m].fp \in Pointers \X Nat
<1> DEFINE q == Held[t]
           cs == cstack[t]
           c == calls[t]
           r == cpu[t]
           s == q[Len(q)]
<1>1. /\ r.mode = "C" /\ cs[Len(cs)].seg # NoSegment
      /\ Typed(q, header, cpointer, stack, cs, r, c)
      /\ ThreadKept(q, header, cpointer, stack, cs, r, c)
  BY ThreadFacts DEF AnswersSmalltalk, RunsC
<1>2. Distinct(q) /\ cs \in Seq(FrameType) /\ c \in Seq(CallType)
  BY <1>1 DEF Typed
<1> HIDE DEF cs, c, r
<1>3. q # <<>>
  <2>1. ASSUME Outside(cs, r, c) PROVE FALSE
    <3>1. Len(cs) \in Nat \ {0} /\ \A i \in 1 .. Len(cs) : cs[i] = CFrame(i, NoSegment, 0)
      BY <1>2, <2>1 DEF Outside, Nesting
    <3>2. Len(cs) \in 1 .. Len(cs)
      BY <3>1
    <3>3. cs[Len(cs)] = CFrame(Len(cs), NoSegment, 0)
      BY <3>1, <3>2
    <3>4. cs[Len(cs)].seg = NoSegment
      BY <3>3 DEF CFrame
    <3> QED BY <1>1, <3>4
  <2> HIDE DEF q
  <2> QED BY <1>1, <2>1, Where
<1> HIDE DEF q
<1>4. PICK k \in Nat, m \in Nat, b \in Nat :
        /\ Nesting(cs, c, k, m) /\ Base(q, header, cpointer, stack, cs, k, b)
        /\ InCalledC(q, stack, cs, r, c, k, m) /\ Frames(q, header, stack, c, k, b, m)
  BY <1>1, <1>3, Where
<1>5. m > k /\ m < Len(c) /\ Len(cs) = k + 1 + Len(c) - m /\ Len(c) <= MaxCalls /\ Len(c) \in Nat
  BY <1>2, <1>4 DEF InCalledC, Nesting
<1>6. m + 1 = Len(c)
  <2>1. ASSUME m + 1 # Len(c) PROVE FALSE
    <3>1. Len(c) \in m + 2 .. Len(c)
      BY <1>5, <2>1
    <3>2. cs[Len(cs)] = CFrame(Len(c), NoSegment, 0)
      BY <1>4, <1>5, <3>1 DEF InCalledC
    <3> QED BY <1>1, <3>2 DEF CFrame
  <2> QED BY <2>1
<1>7. Len(cs) = k + 2
  BY <1>5, <1>6
<1>8. OnTop(q, s) /\ s \in Segments
  BY <1>2, <1>3 DEF OnTop, Distinct
<1> HIDE DEF s
<1> DEFINE L == c[m].depth
           n == c[m + 1].arguments
<1>9. L \in Nat /\ n \in Nat /\ c[m].fp \in Pointers \X Nat
  <2>1. m \in 1 .. Len(c) /\ m + 1 \in 1 .. Len(c)
    BY <1>5
  <2>2. c[m] \in CallType /\ c[m + 1] \in CallType
    BY <1>2, <2>1
  <2> QED BY <2>2 DEF CallType
<1>10. /\ c[m].seg = s /\ Len(stack[s]) = (L + n + 2) + 3 /\ Fits(L + n + 2)
       /\ stack[s][L + n + 2] = Return(m) /\ stack[s][(L + n + 2) + 1] = Frame(c[m].fp)
       /\ cs[k + 2] = CFrame(m + 1, s, (L + n + 2) + 3)
  BY <1>4 DEF InCalledC, s
<1> HIDE DEF L, n
<1>11. (L + n + 2) + 3 = L + n + 5 /\ (L + n + 2) + 1 = L + n + 3
  BY <1>9
<1>12. InPrimitive(q, header, cpointer, stack, cs, c, k, m, b, s, L, n)
  BY <1>4, <1>5, <1>6, <1>7, <1>8, <1>10, <1>11 DEF InPrimitive, L, n
<1>13. m \in 0 .. MaxCalls
  BY <1>5, Constants
<1> QED BY <1>8, <1>9, <1>12, <1>13 DEF q, cs, c

LEMMA KeptByPrimitiveReturn ==
  ASSUME IInv, NEW t \in Threads, PrimitiveReturn(t), running' = running
  PROVE  IInv'
<1> DEFINE c == calls[t]
           cs == cstack[t]
<1>1. AnswersSmalltalk(t)
  BY DEF PrimitiveReturn
<1>2. PICK k \in Nat, m \in Nat, b \in Nat, L \in Nat, n \in Nat, s \in Segments :
        /\ InPrimitive(Held[t], header, cpointer, stack, cs, c, k, m, b, s, L, n)
        /\ m \in 0 .. MaxCalls /\ c[m].fp \in Pointers \X Nat
  BY <1>1, PrimitiveFacts
<1>3. /\ Nesting(cs, c, k, m) /\ Base(Held[t], header, cpointer, stack, cs, k, b)
      /\ Frames(Held[t], header, stack, c, k, b, m)
      /\ m > k /\ m + 1 = Len(c) /\ Len(cs) = k + 2 /\ cs[k + 2] = CFrame(m + 1, s, L + n + 5)
      /\ OnTop(Held[t], s) /\ c[m].seg = s /\ c[m].depth = L /\ c[m + 1].arguments = n
      /\ Len(stack[s]) = L + n + 5
      /\ stack[s][L + n + 2] = Return(m) /\ stack[s][L + n + 3] = Frame(c[m].fp)
  BY <1>2 DEF InPrimitive
<1>4. /\ Typed(Held[t], header, cpointer, stack, cs, cpu[t], c) /\ TypesKept
  BY ThreadFacts
<1>5. /\ stack \in StackType /\ stack[s] \in Seq(WordType) /\ c \in Seq(CallType)
      /\ cs \in Seq(FrameType) /\ header[s] \in HeaderType /\ Len(stack[s]) <= SegmentWords
      /\ Distinct(Held[t])
  BY <1>4 DEF Typed, StackType
<1> DEFINE d == L + n + 3
           f == c[m].fp
           W == MoveReturnFrame(stack[s], d, L + 2)
           w == SubSeq(W, 1, L)
           c2 == SubSeq(c, 1, m)
           r2 == Land(Return(m), s, f, m + 1)
<1>6. /\ stack' = [stack EXCEPT ![s] = w]
      /\ cpu' = [cpu EXCEPT ![t] = ReturnToSender(W, s, L + 2, m + 1)]
      /\ calls' = [calls EXCEPT ![t] = c2]
      /\ links' = links /\ header' = header /\ current' = current /\ size' = size
      /\ cpointer' = cpointer /\ cstack' = cstack
  <2> DEFINE F == cs[Len(cs)]
             N == c[Len(c)].arguments
             D == F.depth - 2
             T == F.depth - 4 - N + 1
             X == MoveReturnFrame(stack[F.seg], D, T)
  <2>1. /\ stack' = [stack EXCEPT ![F.seg] = SubSeq(X, 1, T - 2)]
        /\ cpu' = [cpu EXCEPT ![t] = ReturnToSender(X, F.seg, T, Len(c))]
        /\ calls' = [calls EXCEPT ![t] = SubSeq(@, 1, Len(@) - 1)]
        /\ links' = links /\ header' = header /\ current' = current /\ size' = size
        /\ cpointer' = cpointer /\ cstack' = cstack
    BY DEF PrimitiveReturn, Upto, Top, memory
  <2>2. F.seg = s /\ F.depth = L + n + 5 /\ N = n
    BY SMTT(20), <1>3 DEF CFrame
  <2>3. Len(c) = m + 1 /\ Len(c) - 1 = m
    BY <1>3
  <2> HIDE DEF F, N, c
  <2>4. D = d /\ T = L + 2 /\ T - 2 = L
    BY <2>2
  <2> HIDE DEF D, T, d
  <2> QED BY <2>1, <2>2, <2>3, <2>4 DEF c
<1> HIDE DEF c, cs, f
<1>7. d \in Nat /\ d >= L + 3 /\ d <= Len(stack[s]) /\ d - 1 = L + n + 2
  <2>1. Len(stack[s]) = L + n + 5
    BY <1>3
  <2> QED BY <2>1
<1>8. MovedTo(stack[s], W, L, d)
  <2> HIDE DEF d
  <2> QED BY <1>5, <1>7, ReturnMoved
<1>9. stack[s][d - 1] = Return(m) /\ stack[s][d] = Frame(f)
  BY <1>3, <1>7 DEF f
<1> HIDE DEF d, W
<1>10. w \in Seq(WordType) /\ Len(w) = L /\ \A i \in 1 .. L : w[i] = stack[s][i]
  <2>1. W \in Seq(WordType) /\ L \in 0 .. Len(W) /\ \A i \in 1 .. L : W[i] = stack[s][i]
    BY <1>3, <1>8 DEF MovedTo
  <2> QED BY <2>1, Prefix
<1>11. r2 \in CpuType /\ cpu' = [cpu EXCEPT ![t] = r2]
  <2> DEFINE T == L + 2
             x == m + 1
  <2>1. T - 1 = L + 1 /\ x \in Nat /\ f \in Pointers \X Nat
    BY <1>2 DEF f
  <2>2. ReturnsAt(W, T, m, f)
    BY <1>8, <1>9, <2>1 DEF MovedTo, ReturnsAt
  <2> HIDE DEF T, x
  <2>3. ReturnToSender(W, s, T, x) = Land(Return(m), s, f, x)
    BY <2>1, <2>2, LandsInBody
  <2>4. Land(Return(m), s, f, x) \in CpuType
    BY <1>2, <2>1, BodyTyped
  <2> QED BY <1>6, <2>3, <2>4 DEF T, x
<1>12. c2 \in Seq(CallType) /\ Len(c2) = m /\ CallsKept(c, c2, m)
  <2>1. m \in 0 .. Len(c) /\ m <= m
    BY SMTT(20), <1>3
  <2>2. c2 \in Seq(CallType) /\ Len(c2) = m /\ \A i \in 1 .. m : c2[i] = c[i]
    BY <1>5, <2>1, Prefix
  <2> QED BY <2>1, <2>2 DEF CallsKept, SameCall
<1> HIDE DEF w, c2, r2
<1>13. Moves(t, s, header[s], w, cs, r2, c2)
  <2>1. header' = [header EXCEPT ![s] = header[s]] /\ cstack' = [cstack EXCEPT ![t] = cs]
    BY <1>4, <1>6 DEF TypesKept, cs
  <2> QED BY <1>6, <1>11, <2>1 DEF Moves
<1>14. MovesTyped(header, s, header[s], w, cs, r2, c2)
  <2>1. Len(w) <= SegmentWords
    BY SMTT(20), <1>3, <1>5, <1>10, Constants
  <2> QED BY <1>5, <1>10, <1>11, <1>12, <2>1 DEF MovesTyped
<1>15. TopOnly(s, header, stack, header', stack') /\ stack' \in StackType /\ stack'[s] = w
  BY <1>3, <1>13, <1>14, MovesTop
<1>16. SameBelow(header, stack, cs, c, header', stack', cs, c2, k, m, s, L)
  <2>1. WordsKept(stack, stack', s, L)
    BY <1>10, <1>15 DEF WordsKept
  <2>2. SwitchKept(cs, cs, k)
    BY <1>3 DEF SwitchKept
  <2> QED BY <1>12, <1>15, <2>1, <2>2, BelowSame
<1>17. ThreadKept(Held[t], header', cpointer, stack', cs, r2, c2)
  <2>1. r2 = Land(Return(m), s, c[m].fp, m + 1) /\ L = c[m].depth
        /\ Held[t] # <<>> /\ s = Held[t][Len(Held[t])] /\ Len(stack'[s]) = L
    BY <1>3, <1>10, <1>15 DEF OnTop, r2, f
  <2> QED BY ZenonT(40), <1>3, <1>5, <1>12, <1>15, <1>16, <2>1, BackInBody
<1> QED BY <1>3, <1>13, <1>14, <1>17, MovedKeeps

LEMMA KeptByReplaceContext ==
  ASSUME IInv, NEW t \in Threads, ReplaceContext(t), running' = running
  PROVE  IInv'
<1> DEFINE c == calls[t]
           cs == cstack[t]
<1>1. AnswersSmalltalk(t)
  BY DEF ReplaceContext
<1>2. PICK k \in Nat, m \in Nat, b \in Nat, L \in Nat, n \in Nat, s \in Segments :
        /\ InPrimitive(Held[t], header, cpointer, stack, cs, c, k, m, b, s, L, n)
        /\ m \in 0 .. MaxCalls /\ c[m].fp \in Pointers \X Nat
  BY <1>1, PrimitiveFacts
<1>3. /\ Nesting(cs, c, k, m) /\ Base(Held[t], header, cpointer, stack, cs, k, b)
      /\ Frames(Held[t], header, stack, c, k, b, m)
      /\ m > k /\ m + 1 = Len(c) /\ Len(cs) = k + 2 /\ cs[k + 2] = CFrame(m + 1, s, L + n + 5)
      /\ OnTop(Held[t], s) /\ c[m].seg = s /\ c[m].depth = L /\ c[m + 1].arguments = n
      /\ Len(stack[s]) = L + n + 5 /\ Fits(L + n + 2)
      /\ stack[s][L + n + 2] = Return(m) /\ stack[s][L + n + 3] = Frame(c[m].fp)
  BY <1>2 DEF InPrimitive
<1>4. /\ Typed(Held[t], header, cpointer, stack, cs, cpu[t], c) /\ TypesKept
  BY ThreadFacts
<1>5. /\ stack \in StackType /\ stack[s] \in Seq(WordType) /\ c \in Seq(CallType)
      /\ cs \in Seq(FrameType) /\ header[s] \in HeaderType /\ Len(stack[s]) <= SegmentWords
      /\ Distinct(Held[t]) /\ calls \in [Threads -> Seq(CallType)]
  BY <1>4 DEF Typed, StackType, TypesKept
<1> DEFINE e == L + n + 2
           f == c[m].fp
           w == SubSeq(stack[s], 1, e)
           y == Activation("Smalltalk", n)
           a == [y EXCEPT !.sent = FALSE]
           c2 == [c EXCEPT ![m + 1] = a]
           r2 == InSmalltalk("entry", m + 1, s, f, 0)
<1>6. /\ stack' = [stack EXCEPT ![s] = w]
      /\ cpu' = [cpu EXCEPT ![t] = InSmalltalk("entry", m + 1, s, FrameAt(stack[s], L + n + 3), 0)]
      /\ calls' = [calls EXCEPT ![t] = c2]
      /\ links' = links /\ header' = header /\ current' = current /\ size' = size
      /\ cpointer' = cpointer /\ cstack' = cstack
  <2> DEFINE F == cs[Len(cs)]
             D == F.depth - 2
  <2>1. /\ stack' = [stack EXCEPT ![F.seg] = SubSeq(@, 1, D - 1)]
        /\ cpu' = [cpu EXCEPT ![t] =
                     InSmalltalk("entry", Len(c), F.seg, FrameAt(stack[F.seg], D), 0)]
        /\ calls' = [calls EXCEPT ![t][Len(c)] =
                      [Activation("Smalltalk", @.arguments) EXCEPT !.sent = FALSE]]
        /\ links' = links /\ header' = header /\ current' = current /\ size' = size
        /\ cpointer' = cpointer /\ cstack' = cstack
    BY DEF ReplaceContext, Upto, Top, memory
  <2>2. F.seg = s /\ F.depth = L + n + 5
    BY <1>3 DEF CFrame
  <2>3. D = L + n + 3 /\ D - 1 = e
    <3> HIDE DEF F
    <3> QED BY <2>2
  <2>4. calls' = [calls EXCEPT ![t] = [calls[t] EXCEPT ![Len(c)] =
                      [Activation("Smalltalk", c[Len(c)].arguments) EXCEPT !.sent = FALSE]]]
    BY <1>5, <2>1
  <2>5. Len(c) = m + 1 /\ c[Len(c)].arguments = n
    BY <1>3
  <2>6. calls' = [calls EXCEPT ![t] = c2]
    <3> HIDE DEF c
    <3> QED BY <2>4, <2>5 DEF c
  <2> HIDE DEF D, F, c
  <2> QED BY <2>1, <2>2, <2>3, <2>5, <2>6
<1>7. y \in CallType /\ y.lang = "Smalltalk" /\ y.arguments = n
  BY SmalltalkActivation
<1> HIDE DEF y
<1>8. a \in CallType /\ a.lang = "Smalltalk" /\ a.arguments = n /\ ~a.sent
  BY <1>7 DEF CallType
<1> HIDE DEF a, c, cs
<1>9. /\ c2 \in Seq(CallType) /\ Len(c2) = m + 1 /\ c2[m + 1] = a
      /\ \A i \in 1 .. m : c2[i] = c[i]
  <2>1. Len(c) = m + 1
    BY <1>3
  <2>2. m + 1 \in 1 .. Len(c) /\ (m + 1) - 1 = m
    BY <2>1
  <2> QED BY <1>3, <1>5, <1>8, <2>2, CallSet
<1> HIDE DEF c2
<1>10. e \in Nat /\ L <= e /\ e \in 1 .. e /\ e \in 0 .. L + n + 5
  OBVIOUS
<1>11. w \in Seq(WordType) /\ Len(w) = e /\ \A i \in 1 .. e : w[i] = stack[s][i]
  <2>1. e \in 0 .. Len(stack[s])
    BY <1>3, <1>10
  <2> QED BY <1>5, <2>1, Prefix
<1>12. r2 \in CpuType /\ cpu' = [cpu EXCEPT ![t] = r2]
  <2>1. FrameAt(stack[s], L + n + 3) = f
    BY <1>2, <1>3, FrameRead DEF FrameAt
  <2>2. m + 1 \in 0 .. MaxCalls /\ s \in Pointers
    BY <1>3, Constants DEF Nesting
  <2> QED BY <1>2, <1>6, <2>1, <2>2, RegistersTyped
<1>13. stack[s][e] = Return(m) /\ Fits(e)
  BY <1>3
<1> HIDE DEF w, r2
<1>14. Moves(t, s, header[s], w, cs, r2, c2)
  <2>1. header' = [header EXCEPT ![s] = header[s]] /\ cstack' = [cstack EXCEPT ![t] = cs]
    BY <1>4, <1>6 DEF TypesKept, cs
  <2> QED BY <1>6, <1>12, <2>1 DEF Moves
<1>15. MovesTyped(header, s, header[s], w, cs, r2, c2)
  <2>1. Len(w) <= SegmentWords
    <3>1. L + n + 5 <= SegmentWords /\ Len(w) = L + n + 2
      BY <1>3, <1>5, <1>11
    <3> QED BY <3>1, Constants
  <2> QED BY <1>5, <1>9, <1>11, <1>12, <2>1 DEF MovesTyped
<1>16. TopOnly(s, header, stack, header', stack') /\ stack' \in StackType /\ stack'[s] = w
  BY <1>3, <1>14, <1>15, MovesTop
<1>17. SameBelow(header, stack, cs, c, header', stack', cs, c2, k, m, s, L)
  <2>1. WordsKept(stack, stack', s, L)
    BY <1>10, <1>11, <1>16 DEF WordsKept
  <2>2. SwitchKept(cs, cs, k)
    BY <1>3 DEF SwitchKept
  <2>3. CallsKept(c, c2, m)
    <3>1. m <= Len(c) /\ m <= Len(c2) /\ Len(c2) \in Nat
      BY <1>3, <1>9
    <3> QED BY <1>9, <3>1 DEF CallsKept, SameCall
  <2> QED BY <1>16, <2>1, <2>2, <2>3, BelowSame
<1>18. ThreadKept(Held[t], header', cpointer, stack', cs, r2, c2)
  <2>1. /\ e = L + n + 2 /\ r2 = InSmalltalk("entry", m + 1, s, c[m].fp, 0) /\ Fits(e)
        /\ L = c[m].depth /\ L \in Nat /\ e \in Nat
    BY <1>3, <1>10, <1>13 DEF r2, f
  <2>2. m < MaxCalls
    BY <1>3, Constants DEF Nesting
  <2> HIDE DEF e, f
  <2>3. /\ Held[t] # <<>> /\ s = Held[t][Len(Held[t])] /\ m \in Nat /\ m > k /\ c[m].seg = s
    BY <1>3 DEF OnTop
  <2>4. /\ Len(c2) = m + 1 /\ c2[m + 1].lang = "Smalltalk" /\ c2[m + 1].arguments = n
        /\ ~c2[m + 1].sent
    BY <1>8, <1>9
  <2>5. stack' \in StackType /\ Len(stack'[s]) = e /\ stack'[s][e] = Return(m)
    BY <1>10, <1>11, <1>13, <1>16
  <2>6. /\ Typed(Held[t], header, cpointer, stack, cs, cpu[t], c)
        /\ Nesting(cs, c, k, m)
        /\ Base(Held[t], header, cpointer, stack, cs, k, b)
        /\ Frames(Held[t], header, stack, c, k, b, m)
        /\ SameBelow(header, stack, cs, c, header', stack', cs, c2, k, m, s, L)
    BY <1>3, <1>4, <1>17
  <2> QED BY ZenonT(40), <2>1, <2>2, <2>3, <2>4, <2>5, <2>6, SentToSmalltalk
<1> QED BY <1>3, <1>14, <1>15, <1>18, MovedKeeps
-----------------------------------------------------------------------------
(***************************************************************************)
(* Steps that give a segment back or take one.                             *)
(***************************************************************************)
\* Only the segments in X change, and no thread other than t holds them.
ChangesOnly(t, X) ==
  /\ \A x \in Segments \ X :
       header'[x] = header[x] /\ cpointer'[x] = cpointer[x] /\ stack'[x] = stack[x]
  /\ \A u \in Threads : u # t => \A x \in 1 .. Len(Held[u]) : Held[u][x] \notin X

LEMMA OthersSame ==
  ASSUME ListsKept, NEW t \in Threads, NEW X, ChangesOnly(t, X)
  PROVE  ElsewhereSame(t)
<1>1. ASSUME NEW u \in Threads, u # t, NEW x \in 1 .. Len(Held[u])
      PROVE  Held[u][x] \in Segments \ X
  <2>1. Held[u] \in Seq(Segments)
    BY ListFacts
  <2> QED BY <1>1, <2>1 DEF ChangesOnly
<1> QED BY <1>1 DEF ChangesOnly, ElsewhereSame

\* No other thread has the segments of t.
LEMMA OwnSegments ==
  ASSUME ListsKept, NEW t \in Threads, NEW u \in Threads, u # t,
         NEW x \in 1 .. Len(Held[u]), NEW y \in 1 .. Len(Held[t])
  PROVE  Held[u][x] # Held[t][y]
BY ListFacts DEF Disjoint

\* Thread t gives back its newest segment, or takes one.
Releases(t) ==
  /\ Held[t] # <<>> /\ Free' = Append(Free, Held[t][Len(Held[t])])
  /\ Held' = [Held EXCEPT ![t] = SubSeq(@, 1, Len(@) - 1)] /\ size' = size
Takes(t) ==
  /\ CanAllocate /\ Free' = FreeLeft /\ size' = SizeTaken
  /\ Held' = [Held EXCEPT ![t] = Append(@, Allocated)]

\* What popSegment does to the memory, the words of the segments aside.
Pops(t, s, hd, cp, st) ==
  LET U == RemoveNode(links, current[t], s) IN
  /\ links' = AddNode(U, FreeList, s)
  /\ current' = [current EXCEPT ![t] = IF U.first[current[t]] = NoSegment THEN NoSegment ELSE @]
  /\ size' = size /\ header' = hd /\ cpointer' = cp /\ stack' = st

LEMMA SegmentPopped ==
  ASSUME NEW t, NEW s, NEW hd, NEW cp, NEW st, Puts(stack, st, s, <<>>),
         SetMemory(PopSegment(State(links, hd, current, size, cp, stack), t, s))
  PROVE  Pops(t, s, hd, cp, st)
<1> DEFINE P == PopSegment(State(links, hd, current, size, cp, stack), t, s)
           U == RemoveNode(links, current[t], s)
<1>1. /\ P.links = AddNode(U, FreeList, s)
      /\ P.current = [current EXCEPT ![t] = IF U.first[current[t]] = NoSegment THEN NoSegment
                                            ELSE @]
      /\ P.size = size /\ P.header = hd /\ P.cpointer = cp
      /\ P.stack = [stack EXCEPT ![s] = <<>>]
  BY DEF PopSegment, State
<1>2. /\ links' = P.links /\ header' = P.header /\ current' = P.current
      /\ size' = P.size /\ cpointer' = P.cpointer /\ stack' = P.stack
  BY DEF SetMemory
<1>3. st = [stack EXCEPT ![s] = <<>>]
  BY DEF Puts
<1> HIDE DEF P
<1> QED BY <1>1, <1>2, <1>3 DEF Pops

\* The same when words of the segment before are dropped too.
LEMMA SegmentPoppedInto ==
  ASSUME NEW t, NEW s, NEW v, NEW e, NEW hd, NEW cp, NEW st, NEW st2, Puts(stack, st, s, <<>>),
         Puts(st, st2, v, SubSeq(st[v], 1, e)),
         SetMemory([PopSegment(State(links, hd, current, size, cp, stack), t, s)
                      EXCEPT !.stack[v] = SubSeq(@, 1, e)])
  PROVE  Pops(t, s, hd, cp, st2)
<1> DEFINE P == PopSegment(State(links, hd, current, size, cp, stack), t, s)
           U == RemoveNode(links, current[t], s)
           cu == [current EXCEPT ![t] = IF U.first[current[t]] = NoSegment THEN NoSegment
                                        ELSE @]
           Q == [P EXCEPT !.stack[v] = SubSeq(@, 1, e)]
<1>1. /\ Q.links = AddNode(U, FreeList, s) /\ Q.current = cu
      /\ Q.size = size /\ Q.header = hd /\ Q.cpointer = cp
  BY DEF PopSegment, State
<1>2. Q.stack = st2
  <2>1. Q.stack = [P.stack EXCEPT ![v] = SubSeq(@, 1, e)]
    BY DEF PopSegment, State
  <2>2. P.stack = st
    BY DEF PopSegment, State, Puts
  <2> HIDE DEF P
  <2> QED BY <2>1, <2>2 DEF Puts
<1>3. /\ links' = Q.links /\ header' = Q.header /\ current' = Q.current
      /\ size' = Q.size /\ cpointer' = Q.cpointer /\ stack' = Q.stack
  BY DEF SetMemory
<1> HIDE DEF Q
<1> QED BY <1>1, <1>2, <1>3 DEF Pops

\* The C stack and the registers when the only segment is released.
ReturnedToC(cs, c, k, cs2, r2) ==
  /\ Nesting(cs, c, k, k) /\ Len(c) = k /\ cs \in Seq(FrameType)
  /\ cs2 = SubSeq(cs, 1, k) /\ r2 = InC(k, k + 1)

LEMMA BackInC ==
  ASSUME NEW cs, NEW c, NEW k \in Nat, NEW cs2, NEW r2, ReturnedToC(cs, c, k, cs2, r2)
  PROVE  Outside(cs2, r2, c) /\ cs2 \in Seq(FrameType) /\ r2 \in CpuType
<1>1. /\ Len(c) = k /\ k <= Len(cs) /\ k >= 1 /\ Len(c) <= MaxCalls
      /\ cs \in Seq(FrameType) /\ cs2 = SubSeq(cs, 1, k) /\ r2 = InC(k, k + 1)
      /\ Nesting(cs, c, k, k)
  BY DEF ReturnedToC, Nesting
<1>2. k \in 0 .. Len(cs)
  BY <1>1
<1>3. cs2 \in Seq(FrameType) /\ Len(cs2) = k /\ \A i \in 1 .. k : cs2[i] = cs[i]
  BY <1>1, <1>2, Prefix
<1>4. Nesting(cs2, c, k, k)
  BY <1>1, <1>3 DEF Nesting
<1>5. r2 = InC(k, r2.rax) /\ r2.rax = k + 1
  BY <1>1 DEF InC
<1>6. r2 \in CpuType
  <2>1. k \in 0 .. MaxCalls /\ k + 1 \in Nat
    BY <1>1, Constants
  <2> QED BY <1>1, <2>1, RegistersTyped
<1> QED BY <1>1, <1>3, <1>4, <1>5, <1>6 DEF Outside, Result

LEMMA KeptByReturnToC ==
  ASSUME IInv, NEW t \in Threads, ReturnToC(t), running' = running
  PROVE  IInv' /\ Releases(t)
<1> DEFINE q == Held[t]
           cs == cstack[t]
           c == calls[t]
           s == cpu[t].seg
           d == Len(stack[s])
           f == cpu[t].fp
           D == SaveSmalltalk(Memory, s, d, f)
<1>1. cpu[t].mode = "Smalltalk" /\ cpu[t].at = "toC"
  BY Zenon DEF ReturnToC
<1>2. /\ OnTop(q, s) /\ s \in Segments
      /\ Typed(q, header, cpointer, stack, cs, cpu[t], c)
      /\ ThreadKept(q, header, cpointer, stack, cs, cpu[t], c)
      /\ ListsKept /\ TypesKept /\ current[t] # NoSegment
  <2>1. Held[t] # <<>>
    BY <1>1, SmalltalkFacts DEF OnTop
  <2> QED BY <1>1, <2>1, SmalltalkFacts, ThreadFacts
<1>3. PICK k \in Nat, m \in Nat, b \in Nat :
        /\ Nesting(cs, c, k, m) /\ Base(q, header, cpointer, stack, cs, k, b)
        /\ AtReturnToC(q, cpu[t], c, k, m)
  <2> HIDE DEF q, cs, c
  <2> QED BY <1>1, <1>2, Where DEF OnTop
<1>4. m = k /\ Len(q) = 1 /\ s = q[1] /\ cpu[t].rax = k + 1
  <2> HIDE DEF q, c
  <2> QED BY <1>2, <1>3 DEF AtReturnToC, OnTop, InSmalltalk
<1>5. /\ header \in [Segments -> HeaderType] /\ cpointer \in [Segments -> Nat]
      /\ stack \in [Segments -> Seq(WordType)] /\ cs \in Seq(FrameType)
      /\ Distinct(q) /\ d \in Nat /\ d <= SegmentWords /\ f \in Pointers \X Nat
      /\ c \in Seq(CallType) /\ cpu[t] \in CpuType
  BY <1>2 DEF Typed, StackType, CpuType
<1>6. header[s].threadData = s /\ cs[k + 1] = SwitchFrame(k, s, 0, TRUE) /\ Len(cs) > k
  <2>1. 1 \in 1 .. Len(q)
    BY <1>4
  <2> HIDE DEF q, cs
  <2> QED BY <1>3, <1>4, <2>1 DEF Base
<1> DEFINE h == SavedHeader(header[s], d, f)
           hd2 == [header EXCEPT ![s] = h]
           cp2 == [cpointer EXCEPT ![s] = 0]
           cs2 == SubSeq(cs, 1, k)
           r2 == InC(k, cpu[t].rax)
           below == SubSeq(cs, 1, k + 1)
           M == State(links, hd2, current, size, cp2, stack)
<1>7. D = State(links, hd2, current, size, cpointer, stack)
  <2>1. Puts(header, hd2, s, SavedHeader(header[s], d, f))
    BY DEF Puts
  <2> HIDE DEF hd2, d, f, s
  <2>2. SaveSmalltalk(State(links, header, current, size, cpointer, stack), s, d, f)
          = State(links, hd2, current, size, cpointer, stack)
    BY <1>2, <1>5, <2>1, StateSaved
  <2> QED BY <2>2, MemoryState
<1>8. hd2[s] = h /\ hd2 \in [Segments -> HeaderType] /\ h.threadData = s
  <2>1. h \in HeaderType /\ h.threadData = header[s].threadData
    <3>1. f[2] \in Nat /\ f[1] \in Pointers /\ f = <<f[1], f[2]>>
      BY <1>5
    <3>2. header[s] \in HeaderType /\ d \in 0 .. SegmentWords
      BY <1>2, <1>5, Constants
    <3> QED BY <1>5, <3>2 DEF SavedHeader, HeaderType
  <2> HIDE DEF h, s
  <2> QED BY <1>2, <1>5, <1>6, <2>1
<1> HIDE DEF h
<1>9. OnCStack(D, t, s) = below
  <2>1. hd2[s].threadData = header[s].threadData
    BY <1>6, <1>8
  <2> HIDE DEF hd2, q, D, cs
  <2> QED BY <1>2, <1>3, <1>5, <1>7, <2>1, OnSwitch DEF cs
<1>10. /\ Len(below) = k + 1 /\ below[k + 1] = SwitchFrame(k, s, 0, TRUE)
       /\ SubSeq(below, 1, k) = cs2
  <2>1. k + 1 \in 0 .. Len(cs) /\ k + 1 \in 1 .. k + 1
    BY <1>5, <1>6
  <2>2. below \in Seq(FrameType) /\ Len(below) = k + 1 /\ \A i \in 1 .. k + 1 : below[i] = cs[i]
    BY <1>5, <2>1, Prefix
  <2>3. SubSeq(below, 1, k) = cs2
    <3> HIDE DEF cs
    <3> QED BY <1>5, <2>1
  <2> QED BY <1>6, <2>1, <2>2, <2>3
<1>11. /\ SetMemory(PopSegment(M, t, s))
       /\ cstack' = [cstack EXCEPT ![t] = cs2] /\ cpu' = [cpu EXCEPT ![t] = r2]
       /\ calls' = calls
  <2> DEFINE B == OnCStack(D, t, s)
             F == B[Len(B)]
             E == [D EXCEPT !.cpointer[header[s].threadData] = F.saved]
  <2>1. /\ SetMemory(IF F.base THEN PopSegment(E, t, F.seg) ELSE E)
        /\ cstack' = [cstack EXCEPT ![t] = SubSeq(B, 1, Len(B) - 1)]
        /\ cpu' = [cpu EXCEPT ![t] = InC(F.act, @.rax)]
        /\ calls' = calls
    BY Zenon DEF ReturnToC, Upto
  <2> HIDE DEF D, s, cs
  <2>2. B = below
    BY <1>9
  <2> HIDE DEF below
  <2>3. F = SwitchFrame(k, s, 0, TRUE) /\ Len(B) - 1 = k /\ SubSeq(B, 1, k) = cs2
    <3>1. Len(B) = k + 1 /\ B[k + 1] = SwitchFrame(k, s, 0, TRUE) /\ SubSeq(B, 1, k) = cs2
      <4> HIDE DEF B, cs2
      <4> QED BY <1>10, <2>2
    <3>2. k + 1 - 1 = k
      OBVIOUS
    <3> HIDE DEF B, cs2
    <3> QED BY <3>1, <3>2
  <2> HIDE DEF B
  <2>4. F.base = TRUE /\ F.seg = s /\ F.saved = 0 /\ F.act = k
    BY <2>3 DEF SwitchFrame
  <2> HIDE DEF F, hd2, cs2
  <2>5. E = M
    BY <1>6, <1>7, <2>4 DEF State
  <2> HIDE DEF E, M
  <2> QED BY Zenon, <2>1, <2>3, <2>4, <2>5
<1> DEFINE st2 == [stack EXCEPT ![s] = <<>>]
<1>12. Pops(t, s, hd2, cp2, st2)
  <2>1. Puts(stack, st2, s, <<>>)
    BY DEF Puts
  <2> HIDE DEF hd2, cp2, st2, s
  <2> QED BY <1>11, <2>1, SegmentPopped
<1>13. /\ ListsKept' /\ Held' = [Held EXCEPT ![t] = SubSeq(@, 1, Len(@) - 1)]
       /\ Free' = Append(Free, s)
  <2>1. s = Held[t][Len(Held[t])]
    BY <1>2 DEF OnTop
  <2> HIDE DEF s, hd2, cp2, st2
  <2> QED BY <1>2, <1>12, <2>1, NewestReleased DEF Pops
<1>14. Held' = [Held EXCEPT ![t] = <<>>]
  <2>1. Held[t] \in Seq(Segments) /\ Len(Held[t]) = 1
    BY <1>4, <1>5 DEF Distinct
  <2>2. SubSeq(Held[t], 1, Len(Held[t]) - 1) = <<>>
    BY <2>1
  <2> QED BY <1>13, <2>2 DEF Held
<1>15. ReturnedToC(cs, c, k, cs2, r2)
  <2>1. Nesting(cs, c, k, k) /\ Len(c) = k
    <3> HIDE DEF q, cs, c
    <3> QED BY <1>3, <1>4 DEF AtReturnToC
  <2>2. r2 = InC(k, k + 1)
    BY <1>4
  <2> HIDE DEF c, r2
  <2> QED BY <1>5, <2>1, <2>2 DEF ReturnedToC
<1> HIDE DEF cs2, r2
<1>16. Outside(cs2, r2, c)
  <2> HIDE DEF cs, c
  <2> QED BY <1>15, BackInC
<1>17. cs2 \in Seq(FrameType) /\ r2 \in CpuType
  <2> HIDE DEF cs, c
  <2> QED BY <1>15, BackInC
<1>18. /\ header' = hd2 /\ cpointer' = [cpointer EXCEPT ![s] = 0]
       /\ stack' = [stack EXCEPT ![s] = <<>>]
  BY <1>12 DEF Pops
<1>19. /\ stack' \in [Segments -> Seq(WordType)] /\ cpointer' \in [Segments -> Nat]
       /\ \A x \in Segments : Len(stack'[x]) <= SegmentWords
  <2> HIDE DEF s
  <2>1. stack' \in [Segments -> Seq(WordType)]
    <3> DEFINE w == <<>>
    <3>1. w \in Seq(WordType)
      OBVIOUS
    <3>2. stack' = [stack EXCEPT ![s] = w]
      BY <1>18
    <3> HIDE DEF w
    <3> QED BY <1>5, <3>1, <3>2
  <2>2. cpointer' \in [Segments -> Nat]
    BY <1>5, <1>18
  <2>3. ASSUME NEW x \in Segments PROVE Len(stack'[x]) <= SegmentWords
    <3>1. CASE x = s
      <4>1. Len(stack'[x]) = 0
        BY <1>5, <1>18, <3>1
      <4> QED BY <4>1, Constants
    <3>2. CASE x # s
      <4>1. stack'[x] = stack[x]
        BY <1>5, <1>18, <3>2
      <4> QED BY <1>2, <4>1 DEF Typed
    <3> QED BY <3>1, <3>2
  <2> QED BY <2>1, <2>2, <2>3
<1> DEFINE q2 == <<>>
<1>20. Typed(q2, header', cpointer', stack', cs2, r2, c)
  <2>1. Distinct(q2)
    BY DEF Distinct
  <2>2. header' \in [Segments -> HeaderType] /\ c \in Seq(CallType)
    BY <1>5, <1>8, <1>18
  <2> HIDE DEF q2, c
  <2> QED BY <1>17, <1>19, <2>1, <2>2 DEF Typed, StackType
<1>21. ElsewhereSame(t)
  <2>1. \A x \in Segments \ {s} :
          header'[x] = header[x] /\ cpointer'[x] = cpointer[x] /\ stack'[x] = stack[x]
    <3> HIDE DEF s
    <3> QED BY <1>5, <1>18
  <2>2. 1 \in 1 .. Len(Held[t]) /\ s = Held[t][1]
    BY <1>4
  <2> HIDE DEF s
  <2>3. \A u \in Threads : u # t => \A x \in 1 .. Len(Held[u]) : Held[u][x] \notin {s}
    BY <1>2, <2>2, OwnSegments
  <2>4. ChangesOnly(t, {s})
    BY <2>1, <2>3 DEF ChangesOnly
  <2> QED BY <1>2, <2>4, OthersSame
<1>22. ThreadKept(q2, header', cpointer', stack', cs2, r2, c)
  BY <1>16 DEF ThreadKept
<1>23. calls' = [calls EXCEPT ![t] = c]
  BY <1>2, <1>11 DEF TypesKept
<1>24. Held' = [Held EXCEPT ![t] = q2]
  BY <1>14
<1> HIDE DEF q2, c
<1>25. IInv'
  BY <1>11, <1>13, <1>20, <1>21, <1>22, <1>23, <1>24, StepKeeps
<1>26. Releases(t)
  BY <1>2, <1>12, <1>13 DEF Releases, OnTop, Pops
<1> QED BY SMTT(20), <1>25, <1>26
\* q2 are the segments of q without the newest of them, s; v, the newest of
\* these, has its first d words left.
GivenBack(q, hd, st, q2, hd2, st2, s, v, d) ==
  /\ Distinct(q2) /\ Len(q2) = Len(q) - 1 /\ \A x \in 1 .. Len(q) - 1 : q2[x] = q[x]
  /\ \A x \in Segments \ {s} : hd2[x] = hd[x]
  /\ \A x \in Segments \ {s, v} : st2[x] = st[x]
  /\ st2 \in StackType /\ d \in Nat /\ Shorter(st[v], st2[v], d)

\* The sender's segment is the newest one again, and the sender goes on there.
LEMMA SegmentReturned ==
  ASSUME NEW q, NEW hd, NEW cp, NEW st, NEW cs, NEW r, NEW c, NEW q2, NEW hd2, NEW st2,
         NEW cs2, NEW r2, NEW k \in Nat, NEW m \in Nat, NEW b \in Nat, NEW s, NEW S,
         Typed(q, hd, cp, st, cs, r, c), OnTop(q, s), Nesting(cs, c, k, m), m = Len(c),
         Base(q, hd, cp, st, cs, k, b), Frames(q, hd, st, c, k, b, m),
         S = Caller(q, c, k, b, m + 1), Waits(q, hd, st, S, s),
         GivenBack(q, hd, st, q2, hd2, st2, s, S.seg, S.depth), SwitchKept(cs, cs2, k),
         r2 = Land(S.word, S.seg, S.fp, m + 1)
  PROVE  ThreadKept(q2, hd2, cp, st2, cs2, r2, c)
<1> DEFINE p == Len(q) - 1
           d == S.depth
<1>1. /\ Distinct(q) /\ q # <<>> /\ st \in StackType /\ c \in Seq(CallType)
      /\ Len(q) > 1 /\ S.seg = q[p] /\ S.seg # s /\ s # q[1] /\ s = q[Len(q)]
  <2>1. Distinct(q) /\ q # <<>> /\ st \in StackType /\ c \in Seq(CallType) /\ s = q[Len(q)]
    BY DEF Typed, OnTop
  <2> QED BY <2>1, WaitsBefore
<1>2. /\ p \in 1 .. Len(q) /\ p \in 1 .. Len(q2) /\ p = Len(q2) /\ p \in Nat \ {0}
      /\ Distinct(q2) /\ q2 # <<>> /\ \A x \in 1 .. p : q2[x] = q[x]
  <2>1. Len(q) \in Nat
    BY <1>1 DEF Distinct
  <2>2. Distinct(q2) /\ p = Len(q2) /\ \A x \in 1 .. p : q2[x] = q[x]
    BY DEF GivenBack
  <2>3. p \in Nat \ {0} /\ p \in 1 .. Len(q) /\ p \in 1 .. p
    BY <1>1, <2>1
  <2> HIDE DEF p
  <2>4. q2 # <<>>
    BY <2>2, <2>3
  <2> QED BY <2>2, <2>3, <2>4
<1>3. k <= m /\ m <= Len(c) /\ b >= ThreadDataWords
  BY DEF Nesting, Base
<1>4. CallerPlaced(q, c, k, m, S)
  BY <1>1, <1>3, UnderCaller
<1>5. \A x \in 1 .. p : q[x] # s /\ q[x] \in Segments /\ (x # p => q[x] # S.seg)
  <2>1. \A x \in 1 .. p : x \in 1 .. Len(q) /\ x # Len(q)
    BY <1>1, <1>2 DEF Distinct
  <2>2. Len(q) \in 1 .. Len(q)
    BY <1>1 DEF Distinct
  <2> HIDE DEF p
  <2> QED BY <1>1, <1>2, <2>1, <2>2 DEF Distinct
<1>6. GivenBack(q, hd, st, q2, hd2, st2, s, S.seg, d)
  OBVIOUS
<1> HIDE DEF p, d
<1>7. Retained(q, hd, st, q2, hd2, st2, p, d)
  <2>1. \A x \in 1 .. p : x # p => st2[q[x]] = st[q[x]] /\ hd2[q[x]] = hd[q[x]]
    BY <1>5 DEF GivenBack
  <2>2. d \in Nat /\ d <= Len(st2[q[p]]) /\ \A j \in 1 .. d : st2[q[p]][j] = st[q[p]][j]
    <3>1. S.seg = q[p] /\ d \in Nat
      BY <1>1, <1>6 DEF GivenBack, p
    <3>2. /\ Len(st2[S.seg]) = d
          /\ \A j \in 1 .. d : st2[S.seg][j] = st[S.seg][j]
      BY <1>6 DEF GivenBack, Shorter
    <3> QED BY <3>1, <3>2
  <2> QED BY <1>2, <2>1, <2>2 DEF Retained
<1>8. Frames(q2, hd2, st2, c, k, b, m)
  <2>1. ASSUME NEW i \in k + 1 .. m, NEW x \in 1 .. Len(q), q[x] = c[i].seg
        PROVE  x <= p /\ (x = p => c[i].depth <= d)
    BY <1>1, <1>2, <1>4, <2>1 DEF CallerPlaced, d
  <2>2. \A i \in k + 1 .. m : SameCall(c, c, i)
    BY DEF SameCall
  <2>3. st2 \in StackType
    BY DEF GivenBack
  <2> QED BY <1>1, <1>2, <1>7, <2>1, <2>2, <2>3, FramesSame
<1>9. Caller(q2, c, k, b, m + 1) = S
  <2>1. m + 1 \in Nat /\ m + 1 > k /\ q2[1] = q[1]
    BY <1>2, <1>3
  <2>2. SameCall(c, c, m + 1 - 1)
    BY DEF SameCall
  <2> QED BY <2>1, <2>2, CallerSame
<1>10. Base(q2, hd2, cp, st2, cs2, k, b)
  <2>1. q2[1] = q[1] /\ q[1] # s /\ q[1] \in Segments
    BY <1>2, <1>5
  <2>2. cs2[k + 1] = cs[k + 1] /\ Len(cs2) > k
    BY DEF SwitchKept
  <2>3. \A x \in 1 .. Len(q2) : hd2[q2[x]].threadData = q2[1]
    <3>1. \A x \in 1 .. p : x \in 1 .. Len(q) /\ hd2[q[x]] = hd[q[x]]
      BY SMTT(20), <1>1, <1>2, <1>5 DEF GivenBack, Distinct
    <3> QED BY <1>2, <2>1, <3>1 DEF Base
  <2>4. /\ Len(st2[q[1]]) >= ThreadDataWords
        /\ \A i \in 1 .. ThreadDataWords : st2[q[1]][i] = Word("threadData", 0, 0)
    <3>1. CASE q[1] = S.seg
      <4>1. d >= ThreadDataWords /\ d \in Nat /\ ThreadDataWords \in Nat
        BY <1>4, <3>1, Constants DEF CallerPlaced, d
      <4>2. \A i \in 1 .. d : st2[q[1]][i] = st[q[1]][i]
        BY SMTT(20), <1>6, <3>1 DEF GivenBack, Shorter
      <4>3. Len(st2[q[1]]) = d
        BY <1>6, <3>1 DEF GivenBack, Shorter
      <4>4. \A i \in 1 .. ThreadDataWords : i \in 1 .. d
        BY <4>1
      <4> QED BY <4>1, <4>2, <4>3, <4>4 DEF Base
    <3>2. CASE q[1] # S.seg
      BY <2>1, <3>2 DEF GivenBack, Base
    <3> QED BY <3>1, <3>2
  <2> QED BY <2>1, <2>2, <2>3, <2>4 DEF Base
<1>11. Nesting(cs2, c, k, m)
  BY DEF Nesting, SwitchKept
<1>12. Runs(q2, hd2, st2, cs2, r2, c, k, m, b)
  <2>1. S.seg = q2[Len(q2)] /\ Len(st2[S.seg]) = S.depth
    BY <1>1, <1>2 DEF GivenBack, Shorter
  <2> QED BY <1>2, <1>3, <1>8, <1>9, <2>1, Resumes
<1> QED BY <1>2, <1>10, <1>11, <1>12 DEF Inside, ThreadKept

\* With the stack pointer above the words of the caller, control goes on where
\* they say.
LEMMA LandsAt ==
  ASSUME NEW W, NEW d \in Nat, NEW word, NEW f \in Pointers \X Nat,
         W[d + 1] = word, W[d + 2] = Frame(f), NEW s, NEW x
  PROVE  ReturnToSender(W, s, d + 2, x) = Land(word, s, f, x)
<1>1. d + 2 - 1 = d + 1
  OBVIOUS
<1>2. FrameAt(W, d + 2) = f
  BY SMTT(20), FrameRead DEF FrameAt
<1> QED BY <1>1, <1>2 DEF ReturnToSender

LEMMA KeptByPopStackSegment ==
  ASSUME IInv, NEW t \in Threads, PopStackSegment(t), running' = running
  PROVE  IInv' /\ Releases(t)
<1> DEFINE q == Held[t]
           cs == cstack[t]
           c == calls[t]
           s == cpu[t].seg
           d == Len(stack[s])
           f == cpu[t].fp
           D == SaveSmalltalk(Memory, s, d, f)
<1>1. cpu[t].mode = "Smalltalk" /\ cpu[t].at = "popTrap"
  BY DEF PopStackSegment
<1>2. /\ OnTop(q, s) /\ s \in Segments
      /\ Typed(q, header, cpointer, stack, cs, cpu[t], c)
      /\ ThreadKept(q, header, cpointer, stack, cs, cpu[t], c)
      /\ ListsKept /\ TypesKept /\ current[t] # NoSegment
  <2>1. Held[t] # <<>>
    BY <1>1, SmalltalkFacts DEF OnTop
  <2> QED BY <1>1, <2>1, SmalltalkFacts, ThreadFacts
<1>3. PICK k \in Nat, m \in Nat, b \in Nat :
        /\ Nesting(cs, c, k, m) /\ Base(q, header, cpointer, stack, cs, k, b)
        /\ AtTrap(q, header, stack, cpu[t], c, k, b, m)
        /\ Frames(q, header, stack, c, k, b, m)
  <2> HIDE DEF q, cs, c
  <2> QED BY <1>1, <1>2, Where DEF OnTop
<1> DEFINE S == Caller(q, c, k, b, m + 1)
           v == S.seg
           e == S.depth
<1>4. m = Len(c) /\ cpu[t].rax = m + 1 /\ Waits(q, header, stack, S, s)
  <2> HIDE DEF q, c
  <2> QED BY <1>2, <1>3 DEF AtTrap, OnTop, InSmalltalk
<1>5. /\ header \in [Segments -> HeaderType] /\ cpointer \in [Segments -> Nat]
      /\ stack \in [Segments -> Seq(WordType)] /\ cs \in Seq(FrameType)
      /\ Distinct(q) /\ d \in Nat /\ d <= SegmentWords /\ f \in Pointers \X Nat
      /\ c \in Seq(CallType) /\ k <= m /\ m <= MaxCalls
  <2>1. k <= m /\ m <= MaxCalls
    <3> HIDE DEF c, cs
    <3> QED BY <1>3, <1>4 DEF Nesting
  <2> QED BY SMTT(20), <1>2, <2>1 DEF Typed, StackType, CpuType
<1>6. CallerPlaced(q, c, k, m, S)
  <2>1. q # <<>> /\ stack \in StackType /\ m <= Len(c) /\ b >= ThreadDataWords
    BY <1>2, <1>3, <1>4, <1>5 DEF OnTop, StackType, Base
  <2> HIDE DEF q, c
  <2> QED BY <1>3, <1>5, <2>1, UnderCaller
<1> HIDE DEF S
<1>7. e \in Nat /\ S.fp \in Pointers \X Nat
  <2> HIDE DEF q, c
  <2> QED BY <1>6 DEF CallerPlaced
<1>8. /\ Len(q) > 1 /\ v = q[Len(q) - 1] /\ v # s /\ v \in Segments
      /\ Len(q) - 1 \in 1 .. Len(q)
  <2>1. Len(q) > 1 /\ v = q[Len(q) - 1] /\ v # s
    <3> HIDE DEF q
    <3> QED BY <1>2, <1>4, <1>5, WaitsBefore
  <2>2. Len(q) - 1 \in 1 .. Len(q)
    <3> HIDE DEF q
    <3>1. Len(q) \in Nat
      BY <1>5 DEF Distinct
    <3> QED BY <2>1, <3>1
  <2> HIDE DEF q
  <2> QED BY <1>5, <2>1, <2>2 DEF Distinct
<1>9. /\ header[v].stackPointer = e + 2 /\ Len(stack[v]) = e + 2
      /\ stack[v][e + 1] = S.word /\ stack[v][e + 2] = Frame(S.fp)
  <2> HIDE DEF q
  <2> QED BY <1>4 DEF Waits
<1>10. links.previous[s] = v
  <2>1. /\ q \in Seq(Segments) /\ Len(q) \in 1 .. Len(q)
        /\ \A i \in 1 .. Len(q) : links.previous[q[i]] = IF i = 1 THEN NoSegment ELSE q[i - 1]
    BY <1>2, Newest
  <2>2. s = q[Len(q)]
    BY <1>2 DEF OnTop
  <2> HIDE DEF q, v, s
  <2> QED BY <1>8, <2>1, <2>2
<1> DEFINE h == SavedHeader(header[s], d, f)
           hd2 == [header EXCEPT ![s] = h]
           cs2 == SubSeq(cs, 1, k + 1)
           w == SubSeq(stack[v], 1, e)
           st == [stack EXCEPT ![s] = <<>>]
           st2 == [st EXCEPT ![v] = SubSeq(st[v], 1, e)]
           q2 == SubSeq(q, 1, Len(q) - 1)
           r2 == Land(S.word, v, S.fp, m + 1)
<1>11. D = State(links, hd2, current, size, cpointer, stack)
  <2>1. Puts(header, hd2, s, SavedHeader(header[s], d, f))
    BY DEF Puts
  <2> HIDE DEF hd2, d, f, s
  <2>2. SaveSmalltalk(State(links, header, current, size, cpointer, stack), s, d, f)
          = State(links, hd2, current, size, cpointer, stack)
    BY <1>2, <1>5, <2>1, StateSaved
  <2> QED BY <2>2, MemoryState
<1>12. hd2[s] = h /\ hd2 \in [Segments -> HeaderType] /\ h.threadData = header[s].threadData
  <2>1. h \in HeaderType /\ h.threadData = header[s].threadData
    <3>1. f[2] \in Nat /\ f[1] \in Pointers /\ f = <<f[1], f[2]>>
      BY <1>5
    <3>2. header[s] \in HeaderType /\ d \in 0 .. SegmentWords
      BY <1>2, <1>5, Constants
    <3> QED BY <1>5, <3>2 DEF SavedHeader, HeaderType
  <2> HIDE DEF h, s
  <2> QED BY <1>2, <1>5, <2>1
<1> HIDE DEF h
<1>13. OnCStack(D, t, s) = cs2
  <2>1. hd2[s].threadData = header[s].threadData
    BY <1>12
  <2> HIDE DEF hd2, q, D, s
  <2>2. Base(q, header, cpointer, stack, cstack[t], k, b)
    BY <1>3
  <2>3. OnCStack(State(links, hd2, current, size, cpointer, stack), t, s)
          = SubSeq(cstack[t], 1, k + 1)
    BY <1>2, <1>5, <2>1, <2>2, OnSwitch
  <2> QED BY <1>11, <2>3
<1>14. /\ SetMemory([PopSegment(D, t, s) EXCEPT !.stack[v] = SubSeq(@, 1, e)])
       /\ cstack' = [cstack EXCEPT ![t] = OnCStack(D, t, s)]
       /\ cpu' = [cpu EXCEPT ![t] = ReturnToSender(stack[v], v, e + 2, m + 1)]
       /\ calls' = calls
  <2> DEFINE u == links.previous[s]
             x == header[u].stackPointer
  <2>1. /\ SetMemory([PopSegment(D, t, s) EXCEPT !.stack[u] = SubSeq(@, 1, x - 2)])
        /\ cstack' = [cstack EXCEPT ![t] = OnCStack(D, t, s)]
        /\ cpu' = [cpu EXCEPT ![t] = ReturnToSender(stack[u], u, x, cpu[t].rax)]
        /\ calls' = calls
    BY Zenon DEF PopStackSegment, Upto
  <2> HIDE DEF D, s, v, e, c
  <2>2. u = v
    BY <1>10
  <2> HIDE DEF u
  <2>3. x = e + 2
    BY <1>9, <2>2
  <2> HIDE DEF x
  <2>4. x - 2 = e
    BY <1>7, <2>3
  <2> QED BY <1>4, <2>1, <2>2, <2>3, <2>4
<1>15. Pops(t, s, hd2, cpointer, st2)
  <2>1. Puts(stack, st, s, <<>>) /\ Puts(st, st2, v, SubSeq(st[v], 1, e))
    BY DEF Puts
  <2> HIDE DEF hd2, st, st2, s, v, e, D
  <2>2. SetMemory([PopSegment(State(links, hd2, current, size, cpointer, stack), t, s)
                      EXCEPT !.stack[v] = SubSeq(@, 1, e)])
    BY <1>11, <1>14
  <2> QED BY <2>1, <2>2, SegmentPoppedInto
<1>16. /\ ListsKept' /\ Held' = [Held EXCEPT ![t] = SubSeq(@, 1, Len(@) - 1)]
       /\ Free' = Append(Free, s)
  <2>1. s = Held[t][Len(Held[t])]
    BY <1>2 DEF OnTop
  <2> HIDE DEF s, hd2, st2
  <2> QED BY <1>2, <1>15, <2>1, NewestReleased DEF Pops
<1>17. Held' = [Held EXCEPT ![t] = q2]
  BY <1>16 DEF Held
<1>18. header' = hd2 /\ cpointer' = cpointer /\ stack' = st2
  BY <1>15 DEF Pops
<1>19. w \in Seq(WordType) /\ Shorter(stack[v], w, e) /\ Len(w) <= SegmentWords
  <2> DEFINE x == stack[v]
  <2>1. x \in Seq(WordType) /\ e \in 0 .. Len(x) /\ Len(x) <= SegmentWords /\ Len(x) = e + 2
    BY SMTT(20), <1>2, <1>5, <1>7, <1>8, <1>9 DEF Typed
  <2> HIDE DEF x, e
  <2>2. SubSeq(x, 1, e) \in Seq(WordType) /\ Shorter(x, SubSeq(x, 1, e), e)
    BY <2>1, Shortened
  <2>3. e <= SegmentWords
    BY <1>7, <2>1, Constants
  <2> QED BY <2>2, <2>3 DEF x, Shorter
<1>20. /\ stack' \in [Segments -> Seq(WordType)] /\ stack'[v] = w
       /\ \A x \in Segments \ {s, v} : stack'[x] = stack[x]
       /\ \A x \in Segments : Len(stack'[x]) <= SegmentWords
  <2> DEFINE z == <<>>
  <2>1. z \in Seq(WordType) /\ Len(z) <= SegmentWords
    BY Constants
  <2>2. st = [stack EXCEPT ![s] = z]
    OBVIOUS
  <2> HIDE DEF z, st, s, v, w, e
  <2>3. /\ st \in [Segments -> Seq(WordType)] /\ st[v] = stack[v] /\ st[s] = z
        /\ \A x \in Segments \ {s} : st[x] = stack[x]
    BY <1>2, <1>5, <1>8, <2>1, <2>2
  <2>4. st2 = [st EXCEPT ![v] = w]
    BY <2>3 DEF w
  <2> HIDE DEF st2
  <2>5. /\ st2 \in [Segments -> Seq(WordType)] /\ st2[v] = w
        /\ \A x \in Segments \ {v} : st2[x] = st[x]
    BY <1>8, <1>19, <2>3, <2>4
  <2>6. ASSUME NEW x \in Segments PROVE Len(st2[x]) <= SegmentWords
    <3>1. CASE x = v
      BY <1>19, <2>5, <3>1
    <3>2. CASE x = s
      BY <1>8, <2>1, <2>3, <2>5, <3>2
    <3>3. CASE x # v /\ x # s
      <4>1. st2[x] = stack[x]
        BY <2>3, <2>5, <3>3
      <4> QED BY <1>2, <4>1 DEF Typed
    <3> QED BY <3>1, <3>2, <3>3
  <2> QED BY <1>18, <2>3, <2>5, <2>6
<1>21. Distinct(q2) /\ Len(q2) = Len(q) - 1 /\ \A x \in 1 .. Len(q) - 1 : q2[x] = q[x]
  <2> DEFINE N == Len(q) - 1
  <2>1. N \in 0 .. Len(q) /\ q \in Seq(Segments)
    BY <1>5, <1>8 DEF Distinct
  <2> HIDE DEF N, q
  <2>2. SubSeq(q, 1, N) \in Seq(Segments) /\ Len(SubSeq(q, 1, N)) = N
        /\ \A x \in 1 .. N : SubSeq(q, 1, N)[x] = q[x]
    BY <2>1, Prefix
  <2>3. \A x \in 1 .. N : x \in 1 .. Len(q)
    BY <2>1
  <2>4. Distinct(SubSeq(q, 1, N))
    BY <1>5, <2>2, <2>3 DEF Distinct
  <2> QED BY <2>2, <2>4 DEF N
<1>22. GivenBack(q, header, stack, q2, header', stack', s, v, e)
  <2>1. \A x \in Segments \ {s} : header'[x] = header[x]
    <3> HIDE DEF s
    <3> QED BY <1>5, <1>18
  <2> HIDE DEF q, q2, s, v, e
  <2> QED BY <1>7, <1>19, <1>20, <1>21, <2>1 DEF GivenBack, StackType
<1>23. cs2 \in Seq(FrameType) /\ SwitchKept(cs, cs2, k)
  <2>1. k + 1 \in 0 .. Len(cs)
    BY SMTT(20), <1>3, <1>5 DEF Base
  <2> HIDE DEF cs
  <2>2. cs2 \in Seq(FrameType) /\ Len(cs2) = k + 1 /\ \A i \in 1 .. k + 1 : cs2[i] = cs[i]
    BY <1>5, <2>1, Prefix
  <2> HIDE DEF cs2
  <2> QED BY <2>2 DEF SwitchKept
<1>24. cpu' = [cpu EXCEPT ![t] = r2] /\ r2 \in CpuType
  <2> DEFINE y == m + 1
  <2>1. y \in Nat /\ v \in Pointers
    <3> HIDE DEF v
    <3> QED BY <1>8 DEF Pointers
  <2> HIDE DEF e, v
  <2>2. ReturnToSender(stack[v], v, e + 2, y) = Land(S.word, v, S.fp, y)
    <3> HIDE DEF y
    <3> QED BY <1>7, <1>9, LandsAt
  <2>3. Land(S.word, v, S.fp, y) \in CpuType
    <3> HIDE DEF y, q, c
    <3> QED BY <1>5, <1>7, <2>1, LandTyped DEF S
  <2> QED BY <1>14, <2>2, <2>3
<1> HIDE DEF r2, cs2, q2
<1>25. Typed(q2, header', cpointer', stack', cs2, r2, c)
  <2> HIDE DEF c
  <2> QED BY <1>5, <1>12, <1>18, <1>20, <1>21, <1>23, <1>24 DEF Typed, StackType
<1>26. ThreadKept(q2, header', cpointer', stack', cs2, r2, c)
  <2>1. r2 = Land(S.word, S.seg, S.fp, m + 1) /\ cpointer' = cpointer
    BY <1>18 DEF r2
  <2>2. GivenBack(q, header, stack, q2, header', stack', s, S.seg, S.depth)
    BY <1>22
  <2> HIDE DEF q, cs, c, s
  <2>3. S = Caller(q, c, k, b, m + 1)
    BY DEF S
  <2>4. ThreadKept(q2, header', cpointer, stack', cs2, r2, c)
    BY <1>2, <1>3, <1>4, <1>23, <2>1, <2>2, <2>3, SegmentReturned
  <2> QED BY <2>1, <2>4
<1>27. ElsewhereSame(t)
  <2>1. \A x \in Segments \ {s, v} :
          header'[x] = header[x] /\ cpointer'[x] = cpointer[x] /\ stack'[x] = stack[x]
    <3> HIDE DEF s, v
    <3> QED BY <1>5, <1>18, <1>20
  <2>2. /\ Len(Held[t]) \in 1 .. Len(Held[t]) /\ s = Held[t][Len(Held[t])]
        /\ Len(Held[t]) - 1 \in 1 .. Len(Held[t]) /\ v = Held[t][Len(Held[t]) - 1]
    BY <1>2, <1>8, Newest DEF OnTop
  <2> HIDE DEF s, v
  <2>3. \A u \in Threads : u # t => \A x \in 1 .. Len(Held[u]) : Held[u][x] \notin {s, v}
    BY <1>2, <2>2, OwnSegments
  <2>4. ChangesOnly(t, {s, v})
    BY <2>1, <2>3 DEF ChangesOnly
  <2> QED BY <1>2, <2>4, OthersSame
<1>28. calls' = [calls EXCEPT ![t] = c] /\ cstack' = [cstack EXCEPT ![t] = cs2]
  BY <1>2, <1>13, <1>14 DEF TypesKept
<1> HIDE DEF c
<1>29. IInv'
  BY <1>16, <1>17, <1>24, <1>25, <1>26, <1>27, <1>28, StepKeeps
<1>30. Releases(t)
  BY <1>2, <1>15, <1>16 DEF Releases, OnTop, Pops
<1> QED BY <1>29, <1>30
-----------------------------------------------------------------------------
(***************************************************************************)
(* Allocation of a segment.                                                *)
(***************************************************************************)
\* The records of the state that memory.c and the limit trap make of M.
SetSegment(M, L, sz, x, g, w) ==
  [M EXCEPT !.links = L, !.size = sz, !.header[x] = g, !.stack[x] = w]
SetSegments(M, x, a, v, s, d, w) ==
  [M EXCEPT !.header[x].stackPointer = a, !.header[s].stackPointer = d,
            !.stack[x] = v, !.stack[s] = w]
Points(hd, hd2, x, a) == hd2 = [hd EXCEPT ![x].stackPointer = a]

LEMMA SegmentSet ==
  ASSUME NEW L, NEW hd, NEW cu, NEW sz, NEW cp, NEW st, NEW L2, NEW sz2, NEW x, NEW g, NEW w,
         NEW hd2, NEW st2, Puts(hd, hd2, x, g), Puts(st, st2, x, w)
  PROVE  SetSegment(State(L, hd, cu, sz, cp, st), L2, sz2, x, g, w)
           = State(L2, hd2, cu, sz2, cp, st2)
<1> DEFINE M1 == [State(L, hd, cu, sz, cp, st) EXCEPT !.links = L2]
           M2 == [M1 EXCEPT !.size = sz2]
           M3 == [M2 EXCEPT !.header[x] = g]
<1>1. M1 = State(L2, hd, cu, sz, cp, st)
  BY DEF State
<1> HIDE DEF M1
<1>2. M2 = State(L2, hd, cu, sz2, cp, st)
  BY <1>1 DEF State
<1> HIDE DEF M2
<1>3. M3 = State(L2, hd2, cu, sz2, cp, st)
  BY <1>2 DEF State, Puts
<1> HIDE DEF M3
<1>4. [M3 EXCEPT !.stack[x] = w] = State(L2, hd2, cu, sz2, cp, st2)
  BY <1>3 DEF State, Puts
<1> QED BY <1>4 DEF M1, M2, M3, SetSegment

LEMMA SegmentsSet ==
  ASSUME NEW L, NEW hd, NEW cu, NEW sz, NEW cp, NEW st, NEW x, NEW a, NEW v, NEW s, NEW d, NEW w,
         NEW hd1, NEW hd2, NEW st1, NEW st2, Points(hd, hd1, x, a), Points(hd1, hd2, s, d),
         Puts(st, st1, x, v), Puts(st1, st2, s, w)
  PROVE  SetSegments(State(L, hd, cu, sz, cp, st), x, a, v, s, d, w)
           = State(L, hd2, cu, sz, cp, st2)
<1> DEFINE M1 == [State(L, hd, cu, sz, cp, st) EXCEPT !.header[x].stackPointer = a]
           M2 == [M1 EXCEPT !.header[s].stackPointer = d]
           M3 == [M2 EXCEPT !.stack[x] = v]
<1>1. M1 = State(L, hd1, cu, sz, cp, st)
  BY DEF State, Points
<1> HIDE DEF M1
<1>2. M2 = State(L, hd2, cu, sz, cp, st)
  BY <1>1 DEF State, Points
<1> HIDE DEF M2
<1>3. M3 = State(L, hd2, cu, sz, cp, st1)
  BY <1>2 DEF State, Puts
<1> HIDE DEF M3
<1>4. [M3 EXCEPT !.stack[s] = w] = State(L, hd2, cu, sz, cp, st2)
  BY <1>3 DEF State, Puts
<1> QED BY <1>4 DEF M1, M2, M3, SetSegments

LEMMA StackPointerSet ==
  ASSUME NEW h \in HeaderType, NEW d
  PROVE  [h EXCEPT !.stackPointer = d] = SavedHeader(h, d, h.framePointer)
<1>1. h = [threadData |-> h.threadData, framePointer |-> h.framePointer,
           stackPointer |-> h.stackPointer]
  BY DEF HeaderType
<1>2. [h EXCEPT !.stackPointer = d] = [threadData |-> h.threadData,
        framePointer |-> h.framePointer, stackPointer |-> d]
  BY <1>1
<1> QED BY <1>2 DEF SavedHeader

NewHeader(data, d) == [threadData |-> data, framePointer |-> NullFrame, stackPointer |-> d]

LEMMA StateAllocated ==
  ASSUME ListsKept, CanAllocate, NEW hd, NEW cp, NEW st, NEW hd2, NEW st2,
         Puts(hd, hd2, Allocated, NewHeader(NoSegment, 0)), Puts(st, st2, Allocated, <<>>)
  PROVE  LET M == State(links, hd, current, size, cp, st) IN
         /\ AllocatedSegment(M) = Allocated
         /\ AllocateSegment(M) = State(Taken(Allocated), hd2, current, SizeTaken, cp, st2)
<1> DEFINE M == State(links, hd, current, size, cp, st)
           s == Allocated
           T == Taken(s)
           g == NewHeader(NoSegment, 0)
           A == SetSegment(M, T, SizeTaken, s, g, <<>>)
<1>1. /\ Free # <<>> <=> links.first[FreeList] # NoSegment
      /\ Free # <<>> => links.first[FreeList] = Free[1]
  BY Allocation
<1>2. M.links = links /\ M.size = size
  BY DEF State
<1>3. AllocatedSegment(M) = Allocated
  <2> HIDE DEF M
  <2> QED BY <1>1, <1>2 DEF AllocatedSegment, Allocated
<1>4. AllocateSegment(M) = A
  <2> DEFINE U == IF links.first[FreeList] # NoSegment THEN RemoveNode(links, FreeList, s)
                  ELSE links
  <2>1. T = [U EXCEPT !.next[s] = NoSegment, !.previous[s] = NoSegment]
    BY DEF Taken
  <2>2. SizeTaken = IF links.first[FreeList] # NoSegment THEN size ELSE size + 1
    BY <1>1 DEF SizeTaken
  <2> HIDE DEF s, T, M
  <2> QED BY <1>2, <1>3, <2>1, <2>2 DEF AllocateSegment, SetSegment, NewHeader, s
<1>5. A = State(T, hd2, current, SizeTaken, cp, st2)
  <2> HIDE DEF T, g
  <2> QED BY SegmentSet DEF g
<1> QED BY <1>3, <1>4, <1>5 DEF M

\* The lists once a further segment of thread t is allocated.
TakenBy(t) == AddNode(Taken(Allocated), current[t], Allocated)

LEMMA StateCreated ==
  ASSUME ListsKept, CanAllocate, NEW t \in Threads, NEW hd \in [Segments -> HeaderType], NEW cp,
         NEW st, NEW hd2, NEW st2,
         Puts(hd, hd2, Allocated, NewHeader(current[t], 0)), Puts(st, st2, Allocated, <<>>)
  PROVE  CreateNewSegment(State(links, hd, current, size, cp, st), t) =
           State(TakenBy(t), hd2, current, SizeTaken, cp, st2)
<1> DEFINE M == State(links, hd, current, size, cp, st)
           s == Allocated
           T == Taken(s)
           u == current[t]
           hd1 == [hd EXCEPT ![s] = NewHeader(NoSegment, 0)]
           A == AllocateSegment(M)
           B == [A EXCEPT !.header[s].threadData = u]
           g == [NewHeader(NoSegment, 0) EXCEPT !.threadData = u]
<1>1. s \in Segments
  BY Allocation
<1>2. AllocatedSegment(M) = s /\ A = State(T, hd1, current, SizeTaken, cp, st2)
  <2>1. Puts(hd, hd1, Allocated, NewHeader(NoSegment, 0))
    BY DEF Puts
  <2> HIDE DEF hd1
  <2> QED BY <2>1, StateAllocated
<1>3. M.current = current
  BY DEF State
<1>4. CreateNewSegment(M, t) = [B EXCEPT !.links = AddNode(@, u, s)]
  <2> HIDE DEF M
  <2> QED BY <1>2, <1>3 DEF CreateNewSegment
<1>5. g = NewHeader(u, 0)
  BY DEF NewHeader
<1>6. hd1[s] = NewHeader(NoSegment, 0)
  BY <1>1
<1>7. hd2 = [hd1 EXCEPT ![s] = g]
  <2>1. hd2 = [hd EXCEPT ![s] = g]
    BY <1>5 DEF Puts
  <2> HIDE DEF g
  <2> QED BY <2>1
<1> HIDE DEF A, T, s, hd1, u
<1>8. B = State(T, [hd1 EXCEPT ![s] = [hd1[s] EXCEPT !.threadData = u]], current, SizeTaken, cp,
                st2)
  BY <1>2 DEF State
<1>9. [hd1[s] EXCEPT !.threadData = u] = g
  BY <1>6
<1> HIDE DEF B, g
<1>10. B = State(T, hd2, current, SizeTaken, cp, st2)
  BY <1>7, <1>8, <1>9
<1>11. [B EXCEPT !.links = AddNode(@, u, s)] =
         State(AddNode(T, u, s), hd2, current, SizeTaken, cp, st2)
  BY <1>10 DEF State
<1> QED BY <1>4, <1>11 DEF T, s, u, M, TakenBy

\* What a step that continues on a new segment, x, does to the memory: segment s
\* of thread t has header hs and words ws then, x has header hn and words wn.
NewSegment(t, s, hs, ws, x, hn, wn) ==
  /\ x = Allocated /\ links' = TakenBy(t)
  /\ current' = current /\ size' = SizeTaken /\ cpointer' = cpointer
  /\ header' \in [Segments -> HeaderType] /\ stack' \in [Segments -> Seq(WordType)]
  /\ header'[s] = hs /\ header'[x] = hn /\ stack'[s] = ws /\ stack'[x] = wn
  /\ \A y \in Segments \ {s, x} : header'[y] = header[y] /\ stack'[y] = stack[y]

LEMMA SegmentCreated ==
  ASSUME ListsKept, CanAllocate, TypesKept, NEW t \in Threads, NEW s \in Segments, NEW x,
         x = Allocated, s # x, NEW h \in HeaderType, NEW hd2, Puts(header, hd2, s, h),
         NEW a \in 0 .. SegmentWords, NEW d \in 0 .. SegmentWords,
         NEW wn \in Seq(WordType), NEW ws \in Seq(WordType),
         SetMemory(SetSegments(CreateNewSegment(State(links, hd2, current, size, cpointer, stack), t),
                               x, a, wn, s, d, ws))
  PROVE  NewSegment(t, s, SavedHeader(h, d, h.framePointer), ws, x, NewHeader(current[t], a), wn)
<1> DEFINE hs == SavedHeader(h, d, h.framePointer)
           hn == NewHeader(current[t], a)
           g == NewHeader(current[t], 0)
           hd3 == [hd2 EXCEPT ![x] = g]
           hd4 == [hd3 EXCEPT ![x].stackPointer = a]
           hd5 == [hd4 EXCEPT ![s].stackPointer = d]
           st3 == [stack EXCEPT ![x] = <<>>]
           st4 == [st3 EXCEPT ![x] = wn]
           st5 == [st4 EXCEPT ![s] = ws]
           L == TakenBy(t)
           M == CreateNewSegment(State(links, hd2, current, size, cpointer, stack), t)
<1>1. header \in [Segments -> HeaderType] /\ stack \in [Segments -> Seq(WordType)]
  BY DEF TypesKept, StackType
<1>2. /\ x \in Segments /\ current[t] \in Pointers
      /\ hd2 \in [Segments -> HeaderType] /\ hd2[s] = h
      /\ \A y \in Segments \ {s} : hd2[y] = header[y]
  BY <1>1, Allocation, ListFacts DEF Puts
<1>3. M = State(L, hd3, current, SizeTaken, cpointer, st3)
  <2>1. Puts(hd2, hd3, Allocated, NewHeader(current[t], 0)) /\ Puts(stack, st3, Allocated, <<>>)
    BY DEF Puts
  <2> HIDE DEF hd3, st3
  <2> QED BY <1>2, <2>1, StateCreated
<1>4. SetSegments(M, x, a, wn, s, d, ws) = State(L, hd5, current, SizeTaken, cpointer, st5)
  <2>1. /\ Points(hd3, hd4, x, a) /\ Points(hd4, hd5, s, d)
        /\ Puts(st3, st4, x, wn) /\ Puts(st4, st5, s, ws)
    BY DEF Points, Puts
  <2> HIDE DEF hd3, hd4, hd5, st3, st4, st5, L, M
  <2> QED BY <1>3, <2>1, SegmentsSet
<1>5. /\ links' = L /\ current' = current /\ size' = SizeTaken /\ cpointer' = cpointer
      /\ header' = hd5 /\ stack' = st5
  <2> HIDE DEF hd5, st5, L
  <2>1. SetMemory(State(L, hd5, current, SizeTaken, cpointer, st5))
    BY <1>4
  <2> QED BY <2>1, StateSet
<1>6. g \in HeaderType /\ hn \in HeaderType /\ [g EXCEPT !.stackPointer = a] = hn
  <2>1. NullFrame \in Pointers \X Nat /\ 0 \in 0 .. SegmentWords
    BY Constants DEF NullFrame
  <2>2. [g EXCEPT !.stackPointer = a] = hn
    BY DEF NewHeader
  <2> DEFINE u == current[t]
  <2> HIDE DEF u
  <2>3. g \in HeaderType /\ hn \in HeaderType
    BY <1>2, <2>1 DEF NewHeader, HeaderType, u
  <2> QED BY <2>2, <2>3
<1>7. hs \in HeaderType /\ [h EXCEPT !.stackPointer = d] = hs
  <2>1. h.threadData \in Pointers /\ h.framePointer \in Pointers \X Nat
    BY DEF HeaderType
  <2>2. hs \in HeaderType
    BY <2>1 DEF SavedHeader, HeaderType
  <2> QED BY <2>2, StackPointerSet
<1> HIDE DEF hs, hn, g
<1>8. /\ hd3 \in [Segments -> HeaderType] /\ hd3[x] = g /\ hd3[s] = h
      /\ \A y \in Segments \ {s, x} : hd3[y] = header[y]
  BY <1>2, <1>6
<1> HIDE DEF hd3
<1>9. /\ hd4 \in [Segments -> HeaderType] /\ hd4[x] = hn /\ hd4[s] = h
      /\ \A y \in Segments \ {s, x} : hd4[y] = header[y]
  BY <1>2, <1>6, <1>8
<1> HIDE DEF hd4
<1>10. /\ hd5 \in [Segments -> HeaderType] /\ hd5[x] = hn /\ hd5[s] = hs
       /\ \A y \in Segments \ {s, x} : hd5[y] = header[y]
  BY <1>2, <1>7, <1>9
<1> HIDE DEF hd5
<1>11. /\ st3 \in [Segments -> Seq(WordType)] /\ \A y \in Segments \ {x} : st3[y] = stack[y]
  <2> DEFINE z == <<>>
  <2>1. z \in Seq(WordType) /\ st3 = [stack EXCEPT ![x] = z]
    OBVIOUS
  <2> HIDE DEF z, st3
  <2> QED BY <1>1, <1>2, <2>1
<1> HIDE DEF st3
<1>12. /\ st5 \in [Segments -> Seq(WordType)] /\ st5[s] = ws /\ st5[x] = wn
       /\ \A y \in Segments \ {s, x} : st5[y] = stack[y]
  BY <1>2, <1>11
<1> HIDE DEF st5
<1> QED BY <1>5, <1>10, <1>12 DEF NewSegment, L, hs, hn

\* The words that a message's segment is left with: those of its sender, the
\* return address and the frame pointer.
WordsLeft(v, w, d, word, f) ==
  /\ w \in Seq(WordType) /\ Len(w) = d + 2 /\ \A i \in 1 .. d : w[i] = v[i]
  /\ w[d + 1] = word /\ w[d + 2] = Frame(f)

\* The words of the new segment before the trap returns from it: the message,
\* the trap's return address, that of the prologue, and the frame pointer.
WordsCopied(W, n, a) ==
  /\ W \in Seq(WordType) /\ Len(W) = n + 4
  /\ W[n + 2] = PopTrap /\ W[n + 3] = Resume(a) /\ W[n + 4] = Frame(NullFrame)

\* The words from a place to the end, as a sequence of their own.
LEMMA Copied ==
  ASSUME NEW A, NEW W \in Seq(A), NEW d \in Nat, NEW n \in Nat, Len(W) = d + n + 3,
         NEW lo, lo = d + 1, NEW hi, hi = d + n + 3, NEW C, C = SubSeq(W, lo, hi)
  PROVE  C \in Seq(A) /\ Len(C) = n + 3 /\ C[n + 3] = W[d + n + 3]
<1>1. /\ lo \in Int /\ hi \in Int /\ lo <= hi /\ hi - lo + 1 = n + 3
      /\ n + 3 \in 1 .. n + 3 /\ lo + (n + 3) - 1 = d + n + 3
  OBVIOUS
<1>2. \A i \in lo .. hi : W[i] \in A
  OBVIOUS
<1>3. /\ C \in Seq(A) /\ Len(C) = hi - lo + 1
      /\ \A i \in 1 .. hi - lo + 1 : C[i] = W[lo + i - 1]
  BY <1>1, <1>2, Middle
<1> QED BY <1>1, <1>3

\* The two ends of the words W, v and the trap's return address.
LEMMA WordsSplit ==
  ASSUME NEW v \in Seq(WordType), NEW d \in Nat, NEW n \in Nat, Len(v) = d + n + 2,
         NEW a \in Nat, NEW f \in Pointers \X Nat, NEW W \in Seq(WordType),
         Len(W) = d + n + 3, W[d + n + 3] = Resume(a), \A i \in 1 .. d + n + 2 : W[i] = v[i]
  PROVE  /\ WordsCopied(Append([SubSeq(W, d + 1, d + n + 3) EXCEPT ![n + 2] = PopTrap],
                               Frame(NullFrame)), n, a)
         /\ WordsLeft(v, SubSeq([W EXCEPT ![d + 2] = Frame(f), ![d + 1] = W[d + n + 2]], 1, d + 2),
                      d, v[d + n + 2], f)
<1>1. /\ W \in Seq(WordType) /\ Len(W) = d + n + 3 /\ W[d + n + 3] = Resume(a)
      /\ \A i \in 1 .. d + n + 2 : W[i] = v[i]
  OBVIOUS
<1>2. /\ Frame(f) \in WordType /\ PopTrap \in WordType /\ Frame(NullFrame) \in WordType
      /\ W[d + n + 2] = v[d + n + 2] /\ W[d + n + 2] \in WordType
  <2>1. NullFrame \in Pointers \X Nat
    BY Constants DEF NullFrame
  <2>2. Frame(f) \in WordType /\ PopTrap \in WordType /\ Frame(NullFrame) \in WordType
    BY <2>1, WordsTyped
  <2> DEFINE e == d + n + 2
  <2>3. e \in 1 .. d + n + 2 /\ e \in 1 .. d + n + 3
    OBVIOUS
  <2> HIDE DEF e
  <2>4. W[e] = v[e] /\ W[e] \in WordType
    BY <2>3
  <2> QED BY <2>2, <2>4 DEF e
<1> DEFINE C == SubSeq(W, d + 1, d + n + 3)
           D == [C EXCEPT ![n + 2] = PopTrap]
<1>3. C \in Seq(WordType) /\ Len(C) = n + 3 /\ C[n + 3] = Resume(a)
  <2> DEFINE lo == d + 1
             hi == d + n + 3
  <2>1. lo = d + 1 /\ hi = d + n + 3 /\ C = SubSeq(W, lo, hi)
    OBVIOUS
  <2> HIDE DEF C, lo, hi
  <2>2. C \in Seq(WordType) /\ Len(C) = n + 3 /\ C[n + 3] = W[d + n + 3]
    BY <1>1, <2>1, Copied
  <2> QED BY <1>1, <2>2
<1> HIDE DEF C
<1>4. D \in Seq(WordType) /\ Len(D) = n + 3 /\ D[n + 2] = PopTrap /\ D[n + 3] = Resume(a)
  BY SMTT(20), <1>2, <1>3
<1> HIDE DEF D
<1>5. WordsCopied(Append(D, Frame(NullFrame)), n, a)
  <2> DEFINE x == Frame(NullFrame)
  <2>1. Append(D, x) \in Seq(WordType) /\ Longer(D, Append(D, x), x)
    <3> HIDE DEF x
    <3> QED BY <1>2, <1>4, Lengthened DEF x
  <2>2. n + 3 + 1 = n + 4 /\ n + 2 \in 1 .. n + 3 /\ n + 3 \in 1 .. n + 3
    OBVIOUS
  <2> QED BY <1>4, <2>1, <2>2 DEF Longer, WordsCopied
<1> DEFINE y == W[d + n + 2]
           E == [W EXCEPT ![d + 2] = Frame(f)]
           F == [E EXCEPT ![d + 1] = y]
           w == SubSeq(F, 1, d + 2)
<1>6. E \in Seq(WordType) /\ Len(E) = d + n + 3 /\ E[d + 2] = Frame(f)
      /\ \A i \in 1 .. d : E[i] = v[i]
  <2> DEFINE x == Frame(f)
             e == d + 2
             l == d + n + 3
  <2>1. W \in Seq(WordType) /\ Len(W) = l /\ x \in WordType
    BY <1>1, <1>2
  <2>2. e \in 1 .. l /\ \A i \in 1 .. d : i \in 1 .. l /\ i \in 1 .. d + n + 2 /\ i # e
    OBVIOUS
  <2>3. \A i \in 1 .. d : W[i] = v[i]
    BY <1>1, <2>2
  <2>4. E = [W EXCEPT ![e] = x]
    OBVIOUS
  <2> HIDE DEF E, x, e, l
  <2>5. E \in Seq(WordType) /\ Len(E) = l /\ E[e] = x
    BY <2>1, <2>2, <2>4
  <2>6. \A i \in 1 .. l : i # e => E[i] = W[i]
    <3>1. DOMAIN W = 1 .. l
      BY <2>1
    <3> QED BY <2>4, <3>1
  <2> QED BY <2>2, <2>3, <2>5, <2>6 DEF e, x, l
<1> HIDE DEF E, y
<1>7. F \in Seq(WordType) /\ Len(F) = d + n + 3 /\ F[d + 2] = Frame(f) /\ F[d + 1] = y
      /\ \A i \in 1 .. d : F[i] = v[i]
  BY <1>2, <1>6 DEF y
<1> HIDE DEF F
<1>8. WordsLeft(v, w, d, y, f)
  <2>1. d + 2 \in 0 .. Len(F) /\ d + 1 \in 1 .. d + 2 /\ d + 2 \in 1 .. d + 2
        /\ \A i \in 1 .. d : i \in 1 .. d + 2
    BY SMTT(20), <1>7
  <2>2. w \in Seq(WordType) /\ Len(w) = d + 2 /\ \A i \in 1 .. d + 2 : w[i] = F[i]
    <3> DEFINE e == d + 2
    <3> HIDE DEF e
    <3>1. SubSeq(F, 1, e) \in Seq(WordType) /\ Len(SubSeq(F, 1, e)) = e
          /\ \A i \in 1 .. e : SubSeq(F, 1, e)[i] = F[i]
      BY <1>7, <2>1, Prefix DEF e
    <3> QED BY <3>1 DEF e
  <2> HIDE DEF w
  <2> QED BY <1>7, <2>1, <2>2 DEF WordsLeft
<1> QED BY <1>2, <1>5, <1>8 DEF D, C, E, F, y

LEMMA WordsMoved ==
  ASSUME NEW v \in Seq(WordType), NEW d \in Nat, NEW n \in Nat, Len(v) = d + n + 2,
         NEW a \in Nat, NEW f \in Pointers \X Nat, NEW W, W = Append(v, Resume(a))
  PROVE  /\ WordsCopied(Append([SubSeq(W, d + 1, d + n + 3) EXCEPT ![n + 2] = PopTrap],
                               Frame(NullFrame)), n, a)
         /\ WordsLeft(v, SubSeq([W EXCEPT ![d + 2] = Frame(f), ![d + 1] = W[d + n + 2]], 1, d + 2),
                      d, v[d + n + 2], f)
<1>1. /\ W \in Seq(WordType) /\ Len(W) = d + n + 3 /\ W[d + n + 3] = Resume(a)
      /\ \A i \in 1 .. d + n + 2 : W[i] = v[i]
  <2>1. Resume(a) \in WordType
    BY Constants, WordsTyped
  <2> DEFINE x == Resume(a)
  <2> HIDE DEF x
  <2>2. Append(v, x) \in Seq(WordType) /\ Longer(v, Append(v, x), x)
    BY <2>1, Lengthened DEF x
  <2>3. d + n + 2 + 1 = d + n + 3
    OBVIOUS
  <2> QED BY <2>2, <2>3 DEF Longer, x
<1> QED BY ZenonT(40), <1>1, WordsSplit

\* q2 are the segments of q and one more, x, with the copied message; S, the
\* sender's end of the one before, s, is kept.
SegmentMore(q, hd, cp, st, q2, hd2, cp2, st2, s, x, S, n) ==
  /\ Distinct(q2) /\ Len(q2) = Len(q) + 1 /\ q2[Len(q2)] = x
  /\ \A y \in 1 .. Len(q) : q2[y] = q[y] /\ q[y] # x
  /\ \A y \in Segments \ {s, x} : hd2[y] = hd[y] /\ st2[y] = st[y]
  /\ cp2 = cp /\ st2 \in StackType
  /\ hd2[s].threadData = hd[s].threadData /\ hd2[s].stackPointer = S.depth + 2
  /\ WordsLeft(st[s], st2[s], S.depth, S.word, S.fp)
  /\ hd2[x].threadData = hd[s].threadData
  /\ Len(st2[x]) = n + 2 /\ st2[x][n + 2] = PopTrap

LEMMA SegmentEntered ==
  ASSUME NEW q, NEW hd, NEW cp, NEW st, NEW cs, NEW r, NEW c, NEW q2, NEW hd2, NEW cp2, NEW st2,
         NEW cs2, NEW r2, NEW k \in Nat, NEW m \in Nat, NEW b \in Nat, NEW s, NEW x, NEW S, NEW n,
         Typed(q, hd, cp, st, cs, r, c), OnTop(q, s), Nesting(cs, c, k, m),
         Base(q, hd, cp, st, cs, k, b), Frames(q, hd, st, c, k, b, m - 1),
         AtEntry(q, st, r, c, k, b, m), S = Caller(q, c, k, b, m), n = c[m].arguments,
         SegmentMore(q, hd, cp, st, q2, hd2, cp2, st2, s, x, S, n), SwitchKept(cs, cs2, k),
         r2 = InSmalltalk("checked", m, x, NullFrame, 0)
  PROVE  ThreadKept(q2, hd2, cp2, st2, cs2, r2, c)
<1> DEFINE N == Len(q)
           d == S.depth
           l == m - 1
<1>1. /\ Distinct(q) /\ q # <<>> /\ st \in StackType /\ c \in Seq(CallType)
      /\ N \in Nat \ {0} /\ N \in 1 .. N /\ 1 \in 1 .. N /\ s = q[N] /\ s \in Segments
  <2>1. Distinct(q) /\ q # <<>> /\ st \in StackType /\ c \in Seq(CallType) /\ s = q[N]
    BY DEF Typed, OnTop
  <2>2. N \in Nat \ {0} /\ N \in 1 .. N /\ 1 \in 1 .. N
    BY <2>1 DEF Distinct
  <2> QED BY <2>1, <2>2 DEF Distinct
<1>2. /\ m > k /\ m = Len(c) /\ ~c[m].sent /\ S.seg = s /\ l \in Nat /\ l + 1 = m
      /\ k <= l /\ l <= Len(c) /\ b >= ThreadDataWords
  <2>1. m > k /\ m = Len(c) /\ ~c[m].sent /\ S.seg = s
    BY <1>1 DEF AtEntry, Direct
  <2> QED BY <2>1 DEF Base
<1>3. CallerPlaced(q, c, k, l, S)
  <2>1. Frames(q, hd, st, c, k, b, l) /\ S = Caller(q, c, k, b, l + 1)
    BY <1>2
  <2> HIDE DEF l
  <2> QED BY <1>1, <1>2, <2>1, UnderCaller
<1>4. d \in Nat /\ (s = q[1] => d >= ThreadDataWords) /\ ThreadDataWords \in Nat
  BY <1>2, <1>3, Constants DEF CallerPlaced
<1>5. /\ Distinct(q2) /\ Len(q2) = N + 1 /\ q2[N + 1] = x /\ \A y \in 1 .. N : q2[y] = q[y]
      /\ N \in 1 .. Len(q2) /\ q2[1] = q[1] /\ q2 # <<>> /\ q2[Len(q2)] = x
  <2>1. Distinct(q2) /\ Len(q2) = N + 1 /\ q2[Len(q2)] = x /\ \A y \in 1 .. N : q2[y] = q[y]
    BY DEF SegmentMore
  <2> HIDE DEF N
  <2>2. N \in 1 .. N + 1 /\ Len(q2) # 0
    BY <1>1, <2>1
  <2> QED BY <1>1, <2>1, <2>2
<1>6. \A y \in 1 .. N : q[y] \in Segments /\ q[y] # x /\ (y # N => q[y] # s)
  <2>1. \A y \in 1 .. Len(q) : q[y] # x
    BY DEF SegmentMore
  <2> QED BY <1>1, <2>1 DEF Distinct
<1>7. /\ Len(st2[s]) = d + 2 /\ \A i \in 1 .. d : st2[s][i] = st[s][i]
      /\ st2[s][d + 1] = S.word /\ st2[s][d + 2] = Frame(S.fp)
      /\ hd2[s].stackPointer = d + 2 /\ hd2[s].threadData = hd[s].threadData
  BY DEF SegmentMore, WordsLeft
<1> HIDE DEF N, d, l
<1>8. Retained(q, hd, st, q2, hd2, st2, N, d)
  <2>1. \A y \in 1 .. N : y # N => st2[q[y]] = st[q[y]] /\ hd2[q[y]] = hd[q[y]]
    BY <1>6 DEF SegmentMore
  <2>2. d <= Len(st2[q[N]]) /\ \A j \in 1 .. d : st2[q[N]][j] = st[q[N]][j]
    BY <1>1, <1>4, <1>7
  <2> QED BY <1>1, <1>4, <1>5, <2>1, <2>2 DEF Retained, N
<1>9. Frames(q2, hd2, st2, c, k, b, l)
  <2>1. ASSUME NEW i \in k + 1 .. l, NEW y \in 1 .. Len(q), q[y] = c[i].seg
        PROVE  y <= N /\ (y = N => c[i].depth <= d)
    BY <1>1, <1>2, <1>3, <2>1 DEF CallerPlaced, d, N
  <2>2. \A i \in k + 1 .. l : SameCall(c, c, i)
    BY DEF SameCall
  <2>3. st2 \in StackType /\ Frames(q, hd, st, c, k, b, l)
    BY DEF SegmentMore, l
  <2> QED BY <1>1, <1>2, <1>5, <1>8, <2>1, <2>2, <2>3, FramesSame
<1>10. Caller(q2, c, k, b, m) = S
  <2>1. SameCall(c, c, m - 1)
    BY DEF SameCall
  <2> QED BY <1>2, <1>5, <2>1, CallerSame
<1>11. Base(q2, hd2, cp2, st2, cs2, k, b)
  <2>1. cp2 = cp /\ cs2[k + 1] = cs[k + 1] /\ Len(cs2) > k
    BY DEF SwitchKept, SegmentMore
  <2>2. hd[s].threadData = q[1]
    BY <1>1 DEF Base, N
  <2>3. ASSUME NEW y \in 1 .. Len(q2) PROVE hd2[q2[y]].threadData = q2[1]
    <3>1. CASE y = N + 1
      BY <1>5, <2>2, <3>1 DEF SegmentMore
    <3>2. CASE y = N
      BY <1>1, <1>5, <1>7, <2>2, <3>2
    <3>3. CASE y # N /\ y # N + 1
      <4>1. y \in 1 .. N
        BY <1>1, <1>5, <3>3
      <4>2. hd2[q[y]] = hd[q[y]]
        BY <1>6, <3>3, <4>1 DEF SegmentMore
      <4> QED BY <1>5, <4>1, <4>2 DEF Base, N
    <3> QED BY <3>1, <3>2, <3>3
  <2>4. /\ Len(st2[q[1]]) >= ThreadDataWords
        /\ \A i \in 1 .. ThreadDataWords : st2[q[1]][i] = Word("threadData", 0, 0)
    <3>1. CASE q[1] = s
      <4>1. \A i \in 1 .. ThreadDataWords : i \in 1 .. d
        BY <1>4, <3>1
      <4>2. d + 2 >= ThreadDataWords
        BY <1>4, <3>1
      <4> QED BY <1>7, <3>1, <4>1, <4>2 DEF Base
    <3>2. CASE q[1] # s
      <4>1. st2[q[1]] = st[q[1]]
        BY <1>1, <1>6, <3>2 DEF SegmentMore
      <4> QED BY <4>1 DEF Base
    <3> QED BY <3>1, <3>2
  <2> QED BY <1>5, <2>1, <2>3, <2>4 DEF Base
<1>12. Nesting(cs2, c, k, m)
  BY DEF Nesting, SwitchKept
<1>13. Waits(q2, hd2, st2, S, x)
  <2>1. N + 1 \in 2 .. Len(q2) /\ N + 1 - 1 = N
    BY <1>1, <1>5
  <2> DEFINE y == N + 1
  <2>2. q2[y - 1] = S.seg /\ q2[y] = x /\ y \in 2 .. Len(q2)
    BY <1>1, <1>2, <1>5, <2>1
  <2> HIDE DEF y
  <2>3. /\ hd2[S.seg].stackPointer = S.depth + 2 /\ Len(st2[S.seg]) = S.depth + 2
        /\ st2[S.seg][S.depth + 1] = S.word /\ st2[S.seg][S.depth + 2] = Frame(S.fp)
    BY <1>2, <1>7 DEF d
  <2> QED BY <2>2, <2>3 DEF Waits
<1>14. AfterCheck(q2, hd2, st2, r2, c, k, b, m)
  <2>1. r2 = InSmalltalk("checked", m, x, NullFrame, r2.rax)
    BY DEF InSmalltalk
  <2>2. Len(st2[x]) = n + 2 /\ st2[x][n + 2] = PopTrap
    BY DEF SegmentMore
  <2>3. Moved(q2, hd2, st2, S, n, x, Len(st2[x]))
    <3>1. Len(st2[x]) <= Len(st2[x])
      <4>1. x \in Segments
        BY <1>1, <1>5 DEF Distinct
      <4>2. st2[x] \in Seq(WordType)
        BY <4>1 DEF SegmentMore, StackType
      <4>3. Len(st2[x]) \in Nat
        BY <4>2
      <4> QED BY <4>3
    <3> QED BY <1>13, <2>2, <3>1 DEF Moved
  <2> QED BY <1>2, <1>5, <1>10, <2>1, <2>3 DEF AfterCheck
<1>15. Runs(q2, hd2, st2, cs2, r2, c, k, m, b)
  BY <1>9, <1>14 DEF Runs, l
<1> QED BY <1>5, <1>11, <1>12, <1>15 DEF Inside, ThreadKept

LEMMA Lengthens ==
  ASSUME NEW q, NEW q2, NEW x \in Segments, Distinct(q), q2 = Append(q, x),
         \A y \in 1 .. Len(q) : q[y] # x
  PROVE  /\ Distinct(q2) /\ Len(q2) = Len(q) + 1 /\ q2[Len(q2)] = x
         /\ \A y \in 1 .. Len(q) : q2[y] = q[y]
<1>1. q \in Seq(Segments) /\ \A i, j \in 1 .. Len(q) : q[i] = q[j] => i = j
  BY DEF Distinct
<1>2. q2 \in Seq(Segments) /\ Longer(q, q2, x)
  <2>1. Append(q, x) \in Seq(Segments) /\ Longer(q, Append(q, x), x)
    BY <1>1, Lengthened
  <2> QED BY <2>1
<1>3. /\ Len(q) \in Nat /\ Len(q2) = Len(q) + 1 /\ q2[Len(q) + 1] = x
      /\ \A y \in 1 .. Len(q) : q2[y] = q[y]
  BY <1>1, <1>2 DEF Longer
<1>4. ASSUME NEW i \in 1 .. Len(q2), NEW j \in 1 .. Len(q2), q2[i] = q2[j] PROVE i = j
  <2>1. i \in 1 .. Len(q) \/ i = Len(q) + 1
    BY <1>3
  <2>2. j \in 1 .. Len(q) \/ j = Len(q) + 1
    BY <1>3
  <2> QED BY <1>1, <1>3, <1>4, <2>1, <2>2
<1>5. Distinct(q2)
  BY SMTT(20), <1>2, <1>4 DEF Distinct
<1> QED BY <1>3, <1>5

\* What the trap does, with the words W of its message's segment s at depth z,
\* y of which are copied, state D once it has saved the registers and M once it
\* has the new segment x.
TrapCopies(t, s, W, z, y, D, M, x) ==
  LET e  == z - (y - 2)
      mv == Append([SubSeq(W, z - y + 1, z) EXCEPT ![y - 1] = PopTrap],
                   Frame(M.header[x].framePointer))
      ol == [W EXCEPT ![e] = Frame(M.header[s].framePointer), ![e - 1] = W[z - 1]] IN
  /\ SetMemory(SetSegments(M, x, Len(mv), SubSeq(mv, 1, y - 1), s, e, SubSeq(ol, 1, e)))
  /\ cstack' = [cstack EXCEPT ![t] = OnCStack(D, t, s)]
  /\ cpu' = [cpu EXCEPT ![t] = ReturnToSender(mv, x, Len(mv), 0)]
  /\ calls' = calls

LEMMA TrapTaken ==
  ASSUME NEW t, StackLimitTrap(t)
  PROVE  LET s == cpu[t].seg
             W == Append(stack[s], Resume(cpu[t].act))
             D == SaveSmalltalk(Memory, s, Len(W), cpu[t].fp) IN
         /\ cpu[t].mode = "Smalltalk" /\ cpu[t].at = "entry" /\ CanAllocate
         /\ TrapCopies(t, s, W, Len(W), calls[t][Len(calls[t])].arguments + 3, D,
                       CreateNewSegment(D, t), AllocatedSegment(D))
BY Zenon DEF StackLimitTrap, TrapCopies, SetSegments, Upto, Top

\* What it leaves in the two segments, and where control goes on.
TrapDone(t, s, D, M, x, n, d, a, wn, ws) ==
  /\ SetMemory(SetSegments(M, x, n + 4, wn, s, d + 2, ws))
  /\ cstack' = [cstack EXCEPT ![t] = OnCStack(D, t, s)]
  /\ cpu' = [cpu EXCEPT ![t] = InSmalltalk("checked", a, x, NullFrame, 0)]
  /\ calls' = calls

LEMMA PrologueResumed ==
  ASSUME NEW W, NEW n \in Nat, NEW a, NEW x,
         W[n + 3] = Resume(a), W[n + 4] = Frame(NullFrame)
  PROVE  ReturnToSender(W, x, n + 4, 0) = InSmalltalk("checked", a, x, NullFrame, 0)
<1>1. n + 4 - 1 = n + 3
  OBVIOUS
<1>2. FrameAt(W, n + 4) = NullFrame
  <2>1. NullFrame \in Pointers \X Nat
    BY Constants DEF NullFrame
  <2> QED BY <2>1, FrameRead DEF FrameAt
<1>3. ReturnToSender(W, x, n + 4, 0) = Land(Resume(a), x, NullFrame, 0)
  BY <1>1, <1>2 DEF ReturnToSender
<1> QED BY <1>3 DEF Land, Resume, Word

LEMMA TrapMoves ==
  ASSUME NEW v \in Seq(WordType), NEW d \in Nat, NEW n \in Nat, Len(v) = d + n + 2,
         NEW a \in Nat, NEW f \in Pointers \X Nat, NEW W, W = Append(v, Resume(a)),
         NEW t, NEW s, NEW D, NEW M, NEW x,
         M.header[x].framePointer = NullFrame, M.header[s].framePointer = f,
         TrapCopies(t, s, W, Len(W), n + 3, D, M, x)
  PROVE  \E wn, ws \in Seq(WordType) :
           /\ Len(wn) = n + 2 /\ wn[n + 2] = PopTrap
           /\ WordsLeft(v, ws, d, v[d + n + 2], f)
           /\ TrapDone(t, s, D, M, x, n, d, a, wn, ws)
<1> DEFINE mv == Append([SubSeq(W, d + 1, d + n + 3) EXCEPT ![n + 2] = PopTrap], Frame(NullFrame))
           ws == SubSeq([W EXCEPT ![d + 2] = Frame(f), ![d + 1] = W[d + n + 2]], 1, d + 2)
           wn == SubSeq(mv, 1, n + 2)
<1>1. Len(W) = d + n + 3
  <2>1. Resume(a) \in WordType
    BY Constants, WordsTyped
  <2> DEFINE x1 == Resume(a)
  <2> HIDE DEF x1
  <2>2. Longer(v, Append(v, x1), x1)
    BY <2>1, Lengthened DEF x1
  <2>3. Len(Append(v, x1)) = Len(v) + 1
    BY <2>2 DEF Longer
  <2>4. d + n + 2 + 1 = d + n + 3
    OBVIOUS
  <2> QED BY <2>3, <2>4 DEF x1
<1>2. WordsCopied(mv, n, a) /\ WordsLeft(v, ws, d, v[d + n + 2], f)
  BY WordsMoved
<1>3. /\ SetMemory(SetSegments(M, x, Len(mv), SubSeq(mv, 1, n + 2), s, d + 2, ws))
      /\ cstack' = [cstack EXCEPT ![t] = OnCStack(D, t, s)]
      /\ cpu' = [cpu EXCEPT ![t] = ReturnToSender(mv, x, Len(mv), 0)]
      /\ calls' = calls
  <2> DEFINE z == Len(W)
             y == n + 3
             e == z - (y - 2)
             i == z - y + 1
             j == y - 1
             u == e - 1
             w == z - 1
             mv1 == Append([SubSeq(W, i, z) EXCEPT ![j] = PopTrap], Frame(M.header[x].framePointer))
             ol1 == [W EXCEPT ![e] = Frame(M.header[s].framePointer), ![u] = W[w]]
  <2>1. /\ SetMemory(SetSegments(M, x, Len(mv1), SubSeq(mv1, 1, j), s, e, SubSeq(ol1, 1, e)))
        /\ cstack' = [cstack EXCEPT ![t] = OnCStack(D, t, s)]
        /\ cpu' = [cpu EXCEPT ![t] = ReturnToSender(mv1, x, Len(mv1), 0)]
        /\ calls' = calls
    BY DEF TrapCopies
  <2>2. e = d + 2 /\ i = d + 1 /\ j = n + 2 /\ u = d + 1 /\ w = d + n + 2 /\ z = d + n + 3
    BY <1>1
  <2> HIDE DEF e, i, j, u, w, z
  <2>3. mv1 = mv /\ SubSeq(ol1, 1, e) = ws
    BY <2>2
  <2> HIDE DEF mv, mv1, ol1, ws
  <2> QED BY <2>1, <2>2, <2>3
<1> HIDE DEF mv, ws
<1>4. /\ mv \in Seq(WordType) /\ Len(mv) = n + 4
      /\ mv[n + 2] = PopTrap /\ mv[n + 3] = Resume(a) /\ mv[n + 4] = Frame(NullFrame)
  BY <1>2 DEF WordsCopied
<1>5. wn \in Seq(WordType) /\ Len(wn) = n + 2 /\ wn[n + 2] = PopTrap
  <2> DEFINE e == n + 2
  <2>1. e \in 0 .. Len(mv) /\ e \in 1 .. e
    BY <1>4
  <2> HIDE DEF e
  <2>2. SubSeq(mv, 1, e) \in Seq(WordType) /\ Len(SubSeq(mv, 1, e)) = e
        /\ \A i \in 1 .. e : SubSeq(mv, 1, e)[i] = mv[i]
    BY <1>4, <2>1, Prefix
  <2> QED BY <1>4, <2>1, <2>2 DEF e
<1>6. ReturnToSender(mv, x, n + 4, 0) = InSmalltalk("checked", a, x, NullFrame, 0)
  BY SMTT(20), <1>4, PrologueResumed
<1>7. ws \in Seq(WordType)
  BY <1>2 DEF WordsLeft
<1>8. TrapDone(t, s, D, M, x, n, d, a, wn, ws)
  <2>1. /\ SetMemory(SetSegments(M, x, n + 4, wn, s, d + 2, ws))
        /\ cstack' = [cstack EXCEPT ![t] = OnCStack(D, t, s)]
        /\ cpu' = [cpu EXCEPT ![t] = ReturnToSender(mv, x, n + 4, 0)]
        /\ calls' = calls
    BY <1>3, <1>4
  <2> HIDE DEF wn
  <2> QED BY <1>6, <2>1 DEF TrapDone
<1> HIDE DEF wn
<1> QED BY <1>2, <1>5, <1>7, <1>8

LEMMA KeptByStackLimitTrap ==
  ASSUME IInv, NEW t \in Threads, StackLimitTrap(t), running' = running
  PROVE  IInv' /\ Takes(t)
<1> DEFINE q == Held[t]
           cs == cstack[t]
           c == calls[t]
           s == cpu[t].seg
           f == cpu[t].fp
           v == stack[s]
           W == Append(v, Resume(cpu[t].act))
           D == SaveSmalltalk(Memory, s, Len(W), f)
           M == CreateNewSegment(D, t)
           x == Allocated
<1>1. /\ cpu[t].mode = "Smalltalk" /\ cpu[t].at = "entry" /\ CanAllocate
      /\ TrapCopies(t, s, W, Len(W), c[Len(c)].arguments + 3, D, M, AllocatedSegment(D))
  BY TrapTaken
<1> HIDE DEF W, D, M
<1>2. /\ OnTop(q, s) /\ s \in Segments
      /\ Typed(q, header, cpointer, stack, cs, cpu[t], c)
      /\ ThreadKept(q, header, cpointer, stack, cs, cpu[t], c)
      /\ ListsKept /\ TypesKept /\ current[t] # NoSegment
  <2>1. Held[t] # <<>>
    BY <1>1, SmalltalkFacts DEF OnTop
  <2> QED BY <1>1, <2>1, SmalltalkFacts, ThreadFacts
<1>3. PICK k \in Nat, m \in Nat, b \in Nat :
        /\ Nesting(cs, c, k, m) /\ Base(q, header, cpointer, stack, cs, k, b)
        /\ AtEntry(q, stack, cpu[t], c, k, b, m)
        /\ Frames(q, header, stack, c, k, b, m - 1)
  <2> HIDE DEF q, cs, c
  <2> QED BY <1>1, <1>2, Where DEF OnTop
<1> DEFINE S == Caller(q, c, k, b, m)
           n == c[m].arguments
           d == S.depth
<1>4. /\ m = Len(c) /\ m \in 1 .. Len(c) /\ m <= MaxCalls /\ cpu[t].act = m /\ f = S.fp
      /\ Direct(stack, S, n, s, Len(v)) /\ Fits(Len(v))
  <2>1. AtEntry(q, stack, cpu[t], c, k, b, m) /\ s = q[Len(q)] /\ Nesting(cs, c, k, m)
    BY <1>2, <1>3 DEF OnTop
  <2> HIDE DEF q, c, cs
  <2>2. m = Len(c) /\ cpu[t].act = m /\ Direct(stack, S, n, s, Len(v)) /\ Fits(Len(v))
    BY <2>1 DEF AtEntry, InSmalltalk
  <2>3. f = S.fp
    BY <2>1 DEF AtEntry, InSmalltalk
  <2>4. m > k /\ m <= MaxCalls
    BY <2>1, <2>2 DEF AtEntry, Nesting
  <2> QED BY <2>2, <2>3, <2>4
<1>5. /\ header \in [Segments -> HeaderType] /\ cpointer \in [Segments -> Nat]
      /\ stack \in [Segments -> Seq(WordType)] /\ cs \in Seq(FrameType)
      /\ Distinct(q) /\ v \in Seq(WordType) /\ Len(v) \in Nat
      /\ f \in Pointers \X Nat /\ c \in Seq(CallType) /\ n \in Nat
  <2>1. c \in Seq(CallType)
    BY <1>2 DEF Typed
  <2>2. c[m] \in CallType
    <3> HIDE DEF c
    <3> QED BY <1>4, <2>1
  <2>3. n \in Nat
    <3> HIDE DEF c
    <3> QED BY <2>2 DEF CallType
  <2>4. cpu[t] \in CpuType
    BY <1>2 DEF Typed
  <2> HIDE DEF q, cs, c, n
  <2> QED BY <1>2, <2>1, <2>3, <2>4 DEF Typed, StackType, CpuType
<1>6. /\ k <= m - 1 /\ m - 1 \in Nat /\ m - 1 <= Len(c) /\ m - 1 + 1 = m
  <2>1. m > k
    <3> HIDE DEF q, c
    <3> QED BY <1>3 DEF AtEntry
  <2> HIDE DEF c
  <2> QED BY <1>4, <2>1
<1>7. CallerPlaced(q, c, k, m - 1, S)
  <2> DEFINE l == m - 1
  <2>1. q # <<>> /\ stack \in StackType /\ b >= ThreadDataWords
    BY <1>2, <1>3, <1>5 DEF OnTop, StackType, Base
  <2>2. l \in Nat /\ k <= l /\ l <= Len(c) /\ l + 1 = m
    BY <1>6
  <2> HIDE DEF q, c, l
  <2>3. CallerPlaced(q, c, k, l, Caller(q, c, k, b, l + 1))
    BY <1>3, <1>5, <2>1, <2>2, UnderCaller DEF l
  <2> QED BY <2>2, <2>3 DEF l
<1> HIDE DEF S, n
<1>8. /\ d \in Nat /\ S.seg = s /\ Len(v) = d + n + 2 /\ v[d + n + 2] = S.word
      /\ n + 4 \in 0 .. SegmentWords /\ d + 2 \in 0 .. SegmentWords
      /\ d + n + 3 \in 0 .. SegmentWords
  <2>1. d \in Nat
    <3> HIDE DEF q, c
    <3> QED BY <1>7 DEF CallerPlaced
  <2>2. S.seg = s /\ Len(v) = d + n + 2 /\ v[Len(v)] = S.word
    BY <1>4 DEF Direct
  <2>3. Len(v) + 5 <= SegmentWords /\ SegmentWords \in Nat
    BY <1>4, Constants DEF Fits, Slack
  <2>4. d + n + 2 + 5 <= SegmentWords
    BY <2>2, <2>3
  <2> HIDE DEF d
  <2>5. n + 4 \in 0 .. SegmentWords /\ d + 2 \in 0 .. SegmentWords
        /\ d + n + 3 \in 0 .. SegmentWords
    BY <1>5, <2>1, <2>3, <2>4
  <2> QED BY <2>1, <2>2, <2>5
<1> HIDE DEF d
<1>9. W = Append(v, Resume(m)) /\ Len(W) = d + n + 3
  <2> DEFINE w == Resume(m)
  <2>1. w \in WordType
    BY DEF Resume, Word, WordType
  <2>2. W = Append(v, w)
    BY <1>4 DEF W
  <2> HIDE DEF w, v
  <2>3. Longer(v, Append(v, w), w)
    BY <1>5, <2>1, Lengthened
  <2>4. Len(Append(v, w)) = Len(v) + 1
    BY <2>3 DEF Longer
  <2>5. d + n + 2 + 1 = d + n + 3
    BY <1>5, <1>8
  <2> QED BY <1>8, <2>2, <2>4, <2>5 DEF w
<1> DEFINE e == d + n + 3
           h == SavedHeader(header[s], e, f)
           hd2 == [header EXCEPT ![s] = h]
           cs2 == SubSeq(cs, 1, k + 1)
<1>10. D = State(links, hd2, current, size, cpointer, stack)
  <2>1. Puts(header, hd2, s, SavedHeader(header[s], e, f))
    BY DEF Puts
  <2> HIDE DEF hd2, e, f, s
  <2>2. SaveSmalltalk(State(links, header, current, size, cpointer, stack), s, e, f)
          = State(links, hd2, current, size, cpointer, stack)
    <3>1. header \in [Segments -> HeaderType] /\ s \in Segments
      BY <1>2, <1>5
    <3> QED BY <2>1, <3>1, StateSaved
  <2>3. D = SaveSmalltalk(Memory, s, e, f)
    BY <1>9 DEF D, e
  <2> QED BY <2>2, <2>3, MemoryState
<1>11. /\ h \in HeaderType /\ hd2 \in [Segments -> HeaderType] /\ hd2[s] = h
       /\ h.threadData = header[s].threadData /\ h.framePointer = f
  <2>1. header[s] \in HeaderType /\ e \in 0 .. SegmentWords
    BY <1>2, <1>5, <1>8
  <2> HIDE DEF s, e, f
  <2>2. h \in HeaderType /\ h.threadData = header[s].threadData /\ h.framePointer = f
    BY <1>5, <2>1 DEF SavedHeader, HeaderType
  <2> HIDE DEF h
  <2> QED BY <1>2, <1>5, <2>2
<1> HIDE DEF h
<1>12. OnCStack(D, t, s) = cs2
  <2>1. hd2[s].threadData = header[s].threadData
    BY <1>11
  <2> HIDE DEF hd2, q, s
  <2>2. Base(q, header, cpointer, stack, cstack[t], k, b)
    BY <1>3
  <2>3. OnCStack(State(links, hd2, current, size, cpointer, stack), t, s)
          = SubSeq(cstack[t], 1, k + 1)
    BY <1>2, <1>5, <2>1, <2>2, OnSwitch
  <2> QED BY <1>10, <2>3
<1>13. x \in Segments /\ Without(Held[t], x) /\ \A u \in Threads : Without(Held[u], x)
  BY <1>1, <1>2, Allocation
<1>14. s # x
  <2>1. Len(q) \in 1 .. Len(q) /\ s = q[Len(q)]
    BY <1>2, <1>5 DEF OnTop, Distinct
  <2> HIDE DEF x
  <2> QED BY <1>13, <2>1 DEF Without
<1>15. AllocatedSegment(D) = x /\ M.header[x].framePointer = NullFrame /\ M.header[s].framePointer = f
  <2> DEFINE g0 == NewHeader(NoSegment, 0)
             g == NewHeader(current[t], 0)
             hd3 == [hd2 EXCEPT ![x] = g0]
             hd4 == [hd2 EXCEPT ![x] = g]
             st3 == [stack EXCEPT ![x] = <<>>]
  <2>1. Puts(hd2, hd3, Allocated, g0) /\ Puts(stack, st3, Allocated, <<>>)
        /\ Puts(hd2, hd4, Allocated, g)
    BY DEF Puts
  <2>2. hd4[x] = g /\ hd4[s] = h /\ g.framePointer = NullFrame
    <3>1. g.framePointer = NullFrame
      BY DEF NewHeader
    <3> HIDE DEF hd2, g, x, s
    <3> QED BY <1>2, <1>11, <1>13, <1>14, <3>1
  <2> HIDE DEF hd2, hd3, hd4, st3
  <2>3. AllocatedSegment(State(links, hd2, current, size, cpointer, stack)) = Allocated
    BY <1>1, <1>2, <2>1, StateAllocated
  <2>4. M = State(TakenBy(t), hd4, current, SizeTaken, cpointer, st3)
    <3>1. CreateNewSegment(State(links, hd2, current, size, cpointer, stack), t) =
            State(TakenBy(t), hd4, current, SizeTaken, cpointer, st3)
      BY <1>1, <1>2, <1>11, <2>1, StateCreated
    <3> QED BY <1>10, <3>1 DEF M
  <2>5. M.header = hd4
    BY <2>4 DEF State
  <2> QED BY <1>10, <1>11, <2>2, <2>3, <2>5
<1>16. PICK wn \in Seq(WordType), ws \in Seq(WordType) :
         /\ Len(wn) = n + 2 /\ wn[n + 2] = PopTrap
         /\ WordsLeft(v, ws, d, v[d + n + 2], f)
         /\ TrapDone(t, s, D, M, x, n, d, m, wn, ws)
  <2>1. TrapCopies(t, s, W, Len(W), n + 3, D, M, x)
    BY <1>1, <1>4, <1>15 DEF n
  <2> HIDE DEF v, s, x, f
  <2> QED BY <1>5, <1>8, <1>9, <1>15, <2>1, TrapMoves
<1> DEFINE hs == SavedHeader(h, d + 2, h.framePointer)
           hn == NewHeader(current[t], n + 4)
           q2 == Append(q, x)
           r2 == InSmalltalk("checked", m, x, NullFrame, 0)
<1>17. NewSegment(t, s, hs, ws, x, hn, wn)
  <2> DEFINE y == n + 4
             z == d + 2
  <2>1. SetMemory(SetSegments(M, x, y, wn, s, z, ws))
    BY <1>16 DEF TrapDone
  <2>2. Puts(header, hd2, s, h)
    BY DEF Puts
  <2>3. y \in 0 .. SegmentWords /\ z \in 0 .. SegmentWords /\ ws \in Seq(WordType)
    BY <1>8, <1>16 DEF WordsLeft
  <2> HIDE DEF hd2, y, z, s, x
  <2>4. SetMemory(SetSegments(
          CreateNewSegment(State(links, hd2, current, size, cpointer, stack), t),
          x, y, wn, s, z, ws))
    BY <1>10, <2>1 DEF M
  <2>5. NewSegment(t, s, SavedHeader(h, z, h.framePointer), ws, x, NewHeader(current[t], y), wn)
    <3>1. x = Allocated
      BY DEF x
    <3> QED BY <1>1, <1>2, <1>11, <1>14, <1>16, <2>2, <2>3, <2>4, <3>1, SegmentCreated
  <2> QED BY <2>5 DEF y, z
<1>18. ListsKept' /\ Free' = FreeLeft /\ Held' = [Held EXCEPT ![t] = Append(@, x)]
  <2>1. /\ links' = AddNode(Taken(Allocated), current[t], Allocated)
        /\ current' = current /\ size' = SizeTaken
    BY <1>17 DEF NewSegment, TakenBy
  <2> QED BY <1>1, <1>2, <2>1, NextTaken
<1>19. Held' = [Held EXCEPT ![t] = q2]
  BY <1>18 DEF Held
<1>20. /\ Distinct(q2) /\ Len(q2) = Len(q) + 1 /\ q2[Len(q2)] = x
       /\ \A y \in 1 .. Len(q) : q2[y] = q[y] /\ q[y] # x
  <2>1. \A y \in 1 .. Len(q) : q[y] # x
    BY <1>13 DEF Without
  <2>2. q2 = Append(q, x)
    OBVIOUS
  <2> HIDE DEF q, x, q2
  <2>3. /\ Distinct(q2) /\ Len(q2) = Len(q) + 1 /\ q2[Len(q2)] = x
        /\ \A y \in 1 .. Len(q) : q2[y] = q[y]
    BY ZenonT(40), <1>5, <1>13, <2>1, <2>2, Lengthens
  <2> QED BY <2>1, <2>3
<1>21. /\ hs.threadData = header[s].threadData /\ hs.stackPointer = d + 2
       /\ hn.threadData = header[s].threadData /\ hn.stackPointer = n + 4
       /\ hn \in HeaderType
  <2>1. Len(q) \in 1 .. Len(q) /\ s = q[Len(q)]
    BY <1>2, <1>5 DEF OnTop, Distinct
  <2>2. header[s].threadData = q[1]
    <3> HIDE DEF q, cs
    <3> QED BY <1>3, <2>1 DEF Base
  <2>3. q[1] = current[t]
    BY <1>2, ListFacts
  <2>4. hn \in HeaderType
    <3>1. header' \in [Segments -> HeaderType] /\ header'[x] = hn
      BY <1>17 DEF NewSegment
    <3> HIDE DEF hn, x
    <3> QED BY <1>13, <3>1
  <2>5. hs.threadData = h.threadData /\ hs.stackPointer = d + 2
    BY DEF SavedHeader
  <2>6. hn.threadData = current[t] /\ hn.stackPointer = n + 4
    BY DEF NewHeader
  <2> HIDE DEF hn, hs
  <2> QED BY <1>11, <2>2, <2>3, <2>4, <2>5, <2>6
<1> HIDE DEF hs, hn, q2
<1>22. SegmentMore(q, header, cpointer, stack, q2, header', cpointer', stack', s, x, S, n)
  <2>1. WordsLeft(stack[s], ws, S.depth, S.word, S.fp)
    BY <1>4, <1>8, <1>16 DEF d
  <2>2. Len(wn) = n + 2 /\ wn[n + 2] = PopTrap
    BY <1>16
  <2>3. hs.stackPointer = S.depth + 2
    BY <1>21 DEF d
  <2>4. /\ stack' \in StackType /\ header'[s] = hs /\ header'[x] = hn /\ stack'[s] = ws
        /\ stack'[x] = wn /\ cpointer' = cpointer
        /\ \A y \in Segments \ {s, x} : header'[y] = header[y] /\ stack'[y] = stack[y]
    BY <1>17 DEF NewSegment, StackType
  <2> HIDE DEF q, s, x
  <2> QED BY <1>20, <1>21, <2>1, <2>2, <2>3, <2>4 DEF SegmentMore
<1>23. /\ cs2 \in Seq(FrameType) /\ SwitchKept(cs, cs2, k)
  <2>1. k + 1 \in 0 .. Len(cs)
    BY <1>3, <1>5 DEF Base
  <2> HIDE DEF cs
  <2>2. cs2 \in Seq(FrameType) /\ Len(cs2) = k + 1 /\ \A i \in 1 .. k + 1 : cs2[i] = cs[i]
    BY <1>5, <2>1, Prefix
  <2> HIDE DEF cs2
  <2> QED BY <2>2 DEF SwitchKept
<1>24. r2 \in CpuType
  <2>1. m \in 0 .. MaxCalls /\ x \in Pointers /\ NullFrame \in Pointers \X Nat /\ 0 \in Nat
    BY <1>4, <1>13, Constants DEF Pointers, NullFrame
  <2> HIDE DEF x
  <2> QED BY <2>1, RegistersTyped
<1>25. cpu' = [cpu EXCEPT ![t] = r2] /\ cstack' = [cstack EXCEPT ![t] = cs2] /\ calls' = calls
  BY <1>12, <1>16 DEF TrapDone
<1> HIDE DEF r2, cs2
<1>26. Typed(q2, header', cpointer', stack', cs2, r2, c)
  <2>1. /\ header' \in [Segments -> HeaderType] /\ stack' \in StackType
        /\ cpointer' \in [Segments -> Nat]
    BY <1>5, <1>17 DEF NewSegment, StackType
  <2>2. ASSUME NEW y \in Segments PROVE Len(stack'[y]) <= SegmentWords
    <3>1. CASE y = s
      <4>1. stack'[s] = ws /\ Len(ws) = d + 2
        BY <1>16, <1>17 DEF NewSegment, WordsLeft
      <4> HIDE DEF s
      <4> QED BY <1>8, <3>1, <4>1
    <3>2. CASE y = x
      <4>1. stack'[x] = wn /\ Len(wn) = n + 2
        BY <1>16, <1>17 DEF NewSegment
      <4>2. n + 2 <= SegmentWords
        <5>1. n \in Nat /\ n + 4 <= SegmentWords /\ SegmentWords \in Nat
          BY <1>5, <1>8, Constants
        <5> HIDE DEF c
        <5> QED BY <5>1
      <4> HIDE DEF x
      <4> QED BY <3>2, <4>1, <4>2
    <3>3. CASE y # s /\ y # x
      <4>1. stack'[y] = stack[y]
        BY <1>17, <3>3 DEF NewSegment
      <4> QED BY <1>2, <4>1 DEF Typed
    <3> QED BY <3>1, <3>2, <3>3
  <2> HIDE DEF c
  <2> QED BY <1>5, <1>20, <1>23, <1>24, <2>1, <2>2 DEF Typed
<1>27. ThreadKept(q2, header', cpointer', stack', cs2, r2, c)
  <2>1. S = Caller(q, c, k, b, m) /\ n = c[m].arguments
    BY DEF S, n
  <2>2. r2 = InSmalltalk("checked", m, x, NullFrame, 0)
    BY DEF r2
  <2> HIDE DEF q, cs, c, s, x
  <2> QED BY <1>2, <1>3, <1>22, <1>23, <2>1, <2>2, SegmentEntered
<1>28. ElsewhereSame(t)
  <2>1. \A y \in Segments \ {s, x} :
          header'[y] = header[y] /\ cpointer'[y] = cpointer[y] /\ stack'[y] = stack[y]
    BY <1>17 DEF NewSegment
  <2>2. Len(Held[t]) \in 1 .. Len(Held[t]) /\ s = Held[t][Len(Held[t])]
    BY <1>2, Newest DEF OnTop
  <2>3. ASSUME NEW u \in Threads, u # t, NEW y \in 1 .. Len(Held[u])
        PROVE  Held[u][y] \notin {s, x}
    <3>1. Held[u][y] # x
      <4> HIDE DEF x
      <4> QED BY <1>13 DEF Without
    <3>2. Held[u][y] # s
      <4> HIDE DEF s
      <4> QED BY <1>2, <2>2, <2>3, OwnSegments
    <3> QED BY <3>1, <3>2
  <2> HIDE DEF s, x
  <2>4. ChangesOnly(t, {s, x})
    BY <2>1, <2>3 DEF ChangesOnly
  <2> QED BY <1>2, <2>4, OthersSame
<1>29. calls' = [calls EXCEPT ![t] = c]
  BY <1>2, <1>25 DEF TypesKept
<1> HIDE DEF c
<1>30. IInv'
  BY <1>18, <1>19, <1>25, <1>26, <1>27, <1>28, <1>29, StepKeeps
<1>31. Takes(t)
  BY <1>1, <1>17, <1>18 DEF Takes, NewSegment
<1> QED BY <1>30, <1>31
-----------------------------------------------------------------------------
(***************************************************************************)
(* The send from C that gives a thread its first segment.                  *)
(***************************************************************************)
ThreadData == [i \in 1 .. ThreadDataWords |-> Word("threadData", 0, 0)]

\* The lists once the first segment of a thread is allocated.
TakenFirst == AddNode([Taken(Allocated) EXCEPT !.first[Allocated] = NoSegment,
                                               !.last[Allocated] = NoSegment],
                      Allocated, Allocated)

LEMMA StateStarted ==
  ASSUME ListsKept, CanAllocate, header \in [Segments -> HeaderType], NEW t \in Threads,
         LastSegment(Memory, t) = NullHeader, NEW hd, NEW cu, NEW cp, NEW st,
         Puts(header, hd, Allocated, NewHeader(Allocated, ThreadDataWords)),
         Puts(current, cu, t, Allocated), Puts(cpointer, cp, Allocated, 0),
         Puts(stack, st, Allocated, ThreadData)
  PROVE  /\ ValidSegment(Memory, t)[1] = Allocated
         /\ GetValidSegment(Memory, t) = State(TakenFirst, hd, cu, SizeTaken, cp, st)
<1> DEFINE s == Allocated
           T == Taken(s)
           C == [T EXCEPT !.first[s] = NoSegment, !.last[s] = NoSegment]
           hd0 == [header EXCEPT ![s] = NewHeader(NoSegment, 0)]
           hd1 == [hd0 EXCEPT ![s] = NewHeader(s, 0)]
           st0 == [stack EXCEPT ![s] = <<>>]
           A == AllocateSegment(Memory)
<1>1. AllocatedSegment(Memory) = s /\ A = State(T, hd0, current, SizeTaken, cpointer, st0)
  <2>1. Puts(header, hd0, Allocated, NewHeader(NoSegment, 0)) /\ Puts(stack, st0, Allocated, <<>>)
    BY DEF Puts
  <2> HIDE DEF hd0, st0
  <2>2. LET M == State(links, header, current, size, cpointer, stack) IN
        AllocatedSegment(M) = s /\ AllocateSegment(M) = State(T, hd0, current, SizeTaken, cpointer, st0)
    BY <2>1, StateAllocated
  <2> QED BY <2>2, MemoryState
<1>2. s \in Segments
  BY Allocation
<1>3. ValidSegment(Memory, t)[1] = s
  <2> HIDE DEF s
  <2> QED BY <1>1 DEF ValidSegment, Header
<1> DEFINE cleared == [A.links EXCEPT !.first[s] = NoSegment, !.last[s] = NoSegment]
           B1 == [A EXCEPT !.header[s].threadData = s]
           B2 == [B1 EXCEPT !.header[s].stackPointer = ThreadDataWords]
           B3 == [B2 EXCEPT !.stack[s] = ThreadData]
           B4 == [B3 EXCEPT !.current[t] = s]
           B5 == [B4 EXCEPT !.cpointer[s] = 0]
           B6 == [B5 EXCEPT !.links = AddNode(cleared, s, s)]
<1>4. GetValidSegment(Memory, t) = B6
  <2>1. AllocatedSegment(Memory) = s
    BY <1>1
  <2> HIDE DEF s
  <2> QED BY <2>1 DEF GetValidSegment, ThreadData
<1>5. A.links = T
  BY <1>1 DEF State
<1>6. cleared = C
  BY <1>5
<1>7. hd0[s] = NewHeader(NoSegment, 0) /\ hd1[s] = NewHeader(s, 0)
  BY <1>2
<1>8. hd1 = [hd0 EXCEPT ![s] = [hd0[s] EXCEPT !.threadData = s]]
  <2>1. [NewHeader(NoSegment, 0) EXCEPT !.threadData = s] = NewHeader(s, 0)
    BY DEF NewHeader
  <2> HIDE DEF hd0, s
  <2> QED BY <1>7, <2>1
<1>9. hd = [hd1 EXCEPT ![s] = [hd1[s] EXCEPT !.stackPointer = ThreadDataWords]]
  <2>1. [NewHeader(s, 0) EXCEPT !.stackPointer = ThreadDataWords] = NewHeader(s, ThreadDataWords)
    BY DEF NewHeader
  <2>2. hd = [header EXCEPT ![s] = NewHeader(s, ThreadDataWords)]
    BY DEF Puts
  <2>3. hd1 = [header EXCEPT ![s] = NewHeader(s, 0)]
    BY <1>2
  <2> HIDE DEF hd1, s
  <2>4. [hd1 EXCEPT ![s] = NewHeader(s, ThreadDataWords)]
          = [header EXCEPT ![s] = NewHeader(s, ThreadDataWords)]
    BY <1>2, <2>3
  <2> QED BY <1>7, <2>1, <2>2, <2>4
<1>10. st = [st0 EXCEPT ![s] = ThreadData]
  BY DEF Puts
<1> HIDE DEF A, T, s, hd0, hd1, st0, C, cleared
<1>11. B1 = State(T, hd1, current, SizeTaken, cpointer, st0)
  BY <1>1, <1>8 DEF State
<1> HIDE DEF B1
<1>12. B2 = State(T, hd, current, SizeTaken, cpointer, st0)
  BY <1>9, <1>11 DEF State
<1> HIDE DEF B2
<1>13. B3 = State(T, hd, current, SizeTaken, cpointer, st)
  BY <1>10, <1>12 DEF State
<1> HIDE DEF B3
<1>14. B4 = State(T, hd, cu, SizeTaken, cpointer, st)
  <2>1. cu = [current EXCEPT ![t] = s]
    BY DEF Puts, s
  <2> QED BY <1>13, <2>1 DEF State
<1> HIDE DEF B4
<1>15. B5 = State(T, hd, cu, SizeTaken, cp, st)
  <2>1. cp = [cpointer EXCEPT ![s] = 0]
    BY DEF Puts, s
  <2> QED BY <1>14, <2>1 DEF State
<1> HIDE DEF B5
<1>16. B6 = State(AddNode(C, s, s), hd, cu, SizeTaken, cp, st)
  BY <1>6, <1>15 DEF State
<1> HIDE DEF B6
<1>17. AddNode(C, s, s) = TakenFirst
  BY DEF C, T, s, TakenFirst
<1> QED BY <1>3, <1>4, <1>16, <1>17 DEF s

\* The message below the thread data: padding, receiver and arguments, and the
\* address that returns to C.
FirstMessage(k, n) ==
  [i \in 1 .. Even(n + 1) - (n + 1) |-> Garbage] \o Message(k, n) \o <<ToC>>
WordsStarted(w, b, n) ==
  /\ w \in Seq(WordType) /\ Len(w) = b + n + 2 /\ w[b + n + 2] = ToC
  /\ \A i \in 1 .. ThreadDataWords : w[i] = Word("threadData", 0, 0)

LEMMA MessageStarted ==
  ASSUME NEW k \in Nat, NEW n \in Nat
  PROVE  \E b \in Nat :
           /\ b >= ThreadDataWords
           /\ WordsStarted(WriteAt(ThreadData, ThreadDataWords, FirstMessage(k, n)), b, n)
           /\ ThreadDataWords + Len(FirstMessage(k, n)) = b + n + 2
<1> DEFINE p == Even(n + 1) - (n + 1)
           P == [i \in 1 .. p |-> Garbage]
           m == P \o Message(k, n)
           F == FirstMessage(k, n)
           T == ThreadDataWords
           D == [i \in 1 .. T |-> IF i <= Len(ThreadData) THEN ThreadData[i] ELSE Garbage]
           w == WriteAt(ThreadData, T, F)
           b == T + p
<1>1. p \in Nat
  <2>1. (n + 1) % 2 \in 0 .. 1
    OBVIOUS
  <2> QED BY <2>1 DEF Even
<1>2. /\ Garbage \in WordType /\ ToC \in WordType /\ Word("threadData", 0, 0) \in WordType
      /\ Message(k, n) \in Seq(WordType) /\ Len(Message(k, n)) = n + 1
  <2>1. NullFrame \in Pointers \X Nat
    BY Constants DEF NullFrame
  <2> QED BY <2>1, WordsTyped
<1>3. T \in Nat
  BY Constants
<1> HIDE DEF p
<1>4. P \in Seq(WordType) /\ Len(P) = p
  <2> DEFINE g == Garbage
  <2>1. g \in WordType
    BY <1>2
  <2>2. P = [i \in 1 .. p |-> g]
    OBVIOUS
  <2> HIDE DEF g, P
  <2>3. P \in Seq(WordType)
    BY <1>1, <2>1, <2>2
  <2>4. DOMAIN P = 1 .. p
    BY <2>2
  <2> QED BY <1>1, <2>3, <2>4
<1>5. F = m \o <<ToC>>
  BY DEF FirstMessage, p
<1> HIDE DEF P
<1>6. Joins(m, P, Message(k, n))
  BY <1>2, <1>4, Joined
<1> HIDE DEF m
<1>7. m \in Seq(WordType) /\ Len(m) = p + n + 1
  <2>1. m \in Seq(WordType) /\ Len(m) = p + (n + 1)
    BY <1>2, <1>4, <1>6 DEF Joins
  <2> QED BY <1>1, <2>1
<1>8. /\ F \in Seq(WordType) /\ Len(F) = p + n + 2 /\ F[p + n + 2] = ToC
  <2> DEFINE z == <<ToC>>
  <2>1. z \in Seq(WordType) /\ Len(z) = 1 /\ z[1] = ToC
    BY <1>2
  <2>2. F = m \o z
    BY <1>5
  <2> HIDE DEF z, F
  <2>3. Joins(F, m, z)
    BY <1>7, <2>1, <2>2, Joined
  <2>4. F \in Seq(WordType) /\ Len(F) = p + n + 1 + 1 /\ F[p + n + 1 + 1] = z[1]
    BY <1>7, <2>1, <2>3 DEF Joins
  <2>5. p + n + 1 + 1 = p + n + 2
    BY <1>1
  <2> QED BY <2>1, <2>4, <2>5
<1>9. D \in Seq(WordType) /\ Len(D) = T /\ \A i \in 1 .. T : D[i] = Word("threadData", 0, 0)
  <2>1. ThreadData = [i \in 1 .. T |-> Word("threadData", 0, 0)]
    BY DEF ThreadData
  <2> DEFINE g == Word("threadData", 0, 0)
             h == Garbage
  <2>2. g \in WordType /\ h \in WordType
    BY <1>2
  <2>3. ThreadData = [i \in 1 .. T |-> g]
    BY <2>1
  <2> HIDE DEF g, h
  <2>4. Len(ThreadData) = T /\ \A i \in 1 .. T : ThreadData[i] = g
    BY <1>3, <2>2, <2>3
  <2>5. D = [i \in 1 .. T |-> IF i <= Len(ThreadData) THEN ThreadData[i] ELSE h]
    BY DEF h
  <2>6. D = [i \in 1 .. T |-> g]
    BY <1>3, <2>4, <2>5
  <2> HIDE DEF D
  <2>7. D \in Seq(WordType) /\ Len(D) = T /\ \A i \in 1 .. T : D[i] = g
    BY <1>3, <2>2, <2>6
  <2> QED BY <2>7 DEF g
<1>10. w = D \o F
  BY DEF WriteAt
<1> HIDE DEF D, F, w
<1>11. Joins(w, D, F)
  BY <1>8, <1>9, <1>10, Joined
<1>12. b \in Nat /\ b >= T /\ b + n + 2 = T + (p + n + 2) /\ p + n + 2 \in 1 .. p + n + 2
  BY <1>1, <1>3
<1>13. WordsStarted(w, b, n)
  <2> HIDE DEF b, T
  <2>1. w \in Seq(WordType) /\ Len(w) = b + n + 2 /\ w[b + n + 2] = ToC
    BY <1>8, <1>9, <1>11, <1>12 DEF Joins
  <2>2. \A i \in 1 .. T : w[i] = Word("threadData", 0, 0)
    BY <1>9, <1>11 DEF Joins
  <2> QED BY <2>1, <2>2 DEF WordsStarted, T
<1>14. T + Len(F) = b + n + 2
  BY <1>8, <1>12
<1> QED BY <1>12, <1>13, <1>14 DEF w, F

\* What is stored for the switch in the first segment, x: its words w, their
\* depth e, and the C stack pointers p.
SetFirst(M, x, w, e, p) ==
  [M EXCEPT !.stack[x] = w, !.header[x].stackPointer = e, !.cpointer[x] = p]

LEMMA FirstSet ==
  ASSUME NEW L, NEW hd, NEW cu, NEW sz, NEW cp, NEW st, NEW x, NEW w, NEW e, NEW p,
         NEW hd2, NEW cp2, NEW st2, Points(hd, hd2, x, e), Puts(cp, cp2, x, p), Puts(st, st2, x, w)
  PROVE  SetFirst(State(L, hd, cu, sz, cp, st), x, w, e, p) = State(L, hd2, cu, sz, cp2, st2)
<1> DEFINE M1 == [State(L, hd, cu, sz, cp, st) EXCEPT !.stack[x] = w]
           M2 == [M1 EXCEPT !.header[x].stackPointer = e]
<1>1. M1 = State(L, hd, cu, sz, cp, st2)
  BY DEF State, Puts
<1> HIDE DEF M1
<1>2. M2 = State(L, hd2, cu, sz, cp, st2)
  BY <1>1 DEF State, Points
<1> HIDE DEF M2
<1>3. [M2 EXCEPT !.cpointer[x] = p] = State(L, hd2, cu, sz, cp2, st2)
  BY SMTT(20), <1>2 DEF State, Puts
<1> QED BY <1>3 DEF M1, M2, SetFirst

\* The send from C, when the segment is x and M the state that has it.
SendsFrom(t, n, x, M, F) ==
  LET top  == M.header[x].stackPointer
      data == M.header[x].threadData IN
  /\ Fits(top + Len(F))
  /\ SetMemory([M EXCEPT !.stack[x] = WriteAt(@, top, F), !.header[x].stackPointer = top + Len(F),
                         !.cpointer[data] = Len(cstack[t]) + 1])
  /\ cstack' = [cstack EXCEPT ![t] =
       Append(@, SwitchFrame(Len(calls[t]), x, M.cpointer[data],
                             top = ThreadDataWords /\ data = x))]
  /\ cpu' = [cpu EXCEPT ![t] =
       InSmalltalk("entry", Len(calls[t]) + 1, x, M.header[x].framePointer, 0)]
  /\ calls' = [calls EXCEPT ![t] = Append([calls[t] EXCEPT ![Len(calls[t])].sent = TRUE],
                                          Activation("Smalltalk", n))]

LEMMA SendTaken ==
  ASSUME NEW t, NEW n, CSendToSmalltalk(t, n)
  PROVE  /\ cpu[t].mode = "C" /\ Len(calls[t]) < MaxCalls /\ CanAllocate
         /\ LastSegment(Memory, t) = NullHeader
         /\ SendsFrom(t, n, ValidSegment(Memory, t)[1], GetValidSegment(Memory, t),
                      FirstMessage(Len(calls[t]), n))
BY DEF CSendToSmalltalk, SendsFrom, FirstMessage, RunsC, MayCall, Top, CPointers, Called

\* The same, in terms of the state.
SendDone(t, n, x, L, hd, cu, sz, cp, st, F) ==
  /\ Fits(ThreadDataWords + Len(F))
  /\ SetMemory(SetFirst(State(L, hd, cu, sz, cp, st), x,
                        WriteAt(ThreadData, ThreadDataWords, F), ThreadDataWords + Len(F),
                        Len(cstack[t]) + 1))
  /\ cstack' = [cstack EXCEPT ![t] = Append(@, SwitchFrame(Len(calls[t]), x, 0, TRUE))]
  /\ cpu' = [cpu EXCEPT ![t] = InSmalltalk("entry", Len(calls[t]) + 1, x, NullFrame, 0)]
  /\ calls' = [calls EXCEPT ![t] = Append([calls[t] EXCEPT ![Len(calls[t])].sent = TRUE],
                                          Activation("Smalltalk", n))]

LEMMA SendMoves ==
  ASSUME NEW t, NEW n, NEW x, NEW L, NEW hd, NEW cu, NEW sz, NEW cp, NEW st, NEW F,
         hd[x] = NewHeader(x, ThreadDataWords), cp[x] = 0, st[x] = ThreadData,
         SendsFrom(t, n, x, State(L, hd, cu, sz, cp, st), F)
  PROVE  SendDone(t, n, x, L, hd, cu, sz, cp, st, F)
<1> DEFINE M == State(L, hd, cu, sz, cp, st)
           top  == M.header[x].stackPointer
           data == M.header[x].threadData
           pointers == M.cpointer[data]
           words == M.stack[x]
           frame == M.header[x].framePointer
           base == top = ThreadDataWords /\ data = x
           e == top + Len(F)
<1>1. /\ top = ThreadDataWords /\ data = x /\ words = ThreadData /\ frame = NullFrame
      /\ base = TRUE
  <2>1. M.header = hd /\ M.stack = st
    BY DEF State
  <2> HIDE DEF M
  <2> QED BY <2>1 DEF NewHeader
<1>2. pointers = 0
  <2>1. M.cpointer = cp
    BY DEF State
  <2> HIDE DEF M
  <2> QED BY <1>1, <2>1
<1> HIDE DEF M
<1>3. /\ Fits(e)
      /\ SetMemory([M EXCEPT !.stack[x] = WriteAt(words, top, F), !.header[x].stackPointer = e,
                             !.cpointer[data] = Len(cstack[t]) + 1])
      /\ cstack' = [cstack EXCEPT ![t] = Append(@, SwitchFrame(Len(calls[t]), x, pointers, base))]
      /\ cpu' = [cpu EXCEPT ![t] = InSmalltalk("entry", Len(calls[t]) + 1, x, frame, 0)]
      /\ calls' = [calls EXCEPT ![t] = Append([calls[t] EXCEPT ![Len(calls[t])].sent = TRUE],
                                              Activation("Smalltalk", n))]
  BY DEF SendsFrom, M
<1>4. e = ThreadDataWords + Len(F)
  BY <1>1
<1> HIDE DEF top, data, pointers, words, frame, base, e
<1> QED BY <1>1, <1>2, <1>3, <1>4 DEF SendDone, SetFirst, M

\* Where a thread with one segment is when C has sent its first message.
LEMMA SentFromC ==
  ASSUME NEW cs, NEW r, NEW c, Outside(cs, r, c), c \in Seq(CallType), cs \in Seq(FrameType),
         NEW x \in Segments, NEW k \in Nat, k = Len(c), k < MaxCalls, NEW c2, NEW a, NEW n \in Nat,
         OneMore(c, c2, a), a.lang = "Smalltalk", a.arguments = n, ~a.sent,
         NEW cs2, Longer(cs, cs2, SwitchFrame(k, x, 0, TRUE)),
         NEW r2, r2 = InSmalltalk("entry", k + 1, x, NullFrame, 0),
         NEW q2, q2 = <<x>>, NEW hd2, NEW cp2, NEW st2, NEW b \in Nat,
         b >= ThreadDataWords, hd2[x].threadData = x, cp2[x] = k + 1,
         WordsStarted(st2[x], b, n), Fits(Len(st2[x]))
  PROVE  ThreadKept(q2, hd2, cp2, st2, cs2, r2, c2)
<1>1. Len(q2) = 1 /\ q2[1] = x /\ q2 # <<>> /\ q2[Len(q2)] = x
  OBVIOUS
<1>2. /\ Len(c2) = k + 1 /\ c2[k + 1] = a
      /\ \A i \in 1 .. k : c2[i].lang = c[i].lang /\ c2[i].depth = c[i].depth
  BY DEF OneMore, SameCall
<1>3. /\ Len(cs) = k /\ k \in 1 .. k /\ \A i \in 1 .. k : c[i].lang = "C" /\ c[i].depth = i
      /\ \A i \in 1 .. k : cs[i] = CFrame(i, NoSegment, 0)
  BY DEF Outside, Nesting
<1>4. /\ Len(cs2) = k + 1 /\ cs2[k + 1] = SwitchFrame(k, x, 0, TRUE)
      /\ \A i \in 1 .. k : cs2[i] = cs[i]
  BY <1>3 DEF Longer
<1>5. Nesting(cs2, c2, k, k + 1)
  <2>1. ASSUME NEW i \in 1 .. k + 1
        PROVE  c2[i].lang = IF k < i /\ i <= k + 1 THEN "Smalltalk" ELSE "C"
    <3>1. CASE i = k + 1
      BY <1>2, <3>1
    <3>2. CASE i \in 1 .. k
      BY <1>2, <1>3, <3>2
    <3> QED BY <3>1, <3>2
  <2>2. k \in 1 .. k + 1 /\ k + 1 <= MaxCalls /\ k <= k + 1 /\ k + 1 <= k + 1
    BY <1>3, Constants
  <2>3. \A i \in 1 .. k : c2[i].depth = i /\ cs2[i] = CFrame(i, NoSegment, 0)
    BY <1>2, <1>3, <1>4
  <2> QED BY <1>2, <1>4, <2>1, <2>2, <2>3 DEF Nesting
<1>6. Base(q2, hd2, cp2, st2, cs2, k, b)
  <2>1. /\ Len(st2[x]) = b + n + 2
        /\ \A i \in 1 .. ThreadDataWords : st2[x][i] = Word("threadData", 0, 0)
    BY DEF WordsStarted
  <2>2. Len(st2[x]) >= ThreadDataWords
    BY <2>1, Constants
  <2>3. Len(cs2) > k
    BY <1>4
  <2>4. \A y \in 1 .. Len(q2) : hd2[q2[y]].threadData = q2[1]
    <3>1. \A y \in 1 .. Len(q2) : y = 1
      BY <1>1
    <3> QED BY <1>1, <3>1
  <2> QED BY <1>1, <1>4, <2>1, <2>2, <2>3, <2>4 DEF Base
<1> DEFINE S == Caller(q2, c2, k, b, k + 1)
<1>7. S.seg = x /\ S.depth = b /\ S.word = ToC /\ S.fp = NullFrame
  BY <1>1 DEF Caller
<1> HIDE DEF S
<1>8. AtEntry(q2, st2, r2, c2, k, b, k + 1)
  <2>1. k + 1 > k /\ k + 1 = Len(c2)
    BY <1>2
  <2>2. Direct(st2, S, n, x, Len(st2[x]))
    <3>1. Len(st2[x]) = b + n + 2 /\ st2[x][b + n + 2] = ToC
      BY DEF WordsStarted
    <3>2. Len(st2[x]) <= Len(st2[x])
      BY <3>1
    <3> QED BY <1>7, <3>1, <3>2 DEF Direct
  <2>3. r2 = InSmalltalk("entry", k + 1, x, S.fp, r2.rax)
    BY <1>7 DEF InSmalltalk
  <2>4. ~c2[k + 1].sent /\ c2[k + 1].arguments = n
    BY <1>2
  <2> QED BY <1>1, <2>1, <2>2, <2>3, <2>4 DEF AtEntry, S
<1>9. Frames(q2, hd2, st2, c2, k, b, k + 1 - 1)
  <2>1. k + 1 .. k + 1 - 1 = {}
    OBVIOUS
  <2> QED BY <2>1 DEF Frames
<1>10. Inside(q2, hd2, cp2, st2, cs2, r2, c2, k, k + 1, b)
  BY <1>5, <1>6, <1>8, <1>9 DEF Inside, Runs
<1> QED BY <1>1, <1>10 DEF ThreadKept

LEMMA OutsideSends ==
  ASSUME IInv, NEW t \in Threads, cpu[t].mode = "C", current[t] = NoSegment
  PROVE  Outside(cstack[t], cpu[t], calls[t])
BY ThreadFacts, Where

LEMMA KeptByCSendToSmalltalk ==
  ASSUME IInv, NEW t \in Threads, NEW n \in Nat, CSendToSmalltalk(t, n), running' = running
  PROVE  IInv' /\ Takes(t)
<1> DEFINE cs == cstack[t]
           c == calls[t]
           k == Len(c)
           x == Allocated
           F == FirstMessage(k, n)
           M == GetValidSegment(Memory, t)
<1>1. /\ cpu[t].mode = "C" /\ k < MaxCalls /\ CanAllocate
      /\ LastSegment(Memory, t) = NullHeader
      /\ SendsFrom(t, n, ValidSegment(Memory, t)[1], M, F)
  BY SendTaken
<1> HIDE DEF M
<1>2. ListsKept /\ TypesKept /\ Typed(Held[t], header, cpointer, stack, cs, cpu[t], c)
  BY ThreadFacts
<1>3. current[t] = NoSegment
  <2>1. Memory.current = current /\ NodeWords # 0
    BY DEF Memory, NodeWords
  <2>2. current[t] # NoSegment => LastSegment(Memory, t) = <<Memory.links.last[current[t]], NodeWords>>
    BY <2>1 DEF LastSegment
  <2>3. NullHeader = <<NoSegment, 0>>
    BY DEF NullHeader, Header
  <2> QED BY <1>1, <2>1, <2>2, <2>3
<1>4. Outside(cs, cpu[t], c)
  BY <1>1, <1>3, OutsideSends
<1>5. /\ header \in [Segments -> HeaderType] /\ cpointer \in [Segments -> Nat]
      /\ stack \in [Segments -> Seq(WordType)] /\ cs \in Seq(FrameType) /\ c \in Seq(CallType)
      /\ current \in [Threads -> Pointers] /\ x \in Segments /\ k \in Nat /\ Len(cs) = k /\ k # 0
  <2>1. Len(cs) = k /\ k # 0
    <3> HIDE DEF cs, c
    <3> QED BY <1>4 DEF Outside, Nesting
  <2>2. x \in Segments /\ current \in [Threads -> Pointers]
    BY <1>1, <1>2, Allocation, ListFacts
  <2>3. k \in Nat
    BY <1>2 DEF Typed
  <2> HIDE DEF cs, c, x
  <2> QED BY <1>2, <2>1, <2>2, <2>3 DEF Typed, StackType
<1> DEFINE g == NewHeader(x, ThreadDataWords)
           hd == [header EXCEPT ![x] = g]
           cu == [current EXCEPT ![t] = x]
           cp == [cpointer EXCEPT ![x] = 0]
           st == [stack EXCEPT ![x] = ThreadData]
<1>6. ValidSegment(Memory, t)[1] = x /\ M = State(TakenFirst, hd, cu, SizeTaken, cp, st)
  <2>1. Puts(header, hd, Allocated, NewHeader(Allocated, ThreadDataWords))
        /\ Puts(current, cu, t, Allocated) /\ Puts(cpointer, cp, Allocated, 0)
        /\ Puts(stack, st, Allocated, ThreadData)
    BY DEF Puts
  <2> HIDE DEF hd, cu, cp, st
  <2> QED BY <1>1, <1>2, <1>5, <2>1, StateStarted DEF M
<1> HIDE DEF F
<1>7. SendDone(t, n, x, TakenFirst, hd, cu, SizeTaken, cp, st, F)
  <2>1. hd[x] = NewHeader(x, ThreadDataWords) /\ cp[x] = 0 /\ st[x] = ThreadData
    <3> HIDE DEF g, x
    <3> QED BY <1>5 DEF g
  <2> HIDE DEF hd, cu, cp, st, x
  <2>2. SendsFrom(t, n, x, State(TakenFirst, hd, cu, SizeTaken, cp, st), F)
    BY <1>1, <1>6
  <2> QED BY <2>1, <2>2, SendMoves
<1> DEFINE w == WriteAt(ThreadData, ThreadDataWords, F)
           e == ThreadDataWords + Len(F)
<1>8. PICK b \in Nat : b >= ThreadDataWords /\ WordsStarted(w, b, n) /\ e = b + n + 2
  BY <1>5, MessageStarted DEF F
<1>9. /\ w \in Seq(WordType) /\ Len(w) = e /\ e \in Nat /\ e \in 0 .. SegmentWords /\ Fits(Len(w))
  <2>1. w \in Seq(WordType) /\ Len(w) = e /\ e \in Nat
    <3>1. b + n + 2 \in Nat
      OBVIOUS
    <3> QED BY <1>8, <3>1 DEF WordsStarted
  <2>2. Fits(e)
    BY <1>7 DEF SendDone
  <2> HIDE DEF w, e
  <2>3. e + 5 <= SegmentWords /\ SegmentWords \in Nat
    BY <2>2, Constants DEF Fits, Slack
  <2>4. e \in 0 .. SegmentWords
    BY <2>1, <2>3
  <2> QED BY <2>1, <2>2, <2>4
<1> HIDE DEF w, e
<1> DEFINE hd2 == [hd EXCEPT ![x].stackPointer = e]
           cp2 == [cp EXCEPT ![x] = Len(cs) + 1]
           st2 == [st EXCEPT ![x] = w]
<1>10. /\ links' = TakenFirst /\ header' = hd2 /\ current' = cu /\ size' = SizeTaken
       /\ cpointer' = cp2 /\ stack' = st2
  <2>1. SetMemory(SetFirst(State(TakenFirst, hd, cu, SizeTaken, cp, st), x, w, e, Len(cs) + 1))
    BY <1>7 DEF SendDone, w, e
  <2>2. Points(hd, hd2, x, e) /\ Puts(cp, cp2, x, Len(cs) + 1) /\ Puts(st, st2, x, w)
    BY DEF Points, Puts
  <2> DEFINE p == Len(cs) + 1
  <2> HIDE DEF hd, cu, cp, st, hd2, cp2, st2, x, p
  <2>3. SetFirst(State(TakenFirst, hd, cu, SizeTaken, cp, st), x, w, e, p)
          = State(TakenFirst, hd2, cu, SizeTaken, cp2, st2)
    BY <2>2, FirstSet DEF p
  <2>4. SetMemory(State(TakenFirst, hd2, cu, SizeTaken, cp2, st2))
    BY <2>1, <2>3 DEF p
  <2> QED BY <2>4, StateSet
<1>11. /\ hd2 \in [Segments -> HeaderType] /\ hd2[x] = NewHeader(x, e)
       /\ \A y \in Segments \ {x} : hd2[y] = header[y]
  <2> DEFINE h == NewHeader(x, e)
  <2>1. [g EXCEPT !.stackPointer = e] = h
    BY DEF NewHeader
  <2>2. h \in HeaderType
    <3>1. x \in Pointers /\ NullFrame \in Pointers \X Nat
      BY <1>5, Constants DEF NullFrame, Pointers
    <3> HIDE DEF x
    <3> QED BY <1>9, <3>1 DEF NewHeader, HeaderType
  <2> HIDE DEF h, g, x
  <2>3. hd[x] = g
    BY <1>5
  <2>4. hd2 = [hd EXCEPT ![x] = h]
    BY <2>1, <2>3
  <2>5. hd2 = [header EXCEPT ![x] = h]
    <3> HIDE DEF hd2
    <3> QED BY <1>5, <2>4
  <2> HIDE DEF hd2
  <2> QED BY <1>5, <2>2, <2>5 DEF h
<1>12. /\ cp2 \in [Segments -> Nat] /\ cp2[x] = k + 1
       /\ \A y \in Segments \ {x} : cp2[y] = cpointer[y]
  <2> HIDE DEF x, k, cs
  <2> QED BY <1>5
<1>13. /\ st2 \in [Segments -> Seq(WordType)] /\ st2[x] = w
       /\ \A y \in Segments \ {x} : st2[y] = stack[y]
  <2> DEFINE z == ThreadData
  <2>1. st2 = [stack EXCEPT ![x] = w]
    <3> HIDE DEF x, z
    <3> QED BY <1>5
  <2> HIDE DEF x, st2
  <2> QED BY <1>5, <1>9, <2>1
<1> HIDE DEF hd, cp, st, hd2, cp2, st2
<1>14. ListsKept' /\ Free' = FreeLeft /\ Held' = [Held EXCEPT ![t] = <<x>>]
  <2>1. /\ links' = AddNode([Taken(Allocated) EXCEPT !.first[Allocated] = NoSegment,
                                                   !.last[Allocated] = NoSegment],
                            Allocated, Allocated)
        /\ current' = [current EXCEPT ![t] = Allocated] /\ size' = SizeTaken
    BY <1>10 DEF TakenFirst
  <2> QED BY <1>1, <1>2, <1>3, <2>1, FirstTaken
<1> DEFINE q2 == <<x>>
           f == SwitchFrame(k, x, 0, TRUE)
           cs2 == Append(cs, f)
           r2 == InSmalltalk("entry", k + 1, x, NullFrame, 0)
           a == Activation("Smalltalk", n)
           c2 == Append([c EXCEPT ![k].sent = TRUE], a)
<1>15. /\ cstack' = [cstack EXCEPT ![t] = cs2] /\ cpu' = [cpu EXCEPT ![t] = r2]
       /\ calls' = [calls EXCEPT ![t] = c2]
  BY <1>7 DEF SendDone
<1>16. a \in CallType /\ a.lang = "Smalltalk" /\ a.arguments = n /\ ~a.sent
  BY SmalltalkActivation
<1>17. f \in FrameType /\ r2 \in CpuType
  <2>1. k \in 0 .. MaxCalls /\ k + 1 \in 0 .. MaxCalls /\ x \in Pointers /\ 0 \in Nat /\ TRUE \in BOOLEAN
        /\ NullFrame \in Pointers \X Nat
    BY <1>1, <1>5, Constants DEF Pointers, NullFrame
  <2> HIDE DEF x, k
  <2> QED BY <2>1, RegistersTyped
<1> HIDE DEF a
<1>18. c2 \in Seq(CallType) /\ OneMore(c, c2, a)
  <2>1. k \in Nat \ {0} /\ k = Len(c) /\ c \in Seq(CallType)
    BY <1>5
  <2> HIDE DEF c
  <2> QED BY <1>16, <2>1, CallAppended
<1>19. cs2 \in Seq(FrameType) /\ Longer(cs, cs2, f)
  <2> HIDE DEF f, cs
  <2> QED BY <1>5, <1>17, Lengthened
<1>20. Distinct(q2)
  <2>1. q2 \in Seq(Segments) /\ Len(q2) = 1
    BY <1>5
  <2> QED BY <2>1 DEF Distinct
<1> HIDE DEF c2, cs2, r2, q2
<1>21. Typed(q2, header', cpointer', stack', cs2, r2, c2)
  <2>1. ASSUME NEW y \in Segments PROVE Len(stack'[y]) <= SegmentWords
    <3>1. CASE y = x
      <4>1. e <= SegmentWords
        BY <1>9, Constants
      <4> QED BY <1>9, <1>10, <1>13, <3>1, <4>1
    <3>2. CASE y # x
      <4>1. stack'[y] = stack[y]
        BY <1>10, <1>13, <3>2
      <4> QED BY <1>2, <4>1 DEF Typed
    <3> QED BY <3>1, <3>2
  <2> QED BY <1>10, <1>11, <1>12, <1>13, <1>17, <1>18, <1>19, <1>20, <2>1 DEF Typed, StackType
<1>22. ThreadKept(q2, header', cpointer', stack', cs2, r2, c2)
  <2>1. q2 = <<x>> /\ r2 = InSmalltalk("entry", k + 1, x, NullFrame, 0)
    BY DEF q2, r2
  <2>2. header'[x].threadData = x /\ cpointer'[x] = k + 1 /\ stack'[x] = w
    BY <1>10, <1>11, <1>12, <1>13 DEF NewHeader
  <2>3. WordsStarted(stack'[x], b, n) /\ Fits(Len(stack'[x]))
    BY <1>8, <1>9, <2>2
  <2>4. Longer(cs, cs2, SwitchFrame(k, x, 0, TRUE)) /\ OneMore(c, c2, a)
    BY <1>18, <1>19
  <2>5. k = Len(c)
    OBVIOUS
  <2> HIDE DEF x, k, cs, c
  <2> QED BY ZenonT(40), <1>1, <1>4, <1>5, <1>8, <1>16, <2>1, <2>2, <2>3, <2>4, <2>5, SentFromC
<1>23. ElsewhereSame(t)
  <2>1. \A y \in Segments \ {x} :
          header'[y] = header[y] /\ cpointer'[y] = cpointer[y] /\ stack'[y] = stack[y]
    BY <1>10, <1>11, <1>12, <1>13
  <2>2. ASSUME NEW u \in Threads, u # t, NEW y \in 1 .. Len(Held[u])
        PROVE  Held[u][y] \notin {x}
    <3>1. Without(Held[u], x)
      BY <1>1, <1>2, Allocation
    <3> HIDE DEF x
    <3> QED BY <3>1 DEF Without
  <2> HIDE DEF x
  <2>3. ChangesOnly(t, {x})
    BY <2>1, <2>2 DEF ChangesOnly
  <2> QED BY <1>2, <2>3, OthersSame
<1>24. Held' = [Held EXCEPT ![t] = q2]
  BY <1>14 DEF q2
<1>25. IInv'
  BY <1>14, <1>15, <1>21, <1>22, <1>23, <1>24, StepKeeps
<1>26. Takes(t)
  <2>1. Held[t] = <<>> /\ Held \in [Threads -> Seq(Segments)]
    BY <1>2, <1>3, ListFacts DEF Held
  <2>2. Append(<<>>, x) = <<x>>
    OBVIOUS
  <2>3. Held' = [Held EXCEPT ![t] = Append(@, x)]
    BY <1>14, <2>1, <2>2
  <2> QED BY <1>1, <1>10, <1>14, <2>3 DEF Takes
<1> QED BY <1>25, <1>26
-----------------------------------------------------------------------------
(***************************************************************************)
(* The invariant.                                                          *)
(***************************************************************************)
LEMMA InitLists == Init => ListsKept
<1> SUFFICES ASSUME Init PROVE ListsKept
  OBVIOUS
<1> DEFINE e == <<>>
           ow == [t \in Threads |-> e]
<1>1. links = EmptyLinks /\ current = [t \in Threads |-> NoSegment] /\ size = 0
  BY DEF Init
<1>2. links \in LinksType /\ current \in [Threads -> Pointers] /\ size <= MaxSegments
  <2>1. links \in LinksType
    BY <1>1, Constants DEF EmptyLinks, LinksType, Pointers
  <2>2. NoSegment \in Pointers /\ 0 <= MaxSegments
    BY Constants
  <2> QED BY <1>1, <2>1, <2>2
<1>3. IsList(links, FreeList, e)
  <2>1. links.first[FreeList] = NoSegment /\ links.last[FreeList] = NoSegment
    BY <1>1, Constants DEF EmptyLinks
  <2>2. e \in Seq(Segments) /\ Len(e) = 0 /\ 1 .. 0 = {}
    OBVIOUS
  <2> HIDE DEF e
  <2> QED BY <2>1, <2>2 DEF IsList
<1>4. Free = e
  <2> HIDE DEF e
  <2> QED BY <1>2, <1>3, ListOf DEF Free
<1>5. Held = ow
  BY <1>1 DEF Held
<1>6. Placed(e, ow, 0)
  <2>1. /\ e \in Seq(1 .. 0) /\ Len(e) = 0 /\ 0 \in Nat /\ 1 .. 0 = {}
    OBVIOUS
  <2> HIDE DEF e
  <2> QED BY <2>1 DEF Placed, Abstract!Typing, Abstract!Apart, Abstract!Complete
<1> QED BY <1>1, <1>2, <1>3, <1>4, <1>5, <1>6 DEF ListsKept

LEMMA InitTypes == Init => TypesKept
<1> SUFFICES ASSUME Init PROVE TypesKept
  OBVIOUS
<1> DEFINE h == NewHeader(NoSegment, 0)
           f == CFrame(1, NoSegment, 0)
           r == InC(1, 0)
           a == [Activation("C", 0) EXCEPT !.depth = 1]
<1>1. /\ header = [s \in Segments |-> h] /\ cpointer = [s \in Segments |-> 0]
      /\ stack = [s \in Segments |-> <<>>] /\ cstack = [t \in Threads |-> <<f>>]
      /\ cpu = [t \in Threads |-> r] /\ running = TRUE /\ calls = [t \in Threads |-> <<a>>]
  BY DEF Init, NewHeader
<1>2. h \in HeaderType /\ f \in FrameType /\ r \in CpuType /\ a \in CallType
  <2>1. 1 \in 0 .. MaxCalls /\ NoSegment \in Pointers /\ NullFrame \in Pointers \X Nat
        /\ 0 \in 0 .. SegmentWords
    BY Constants DEF NullFrame
  <2>2. h \in HeaderType
    BY <2>1 DEF NewHeader, HeaderType
  <2>3. f \in FrameType /\ r \in CpuType
    BY <2>1, RegistersTyped
  <2>4. a \in CallType
    BY CActivation
  <2> QED BY <2>2, <2>3, <2>4
<1> HIDE DEF h, f, r, a
<1>3. \A s \in Segments : stack[s] \in Seq(WordType) /\ Len(stack[s]) <= SegmentWords
  <2> DEFINE z == <<>>
  <2>1. z \in Seq(WordType) /\ Len(z) <= SegmentWords
    BY Constants
  <2>2. stack = [s \in Segments |-> z]
    BY <1>1
  <2> HIDE DEF z
  <2> QED BY <2>1, <2>2
<1>4. stack \in StackType
  BY <1>1, <1>3 DEF StackType
<1>5. <<f>> \in Seq(FrameType) /\ <<a>> \in Seq(CallType)
  BY <1>2
<1> QED BY <1>1, <1>2, <1>3, <1>4, <1>5 DEF TypesKept

LEMMA InitKept == Init => IInv
<1> SUFFICES ASSUME Init PROVE IInv
  OBVIOUS
<1>1. ListsKept /\ TypesKept
  BY InitLists, InitTypes
<1>2. ASSUME NEW t \in Threads
      PROVE  ThreadKept(Held[t], header, cpointer, stack, cstack[t], cpu[t], calls[t])
  <2> DEFINE f == CFrame(1, NoSegment, 0)
             a == [Activation("C", 0) EXCEPT !.depth = 1]
             cs == <<f>>
             c == <<a>>
  <2>1. Held[t] = <<>> /\ cstack[t] = cs /\ calls[t] = c /\ cpu[t] = InC(1, 0)
    BY DEF Init, Held
  <2>2. a.lang = "C" /\ a.depth = 1 /\ ~a.sent
    <3>1. 0 \in Nat /\ 1 \in Nat
      OBVIOUS
    <3> QED BY ZenonT(40), <3>1, CActivation
  <2> HIDE DEF f, a
  <2>3. Len(cs) = 1 /\ cs[1] = f /\ Len(c) = 1 /\ c[1] = a
    OBVIOUS
  <2> HIDE DEF cs, c
  <2>4. Nesting(cs, c, 1, 1)
    <3>1. \A i \in 1 .. 1 : i = 1
      OBVIOUS
    <3>2. 1 \in 1 .. 1 /\ 1 <= 1
      OBVIOUS
    <3>3. \A i \in 1 .. 1 : c[i].depth = i /\ cs[i] = CFrame(i, NoSegment, 0)
      BY <2>2, <2>3, <3>1 DEF f
    <3>4. \A i \in 1 .. 1 : c[i].lang = IF 1 < i /\ i <= 1 THEN "Smalltalk" ELSE "C"
      BY <2>2, <2>3, <3>1
    <3> QED BY <2>3, <3>2, <3>3, <3>4, Constants DEF Nesting
  <2>5. InC(1, 0) = InC(1, InC(1, 0).rax)
    BY DEF InC
  <2>6. Outside(cs, InC(1, 0), c)
    BY <2>2, <2>3, <2>4, <2>5 DEF Outside, Result
  <2> QED BY <2>1, <2>6 DEF ThreadKept
<1> QED BY <1>1, <1>2 DEF IInv

\* A state that differs only in whether the program's behaviour is defined.
LEMMA RestKept ==
  ASSUME IInv, running' \in BOOLEAN, UNCHANGED <<memory, stack, cstack, cpu, calls>>
  PROVE  IInv'
<1>1. /\ links' = links /\ header' = header /\ current' = current /\ size' = size
      /\ cpointer' = cpointer /\ stack' = stack /\ cstack' = cstack /\ cpu' = cpu
      /\ calls' = calls
  BY DEF memory
<1>2. Free' = Free /\ Held' = Held
  BY <1>1 DEF Free, Held
<1>3. ListsKept'
  BY <1>1, <1>2 DEF IInv, ListsKept
<1>4. TypesKept'
  BY <1>1 DEF IInv, TypesKept
<1> QED BY <1>1, <1>2, <1>3, <1>4 DEF IInv

LEMMA StepKept ==
  ASSUME IInv, NEW t \in Threads, Step(t), running' = running
  PROVE  IInv'
<1>1. CASE CSendToC(t)
  BY <1>1, KeptByCSendToC
<1>2. CASE CReturnToC(t)
  BY <1>2, KeptByCReturnToC
<1>3. ASSUME NEW n \in 0 .. MaxArguments,
             CSendToSmalltalk(t, n) \/ SendToSmalltalk(t, n) \/ SendToPrimitive(t, n)
      PROVE  IInv'
  <2>1. n \in Nat
    BY Constants
  <2> QED BY <1>3, <2>1, KeptByCSendToSmalltalk, KeptBySendToSmalltalk, KeptBySendToPrimitive
<1>4. ASSUME NEW popCount \in {1, 4}, RuntimePrimitive(t, popCount) PROVE IInv'
  BY <1>4, KeptByRuntimePrimitive
<1>5. CASE PrimitiveReturn(t)
  BY <1>5, KeptByPrimitiveReturn
<1>6. CASE ReplaceContext(t)
  BY <1>6, KeptByReplaceContext
<1>7. CASE Prologue(t)
  BY <1>7, KeptByPrologue
<1>8. CASE SmalltalkReturn(t)
  BY <1>8, KeptBySmalltalkReturn
<1>9. CASE ReturnToC(t)
  BY <1>9, KeptByReturnToC
<1>10. CASE StackLimitTrap(t)
  BY <1>10, KeptByStackLimitTrap
<1>11. CASE PopStackSegment(t)
  BY <1>11, KeptByPopStackSegment
<1> QED BY <1>1, <1>2, <1>3, <1>4, <1>5, <1>6, <1>7, <1>8, <1>9, <1>10, <1>11 DEF Step

LEMMA NextKept == IInv /\ [Next]_vars => IInv'
<1> SUFFICES ASSUME IInv, [Next]_vars PROVE IInv'
  OBVIOUS
<1>1. CASE UNCHANGED vars
  <2>1. running' \in BOOLEAN
    BY <1>1 DEF vars, IInv, TypesKept
  <2> QED BY <1>1, <2>1, RestKept DEF vars
<1>2. ASSUME NEW t \in Threads, Step(t), running' = running PROVE IInv'
  BY <1>2, StepKept
<1>3. ASSUME NEW t \in Threads, CSendPastHeader(t) PROVE IInv'
  <2>1. running' \in BOOLEAN /\ UNCHANGED <<memory, stack, cstack, cpu, calls>>
    BY <1>3 DEF CSendPastHeader
  <2> QED BY <2>1, RestKept
<1> QED BY <1>1, <1>2, <1>3 DEF Next, Stopped

\* Whatever the threads call, and whichever of the calls, returns and traps are
\* next, the lists, the words, the C frames and the registers agree with the
\* history of the calls.
THEOREM Invariance == Spec => []IInv
BY InitKept, NextKept, PTL DEF Spec

-----------------------------------------------------------------------------
(***************************************************************************)
(* What the invariant says of the machine.                                 *)
(***************************************************************************)
\* The words on the stack and the registers are those the code stores, whatever
\* the nesting: no return address is taken for a frame pointer, no segment is
\* longer than it may be, and a thread always has the C frame it started in.
THEOREM TypeCorrect == Spec => []TypeOK
<1>1. IInv => TypeOK
  <2> SUFFICES ASSUME IInv PROVE TypeOK
    OBVIOUS
  <2>1. /\ links \in LinksType /\ current \in [Threads -> Pointers]
        /\ size \in Nat /\ size <= MaxSegments /\ TypesKept
    BY ListFacts DEF IInv
  <2>2. size \in 0 .. MaxSegments
    BY <2>1, Constants
  <2>3. ASSUME NEW t \in Threads
        PROVE  /\ cpu[t] \in CpuType /\ Len(cstack[t]) > 0
               /\ Len(calls[t]) \in 1 .. MaxCalls
    <3>1. /\ ThreadKept(Held[t], header, cpointer, stack, cstack[t], cpu[t], calls[t])
          /\ Typed(Held[t], header, cpointer, stack, cstack[t], cpu[t], calls[t])
      BY ThreadFacts
    <3>2. PICK k \in Nat, m \in Nat :
            Nesting(cstack[t], calls[t], k, m)
      BY <3>1 DEF ThreadKept, Inside, Outside, Typed
    <3>3. Len(cstack[t]) \in Nat /\ Len(calls[t]) \in Nat /\ cpu[t] \in CpuType
      BY <3>1 DEF Typed
    <3> QED BY <3>2, <3>3, Constants DEF Nesting
  <2> QED BY <2>1, <2>2, <2>3 DEF TypeOK, TypesKept, CpuType, HeaderType, StackType
<1> QED BY <1>1, Invariance, PTL

\* A C activation has its frame where the history says it is, and the innermost
\* one, when it is C, has the newest.
LEMMA CFrames ==
  ASSUME IInv, NEW t \in Threads, NEW i \in 1 .. Len(calls[t]), calls[t][i].lang = "C"
  PROVE  LET d == calls[t][i].depth IN
         /\ d <= Len(cstack[t]) /\ cstack[t][d].act = i /\ cstack[t][d].kind = "function"
         /\ RunsC(t) /\ i = Len(calls[t]) => Len(cstack[t]) = d
<1> DEFINE q == Held[t]
           cs == cstack[t]
           c == calls[t]
<1>1. /\ Typed(q, header, cpointer, stack, cs, cpu[t], c)
      /\ ThreadKept(q, header, cpointer, stack, cs, cpu[t], c)
  BY ThreadFacts
<1>2. Len(cs) \in Nat /\ Len(c) \in Nat /\ i \in 1 .. Len(c) /\ c[i].lang = "C"
  BY <1>1 DEF Typed
<1>3. \A s, d : CFrame(i, s, d).act = i /\ CFrame(i, s, d).kind = "function"
  BY DEF CFrame
<1> HIDE DEF q, cs, c
<1>4. CASE q = <<>>
  <2>1. Outside(cs, cpu[t], c)
    BY <1>1, <1>4 DEF ThreadKept
  <2>2. Nesting(cs, c, Len(c), Len(c)) /\ Len(cs) = Len(c)
    BY <2>1 DEF Outside
  <2>3. c[i].depth = i /\ cs[i] = CFrame(i, NoSegment, 0)
    BY <1>2, <2>2 DEF Nesting
  <2> QED BY <1>2, <1>3, <2>2, <2>3 DEF cs, c
<1>5. CASE q # <<>>
  <2>1. PICK k \in Nat, m \in Nat, b \in Nat :
          /\ Nesting(cs, c, k, m) /\ Base(q, header, cpointer, stack, cs, k, b)
          /\ cpu[t].mode = "C" => InCalledC(q, stack, cs, cpu[t], c, k, m)
          /\ cpu[t].mode = "Smalltalk" => m = Len(c)
          /\ cpu[t].mode \in {"C", "Smalltalk"}
    BY <1>1, <1>5, Where
  <2>2. ~(k < i /\ i <= m) /\ k <= m /\ m <= Len(c)
    BY <1>2, <2>1 DEF Nesting
  <2>3. CASE i <= k
    <3>1. c[i].depth = i /\ cs[i] = CFrame(i, NoSegment, 0) /\ k < Len(cs)
      BY <1>2, <2>1, <2>3 DEF Nesting, Base
    <3>2. cpu[t].mode = "C" => i # Len(c)
      BY <1>2, <2>1, <2>3 DEF InCalledC
    <3> QED BY <1>2, <1>3, <2>3, <3>1, <3>2 DEF RunsC, cs, c
  <2>4. CASE i > m
    <3>1. cpu[t].mode = "C" /\ InCalledC(q, stack, cs, cpu[t], c, k, m)
      BY <1>2, <2>1, <2>4
    <3>2. c[i].depth = k + 1 + i - m /\ Len(cs) = k + 1 + Len(c) - m /\ i \in m + 1 .. Len(c)
      <4>1. i \in m + 1 .. Len(c)
        BY <1>2, <2>4
      <4> QED BY <3>1, <4>1 DEF InCalledC
    <3>3. \E s, d : cs[c[i].depth] = CFrame(i, s, d)
      <4>1. CASE i = m + 1
        <5>1. cs[k + 2] = CFrame(m + 1, q[Len(q)], c[m].depth + c[m + 1].arguments + 2 + 3)
          BY <3>1 DEF InCalledC
        <5>2. c[i].depth = k + 2
          BY <3>2, <4>1
        <5> QED BY <4>1, <5>1, <5>2
      <4>2. CASE i # m + 1
        <5>1. i \in m + 2 .. Len(c)
          BY <3>2, <4>2
        <5>2. cs[k + 1 + i - m] = CFrame(i, NoSegment, 0)
          BY <3>1, <5>1 DEF InCalledC
        <5> QED BY <3>2, <5>2
      <4> QED BY <4>1, <4>2
    <3>4. c[i].depth <= Len(cs) /\ (i = Len(c) => Len(cs) = c[i].depth)
      <4> DEFINE e == c[i].depth
                 N == Len(cs)
                 L == Len(c)
      <4>1. e = k + 1 + i - m /\ N = k + 1 + L - m /\ L \in Nat /\ i \in 1 .. L
        BY <1>2, <3>2
      <4> HIDE DEF e, N, L
      <4>2. e <= N /\ (i = L => N = e)
        BY <4>1
      <4> QED BY <4>2 DEF e, N, L
    <3> QED BY <1>3, <3>3, <3>4 DEF cs, c
  <2> QED BY <1>2, <2>1, <2>2, <2>3, <2>4
<1> QED BY <1>4, <1>5

\* However sends, returns and traps are nested, the C stack a trampoline drops
\* to its saved pointers never loses the frame of an activation that goes on.
THEOREM SuspendedFramesKept == Spec => []CFramesSurvive
<1>1. IInv => CFramesSurvive
  BY CFrames DEF CFramesSurvive, Top
<1> QED BY <1>1, Invariance, PTL

\* What runs is the innermost activation, in its language and with the answer of
\* the send it last made.
LEMMA Innermost ==
  ASSUME IInv, NEW t \in Threads, cpu[t].at = "body"
  PROVE  LET n == Len(calls[t]) IN
         /\ n \in 1 .. Len(calls[t]) /\ cpu[t].act = n /\ cpu[t].mode = calls[t][n].lang
         /\ calls[t][n].sent => cpu[t].rax = n + 1
<1> DEFINE q == Held[t]
           cs == cstack[t]
           c == calls[t]
           n == Len(c)
<1>1. /\ Typed(q, header, cpointer, stack, cs, cpu[t], c)
      /\ ThreadKept(q, header, cpointer, stack, cs, cpu[t], c)
  BY ThreadFacts
<1>2. n \in Nat
  BY <1>1 DEF Typed
<1> HIDE DEF q, cs, c
<1>3. CASE q = <<>>
  <2>1. Outside(cs, cpu[t], c)
    BY <1>1, <1>3 DEF ThreadKept
  <2>2. /\ Nesting(cs, c, n, n) /\ cpu[t] = InC(n, cpu[t].rax) /\ Result(cpu[t], c, n)
    BY <2>1 DEF Outside
  <2>3. cpu[t].act = n /\ cpu[t].mode = "C" /\ n \in 1 .. n /\ c[n].lang = "C"
    BY <1>2, <2>2 DEF Nesting, InC
  <2> QED BY <2>2, <2>3 DEF Result, c
<1>4. CASE q # <<>>
  <2>1. PICK k \in Nat, m \in Nat, b \in Nat :
          /\ Nesting(cs, c, k, m)
          /\ cpu[t].mode = "C" => InCalledC(q, stack, cs, cpu[t], c, k, m)
          /\ cpu[t].mode = "Smalltalk" => InBody(q, stack, cpu[t], c, k, m)
          /\ cpu[t].mode \in {"C", "Smalltalk"}
    BY <1>1, <1>4, Where
  <2>2. /\ cpu[t].act = n /\ n \in 1 .. n /\ Result(cpu[t], c, n)
        /\ cpu[t].mode = c[n].lang
    <3>1. CASE cpu[t].mode = "C"
      <4>1. m > k /\ m < n /\ cpu[t] = InC(n, cpu[t].rax) /\ Result(cpu[t], c, n)
        BY <2>1, <3>1 DEF InCalledC
      <4>2. n \in 1 .. n /\ ~(n <= m)
        BY <1>2, <2>1, <4>1
      <4> QED BY <2>1, <3>1, <4>1, <4>2 DEF Nesting, InC
    <3>2. CASE cpu[t].mode = "Smalltalk"
      <4>1. m > k /\ m = n /\ cpu[t].act = m /\ Result(cpu[t], c, m)
        BY <2>1, <3>2 DEF InBody, InSmalltalk
      <4>2. n \in 1 .. n /\ k < n
        BY <1>2, <2>1, <4>1
      <4> QED BY <2>1, <3>2, <4>1, <4>2 DEF Nesting
    <3> QED BY <2>1, <3>1, <3>2
  <2> QED BY <2>2 DEF Result, c
<1> QED BY <1>3, <1>4

\* Every call comes back to the code that made it, in the frame, at the depth and
\* with the result it expects, through any mixture of languages and segments.
THEOREM SendersReturnedTo == Spec => []ReturnsToSender
<1>1. IInv => ReturnsToSender
  <2> SUFFICES ASSUME IInv, NEW t \in Threads, cpu[t].at = "body"
               PROVE  LET n == Top(t)
                          c == calls[t][n] IN
                      /\ cpu[t].act = n /\ cpu[t].mode = c.lang
                      /\ c.sent => cpu[t].rax = n + 1
                      /\ IF RunsC(t)
                         THEN /\ Len(cstack[t]) = c.depth /\ cstack[t][c.depth].act = n
                              /\ cstack[t][c.depth].kind = "function"
                         ELSE <<cpu[t].seg, cpu[t].fp, Len(stack[cpu[t].seg])>>
                                = <<c.seg, c.fp, c.depth>>
    BY DEF ReturnsToSender
  <2> DEFINE n == Len(calls[t])
             c == calls[t][n]
  <2>1. n \in 1 .. n /\ cpu[t].act = n /\ cpu[t].mode = c.lang /\ (c.sent => cpu[t].rax = n + 1)
    BY Innermost
  <2>2. CASE RunsC(t)
    <3>1. c.lang = "C"
      BY <2>1, <2>2 DEF RunsC
    <3>2. /\ Len(cstack[t]) = c.depth /\ cstack[t][c.depth].act = n
          /\ cstack[t][c.depth].kind = "function"
      BY <2>1, <2>2, <3>1, CFrames
    <3> QED BY <2>1, <2>2, <3>2 DEF Top
  <2>3. CASE ~RunsC(t)
    <3>1. cpu[t].mode \in {"C", "Smalltalk"}
      BY ThreadFacts DEF Typed, CpuType
    <3>2. RunsSmalltalk(t)
      BY <2>3, <3>1 DEF RunsC, RunsSmalltalk
    <3>3. c.seg = cpu[t].seg /\ c.depth = Len(stack[cpu[t].seg]) /\ cpu[t].fp = c.fp
      BY <3>2, BodyFacts
    <3> QED BY <2>1, <2>3, <3>3 DEF Top
  <2> QED BY <2>2, <2>3
<1> QED BY <1>1, Invariance, PTL

\* Compiled code only ever runs on the newest segment of its thread, and the trap
\* that gives it back has another one to go on with.
THEOREM NewestSegmentRuns == Spec => []RunsOnNewestSegment
<1>1. IInv => RunsOnNewestSegment
  <2> SUFFICES ASSUME IInv, NEW t \in Threads, cpu[t].mode = "Smalltalk"
               PROVE  /\ current[t] # NoSegment /\ cpu[t].seg = links.last[current[t]]
                      /\ cpu[t].at = "popTrap" => links.previous[cpu[t].seg] # NoSegment
    BY DEF RunsOnNewestSegment
  <2> DEFINE q == Held[t]
             s == cpu[t].seg
  <2>1. /\ OnTop(q, s) /\ ListsKept /\ current[t] # NoSegment
        /\ Typed(q, header, cpointer, stack, cstack[t], cpu[t], calls[t])
        /\ ThreadKept(q, header, cpointer, stack, cstack[t], cpu[t], calls[t])
    <3>1. OnTop(q, s)
      BY SmalltalkFacts
    <3> QED BY <3>1, ThreadFacts DEF OnTop
  <2>2. /\ q \in Seq(Segments) /\ Len(q) \in Nat \ {0} /\ links.last[current[t]] = q[Len(q)]
        /\ \A i \in 1 .. Len(q) : links.previous[q[i]] = IF i = 1 THEN NoSegment ELSE q[i - 1]
    BY <2>1, Newest
  <2> HIDE DEF q
  <2>3. ASSUME cpu[t].at = "popTrap" PROVE links.previous[s] # NoSegment
    <3>1. PICK k \in Nat, m \in Nat, b \in Nat :
            AtTrap(q, header, stack, cpu[t], calls[t], k, b, m)
      BY <2>1, <2>3, Where DEF OnTop
    <3>2. \E S : Waits(q, header, stack, S, s)
      BY <2>1, <3>1 DEF AtTrap, OnTop
    <3>3. Len(q) > 1
      BY <2>1, <3>2, WaitsBefore DEF Typed
    <3>4. Len(q) \in 1 .. Len(q) /\ Len(q) # 1 /\ Len(q) - 1 \in 1 .. Len(q)
      BY <2>2, <3>3
    <3>5. links.previous[s] = q[Len(q) - 1] /\ q[Len(q) - 1] \in Segments
      BY <2>1, <2>2, <3>4 DEF OnTop
    <3> QED BY <3>5, Constants
  <2> QED BY <2>1, <2>2, <2>3 DEF OnTop
<1> QED BY <1>1, Invariance, PTL

\* A thread that is back in C with no Smalltalk below holds no segment.
THEOREM OutermostSendGivesBack == Spec => []OutermostSendReleases
<1>1. IInv => OutermostSendReleases
  <2> SUFFICES ASSUME IInv, NEW t \in Threads, RunsC(t), current[t] # NoSegment
               PROVE  \E i \in 1 .. Len(calls[t]) : calls[t][i].lang # "C"
    BY DEF OutermostSendReleases, Top
  <2>1. /\ Held[t] # <<>> /\ cpu[t].mode = "C"
        /\ ThreadKept(Held[t], header, cpointer, stack, cstack[t], cpu[t], calls[t])
    BY ThreadFacts DEF RunsC
  <2>2. PICK k \in Nat, m \in Nat :
          /\ Nesting(cstack[t], calls[t], k, m)
          /\ InCalledC(Held[t], stack, cstack[t], cpu[t], calls[t], k, m)
    BY <2>1, Where
  <2>3. k < m /\ m <= m /\ m \in 1 .. Len(calls[t])
    BY <2>2 DEF InCalledC, Nesting
  <2>4. calls[t][m].lang = "Smalltalk"
    BY <2>2, <2>3 DEF Nesting
  <2> QED BY <2>3, <2>4
<1> QED BY <1>1, Invariance, PTL

\* Every segment of a thread leads to its thread data, which no push, return or
\* trap overwrites while the thread has a segment.
THEOREM ThreadDataKept == Spec => []ThreadDataShared
<1>1. IInv => ThreadDataShared
  <2> SUFFICES ASSUME IInv, NEW t \in Threads, current[t] # NoSegment
               PROVE  LET held == ListNodes(links, current[t]) IN
                      /\ held # <<>> /\ held[1] = current[t]
                      /\ \A i \in 1 .. Len(held) : header[held[i]].threadData = current[t]
                      /\ Upto(stack[current[t]], ThreadDataWords)
                           = [i \in 1 .. ThreadDataWords |-> Word("threadData", 0, 0)]
    BY DEF ThreadDataShared
  <2>1. Held[t] = ListNodes(links, current[t])
    BY DEF Held
  <2>2. /\ ListsKept /\ Typed(Held[t], header, cpointer, stack, cstack[t], cpu[t], calls[t])
        /\ ThreadKept(Held[t], header, cpointer, stack, cstack[t], cpu[t], calls[t])
    BY ThreadFacts
  <2>3. Held[t] # <<>> /\ Held[t][1] = current[t] /\ current[t] \in Segments
    BY <2>2, ListFacts
  <2>4. PICK k \in Nat, b \in Nat : Base(Held[t], header, cpointer, stack, cstack[t], k, b)
    BY <2>2, <2>3, Where
  <2>5. /\ \A i \in 1 .. Len(Held[t]) : header[Held[t][i]].threadData = current[t]
        /\ Len(stack[current[t]]) >= ThreadDataWords
        /\ \A i \in 1 .. ThreadDataWords : stack[current[t]][i] = Word("threadData", 0, 0)
    BY <2>3, <2>4 DEF Base
  <2> DEFINE w == stack[current[t]]
  <2>6. w \in Seq(WordType) /\ ThreadDataWords \in 0 .. Len(w)
    BY <2>2, <2>3, <2>5, Constants DEF Typed, StackType
  <2> HIDE DEF w
  <2>7. /\ Upto(w, ThreadDataWords) \in Seq(WordType)
        /\ Len(Upto(w, ThreadDataWords)) = ThreadDataWords
        /\ \A i \in 1 .. ThreadDataWords : Upto(w, ThreadDataWords)[i] = w[i]
    BY <2>6, Prefix DEF Upto
  <2>8. Upto(w, ThreadDataWords) = [i \in 1 .. ThreadDataWords |-> w[i]]
    <3> DEFINE u == Upto(w, ThreadDataWords)
    <3>1. u \in [1 .. Len(u) -> WordType]
      BY <2>7, LenProperties
    <3> HIDE DEF u
    <3>2. Len(u) = ThreadDataWords /\ \A i \in 1 .. ThreadDataWords : u[i] = w[i]
      BY <2>7 DEF u
    <3>3. u = [i \in 1 .. ThreadDataWords |-> w[i]]
      BY <3>1, <3>2
    <3> QED BY <3>3 DEF u
  <2>9. Upto(w, ThreadDataWords) = [i \in 1 .. ThreadDataWords |-> Word("threadData", 0, 0)]
    BY <2>5, <2>8 DEF w
  <2> QED BY <2>1, <2>3, <2>5, <2>9 DEF w
<1> QED BY <1>1, Invariance, PTL

\* The lists threaded through the segment headers put every page that was taken
\* from the pool in exactly one place, the free list or the stack of a thread.
THEOREM OneSegmentPlace == Spec => []SegmentsHaveOnePlace
<1>1. IInv => SegmentsHaveOnePlace
  <2> SUFFICES ASSUME Placed(Free, Held, size) PROVE Pool!OnePlace /\ Pool!NoneLost
    BY DEF IInv, ListsKept, SegmentsHaveOnePlace
  <2>1. Pool!OnePlace
    BY DEF Placed, Abstract!Apart, Pool!OnePlace, Pool!Apart, Free, Held
  <2>2. Pool!NoneLost
    BY DEF Placed, Abstract!Complete, Pool!NoneLost, Pool!Complete, Free, Held
  <2> QED BY <2>1, <2>2
<1> QED BY <1>1, Invariance, PTL

-----------------------------------------------------------------------------
(***************************************************************************)
(* The pointer structure implements the pool: its free list and stacks are *)
(* Free and Held.                                                          *)
(***************************************************************************)
LEMMA PoolState ==
  /\ Pool!Init <=> Free = <<>> /\ Held = [t \in Threads |-> <<>>] /\ size = 0
  /\ UNCHANGED Pool!vars <=> Free' = Free /\ Held' = Held /\ size' = size
BY DEF Pool!Init, Pool!vars, Free, Held

\* What a thread does to the pool is what SegmentPool says it may do.
LEMMA ReleaseMaps ==
  ASSUME NEW t \in Threads, Releases(t) PROVE Pool!Release(t)
BY DEF Releases, Pool!Release, Free, Held

LEMMA TakeMaps ==
  ASSUME ListsKept, NEW t \in Threads, Takes(t) PROVE Pool!Reuse(t) \/ Pool!Grow(t)
<1>1. CASE Free # <<>>
  <2>1. /\ Free # <<>> /\ Free' = Tail(Free) /\ size' = size
        /\ Held' = [Held EXCEPT ![t] = Append(@, Head(Free))]
    BY <1>1 DEF Takes, FreeLeft, Allocated, SizeTaken
  <2> QED BY <2>1 DEF Pool!Reuse, Free, Held
<1>2. CASE Free = <<>>
  <2>1. size < MaxSegments
    BY <1>2, Allocation DEF Takes, CanAllocate
  <2>2. /\ Free = <<>> /\ Free' = Free /\ size' = size + 1
        /\ Held' = [Held EXCEPT ![t] = Append(@, size + 1)]
    BY <1>2 DEF Takes, FreeLeft, Allocated, SizeTaken
  <2> QED BY <2>1, <2>2 DEF Pool!Grow, Free, Held
<1> QED BY <1>1, <1>2

\* A step that leaves the lists alone is a stutter of the pool.
LEMMA StutterMaps ==
  ASSUME links' = links, current' = current, size' = size PROVE UNCHANGED Pool!vars
BY DEF Pool!vars

LEMMA InitMaps == Init => Pool!Init
<1> SUFFICES ASSUME Init PROVE Pool!Init
  OBVIOUS
<1>1. links = EmptyLinks /\ size = 0 /\ ListsKept
  BY InitLists DEF Init
<1>2. Held = [t \in Threads |-> <<>>]
  BY DEF Init, Held
<1>3. links.first[FreeList] = NoSegment
  BY <1>1, Constants DEF EmptyLinks
<1>4. IsList(links, FreeList, Free) /\ Len(Free) \in Nat /\ Free \in Seq(Segments)
  BY <1>1, ListFacts
<1>5. Free = <<>>
  <2> SUFFICES ASSUME Len(Free) # 0 PROVE FALSE
    BY <1>4
  <2>1. 1 \in 1 .. Len(Free)
    BY <1>4
  <2>2. links.first[FreeList] = Free[1] /\ Free[1] \in Segments
    BY <1>4, <2>1 DEF IsList
  <2> QED BY <1>3, <2>2, Constants
<1> QED BY <1>1, <1>2, <1>5, PoolState

LEMMA NextMaps == IInv /\ [Next]_vars => [Pool!Next]_(Pool!vars)
<1> SUFFICES ASSUME IInv, [Next]_vars PROVE [Pool!Next]_(Pool!vars)
  OBVIOUS
<1>1. CASE UNCHANGED vars
  BY <1>1, StutterMaps DEF vars, memory
<1>2. ASSUME NEW t \in Threads, Step(t), running' = running
      PROVE  [Pool!Next]_(Pool!vars)
  <2>1. CASE CSendToC(t) \/ CReturnToC(t) \/ PrimitiveReturn(t) \/ ReplaceContext(t)
             \/ Prologue(t) \/ SmalltalkReturn(t)
    <3>1. UNCHANGED memory
      BY Zenon, <2>1 DEF CSendToC, CReturnToC, PrimitiveReturn, ReplaceContext, Prologue,
                  SmalltalkReturn
    <3> QED BY SMTT(20), <3>1, StutterMaps DEF memory
  <2>2. ASSUME NEW n \in 0 .. MaxArguments, SendToSmalltalk(t, n) \/ SendToPrimitive(t, n)
        PROVE  [Pool!Next]_(Pool!vars)
    <3>1. CASE SendToSmalltalk(t, n)
      <4>1. links' = links /\ current' = current /\ size' = size
        BY ZenonT(40), <3>1 DEF SendToSmalltalk, SendSaved, SaveSmalltalk, SetMemory, Memory
      <4> QED BY SMTT(20), <4>1, StutterMaps
    <3>2. CASE SendToPrimitive(t, n)
      <4>1. links' = links /\ current' = current /\ size' = size
        BY <3>2 DEF SendToPrimitive, SendSaved, SaveSmalltalk, SetMemory, Memory
      <4> QED BY <4>1, StutterMaps
    <3> QED BY <2>2, <3>1, <3>2
  <2>3. ASSUME NEW popCount \in {1, 4}, RuntimePrimitive(t, popCount)
        PROVE  [Pool!Next]_(Pool!vars)
    <3>1. links' = links /\ current' = current /\ size' = size
      BY <2>3 DEF RuntimePrimitive, SaveSmalltalk, SetMemory, Memory
    <3> QED BY SMTT(20), <3>1, StutterMaps
  <2>4. ASSUME NEW n \in 0 .. MaxArguments, CSendToSmalltalk(t, n)
        PROVE  [Pool!Next]_(Pool!vars)
    <3>1. n \in Nat
      BY Constants
    <3>2. Takes(t)
      BY <1>2, <2>4, <3>1, KeptByCSendToSmalltalk
    <3> QED BY <3>2, TakeMaps DEF Pool!Next, IInv
  <2>5. CASE StackLimitTrap(t)
    BY <1>2, <2>5, KeptByStackLimitTrap, TakeMaps DEF Pool!Next, IInv
  <2>6. CASE ReturnToC(t)
    BY <1>2, <2>6, KeptByReturnToC, ReleaseMaps DEF Pool!Next
  <2>7. CASE PopStackSegment(t)
    BY <1>2, <2>7, KeptByPopStackSegment, ReleaseMaps DEF Pool!Next
  <2> QED BY <1>2, <2>1, <2>2, <2>3, <2>4, <2>5, <2>6, <2>7 DEF Step
<1>3. ASSUME NEW t \in Threads, CSendPastHeader(t) PROVE [Pool!Next]_(Pool!vars)
  BY <1>3, StutterMaps DEF CSendPastHeader, memory
<1> QED BY <1>1, <1>2, <1>3 DEF Next, Stopped

\* The segmented stack implements the pool: every call of the runtime takes one
\* segment for a thread, gives its newest one back, or leaves the pool alone.
THEOREM ImplementsPool == Spec => PoolSpec
BY InitMaps, NextMaps, Invariance, PTL DEF Spec, PoolSpec, Pool!Spec
=============================================================================
