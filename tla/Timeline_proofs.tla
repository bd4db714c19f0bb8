--------------------------- MODULE Timeline_proofs ---------------------------
(***************************************************************************)
(* Proofs about Timeline, for any ids, payloads and bounds: its types, and *)
(* each of its five safety properties.                                     *)
(***************************************************************************)
EXTENDS Timeline, SequenceTheorems, FiniteSetTheorems, NaturalsInduction,
        WellFoundedInduction, TLAPS

-----------------------------------------------------------------------------
(* Induction over the natural numbers, as a fact about sets: a set that      *)
(* holds 0 and the successor of what it holds is all of them.                *)
Below == {p \in Nat \X Nat : p[1] < p[2]}

LEMMA Least ==
  ASSUME NEW T, T \subseteq Nat, T # {}
  PROVE  \E x \in T : \A y \in T : x <= y
<1>1. IsWellFoundedOn(Below, Nat)
  BY NatLessThanWellFounded DEF OpToRel, Below
<1>2. PICK x \in T : \A y \in T : ~(<<y, x>> \in Below)
  BY <1>1, WFMin
<1>3. ASSUME NEW y \in T PROVE x <= y
  <2>1. x \in Nat /\ y \in Nat /\ ~(<<y, x>> \in Below)
    BY <1>2
  <2> QED BY <2>1 DEF Below
<1> QED BY <1>3

LEMMA Counting ==
  ASSUME NEW T, 0 \in T, \A n \in Nat : n \in T => n + 1 \in T
  PROVE  \A n \in Nat : n \in T
<1> SUFFICES ASSUME Nat \ T # {} PROVE FALSE
  OBVIOUS
<1> DEFINE U == Nat \ T
<1>1. U \subseteq Nat /\ U # {}
  OBVIOUS
<1> HIDE DEF U
<1>2. PICK x \in U : \A y \in U : x <= y
  BY <1>1, Least
<1> USE DEF U
<1>3. x # 0 /\ x - 1 \in Nat
  BY <1>2
<1>4. x - 1 \in T
  BY <1>2, <1>3
<1>5. (x - 1) + 1 \in T
  BY <1>3, <1>4
<1> QED BY <1>5

-----------------------------------------------------------------------------
(* A set as a sequence: all of its elements, and no others. *)
LEMMA SetAsSequence ==
  ASSUME NEW S, IsFiniteSet(S)
  PROVE  /\ SetToSeq(S) \in Seq(S) /\ Len(SetToSeq(S)) \in Nat
         /\ \A i \in 1..Len(SetToSeq(S)) : SetToSeq(S)[i] \in S
         /\ \A x \in S : \E i \in 1..Len(SetToSeq(S)) : SetToSeq(S)[i] = x
<1> DEFINE n == Cardinality(S)
           f == SetToSeq(S)
<1>1. n \in Nat /\ ExistsBijection(1..n, S)
  BY FS_CardinalityType
<1>2. PICK g \in [1..n -> S] : IsInjective(g)
  BY <1>1 DEF ExistsBijection, Bijection, Injection, IsInjective
<1>3. f \in [1..n -> S] /\ IsInjective(f)
  BY <1>2 DEF SetToSeq
<1> HIDE DEF f
<1>4. f \in Seq(S) /\ Len(f) = n
  BY <1>1, <1>3, SeqDef, LenProperties
<1>5. IsFiniteSet(1..n) /\ Cardinality(1..n) = n
  BY <1>1, FS_Interval
<1>6. f \in Injection(1..n, S)
  BY <1>3 DEF Injection, IsInjective
<1>7. f \in Surjection(1..n, S)
  BY <1>5, <1>6, FS_Injection
<1>8. \A x \in S : \E i \in 1..n : f[i] = x
  BY <1>7 DEF Surjection
<1> QED BY <1>1, <1>3, <1>4, <1>8 DEF f

(* The elements a function makes of a finite set. *)
LEMMA FiniteImage ==
  ASSUME NEW S, IsFiniteSet(S), NEW f, DOMAIN f = S
  PROVE  IsFiniteSet({f[x] : x \in S})
<1> DEFINE T == {f[x] : x \in S}
           g == [x \in S |-> f[x]]
<1>1. g \in [S -> T] /\ \A y \in T : \E x \in S : g[x] = y
  OBVIOUS
<1>2. g \in Surjection(S, T)
  BY <1>1 DEF Surjection
<1> HIDE DEF g
<1> QED BY <1>2, FS_Surjection

-----------------------------------------------------------------------------
(* Assembling a sequence of deltas, one by one and in parts. *)
Folding(h, b, deltas, run) ==
  h = [i \in 0..Len(deltas) |-> IF i = 0 THEN b ELSE Apply(run, h[i - 1], deltas[i])]

LEMMA FoldExists ==
  ASSUME NEW b, NEW deltas, NEW run, Len(deltas) \in Nat
  PROVE  \E h : Folding(h, b, deltas, run)
<1> DEFINE Folds(h, n) == h = [i \in 0..n |-> IF i = 0 THEN b ELSE Apply(run, h[i - 1], deltas[i])]
           T == {n \in Nat : \E h : Folds(h, n)}
<1>1. 0 \in T
  <2> DEFINE h == [i \in 0..0 |-> b]
  <2>1. h = [i \in 0..0 |-> IF i = 0 THEN b ELSE Apply(run, h[i - 1], deltas[i])]
    OBVIOUS
  <2> QED BY <2>1
<1>2. ASSUME NEW n \in Nat, n \in T PROVE n + 1 \in T
  <2>1. PICK g : Folds(g, n)
    BY <1>2
  <2> DEFINE h == [i \in 0..(n + 1) |-> IF i = n + 1 THEN Apply(run, g[n], deltas[i]) ELSE g[i]]
             e(i, x) == Apply(run, x, deltas[i])
  <2> HIDE DEF e
  <2>2. g = [i \in 0..n |-> IF i = 0 THEN b ELSE e(i, g[i - 1])]
    BY <2>1 DEF e
  <2>3. h = [i \in 0..(n + 1) |-> IF i = n + 1 THEN e(i, g[n]) ELSE g[i]]
    BY DEF e
  <2> HIDE DEF h
  <2>4. \A i \in 0..n : h[i] = g[i] /\ i # n + 1
    BY <2>3
  <2>5. h[n + 1] = e(n + 1, h[n])
    BY <2>3, <2>4
  <2>6. \A i \in 0..(n + 1) : h[i] = IF i = 0 THEN b ELSE e(i, h[i - 1])
    <3>1. SUFFICES ASSUME NEW i \in 0..(n + 1)
                   PROVE  h[i] = IF i = 0 THEN b ELSE e(i, h[i - 1])
      OBVIOUS
    <3>2. CASE i = n + 1
      <4>1. i - 1 = n /\ i # 0
        BY <3>2
      <4> QED BY <2>5, <3>2, <4>1
    <3>3. CASE i # n + 1
      <4>1. i \in 0..n /\ (i # 0 => i - 1 \in 0..n)
        BY <3>3
      <4>2. h[i] = IF i = 0 THEN b ELSE e(i, g[i - 1])
        BY <2>2, <2>4, <4>1
      <4>3. i # 0 => h[i - 1] = g[i - 1]
        BY <2>4, <4>1
      <4> QED BY <4>2, <4>3
    <3> QED BY <3>2, <3>3
  <2>7. h = [i \in 0..(n + 1) |-> IF i = 0 THEN b ELSE e(i, h[i - 1])]
    <3>1. h = [i \in 0..(n + 1) |-> h[i]]
      BY <2>3
    <3> QED BY <2>6, <3>1
  <2>8. Folds(h, n + 1)
    BY <2>7 DEF e
  <2> HIDE DEF Folds
  <2> QED BY <2>8
<1>3. Len(deltas) \in T
  <2> HIDE DEF T
  <2> QED BY <1>1, <1>2, Counting
<1> QED BY <1>3 DEF Folding

LEMMA FoldIsOne ==
  ASSUME NEW b, NEW deltas, NEW run, Len(deltas) \in Nat, NEW h, Folding(h, b, deltas, run)
  PROVE  Assembled(b, deltas, run) = h[Len(deltas)]
<1> DEFINE n == Len(deltas)
           f == CHOOSE g : g = [i \in 0..n |-> IF i = 0 THEN b ELSE Apply(run, g[i - 1], deltas[i])]
           e(i, x) == Apply(run, x, deltas[i])
<1>1. h = [i \in 0..n |-> IF i = 0 THEN b ELSE Apply(run, h[i - 1], deltas[i])]
  BY DEF Folding
<1>2. f = [i \in 0..n |-> IF i = 0 THEN b ELSE Apply(run, f[i - 1], deltas[i])]
  BY <1>1
<1>3. Assembled(b, deltas, run) = f[n]
  BY DEF Assembled
<1> HIDE DEF f, e
<1>4. /\ h = [i \in 0..n |-> IF i = 0 THEN b ELSE e(i, h[i - 1])]
      /\ f = [i \in 0..n |-> IF i = 0 THEN b ELSE e(i, f[i - 1])]
  BY <1>1, <1>2 DEF e
<1> DEFINE T == {i \in Nat : i <= n => h[i] = f[i]}
<1>5. 0 \in T
  <2>1. 0 \in 0..n
    OBVIOUS
  <2> QED BY <1>4, <2>1
<1>6. ASSUME NEW i \in Nat, i \in T PROVE i + 1 \in T
  <2>1. SUFFICES ASSUME i + 1 <= n PROVE h[i + 1] = f[i + 1]
    OBVIOUS
  <2>2. i + 1 \in 0..n /\ i + 1 # 0 /\ (i + 1) - 1 = i /\ i <= n
    BY <2>1
  <2>3. h[i] = f[i]
    BY <1>6, <2>2
  <2>4. h[i + 1] = e(i + 1, h[i]) /\ f[i + 1] = e(i + 1, f[i])
    BY <1>4, <2>2
  <2> QED BY <2>3, <2>4
<1>7. n \in T
  <2> HIDE DEF T
  <2> QED BY <1>5, <1>6, Counting
<1> QED BY <1>3, <1>7

LEMMA AssemblesNone ==
  ASSUME NEW b, NEW run
  PROVE  Assembled(b, <<>>, run) = b
<1>1. Len(<<>>) = 0
  OBVIOUS
<1>2. PICK h : Folding(h, b, <<>>, run)
  BY <1>1, FoldExists
<1>3. h[0] = b
  BY <1>1, <1>2 DEF Folding
<1> QED BY <1>1, <1>2, <1>3, FoldIsOne

LEMMA AssemblesOne ==
  ASSUME NEW b, NEW run, NEW d
  PROVE  Assembled(b, <<d>>, run) = Apply(run, b, d)
<1> DEFINE s == <<d>>
           e(i, x) == Apply(run, x, s[i])
<1>1. Len(s) = 1 /\ s[1] = d
  OBVIOUS
<1>2. PICK h : Folding(h, b, s, run)
  BY <1>1, FoldExists
<1> HIDE DEF s, e
<1>3. h = [i \in 0..1 |-> IF i = 0 THEN b ELSE e(i, h[i - 1])]
  BY <1>1, <1>2 DEF Folding, e
<1>4. h[0] = b /\ h[1] = e(1, h[0])
  BY <1>3
<1>5. e(1, h[0]) = Apply(run, b, d)
  BY <1>1, <1>4 DEF e
<1>6. Assembled(b, s, run) = h[Len(s)]
  <2>1. Len(s) \in Nat
    BY <1>1
  <2> QED BY <2>1, <1>2, FoldIsOne
<1> QED BY <1>1, <1>4, <1>5, <1>6 DEF s

LEMMA AssemblesParts ==
  ASSUME NEW b, NEW run, NEW S, NEW s \in Seq(S), NEW t \in Seq(S)
  PROVE  Assembled(b, s \o t, run) = Assembled(Assembled(b, s, run), t, run)
<1> DEFINE m == Len(s)
           n == Len(t)
           st == s \o t
           e(d, x) == Apply(run, x, d)
<1>1. m \in Nat /\ n \in Nat /\ Len(st) = m + n
  BY ConcatProperties, LenProperties
<1>2. /\ \A i \in 1..m : st[i] = s[i]
      /\ \A i \in 1..n : st[m + i] = t[i]
  <2>1. \A i \in 1..(m + n) : st[i] = IF i <= m THEN s[i] ELSE t[i - m]
    BY <1>1, ConcatProperties
  <2>2. \A i \in 1..m : i \in 1..(m + n) /\ i <= m
    BY <1>1
  <2>3. \A i \in 1..n : m + i \in 1..(m + n) /\ ~(m + i <= m) /\ (m + i) - m = i
    BY <1>1
  <2> HIDE DEF st, m, n
  <2> QED BY <2>1, <2>2, <2>3
<1>3. PICK f : Folding(f, b, s, run)
  BY <1>1, FoldExists
<1>4. PICK g : Folding(g, f[m], t, run)
  BY <1>1, FoldExists
<1> HIDE DEF m, n, st, e
<1>5. f = [i \in 0..m |-> IF i = 0 THEN b ELSE e(s[i], f[i - 1])]
  BY <1>3 DEF Folding, e, m
<1>6. g = [i \in 0..n |-> IF i = 0 THEN f[m] ELSE e(t[i], g[i - 1])]
  BY <1>4 DEF Folding, e, n
<1> DEFINE h == [i \in 0..(m + n) |-> IF i <= m THEN f[i] ELSE g[i - m]]
<1>7. \A i \in 0..(m + n) : h[i] = IF i = 0 THEN b ELSE e(st[i], h[i - 1])
  <2>1. SUFFICES ASSUME NEW i \in 0..(m + n)
                 PROVE  h[i] = IF i = 0 THEN b ELSE e(st[i], h[i - 1])
    OBVIOUS
  <2>2. CASE i <= m
    <3>1. i \in 0..m /\ h[i] = f[i] /\ (i # 0 => h[i - 1] = f[i - 1] /\ st[i] = s[i])
      BY <1>1, <1>2, <2>2
    <3>2. f[i] = IF i = 0 THEN b ELSE e(s[i], f[i - 1])
      BY <1>5, <3>1
    <3> HIDE DEF h
    <3> QED BY <3>1, <3>2
  <2>3. CASE ~(i <= m)
    <3> DEFINE j == i - m
    <3>1. j \in 1..n /\ j \in 0..n /\ j # 0 /\ m + j = i /\ i # 0
      BY <1>1, <2>3
    <3>2. h[i] = g[j] /\ st[i] = t[j]
      BY <1>1, <1>2, <2>3, <3>1
    <3>3. g[j] = e(t[j], g[j - 1])
      <4> HIDE DEF j
      <4> QED BY <1>6, <3>1
    <3>4. h[i - 1] = g[j - 1]
      <4>1. CASE i - 1 <= m
        <5>1. i - 1 = m /\ j = 1 /\ m \in 0..(m + n)
          BY <1>1, <2>3, <4>1
        <5>2. h[i - 1] = f[m]
          BY <1>1, <5>1
        <5>3. g[0] = f[m] /\ j - 1 = 0
          BY <1>1, <1>6, <5>1
        <5> QED BY <5>2, <5>3
      <4>2. CASE ~(i - 1 <= m)
        <5>1. i - 1 \in 0..(m + n) /\ (i - 1) - m = j - 1
          BY <1>1, <2>3, <4>2
        <5> QED BY <4>2, <5>1
      <4> QED BY <4>1, <4>2
    <3> HIDE DEF h, j
    <3> QED BY <3>1, <3>2, <3>3, <3>4
  <2> QED BY <2>2, <2>3
<1>8. h = [i \in 0..(m + n) |-> IF i = 0 THEN b ELSE e(st[i], h[i - 1])]
  <2>1. h = [i \in 0..(m + n) |-> h[i]]
    OBVIOUS
  <2> HIDE DEF h
  <2> QED BY <1>7, <2>1
<1>9. Folding(h, b, st, run)
  BY <1>1, <1>8 DEF Folding, e
<1>10. h[m + n] = g[n]
  <2>1. CASE n = 0
    <3>1. m + n = m /\ m <= m /\ m + n \in 0..(m + n) /\ g[n] = f[m]
      BY <1>1, <1>6, <2>1
    <3> QED BY <3>1
  <2>2. CASE n # 0
    <3>1. ~(m + n <= m) /\ (m + n) - m = n /\ m + n \in 0..(m + n)
      BY <1>1, <2>2
    <3> QED BY <3>1
  <2> QED BY <2>1, <2>2
<1> HIDE DEF h
<1>11. Assembled(b, st, run) = h[m + n]
  BY <1>1, <1>9, FoldIsOne
<1>12. Assembled(b, s, run) = f[m]
  BY <1>1, <1>3, FoldIsOne DEF m
<1>13. Assembled(f[m], t, run) = g[n]
  BY <1>1, <1>4, FoldIsOne DEF n
<1> QED BY <1>10, <1>11, <1>12, <1>13 DEF st

(* What the translator's short answers are made of. *)
LEMMA AssemblesPair ==
  ASSUME NEW b, NEW run, NEW d, NEW e
  PROVE  Assembled(b, <<d>> \o <<e>>, run) = Apply(run, Apply(run, b, d), e)
<1> DEFINE S == {d, e}
<1>1. <<d>> \in Seq(S) /\ <<e>> \in Seq(S)
  OBVIOUS
<1> HIDE DEF S
<1>2. Assembled(b, <<d>> \o <<e>>, run) = Assembled(Assembled(b, <<d>>, run), <<e>>, run)
  BY <1>1, AssemblesParts
<1>3. Assembled(b, <<d>>, run) = Apply(run, b, d)
  BY AssemblesOne
<1>4. \A x : Assembled(x, <<e>>, run) = Apply(run, x, e)
  BY AssemblesOne
<1> QED BY <1>2, <1>3, <1>4

LEMMA AssemblesHalf ==
  ASSUME NEW b, NEW run, NEW d
  PROVE  /\ Assembled(b, <<>> \o <<d>>, run) = Apply(run, b, d)
         /\ Assembled(b, <<d>> \o <<>>, run) = Apply(run, b, d)
<1> DEFINE S == {d}
<1>1. <<d>> \in Seq(S)
  OBVIOUS
<1> HIDE DEF S
<1>2. <<>> \o <<d>> = <<d>> /\ <<d>> \o <<>> = <<d>>
  BY <1>1, ConcatEmptySeq
<1> QED BY <1>2, AssemblesOne
-----------------------------------------------------------------------------
(* The types.  An abort under way holds the closes of the streams that were *)
(* open when bb interrupted, and the boundary.                              *)
Primes == [run : 0..MaxRuns, last : 0..MaxRuns, kind : {"none", "prompt", "compact"},
           owed : Nat, asked : 0..MaxRuns, texts : SUBSET Channels, tools : SUBSET Tools,
           compacting : BOOLEAN, children : [Children -> ChildStatus], queue : Payloads,
           streams : SUBSET Kinds]
Timelines == [turn : 0..MaxRuns, rows : SUBSET Rows, queue : Payloads,
              closed : SUBSET (1..MaxRuns),
              mixed : BOOLEAN, twice : BOOLEAN, reshaped : BOOLEAN]
Closes(S) == SetToSeq({TextClose(c) : c \in S})
Holds(a, S) == /\ a.deltas = Append(Closes(S), Boundary(FALSE))
               /\ a = [deltas |-> a.deltas, turn |-> a.turn]
               /\ a.turn \in 0..MaxRuns
Tallies == [turns : Nat, drops : Nat, queues : Nat]

TypesInv ==
  /\ state \in ThreadState
  /\ openTurn \in {"none", "open", "settled"} /\ compact \in 0..MaxRuns
  /\ started \in BOOLEAN /\ wire \in {"up", "down", "deaf"} /\ told \in BOOLEAN
  /\ upset \subseteq Upsets
  /\ prime \in Primes /\ bb \in Timelines /\ counts \in Tallies
  /\ abort = NoAbort \/ \E S \in SUBSET Channels : Holds(abort, S)

(* What numbers prime gives its runs, and what runs there are. *)
NumbersInv ==
  /\ prime.run <= prime.last /\ prime.asked <= prime.last
  /\ compact <= prime.last /\ bb.turn <= prime.last /\ abort.turn <= prime.last
  /\ \A run \in bb.closed : run <= prime.last
RunsInv ==
  /\ prime.kind = "none" <=> prime.run = Idle
  /\ prime.kind # "prompt" => prime.tools = {}
  /\ prime.asked # Idle => prime.asked \notin {prime.run, bb.turn}
  /\ prime.run # Idle /\ prime.run = compact => prime.kind = "compact" /\ started
  /\ prime.compacting => prime.kind # "compact"
  /\ wire # "up" => abort = NoAbort /\ compact = Idle

(* The queue. *)
QueueInv ==
  /\ state.queuePayload = bb.queue \/ (state.queuePayload = Undefined /\ bb.queue = Drained)
  /\ wire = "up" /\ told => bb.queue = prime.queue

(* The children.  A row counts that something goes on with, not one that a   *)
(* transcript rendered.                                                      *)
HasRow(key) == \E row \in bb.rows : row.key = key /\ row.shape # "rendered"
ChildrenInv ==
  /\ \A c \in Children : HasRow(c) <=> c \in state.openDelegations
  /\ Spared({"child"}) =>
       \A c \in Children : c \in state.openDelegations <=> prime.children[c] \in Live

DownIsIdle == wire # "up" => bb.turn = Idle

(* A turn bb shows has somebody who will close it. *)
OwnedInv ==
  /\ Spared({"cut"}) =>
       /\ DownIsIdle
       /\ prime.kind = "compact" => state.compaction = "manual" \/ bb.turn = Idle
  /\ Spared({"unowned", "cut"}) =>
       \/ bb.turn = Idle \/ abort # NoAbort \/ prime.kind = "compact"
       \/ prime.kind = "prompt" /\ openTurn # "settled"

(* So has an answer, a thinking block or a tool call. *)
Held(c) == \E S \in SUBSET Channels : c \in S /\ Holds(abort, S)
RowsInv ==
  Spared({"cut"}) =>
    /\ \A c \in Channels : HasRow(c) =>
         Held(c) \/ (c \in state.openTextStreams /\ prime.kind = "prompt")
    /\ \A tool \in Tools : HasRow(tool) => tool \in prime.tools
    /\ wire # "up" => \A key \in Channels \cup Tools : ~HasRow(key)

(* What closes a turn is the turn's own. *)
UnmixedInv ==
  Spared({"crossing", "cut", "refused"}) =>
    /\ ~bb.mixed /\ DownIsIdle
    /\ bb.turn = Idle \/ prime.run = Idle \/ bb.turn = prime.run
    /\ abort # NoAbort => bb.turn \in {Idle, abort.turn}
    /\ prime.compacting => state.compaction = "auto" \/ bb.turn = Idle

ShapesInv ==
  Spared({"midtool"}) =>
    /\ ~bb.reshaped /\ \A row \in bb.rows : row.shape # "named"
    /\ \A tool \in Tools : HasRow(tool) => tool \in state.toolCalls

(* No run is closed twice. *)
OnceInv ==
  Spared({"reprompt", "crossing", "unheld", "refused", "blind"}) =>
    /\ ~bb.twice
    /\ prime.kind = "prompt" /\ prime.run \in bb.closed => openTurn = "settled"
    /\ abort # NoAbort => openTurn = "settled" \/ prime.run = Idle
    /\ prime.kind = "compact" => bb.turn = prime.run /\ abort = NoAbort
    /\ compact = prime.asked /\ compact # Idle => compact \notin bb.closed

IInv == /\ TypesInv /\ NumbersInv /\ RunsInv /\ QueueInv /\ ChildrenInv
        /\ OwnedInv /\ RowsInv /\ UnmixedInv /\ ShapesInv /\ OnceInv

-----------------------------------------------------------------------------
(* What the assembler makes of each delta. *)
LEMMA AppliesTurnOpen ==
  ASSUME NEW b, NEW run
  PROVE  Apply(run, b, TurnOpen) = [b EXCEPT !.turn = run]
BY DEF Apply, TurnOpen

BoundaryApplied(x, b, run, claim) ==
  /\ b.turn # Idle =>
       x = [b EXCEPT !.turn = Idle, !.rows = Outlives(@), !.closed = @ \cup {b.turn},
                     !.mixed = @ \/ b.turn # run]
  /\ b.turn = Idle /\ claim =>
       x = [b EXCEPT !.closed = @ \cup ({run} \ {Idle}), !.twice = @ \/ run \in b.closed]
  /\ b.turn = Idle /\ ~claim => x = b

LEMMA AppliesBoundary ==
  ASSUME NEW b, NEW run, NEW claim \in BOOLEAN, NEW x, x = Apply(run, b, Boundary(claim))
  PROVE  BoundaryApplied(x, b, run, claim)
<1> DEFINE d == Boundary(claim)
<1>1. d.kind = "turn.boundary" /\ d.claim = claim /\ x = Apply(run, b, d)
  BY DEF Boundary
<1> HIDE DEF d
<1>2. b.turn # Idle =>
        x = [b EXCEPT !.turn = Idle, !.rows = Outlives(@), !.closed = @ \cup {b.turn},
                      !.mixed = @ \/ b.turn # run]
  BY <1>1 DEF Apply
<1>3. b.turn = Idle /\ claim =>
        x = [b EXCEPT !.closed = @ \cup ({run} \ {Idle}), !.twice = @ \/ run \in b.closed]
  BY <1>1 DEF Apply
<1>4. b.turn = Idle /\ ~claim => x = b
  BY <1>1 DEF Apply
<1> QED BY <1>2, <1>3, <1>4 DEF BoundaryApplied

LEMMA AppliesOpen ==
  ASSUME NEW b, NEW run, NEW key, NEW shape
  PROVE  Apply(run, b, Open(key, shape)) =
           [b EXCEPT !.rows = (@ \ KeyIs(key)) \cup {[key |-> key, shape |-> shape]}]
BY DEF Apply, Open

LEMMA AppliesClose ==
  ASSUME NEW b, NEW run, NEW key, NEW shape
  PROVE  Apply(run, b, Close(key, shape)) =
           [b EXCEPT !.rows = @ \ KeyIs(key),
                     !.reshaped = @ \/ \E row \in b.rows : row.key = key /\ row.shape # shape]
BY DEF Apply, Close

LEMMA AppliesText ==
  ASSUME NEW b, NEW run, NEW c
  PROVE  Apply(run, b, Text(c)) =
           [b EXCEPT !.rows = (@ \ KeyIs(c)) \cup {[key |-> c, shape |-> "started"]}]
BY DEF Apply, Text

LEMMA AppliesTextClose ==
  ASSUME NEW b, NEW run, NEW c
  PROVE  Apply(run, b, TextClose(c)) = [b EXCEPT !.rows = @ \ KeyIs(c)]
BY DEF Apply, TextClose

LEMMA AppliesQueue ==
  ASSUME NEW b, NEW run, NEW payload
  PROVE  Apply(run, b, Queue(payload)) = [b EXCEPT !.queue = payload]
BY DEF Apply, Queue

(* A row that goes on, and is not only named, was described as it started. *)
LEMMA ShapeOfRows ==
  ASSUME NEW b \in Timelines, \A r \in b.rows : r.shape # "named"
  PROVE  \A r \in b.rows : r.key \in Tools \cup Children \cup {"compaction"} => r.shape = "started"
BY KeysAssumption DEF Timelines, Rows

-----------------------------------------------------------------------------
(* Closing streams, and then the turn. *)
Cleared(b, S) == [b EXCEPT !.rows = {row \in @ : row.key \notin S}]
Settled(b, S, run, claim) == Apply(run, Cleared(b, S), Boundary(claim))

LEMMA ClosesSequence ==
  ASSUME NEW S \in SUBSET Channels
  PROVE  /\ Closes(S) \in Seq({TextClose(c) : c \in S}) /\ Len(Closes(S)) \in Nat
         /\ \A i \in 1..Len(Closes(S)) : \E c \in S : Closes(S)[i] = TextClose(c)
         /\ \A c \in S : \E i \in 1..Len(Closes(S)) : Closes(S)[i] = TextClose(c)
<1> DEFINE f == [c \in S |-> TextClose(c)]
           T == {TextClose(c) : c \in S}
<1>1. IsFiniteSet(S)
  BY KeysAssumption, FS_Subset
<1>2. T = {f[c] : c \in S} /\ DOMAIN f = S
  OBVIOUS
<1> HIDE DEF f
<1>3. IsFiniteSet(T)
  BY <1>1, <1>2, FiniteImage
<1>4. Closes(S) = SetToSeq(T)
  BY DEF Closes
<1> HIDE DEF T
<1>5. /\ Closes(S) \in Seq(T) /\ Len(Closes(S)) \in Nat
      /\ \A i \in 1..Len(Closes(S)) : Closes(S)[i] \in T
      /\ \A x \in T : \E i \in 1..Len(Closes(S)) : Closes(S)[i] = x
  BY <1>3, <1>4, SetAsSequence
<1> QED BY <1>5 DEF T

LEMMA AssemblesCloses ==
  ASSUME NEW S \in SUBSET Channels, NEW b \in Timelines, NEW run
  PROVE  Assembled(b, Closes(S), run) = Cleared(b, S)
<1> DEFINE s == Closes(S)
           n == Len(s)
           Closed(i) == {c \in S : \E j \in 1..i : s[j] = TextClose(c)}
           e(i, x) == Apply(run, x, s[i])
<1>1. /\ n \in Nat
      /\ \A i \in 1..n : \E c \in S : s[i] = TextClose(c)
      /\ \A c \in S : \E i \in 1..n : s[i] = TextClose(c)
  BY ClosesSequence
<1>2. PICK h : Folding(h, b, s, run)
  BY <1>1, FoldExists
<1> HIDE DEF s, n, e
<1>3. h = [i \in 0..n |-> IF i = 0 THEN b ELSE e(i, h[i - 1])]
  BY <1>2 DEF Folding, e, n
<1>4. \A c, d : TextClose(c) = TextClose(d) => c = d
  <2>1. \A c : TextClose(c).key = c
    BY DEF TextClose
  <2> QED BY <2>1
<1> DEFINE T == {i \in Nat : i <= n => h[i] = Cleared(b, Closed(i))}
<1>5. 0 \in T
  <2>1. Closed(0) = {}
    OBVIOUS
  <2>2. Cleared(b, {}) = b
    BY DEF Cleared, Timelines
  <2>3. h[0] = b
    BY <1>1, <1>3
  <2> HIDE DEF Closed
  <2> QED BY <2>1, <2>2, <2>3
<1>6. ASSUME NEW i \in Nat, i \in T PROVE i + 1 \in T
  <2>1. SUFFICES ASSUME i + 1 <= n PROVE h[i + 1] = Cleared(b, Closed(i + 1))
    OBVIOUS
  <2>2. i + 1 \in 0..n /\ i + 1 # 0 /\ (i + 1) - 1 = i /\ i <= n /\ i + 1 \in 1..n
    BY <1>1, <2>1
  <2>3. h[i] = Cleared(b, Closed(i))
    BY <1>6, <2>2
  <2>4. h[i + 1] = e(i + 1, h[i])
    BY <1>3, <2>2
  <2>5. PICK c \in S : s[i + 1] = TextClose(c)
    BY <1>1, <2>2
  <2>6. Closed(i + 1) = Closed(i) \cup {c}
    <3>1. \A j : j \in 1..(i + 1) <=> j \in 1..i \/ j = i + 1
      OBVIOUS
    <3> QED BY <1>4, <2>5, <3>1
  <2> HIDE DEF Closed
  <2>7. e(i + 1, h[i]) = [h[i] EXCEPT !.rows = @ \ KeyIs(c)]
    BY <2>5, AppliesTextClose DEF e
  <2>8. [Cleared(b, Closed(i)) EXCEPT !.rows = @ \ KeyIs(c)] = Cleared(b, Closed(i) \cup {c})
    BY DEF Cleared, Timelines, KeyIs
  <2> QED BY <2>3, <2>4, <2>6, <2>7, <2>8
<1>7. h[n] = Cleared(b, Closed(n))
  <2> HIDE DEF T
  <2>1. n \in T
    BY <1>1, <1>5, <1>6, Counting
  <2> QED BY <1>1, <2>1 DEF T
<1>8. Closed(n) = S
  BY <1>1
<1>9. Assembled(b, s, run) = h[n]
  BY <1>1, <1>2, FoldIsOne DEF n
<1> HIDE DEF Closed
<1> QED BY <1>7, <1>8, <1>9 DEF s

LEMMA AssemblesSettling ==
  ASSUME NEW S \in SUBSET Channels, NEW b \in Timelines, NEW run, NEW claim \in BOOLEAN
  PROVE  /\ Assembled(b, Append(Closes(S), Boundary(claim)), run) = Settled(b, S, run, claim)
         /\ Assembled(b, Closes(S) \o <<Boundary(claim)>>, run) = Settled(b, S, run, claim)
<1> DEFINE s == Closes(S)
           T == {TextClose(c) : c \in S}
           U == T \cup {Boundary(claim)}
<1>1. s \in Seq(T)
  BY ClosesSequence
<1> HIDE DEF T
<1>2. s \in Seq(U) /\ Boundary(claim) \in U
  <2>1. Len(s) \in Nat /\ s \in [1..Len(s) -> T]
    BY <1>1, LenProperties
  <2>2. s \in [1..Len(s) -> U]
    BY <2>1
  <2> QED BY <2>1, <2>2, SeqDef
<1> HIDE DEF U
<1>3. <<Boundary(claim)>> \in Seq(U)
  BY <1>2
<1>4. Append(s, Boundary(claim)) = s \o <<Boundary(claim)>>
  BY <1>2, AppendIsConcat
<1>5. Assembled(b, s \o <<Boundary(claim)>>, run)
        = Assembled(Assembled(b, s, run), <<Boundary(claim)>>, run)
  BY <1>2, <1>3, AssemblesParts
<1>6. Assembled(b, s, run) = Cleared(b, S)
  BY AssemblesCloses
<1>7. Assembled(Cleared(b, S), <<Boundary(claim)>>, run) = Settled(b, S, run, claim)
  BY AssemblesOne DEF Settled
<1> QED BY <1>4, <1>5, <1>6, <1>7 DEF s

LEMMA Clears ==
  ASSUME NEW S \in SUBSET Channels, NEW b \in Timelines
  PROVE  LET x == Cleared(b, S)
         IN  /\ x \in Timelines
             /\ x.turn = b.turn /\ x.queue = b.queue /\ x.closed = b.closed
             /\ x.mixed = b.mixed /\ x.twice = b.twice /\ x.reshaped = b.reshaped
             /\ x.rows = {row \in b.rows : row.key \notin S}
BY DEF Cleared, Timelines

(* What a boundary leaves: the rows of children and those a transcript       *)
(* rendered, unless there was no turn to close.                                                                    *)
Bound(x, b, run, claim) ==
  /\ x.turn = Idle
  /\ b.turn # Idle =>
       /\ \A row \in x.rows : row.key \in Children \/ row.shape = "rendered"
       /\ x.closed = b.closed \cup {b.turn}
       /\ x.mixed <=> b.mixed \/ b.turn # run
       /\ x.twice = b.twice
  /\ b.turn = Idle =>
       /\ x.mixed = b.mixed
       /\ claim => x.closed = b.closed \cup ({run} \ {Idle})
                   /\ (x.twice <=> b.twice \/ run \in b.closed)
       /\ ~claim => x.closed = b.closed /\ x.twice = b.twice
Drops(x, b) ==
  x.rows \subseteq b.rows /\ {row \in b.rows : row.key \in Children} \subseteq x.rows

Settlement(x, b, S, run, claim) ==
  /\ x \in Timelines /\ x.queue = b.queue /\ x.reshaped = b.reshaped
  /\ Bound(x, b, run, claim) /\ Drops(x, b)
  /\ \A row \in x.rows : row.key \notin S

LEMMA Settles ==
  ASSUME NEW S \in SUBSET Channels, NEW b \in Timelines, NEW run \in 0..MaxRuns,
         NEW claim \in BOOLEAN, NEW x, x = Settled(b, S, run, claim)
  PROVE  Settlement(x, b, S, run, claim)
<1> DEFINE c == Cleared(b, S)
<1>1. /\ c \in Timelines
      /\ c.turn = b.turn /\ c.queue = b.queue /\ c.closed = b.closed
      /\ c.mixed = b.mixed /\ c.twice = b.twice /\ c.reshaped = b.reshaped
      /\ c.rows = {row \in b.rows : row.key \notin S}
  BY Clears
<1>2. x = Apply(run, c, Boundary(claim))
  BY DEF Settled
<1>3. S \cap Children = {} /\ Idle = 0
  BY KeysAssumption DEF Idle
<1>4. run \in Nat /\ b.turn \in 0..MaxRuns /\ b.closed \in SUBSET (1..MaxRuns) /\ 0 \in 0..MaxRuns
  BY BoundsAssumption DEF Timelines
<1> HIDE DEF c
<1>8. BoundaryApplied(x, c, run, claim)
  BY <1>2, AppliesBoundary
<1>5. CASE b.turn # Idle
  <2>1. x = [c EXCEPT !.turn = Idle, !.rows = Outlives(@), !.closed = @ \cup {c.turn},
                      !.mixed = @ \/ c.turn # run]
    BY <1>1, <1>5, <1>8 DEF BoundaryApplied
  <2>2. b.turn \in 1..MaxRuns
    BY <1>3, <1>4, <1>5
  <2>3. Outlives(c.rows) =
          {row \in b.rows : row.key \in Children \/ (row.key \notin S /\ row.shape = "rendered")}
    BY <1>1, <1>3 DEF Outlives
  <2>4. /\ x.turn = Idle /\ x.queue = c.queue /\ x.reshaped = c.reshaped /\ x.twice = c.twice
        /\ x.rows = Outlives(c.rows) /\ x.closed = c.closed \cup {c.turn}
        /\ (x.mixed <=> c.mixed \/ c.turn # run)
    <3> DEFINE any == c.mixed \/ c.turn # run
    <3>1. any \in BOOLEAN /\ (any <=> c.mixed \/ c.turn # run)
      OBVIOUS
    <3>2. x = [c EXCEPT !.turn = Idle, !.rows = Outlives(c.rows), !.closed = @ \cup {c.turn},
                        !.mixed = any]
      BY <2>1
    <3> HIDE DEF any
    <3>3. /\ x.turn = Idle /\ x.queue = c.queue /\ x.reshaped = c.reshaped /\ x.twice = c.twice
          /\ x.rows = Outlives(c.rows) /\ x.closed = c.closed \cup {c.turn}
          /\ x.mixed = any
      BY <1>1, <3>2 DEF Timelines
    <3> QED BY <3>1, <3>3
  <2>5. x \in Timelines
    <3>1. Outlives(c.rows) \in SUBSET Rows /\ c.closed \cup {c.turn} \in SUBSET (1..MaxRuns)
      BY <1>1, <2>2 DEF Outlives, Timelines
    <3> HIDE DEF Outlives
    <3> QED BY <1>1, <1>3, <1>4, <2>1, <3>1 DEF Timelines
  <2> QED BY <1>1, <1>3, <1>5, <2>3, <2>4, <2>5 DEF Bound, Drops, Settlement
<1>6. CASE b.turn = Idle /\ claim
  <2>1. x = [c EXCEPT !.closed = @ \cup ({run} \ {Idle}), !.twice = @ \/ run \in c.closed]
    BY <1>1, <1>6, <1>8 DEF BoundaryApplied
  <2>2. {run} \ {Idle} \in SUBSET (1..MaxRuns)
    BY <1>3
  <2>3. /\ x.turn = c.turn /\ x.queue = c.queue /\ x.reshaped = c.reshaped /\ x.mixed = c.mixed
        /\ x.rows = c.rows /\ x.closed = c.closed \cup ({run} \ {Idle})
        /\ (x.twice <=> c.twice \/ run \in c.closed)
    <3> DEFINE any == c.twice \/ run \in c.closed
    <3>1. any \in BOOLEAN /\ (any <=> c.twice \/ run \in c.closed)
      OBVIOUS
    <3>2. x = [c EXCEPT !.closed = @ \cup ({run} \ {Idle}), !.twice = any]
      BY <2>1
    <3> HIDE DEF any
    <3>3. /\ x.turn = c.turn /\ x.queue = c.queue /\ x.reshaped = c.reshaped /\ x.mixed = c.mixed
          /\ x.rows = c.rows /\ x.closed = c.closed \cup ({run} \ {Idle})
          /\ x.twice = any
      BY <1>1, <3>2 DEF Timelines
    <3> QED BY <3>1, <3>3
  <2>4. x \in Timelines
    BY <1>1, <2>1, <2>2 DEF Timelines
  <2> QED BY <1>1, <1>3, <1>6, <2>3, <2>4 DEF Bound, Drops, Settlement
<1>7. CASE b.turn = Idle /\ ~claim
  <2>1. x = c
    BY <1>1, <1>7, <1>8 DEF BoundaryApplied
  <2> QED BY <1>1, <1>3, <1>7, <2>1 DEF Bound, Drops, Settlement
<1> QED BY <1>5, <1>6, <1>7

-----------------------------------------------------------------------------
(* What each of the translator's answers does to its state and to bb. *)
SameTurn == /\ bb'.turn = bb.turn /\ bb'.closed = bb.closed
            /\ bb'.mixed = bb.mixed /\ bb'.twice = bb.twice
SameQueue == state'.queuePayload = state.queuePayload /\ bb'.queue = bb.queue
SameChildren == state'.openDelegations = state.openDelegations
Settling(run, claim) ==
  /\ state' = [state EXCEPT !.openTextStreams = {}]
  /\ bb' = Settled(bb, state.openTextStreams, run, claim)

LEMMA TextStarts ==
  ASSUME state \in ThreadState, bb \in Timelines, NEW run, NEW c \in Channels,
         Emit(textDelta(state, c), run)
  PROVE  /\ state' \in ThreadState /\ bb' \in Timelines
         /\ SameTurn /\ SameQueue /\ SameChildren /\ bb'.reshaped = bb.reshaped
         /\ state'.toolCalls = state.toolCalls /\ state'.compaction = state.compaction
         /\ state'.openTextStreams = state.openTextStreams \cup {c}
         /\ bb'.rows = (bb.rows \ KeyIs(c)) \cup {[key |-> c, shape |-> "started"]}
<1>1. /\ state' = [state EXCEPT !.openTextStreams = @ \cup {c}]
      /\ bb' = Assembled(bb, <<Text(c)>>, run)
  BY DEF Emit, textDelta, Answer
<1>2. bb' = [bb EXCEPT !.rows = (@ \ KeyIs(c)) \cup {[key |-> c, shape |-> "started"]}]
  <2>1. bb' = Apply(run, bb, Text(c))
    BY <1>1, AssemblesOne
  <2> QED BY <2>1, AppliesText
<1>3. [key |-> c, shape |-> "started"] \in Rows
  BY DEF Rows
<1>4. bb' \in Timelines /\ SameTurn /\ bb'.queue = bb.queue /\ bb'.reshaped = bb.reshaped
      /\ bb'.rows = (bb.rows \ KeyIs(c)) \cup {[key |-> c, shape |-> "started"]}
  BY <1>2, <1>3 DEF Timelines, SameTurn
<1> QED BY <1>1, <1>4 DEF ThreadState, SameQueue, SameChildren

LEMMA TextEnds ==
  ASSUME state \in ThreadState, bb \in Timelines, NEW run, NEW c \in Channels,
         Emit(textClose(state, c), run)
  PROVE  /\ state' \in ThreadState /\ bb' \in Timelines
         /\ SameTurn /\ SameQueue /\ SameChildren /\ bb'.reshaped = bb.reshaped
         /\ state'.toolCalls = state.toolCalls /\ state'.compaction = state.compaction
         /\ state'.openTextStreams = state.openTextStreams \ {c}
         /\ bb'.rows = bb.rows \ KeyIs(c)
<1>1. /\ state' = [state EXCEPT !.openTextStreams = @ \ {c}]
      /\ bb' = Assembled(bb, <<TextClose(c)>>, run)
  BY DEF Emit, textClose, Answer
<1>2. bb' = [bb EXCEPT !.rows = @ \ KeyIs(c)]
  <2>1. bb' = Apply(run, bb, TextClose(c))
    BY <1>1, AssemblesOne
  <2> QED BY <2>1, AppliesTextClose
<1>3. bb' \in Timelines /\ SameTurn /\ bb'.queue = bb.queue /\ bb'.reshaped = bb.reshaped
      /\ bb'.rows = bb.rows \ KeyIs(c)
  BY <1>2 DEF Timelines, SameTurn
<1> QED BY <1>1, <1>3 DEF ThreadState, SameQueue, SameChildren

LEMMA ToolStarts ==
  ASSUME state \in ThreadState, bb \in Timelines, NEW run, NEW tool \in Tools,
         Emit(toolStart(state, tool), run)
  PROVE  /\ state' \in ThreadState /\ bb' \in Timelines
         /\ SameTurn /\ SameQueue /\ SameChildren /\ bb'.reshaped = bb.reshaped
         /\ state'.toolCalls = state.toolCalls \cup {tool}
         /\ state'.compaction = state.compaction
         /\ state'.openTextStreams = state.openTextStreams
         /\ bb'.rows = (bb.rows \ KeyIs(tool)) \cup {[key |-> tool, shape |-> "started"]}
<1>1. /\ state' = [state EXCEPT !.toolCalls = @ \cup {tool}]
      /\ bb' = Assembled(bb, <<Open(tool, "started")>>, run)
  BY DEF Emit, toolStart, Answer
<1>2. bb' = [bb EXCEPT !.rows = (@ \ KeyIs(tool)) \cup {[key |-> tool, shape |-> "started"]}]
  <2>1. bb' = Apply(run, bb, Open(tool, "started"))
    BY <1>1, AssemblesOne
  <2> QED BY <2>1, AppliesOpen
<1>3. [key |-> tool, shape |-> "started"] \in Rows
  BY DEF Rows
<1>4. bb' \in Timelines /\ SameTurn /\ bb'.queue = bb.queue /\ bb'.reshaped = bb.reshaped
      /\ bb'.rows = (bb.rows \ KeyIs(tool)) \cup {[key |-> tool, shape |-> "started"]}
  BY <1>2, <1>3 DEF Timelines, SameTurn
<1> QED BY <1>1, <1>4 DEF ThreadState, SameQueue, SameChildren

(* The close of a row: it is there no more, and was described as it was. *)
LEMMA ClosesRow ==
  ASSUME NEW b \in Timelines, NEW run, NEW key, NEW shape
  PROVE  LET x == Apply(run, b, Close(key, shape))
         IN  /\ x \in Timelines /\ x.rows = b.rows \ KeyIs(key)
             /\ x.turn = b.turn /\ x.closed = b.closed /\ x.mixed = b.mixed
             /\ x.twice = b.twice /\ x.queue = b.queue
             /\ (\A row \in b.rows : row.key = key => row.shape = shape) => x.reshaped = b.reshaped
<1> DEFINE d == Close(key, shape)
           x == Apply(run, b, d)
           wrong == \E row \in b.rows : row.key = key /\ row.shape # shape
           any == b.reshaped \/ wrong
<1>1. d.kind = "item.close" /\ d.key = key /\ d.shape = shape
  BY DEF Close
<1> HIDE DEF d
<1>2. x = [b EXCEPT !.rows = @ \ KeyIs(key), !.reshaped = @ \/ wrong]
  BY <1>1 DEF Apply
<1>3. any \in BOOLEAN /\ (any <=> b.reshaped \/ wrong)
  OBVIOUS
<1>4. x = [b EXCEPT !.rows = @ \ KeyIs(key), !.reshaped = any]
  BY <1>2
<1> HIDE DEF any, wrong, x
<1>5. /\ x \in Timelines /\ x.rows = b.rows \ KeyIs(key)
      /\ x.turn = b.turn /\ x.closed = b.closed /\ x.mixed = b.mixed
      /\ x.twice = b.twice /\ x.queue = b.queue /\ x.reshaped = any
  BY <1>3, <1>4 DEF Timelines
<1>6. ~wrong => any = b.reshaped
  BY <1>3 DEF Timelines
<1>7. (\A row \in b.rows : row.key = key => row.shape = shape) => ~wrong
  BY DEF wrong
<1> QED BY <1>5, <1>6, <1>7 DEF x, d

LEMMA ToolEnds ==
  ASSUME state \in ThreadState, bb \in Timelines, NEW run, NEW tool \in Tools,
         Emit(toolEnd(state, tool), run)
  PROVE  /\ state' = state /\ bb' \in Timelines
         /\ SameTurn /\ SameQueue /\ SameChildren
         /\ bb'.rows = bb.rows \ KeyIs(tool)
         /\ (\A row \in bb.rows : row.key = tool =>
                row.shape = "started" /\ tool \in state.toolCalls) => bb'.reshaped = bb.reshaped
<1> DEFINE shape == IF tool \in state.toolCalls THEN "started" ELSE "named"
<1>1. state' = state /\ bb' = Assembled(bb, <<Close(tool, shape)>>, run)
  BY DEF Emit, toolEnd, Answer
<1>2. tool \in state.toolCalls => shape = "started"
  OBVIOUS
<1> HIDE DEF shape
<1>3. bb' = Apply(run, bb, Close(tool, shape))
  BY <1>1, AssemblesOne
<1>4. /\ bb' \in Timelines /\ bb'.rows = bb.rows \ KeyIs(tool)
      /\ bb'.turn = bb.turn /\ bb'.closed = bb.closed /\ bb'.mixed = bb.mixed
      /\ bb'.twice = bb.twice /\ bb'.queue = bb.queue
      /\ (\A row \in bb.rows : row.key = tool => row.shape = shape) => bb'.reshaped = bb.reshaped
  BY <1>3, ClosesRow
<1> QED BY <1>1, <1>2, <1>4 DEF SameTurn, SameQueue, SameChildren

LEMMA Shows ==
  ASSUME state \in ThreadState, bb \in Timelines, NEW run, NEW q \in Payloads,
         Emit(queueUpdateDeltas(state, q), run)
  PROVE  /\ state' \in ThreadState /\ bb' \in Timelines
         /\ SameTurn /\ SameChildren /\ bb'.reshaped = bb.reshaped /\ bb'.rows = bb.rows
         /\ state'.toolCalls = state.toolCalls /\ state'.compaction = state.compaction
         /\ state'.openTextStreams = state.openTextStreams
         /\ state'.queuePayload = q
         /\ bb'.queue = IF q = state.queuePayload THEN bb.queue ELSE q
<1>1. CASE q = state.queuePayload
  <2>1. state' = state /\ bb' = Assembled(bb, <<>>, run)
    BY <1>1 DEF Emit, queueUpdateDeltas, Answer
  <2>2. bb' = bb
    BY <2>1, AssemblesNone
  <2> QED BY <1>1, <2>1, <2>2 DEF SameTurn, SameChildren
<1>2. CASE q # state.queuePayload
  <2>1. state' = [state EXCEPT !.queuePayload = q] /\ bb' = Assembled(bb, <<Queue(q)>>, run)
    BY <1>2 DEF Emit, queueUpdateDeltas, Answer
  <2>2. bb' = [bb EXCEPT !.queue = q]
    <3>1. bb' = Apply(run, bb, Queue(q))
      BY <2>1, AssemblesOne
    <3> QED BY <3>1, AppliesQueue
  <2>3. /\ bb' \in Timelines /\ SameTurn /\ bb'.reshaped = bb.reshaped /\ bb'.rows = bb.rows
        /\ bb'.queue = q
    BY <2>2 DEF Timelines, SameTurn
  <2> QED BY <1>2, <2>1, <2>3 DEF ThreadState, SameChildren, Payloads
<1> QED BY <1>1, <1>2

LEMMA EmitsSettling ==
  ASSUME state \in ThreadState, bb \in Timelines, NEW run, NEW claim \in BOOLEAN,
         Emit(Answer(closeOpenStreams(state).state,
                     Append(closeOpenStreams(state).deltas, Boundary(claim))), run)
  PROVE  Settling(run, claim)
<1>1. state.openTextStreams \in SUBSET Channels
  BY DEF ThreadState
<1>2. /\ state' = [state EXCEPT !.openTextStreams = {}]
      /\ bb' = Assembled(bb, Append(Closes(state.openTextStreams), Boundary(claim)), run)
  BY DEF Emit, Answer, closeOpenStreams, Closes
<1> QED BY <1>1, <1>2, AssemblesSettling DEF Settling

LEMMA RunEnds ==
  ASSUME state \in ThreadState, bb \in Timelines, NEW run, NEW settled \in BOOLEAN,
         Emit(agentEnd(state, settled), run)
  PROVE  /\ settled => /\ state' = [state EXCEPT !.openTextStreams = {}]
                       /\ bb' = Cleared(bb, state.openTextStreams)
         /\ ~settled => Settling(run, TRUE)
<1> DEFINE S == state.openTextStreams
<1>1. S \in SUBSET Channels
  BY DEF ThreadState
<1>2. /\ state' = [state EXCEPT !.openTextStreams = {}]
      /\ bb' = Assembled(bb, Closes(S) \o IF settled THEN <<>> ELSE <<Boundary(TRUE)>>, run)
  BY DEF Emit, agentEnd, Answer, closeOpenStreams, Closes
<1>3. ASSUME settled PROVE bb' = Cleared(bb, S)
  <2>1. Closes(S) \in Seq({TextClose(c) : c \in S})
    BY <1>1, ClosesSequence
  <2>2. Closes(S) \o <<>> = Closes(S)
    BY <2>1, ConcatEmptySeq
  <2>3. bb' = Assembled(bb, Closes(S), run)
    BY <1>2, <1>3, <2>2
  <2> QED BY <1>1, <2>3, AssemblesCloses
<1>4. ASSUME ~settled PROVE bb' = Settled(bb, S, run, TRUE)
  <2>1. bb' = Assembled(bb, Closes(S) \o <<Boundary(TRUE)>>, run)
    BY <1>2, <1>4
  <2> QED BY <1>1, <2>1, AssemblesSettling
<1> QED BY <1>2, <1>3, <1>4 DEF Settling

LEMMA SettlesState ==
  ASSUME state \in ThreadState, state' = [state EXCEPT !.openTextStreams = {}]
  PROVE  /\ state' \in ThreadState
         /\ state'.openTextStreams = {} /\ state'.toolCalls = state.toolCalls
         /\ state'.openDelegations = state.openDelegations
         /\ state'.compaction = state.compaction /\ state'.queuePayload = state.queuePayload
BY DEF ThreadState

(* One child: its row is there exactly while it is held open. *)
ChildApplied(st, b, c, status, a, x) ==
  /\ a.state \in ThreadState /\ x \in Timelines
  /\ a.state.toolCalls = st.toolCalls /\ a.state.compaction = st.compaction
  /\ a.state.openTextStreams = st.openTextStreams
  /\ a.state.queuePayload = st.queuePayload
  /\ x.turn = b.turn /\ x.closed = b.closed /\ x.mixed = b.mixed
  /\ x.twice = b.twice /\ x.queue = b.queue
  /\ status \in Live =>
       /\ a.state.openDelegations = st.openDelegations \cup {c}
       /\ c \in st.openDelegations => x.rows = b.rows
       /\ c \notin st.openDelegations =>
            x.rows = (b.rows \ KeyIs(c)) \cup {[key |-> c, shape |-> "started"]}
  /\ status \notin Live =>
       /\ a.state.openDelegations = st.openDelegations \ {c}
       /\ x.rows = b.rows \ KeyIs(c)
  /\ (\A r \in b.rows : r.shape # "named") => x.reshaped = b.reshaped
  /\ a.deltas \in Seq({Open(c, "started"), Close(c, "started")})

LEMMA ChildApplies ==
  ASSUME NEW st \in ThreadState, NEW b \in Timelines, NEW c \in Children, NEW status, NEW run,
         NEW a, a = childDeltas(st, c, status), NEW x, x = Assembled(b, a.deltas, run)
  PROVE  ChildApplied(st, b, c, status, a, x)
<1> DEFINE row == [key |-> c, shape |-> "started"]
           o == Open(c, "started")
           e == Close(c, "started")
           opened == [b EXCEPT !.rows = (@ \ KeyIs(c)) \cup {row}]
<1>1. row \in Rows /\ row.key = c /\ row.shape = "started"
  BY DEF Rows
<1>2. Apply(run, b, o) = opened
  BY AppliesOpen
<1>3. /\ opened \in Timelines /\ opened.rows = (b.rows \ KeyIs(c)) \cup {row}
      /\ opened.turn = b.turn /\ opened.closed = b.closed /\ opened.mixed = b.mixed
      /\ opened.twice = b.twice /\ opened.queue = b.queue /\ opened.reshaped = b.reshaped
  BY <1>1 DEF Timelines
<1>4. \A y \in Timelines :
        LET z == Apply(run, y, e)
        IN  /\ z \in Timelines /\ z.rows = y.rows \ KeyIs(c)
            /\ z.turn = y.turn /\ z.closed = y.closed /\ z.mixed = y.mixed
            /\ z.twice = y.twice /\ z.queue = y.queue
            /\ (\A r \in y.rows : r.key = c => r.shape = "started") => z.reshaped = y.reshaped
  <2>1. SUFFICES ASSUME NEW y \in Timelines
                 PROVE  LET z == Apply(run, y, e)
                        IN  /\ z \in Timelines /\ z.rows = y.rows \ KeyIs(c)
                            /\ z.turn = y.turn /\ z.closed = y.closed /\ z.mixed = y.mixed
                            /\ z.twice = y.twice /\ z.queue = y.queue
                            /\ (\A r \in y.rows : r.key = c => r.shape = "started")
                                 => z.reshaped = y.reshaped
    OBVIOUS
  <2> QED BY ClosesRow
<1>5. ASSUME status \in Live, c \in st.openDelegations
      PROVE  a.state = [st EXCEPT !.openDelegations = @ \cup {c}] /\ a.deltas = <<>>
  BY <1>5 DEF childDeltas, Answer, isChildLive
<1>6. ASSUME status \in Live, c \notin st.openDelegations
      PROVE  a.state = [st EXCEPT !.openDelegations = @ \cup {c}] /\ a.deltas = <<o>>
  BY <1>6 DEF childDeltas, Answer, isChildLive
<1>7. ASSUME status \notin Live, c \in st.openDelegations
      PROVE  a.state = [st EXCEPT !.openDelegations = @ \ {c}] /\ a.deltas = <<>> \o <<e>>
  BY <1>7 DEF childDeltas, Answer, isChildLive
<1>8. ASSUME status \notin Live, c \notin st.openDelegations
      PROVE  a.state = [st EXCEPT !.openDelegations = @ \ {c}] /\ a.deltas = <<o>> \o <<e>>
  BY <1>8 DEF childDeltas, Answer, isChildLive
<1>9. a.deltas \in Seq({o, e})
  <2>1. <<>> \in Seq({o, e}) /\ <<o>> \in Seq({o, e}) /\ <<e>> \in Seq({o, e})
    <3> HIDE DEF o, e
    <3> QED OBVIOUS
  <2>2. <<>> \o <<e>> \in Seq({o, e}) /\ <<o>> \o <<e>> \in Seq({o, e})
    <3> HIDE DEF o, e
    <3> QED BY <2>1, ConcatProperties
  <2> QED BY <1>5, <1>6, <1>7, <1>8, <2>1, <2>2
<1> HIDE DEF o, e, opened
<1>10. CASE status \in Live /\ c \in st.openDelegations
  <2>1. x = b
    BY <1>5, <1>10, AssemblesNone
  <2>2. a.state = [st EXCEPT !.openDelegations = @ \cup {c}]
    BY <1>5, <1>10
  <2> QED BY <1>9, <1>10, <2>1, <2>2 DEF ThreadState, ChildApplied, o, e
<1>11. CASE status \in Live /\ c \notin st.openDelegations
  <2>1. x = opened
    BY <1>2, <1>6, <1>11, AssemblesOne
  <2>2. a.state = [st EXCEPT !.openDelegations = @ \cup {c}]
    BY <1>6, <1>11
  <2>3. /\ a.state \in ThreadState /\ a.state.toolCalls = st.toolCalls
        /\ a.state.compaction = st.compaction
        /\ a.state.openTextStreams = st.openTextStreams
        /\ a.state.queuePayload = st.queuePayload
        /\ a.state.openDelegations = st.openDelegations \cup {c}
    BY <2>2 DEF ThreadState
  <2>4. a.deltas \in Seq({Open(c, "started"), Close(c, "started")})
    BY <1>9 DEF o, e
  <2> QED BY <1>3, <1>11, <2>1, <2>3, <2>4 DEF ChildApplied
<1>12. CASE status \notin Live /\ c \in st.openDelegations
  <2>1. x = Apply(run, b, e)
    BY <1>7, <1>12, AssemblesHalf
  <2>2. a.state = [st EXCEPT !.openDelegations = @ \ {c}]
    BY <1>7, <1>12
  <2>3. /\ x \in Timelines /\ x.rows = b.rows \ KeyIs(c)
        /\ x.turn = b.turn /\ x.closed = b.closed /\ x.mixed = b.mixed
        /\ x.twice = b.twice /\ x.queue = b.queue
        /\ (\A r \in b.rows : r.shape # "named") => x.reshaped = b.reshaped
    <3>1. (\A r \in b.rows : r.shape # "named") => \A r \in b.rows : r.key = c => r.shape = "started"
      BY ShapeOfRows
    <3> QED BY <1>4, <2>1, <3>1
  <2> QED BY <1>9, <1>12, <2>2, <2>3 DEF ThreadState, ChildApplied, o, e
<1>13. CASE status \notin Live /\ c \notin st.openDelegations
  <2>1. x = Apply(run, opened, e)
    <3>1. a.deltas = <<o>> \o <<e>>
      BY <1>8, <1>13
    <3>2. Assembled(b, <<o>> \o <<e>>, run) = Apply(run, Apply(run, b, o), e)
      BY AssemblesPair
    <3> QED BY <1>2, <3>1, <3>2
  <2>2. a.state = [st EXCEPT !.openDelegations = @ \ {c}]
    BY <1>8, <1>13
  <2>3. \A r \in opened.rows : r.key = c => r.shape = "started"
    BY <1>1, <1>3 DEF KeyIs, Timelines
  <2>4. /\ x \in Timelines /\ x.rows = opened.rows \ KeyIs(c)
        /\ x.turn = b.turn /\ x.closed = b.closed /\ x.mixed = b.mixed
        /\ x.twice = b.twice /\ x.queue = b.queue /\ x.reshaped = b.reshaped
    BY <1>3, <1>4, <2>1, <2>3
  <2>5. x.rows = b.rows \ KeyIs(c)
    BY <1>1, <1>3, <2>4 DEF KeyIs
  <2> QED BY <1>9, <1>13, <2>2, <2>4, <2>5 DEF ThreadState, ChildApplied, o, e
<1> QED BY <1>10, <1>11, <1>12, <1>13

LEMMA ChildEmits ==
  ASSUME state \in ThreadState, bb \in Timelines, NEW run, NEW c \in Children, NEW status,
         Emit(childDeltas(state, c, status), run)
  PROVE  /\ state' \in ThreadState /\ bb' \in Timelines
         /\ SameTurn /\ SameQueue
         /\ state'.toolCalls = state.toolCalls /\ state'.compaction = state.compaction
         /\ state'.openTextStreams = state.openTextStreams
         /\ status \in Live =>
              /\ state'.openDelegations = state.openDelegations \cup {c}
              /\ c \in state.openDelegations => bb'.rows = bb.rows
              /\ c \notin state.openDelegations =>
                   bb'.rows = (bb.rows \ KeyIs(c)) \cup {[key |-> c, shape |-> "started"]}
         /\ status \notin Live =>
              /\ state'.openDelegations = state.openDelegations \ {c}
              /\ bb'.rows = bb.rows \ KeyIs(c)
         /\ (\A row \in bb.rows : row.shape # "named") => bb'.reshaped = bb.reshaped
<1> DEFINE a == childDeltas(state, c, status)
<1>1. state' = a.state /\ bb' = Assembled(bb, a.deltas, run)
  BY DEF Emit
<1>2. a = childDeltas(state, c, status)
  OBVIOUS
<1> HIDE DEF a
<1>3. ChildApplied(state, bb, c, status, a, bb')
  BY <1>1, <1>2, ChildApplies
<1> QED BY <1>1, <1>3 DEF SameTurn, SameQueue, ChildApplied

(* A compaction opens its row, and its turn if somebody asked for it. *)
CompactionRow == [key |-> "compaction", shape |-> "started"]

LEMMA CompactionStarts ==
  ASSUME state \in ThreadState, bb \in Timelines, NEW run \in 0..MaxRuns, NEW manual \in BOOLEAN,
         Emit(compactionStart(state, manual), run)
  PROVE  /\ state' \in ThreadState /\ bb' \in Timelines /\ SameQueue /\ SameChildren
         /\ state'.toolCalls = state.toolCalls
         /\ state'.openTextStreams = state.openTextStreams
         /\ state'.compaction = IF manual THEN "manual" ELSE "auto"
         /\ bb'.turn = IF manual THEN run ELSE bb.turn
         /\ bb'.closed = bb.closed /\ bb'.mixed = bb.mixed /\ bb'.twice = bb.twice
         /\ bb'.reshaped = bb.reshaped
         /\ bb'.rows = (bb.rows \ KeyIs("compaction")) \cup {CompactionRow}
<1> DEFINE o == Open("compaction", "started")
<1>1. /\ state' = [state EXCEPT !.compaction = IF manual THEN "manual" ELSE "auto"]
      /\ manual => bb' = Assembled(bb, <<TurnOpen>> \o <<o>>, run)
      /\ ~manual => bb' = Assembled(bb, <<>> \o <<o>>, run)
  BY DEF Emit, compactionStart, Answer
<1> HIDE DEF o
<1>2. CompactionRow \in Rows
  BY DEF Rows, CompactionRow
<1>3. \A y : Apply(run, y, o) = [y EXCEPT !.rows = (@ \ KeyIs("compaction")) \cup {CompactionRow}]
  BY AppliesOpen DEF o, CompactionRow
<1>4. CASE manual
  <2> DEFINE y == [bb EXCEPT !.turn = run]
  <2>1. bb' = Apply(run, Apply(run, bb, TurnOpen), o)
    BY <1>1, <1>4, AssemblesPair
  <2>2. Apply(run, bb, TurnOpen) = y
    BY AppliesTurnOpen
  <2>3. bb' = [y EXCEPT !.rows = (@ \ KeyIs("compaction")) \cup {CompactionRow}]
    BY <1>3, <2>1, <2>2
  <2> QED BY <1>1, <1>2, <1>4, <2>3 DEF Timelines, ThreadState, SameQueue, SameChildren
<1>5. CASE ~manual
  <2>1. bb' = Apply(run, bb, o)
    BY <1>1, <1>5, AssemblesHalf
  <2>2. bb' = [bb EXCEPT !.rows = (@ \ KeyIs("compaction")) \cup {CompactionRow}]
    BY <1>3, <2>1
  <2> QED BY <1>1, <1>2, <1>5, <2>2 DEF Timelines, ThreadState, SameQueue, SameChildren
<1> QED BY <1>4, <1>5

(* It closes its row, unless it was skipped, and its turn, unless nobody     *)
(* asked for it.                                                             *)
LEMMA CompactionEnds ==
  ASSUME state \in ThreadState, bb \in Timelines, NEW run \in 0..MaxRuns,
         NEW skipped \in BOOLEAN, Emit(compactionEnd(state, skipped), run)
  PROVE  /\ state' \in ThreadState /\ bb' \in Timelines /\ SameQueue /\ SameChildren
         /\ state'.toolCalls = state.toolCalls
         /\ state'.openTextStreams = state.openTextStreams
         /\ state'.compaction = "none"
         /\ Drops(bb', bb)
         /\ (\A row \in bb.rows : row.shape # "named") => bb'.reshaped = bb.reshaped
         /\ state.compaction = "auto" => SameTurn
         /\ state.compaction # "auto" => Bound(bb', bb, run, ~skipped)
<1> DEFINE e == Close("compaction", "started")
           y == IF skipped THEN bb ELSE Apply(run, bb, e)
           first == IF skipped THEN <<>> ELSE <<e>>
           second == IF state.compaction # "auto" THEN <<Boundary(~skipped)>> ELSE <<>>
<1>1. /\ state' = [state EXCEPT !.compaction = "none"]
      /\ bb' = Assembled(bb, first \o second, run)
  BY DEF Emit, compactionEnd, Answer
<1>2. y \in Timelines /\ Drops(y, bb) /\ y.queue = bb.queue
      /\ y.turn = bb.turn /\ y.closed = bb.closed /\ y.mixed = bb.mixed /\ y.twice = bb.twice
      /\ ((\A row \in bb.rows : row.shape # "named") => y.reshaped = bb.reshaped)
  <2>1. CASE skipped
    BY <2>1 DEF Drops
  <2>2. CASE ~skipped
    <3>1. y = Apply(run, bb, e)
      BY <2>2
    <3> HIDE DEF y
    <3>2. y \in Timelines /\ y.rows = bb.rows \ KeyIs("compaction") /\ y.queue = bb.queue
          /\ y.turn = bb.turn /\ y.closed = bb.closed /\ y.mixed = bb.mixed /\ y.twice = bb.twice
          /\ ((\A row \in bb.rows : row.key = "compaction" => row.shape = "started")
                => y.reshaped = bb.reshaped)
      BY <3>1, ClosesRow
    <3>3. Drops(y, bb)
      BY <3>2, KeysAssumption DEF Drops, KeyIs
    <3>4. (\A row \in bb.rows : row.shape # "named") =>
            \A row \in bb.rows : row.key = "compaction" => row.shape = "started"
      BY ShapeOfRows
    <3> QED BY <3>2, <3>3, <3>4
  <2> QED BY <2>1, <2>2
<1>3. CASE state.compaction = "auto"
  <2>1. bb' = y
    <3>1. second = <<>>
      BY <1>3
    <3>2. CASE skipped
      <4>1. first \o second = <<>>
        BY <3>1, <3>2
      <4> QED BY <1>1, <3>2, <4>1, AssemblesNone
    <3>3. CASE ~skipped
      <4>1. first \o second = <<e>> \o <<>>
        BY <3>1, <3>3
      <4>2. bb' = Apply(run, bb, e)
        BY <1>1, <4>1, AssemblesHalf
      <4> QED BY <3>3, <4>2
    <3> QED BY <3>2, <3>3
  <2> HIDE DEF y
  <2> QED BY <1>1, <1>2, <1>3, <2>1 DEF ThreadState, SameTurn, SameQueue, SameChildren
<1>4. CASE state.compaction # "auto"
  <2> DEFINE claim == ~skipped
             d == Boundary(claim)
  <2>1. bb' = Apply(run, y, d)
    <3>1. second = <<d>>
      BY <1>4
    <3>2. CASE skipped
      <4>1. first \o second = <<>> \o <<d>>
        BY <3>1, <3>2
      <4>2. bb' = Apply(run, bb, d)
        BY <1>1, <4>1, AssemblesHalf
      <4> QED BY <3>2, <4>2
    <3>3. CASE ~skipped
      <4>1. first \o second = <<e>> \o <<d>>
        BY <3>1, <3>3
      <4> HIDE DEF d, e
      <4>2. Assembled(bb, <<e>> \o <<d>>, run) = Apply(run, Apply(run, bb, e), d)
        BY AssemblesPair
      <4> QED BY <1>1, <3>3, <4>1, <4>2
    <3> QED BY <3>2, <3>3
  <2> HIDE DEF y
  <2> DEFINE none == {}
  <2>2. claim \in BOOLEAN /\ none \in SUBSET Channels
    OBVIOUS
  <2>3. Cleared(y, {}) = y
    BY <1>2 DEF Cleared, Timelines
  <2>4. bb' = Settled(y, none, run, claim)
    BY <2>1, <2>3 DEF Settled
  <2> HIDE DEF claim, none
  <2>9. none \in SUBSET Channels
    BY DEF none
  <2>5. /\ bb' \in Timelines /\ bb'.queue = y.queue /\ bb'.reshaped = y.reshaped
        /\ Bound(bb', y, run, claim) /\ Drops(bb', y)
    <3>1. Settlement(bb', y, none, run, claim)
      BY <1>2, <2>2, <2>4, <2>9, Settles
    <3> QED BY <3>1 DEF Settlement
  <2>6. Bound(bb', bb, run, claim) /\ Drops(bb', bb)
    BY <1>2, <2>5 DEF Bound, Drops
  <2>7. /\ state' \in ThreadState /\ state'.queuePayload = state.queuePayload
        /\ state'.openDelegations = state.openDelegations
        /\ state'.toolCalls = state.toolCalls
        /\ state'.openTextStreams = state.openTextStreams /\ state'.compaction = "none"
    BY <1>1 DEF ThreadState
  <2> QED BY <1>2, <1>4, <2>5, <2>6, <2>7 DEF SameQueue, SameChildren, claim
<1> QED BY <1>3, <1>4

-----------------------------------------------------------------------------
(* What leaves each part of the invariant alone. *)
SameRuns == /\ prime'.run = prime.run /\ prime'.last = prime.last
            /\ prime'.kind = prime.kind /\ prime'.asked = prime.asked
            /\ prime'.compacting = prime.compacting
SameLane == /\ openTurn' = openTurn /\ compact' = compact /\ started' = started
            /\ abort' = abort /\ wire' = wire /\ told' = told
StaysUp == wire' # "up" => wire # "up"
MoreUpset == upset \subseteq upset'
SameChildRows == \A c \in Children : HasRow(c)' <=> HasRow(c)
NoMoreRows == \A key \in Channels \cup Tools : HasRow(key)' => HasRow(key)
StartedRows == /\ \A row \in bb'.rows : row \in bb.rows \/ row.shape = "started"
               /\ \A tool \in Tools : HasRow(tool)' => HasRow(tool)

LEMMA SparedBefore ==
  ASSUME MoreUpset, NEW by, Spared(by)'
  PROVE  Spared(by)
BY DEF MoreUpset, Spared

LEMMA HoldingAborts ==
  ASSUME NEW S, Holds(abort, S), MaxRuns \in Nat
  PROVE  abort # NoAbort /\ abort.turn \in 0..MaxRuns
BY DEF Holds, NoAbort

LEMMA QueueKept ==
  ASSUME QueueInv, SameQueue, prime'.queue = prime.queue, wire' = wire, told' = told
  PROVE  QueueInv'
BY SparedBefore DEF QueueInv, SameQueue

LEMMA ChildrenKept ==
  ASSUME ChildrenInv, SameChildren, prime'.children = prime.children, SameChildRows, MoreUpset
  PROVE  ChildrenInv'
<1>1. \A c \in Children : HasRow(c)' <=> c \in state'.openDelegations
  BY DEF ChildrenInv, SameChildren, SameChildRows
<1>2. ASSUME Spared({"child"})'
      PROVE  \A c \in Children : c \in state'.openDelegations <=> prime'.children[c] \in Live
  BY <1>2, SparedBefore DEF ChildrenInv, SameChildren
<1> QED BY <1>1, <1>2 DEF ChildrenInv

LEMMA OwnedKept ==
  ASSUME OwnedInv, bb'.turn = bb.turn, prime'.kind = prime.kind, StaysUp, MoreUpset,
         state'.compaction = state.compaction, abort' = abort, openTurn' = openTurn
  PROVE  OwnedInv'
<1>1. ASSUME Spared({"cut"})'
      PROVE  /\ DownIsIdle'
             /\ prime'.kind = "compact" => state'.compaction = "manual" \/ bb'.turn = Idle
  BY <1>1, SparedBefore DEF OwnedInv, DownIsIdle, StaysUp
<1>2. ASSUME Spared({"unowned", "cut"})'
      PROVE  \/ bb'.turn = Idle \/ abort' # NoAbort \/ prime'.kind = "compact"
             \/ prime'.kind = "prompt" /\ openTurn' # "settled"
  BY <1>2, SparedBefore DEF OwnedInv
<1> QED BY <1>1, <1>2 DEF OwnedInv

LEMMA RowsKept ==
  ASSUME RowsInv, NoMoreRows, StaysUp, MoreUpset, abort' = abort,
         prime.kind = "prompt" => prime'.kind = "prompt",
         prime.tools \subseteq prime'.tools,
         state.openTextStreams \subseteq state'.openTextStreams
  PROVE  RowsInv'
<1> SUFFICES ASSUME Spared({"cut"})'
             PROVE  /\ \A c \in Channels : HasRow(c)' =>
                         \/ Held(c)'
                         \/ c \in state'.openTextStreams /\ prime'.kind = "prompt"
                    /\ \A tool \in Tools : HasRow(tool)' => tool \in prime'.tools
                    /\ wire' # "up" => \A key \in Channels \cup Tools : ~HasRow(key)'
  BY DEF RowsInv
<1>1. /\ \A c \in Channels : HasRow(c) =>
           Held(c) \/ (c \in state.openTextStreams /\ prime.kind = "prompt")
      /\ \A tool \in Tools : HasRow(tool) => tool \in prime.tools
      /\ wire # "up" => \A key \in Channels \cup Tools : ~HasRow(key)
  BY SparedBefore DEF RowsInv
<1>2. \A c : Held(c) => Held(c)'
  BY DEF Held
<1>3. \A c \in Channels : HasRow(c)' => HasRow(c)
  BY DEF NoMoreRows
<1>4. \A tool \in Tools : HasRow(tool)' => HasRow(tool)
  BY DEF NoMoreRows
<1>5. \A c \in Channels : HasRow(c)' => Held(c)' \/ (c \in state'.openTextStreams /\ prime'.kind = "prompt")
  BY <1>1, <1>2, <1>3
<1>6. \A tool \in Tools : HasRow(tool)' => tool \in prime'.tools
  BY <1>1, <1>4
<1>7. wire' # "up" => \A key \in Channels \cup Tools : ~HasRow(key)'
  BY <1>1 DEF NoMoreRows, StaysUp
<1> QED BY <1>5, <1>6, <1>7

LEMMA UnmixedKept ==
  ASSUME UnmixedInv, SameRuns, bb'.turn = bb.turn, bb'.mixed = bb.mixed, StaysUp, MoreUpset,
         state'.compaction = state.compaction, abort' = abort
  PROVE  UnmixedInv'
<1> SUFFICES ASSUME Spared({"crossing", "cut", "refused"})'
             PROVE  /\ ~bb'.mixed /\ DownIsIdle'
                    /\ bb'.turn = Idle \/ prime'.run = Idle \/ bb'.turn = prime'.run
                    /\ abort' # NoAbort => bb'.turn \in {Idle, abort'.turn}
                    /\ prime'.compacting => state'.compaction = "auto" \/ bb'.turn = Idle
  BY DEF UnmixedInv
<1>1. Spared({"crossing", "cut", "refused"})
  BY SparedBefore
<1> QED BY <1>1 DEF UnmixedInv, SameRuns, DownIsIdle, StaysUp

LEMMA ShapesKept ==
  ASSUME ShapesInv, StartedRows, bb'.reshaped = bb.reshaped, MoreUpset,
         state.toolCalls \subseteq state'.toolCalls
  PROVE  ShapesInv'
<1> SUFFICES ASSUME Spared({"midtool"})'
             PROVE  /\ ~bb'.reshaped /\ \A row \in bb'.rows : row.shape # "named"
                    /\ \A tool \in Tools : HasRow(tool)' => tool \in state'.toolCalls
  BY DEF ShapesInv
<1>1. Spared({"midtool"})
  BY SparedBefore
<1>2. /\ ~bb.reshaped /\ \A row \in bb.rows : row.shape # "named"
      /\ \A tool \in Tools : HasRow(tool) => tool \in state.toolCalls
  BY <1>1 DEF ShapesInv
<1> QED BY <1>2 DEF StartedRows

LEMMA OnceKept ==
  ASSUME OnceInv, SameRuns, SameTurn, MoreUpset, openTurn' = openTurn, abort' = abort,
         compact' = compact
  PROVE  OnceInv'
<1> SUFFICES ASSUME Spared({"reprompt", "crossing", "unheld", "refused", "blind"})'
             PROVE  /\ ~bb'.twice
                    /\ prime'.kind = "prompt" /\ prime'.run \in bb'.closed => openTurn' = "settled"
                    /\ abort' # NoAbort => openTurn' = "settled" \/ prime'.run = Idle
                    /\ prime'.kind = "compact" => bb'.turn = prime'.run /\ abort' = NoAbort
                    /\ compact' = prime'.asked /\ compact' # Idle => compact' \notin bb'.closed
  BY DEF OnceInv
<1>1. Spared({"reprompt", "crossing", "unheld", "refused", "blind"})
  BY SparedBefore
<1> QED BY <1>1 DEF OnceInv, SameRuns, SameTurn

LEMMA NumbersKept ==
  ASSUME NumbersInv, SameRuns, SameTurn, compact' = compact, abort' = abort
  PROVE  NumbersInv'
BY DEF NumbersInv, SameRuns, SameTurn

LEMMA RunsKept ==
  ASSUME RunsInv, SameRuns, SameTurn, SameLane,
         prime'.kind # "prompt" => prime'.tools = {}
  PROVE  RunsInv'
BY DEF RunsInv, SameRuns, SameTurn, SameLane

(* Rows of other keys. *)
LEMMA OtherRows ==
  ASSUME bb \in Timelines, NEW key \in Channels \cup Tools \cup Children \cup {"compaction"},
         NEW new, new \in {{}, {[key |-> key, shape |-> "started"]}},
         \/ bb'.rows = (bb.rows \ KeyIs(key)) \cup new
         \/ bb'.rows = bb.rows \cup new
         \/ bb'.rows = bb.rows
  PROVE  /\ \A other : other # key => (HasRow(other)' <=> HasRow(other))
         /\ \A row \in bb'.rows : row \in bb.rows \/ row.shape = "started"
<1>1. \A row \in new : row.key = key /\ row.shape = "started"
  OBVIOUS
<1>2. \A row \in KeyIs(key) : row.key = key
  BY DEF KeyIs
<1>3. \A row \in bb'.rows : row \in bb.rows \/ row \in new
  OBVIOUS
<1>4. \A row \in bb.rows : row.key # key => row \in bb'.rows
  BY <1>2
<1> QED BY <1>1, <1>3, <1>4 DEF HasRow

LEMMA DropsRows ==
  ASSUME Drops(bb', bb)
  PROVE  /\ SameChildRows /\ NoMoreRows /\ StartedRows
         /\ \A row \in bb'.rows : row \in bb.rows
<1>1. /\ \A row \in bb'.rows : row \in bb.rows
      /\ \A row \in bb.rows : row.key \in Children => row \in bb'.rows
  BY DEF Drops
<1>2. \A key : HasRow(key)' => HasRow(key)
  BY <1>1 DEF HasRow
<1>3. \A c \in Children : HasRow(c) => HasRow(c)'
  BY <1>1 DEF HasRow
<1> QED BY <1>1, <1>2, <1>3 DEF SameChildRows, NoMoreRows, StartedRows

LEMMA TypesKept ==
  ASSUME TypesInv, state' \in ThreadState, bb' \in Timelines, prime' \in Primes, SameLane,
         upset' \subseteq Upsets, counts' \in Tallies
  PROVE  TypesInv'
BY DEF TypesInv, SameLane, Holds

LEMMA Initially ==
  ASSUME TypesInv
  PROVE  /\ state \in ThreadState /\ bb \in Timelines /\ prime \in Primes /\ upset \subseteq Upsets
         /\ counts \in Tallies
         /\ prime.run \in 0..MaxRuns /\ bb.turn \in 0..MaxRuns /\ compact \in 0..MaxRuns
         /\ 0..MaxRuns \subseteq Nat
BY BoundsAssumption DEF TypesInv, Primes, Timelines

-----------------------------------------------------------------------------
(* The steps, one by one: what prime streams. *)
LEMMA StreamsTextStep == ASSUME IInv, StreamsText PROVE IInv'
<1>0. /\ TypesInv /\ NumbersInv /\ RunsInv /\ QueueInv /\ ChildrenInv
      /\ OwnedInv /\ RowsInv /\ UnmixedInv /\ ShapesInv /\ OnceInv
  BY DEF IInv
<1>1. state \in ThreadState /\ bb \in Timelines /\ prime \in Primes
      /\ upset \subseteq Upsets /\ counts \in Tallies
  BY <1>0, Initially
<1>2. prime.kind = "prompt" /\ SameLane /\ upset' = upset /\ counts' = counts
  BY DEF StreamsText, Quietly, SameLane
<1>3. MoreUpset /\ StaysUp
  BY <1>2 DEF MoreUpset, StaysUp, SameLane
<1>4. PICK c \in Channels :
        \/ /\ prime' = [prime EXCEPT !.texts = @ \cup {c}]
           /\ Emit(textDelta(state, c), prime.run)
        \/ /\ prime' = [prime EXCEPT !.texts = @ \ {c}]
           /\ Emit(textClose(state, c), prime.run)
  BY DEF StreamsText
<1>5. /\ prime' \in Primes /\ SameRuns /\ prime'.tools = prime.tools
      /\ prime'.children = prime.children /\ prime'.queue = prime.queue
  BY <1>1, <1>4 DEF Primes, SameRuns
<1>6. /\ state' \in ThreadState /\ bb' \in Timelines
      /\ SameTurn /\ SameQueue /\ SameChildren /\ bb'.reshaped = bb.reshaped
      /\ state'.toolCalls = state.toolCalls /\ state'.compaction = state.compaction
      /\ \/ /\ state'.openTextStreams = state.openTextStreams \cup {c}
            /\ bb'.rows = (bb.rows \ KeyIs(c)) \cup {[key |-> c, shape |-> "started"]}
         \/ /\ state'.openTextStreams = state.openTextStreams \ {c}
            /\ bb'.rows = bb.rows \ KeyIs(c)
  BY <1>1, <1>4, TextStarts, TextEnds
<1>7. /\ \A other : other # c => (HasRow(other)' <=> HasRow(other))
      /\ \A row \in bb'.rows : row \in bb.rows \/ row.shape = "started"
  <2>1. CASE bb'.rows = (bb.rows \ KeyIs(c)) \cup {[key |-> c, shape |-> "started"]}
    BY <1>1, <2>1, OtherRows
  <2>2. CASE bb'.rows = bb.rows \ KeyIs(c)
    <3>1. \A row \in bb.rows : row.key # c => row \in bb'.rows
      BY <2>2 DEF KeyIs
    <3> QED BY <2>2, <3>1 DEF HasRow
  <2> QED BY <1>6, <2>1, <2>2
<1>8. c \notin Children /\ c \notin Tools
  BY KeysAssumption
<1>9. SameChildRows /\ StartedRows
  BY <1>7, <1>8 DEF SameChildRows, StartedRows
<1>10. bb'.turn = bb.turn /\ bb'.mixed = bb.mixed
  BY <1>6 DEF SameTurn
<1>11. openTurn' = openTurn /\ compact' = compact /\ started' = started /\ abort' = abort
       /\ wire' = wire /\ told' = told
  BY <1>2 DEF SameLane
<1>12. prime'.run = prime.run /\ prime'.kind = "prompt"
  BY <1>2, <1>5 DEF SameRuns
<1>21. TypesInv'
  BY <1>0, <1>1, <1>2, <1>5, <1>6, TypesKept
<1>22. NumbersInv'
  BY <1>0, <1>5, <1>6, <1>11, NumbersKept
<1>23. RunsInv'
  BY <1>0, <1>2, <1>5, <1>6, <1>12, RunsKept
<1>24. QueueInv'
  BY <1>0, <1>3, <1>5, <1>6, <1>11, QueueKept
<1>25. ChildrenInv'
  BY <1>0, <1>3, <1>5, <1>6, <1>9, ChildrenKept
<1>26. OwnedInv'
  BY <1>0, <1>2, <1>3, <1>6, <1>10, <1>11, <1>12, OwnedKept
<1>27. RowsInv'
  <2> SUFFICES ASSUME Spared({"cut"})'
               PROVE  /\ \A x \in Channels : HasRow(x)' =>
                           \/ Held(x)'
                           \/ x \in state'.openTextStreams /\ prime'.kind = "prompt"
                      /\ \A tool \in Tools : HasRow(tool)' => tool \in prime'.tools
                      /\ wire' # "up" => \A key \in Channels \cup Tools : ~HasRow(key)'
    BY DEF RowsInv
  <2>1. /\ \A x \in Channels : HasRow(x) =>
             Held(x) \/ (x \in state.openTextStreams /\ prime.kind = "prompt")
        /\ \A tool \in Tools : HasRow(tool) => tool \in prime.tools
    BY <1>0, <1>3, SparedBefore DEF RowsInv
  <2>2. \A x : Held(x) => Held(x)'
    BY <1>11 DEF Held
  <2>3. ASSUME NEW x \in Channels, HasRow(x)'
        PROVE  Held(x)' \/ x \in state'.openTextStreams
    <3>1. CASE x # c
      BY <1>6, <1>7, <2>1, <2>2, <2>3, <3>1
    <3>2. CASE x = c
      <4>1. bb'.rows # bb.rows \ KeyIs(c)
        <5>1. PICK row \in bb'.rows : row.key = c
          BY <2>3, <3>2 DEF HasRow
        <5>2. row \in Rows
          BY <1>6 DEF Timelines
        <5> QED BY <5>1, <5>2 DEF KeyIs
      <4> QED BY <1>6, <3>2, <4>1
    <3> QED BY <3>1, <3>2
  <2>4. \A tool \in Tools : HasRow(tool)' => tool \in prime'.tools
    BY <1>5, <1>7, <1>8, <2>1
  <2>5. wire' = "up"
    BY <1>11 DEF StreamsText, Streams
  <2> QED BY <1>12, <2>3, <2>4, <2>5
<1>28. UnmixedInv'
  BY <1>0, <1>3, <1>5, <1>6, <1>10, <1>11, UnmixedKept
<1>29. ShapesInv'
  BY <1>0, <1>3, <1>6, <1>9, ShapesKept
<1>30. OnceInv'
  BY <1>0, <1>3, <1>5, <1>6, <1>11, OnceKept
<1> QED BY <1>21, <1>22, <1>23, <1>24, <1>25, <1>26, <1>27, <1>28, <1>29, <1>30 DEF IInv

LEMMA StreamsToolStep == ASSUME IInv, StreamsTool PROVE IInv'
<1>0. /\ TypesInv /\ NumbersInv /\ RunsInv /\ QueueInv /\ ChildrenInv
      /\ OwnedInv /\ RowsInv /\ UnmixedInv /\ ShapesInv /\ OnceInv
  BY DEF IInv
<1>1. state \in ThreadState /\ bb \in Timelines /\ prime \in Primes
      /\ upset \subseteq Upsets /\ counts \in Tallies
  BY <1>0, Initially
<1>2. prime.kind = "prompt" /\ SameLane /\ upset' = upset /\ counts' = counts
  BY DEF StreamsTool, Quietly, SameLane
<1>3. MoreUpset /\ StaysUp
  BY <1>2 DEF MoreUpset, StaysUp, SameLane
<1>4. PICK tool \in Tools :
        \/ /\ tool \notin prime.tools
           /\ prime' = [prime EXCEPT !.tools = @ \cup {tool}]
           /\ Emit(toolStart(state, tool), prime.run)
        \/ /\ tool \in prime.tools
           /\ prime' = [prime EXCEPT !.tools = @ \ {tool}]
           /\ Emit(toolEnd(state, tool), prime.run)
  BY DEF StreamsTool
<1>5. /\ prime' \in Primes /\ SameRuns
      /\ prime'.children = prime.children /\ prime'.queue = prime.queue
      /\ prime'.tools \in {prime.tools \cup {tool}, prime.tools \ {tool}}
  BY <1>1, <1>4 DEF Primes, SameRuns
<1>6. /\ state' \in ThreadState /\ bb' \in Timelines
      /\ SameTurn /\ SameQueue /\ SameChildren
      /\ state.toolCalls \subseteq state'.toolCalls /\ state'.compaction = state.compaction
      /\ state'.openTextStreams = state.openTextStreams
      /\ \/ /\ tool \in prime'.tools /\ tool \in state'.toolCalls
            /\ bb'.reshaped = bb.reshaped
            /\ bb'.rows = (bb.rows \ KeyIs(tool)) \cup {[key |-> tool, shape |-> "started"]}
         \/ /\ bb'.rows = bb.rows \ KeyIs(tool)
            /\ (\A row \in bb.rows : row.key = tool =>
                  row.shape = "started" /\ tool \in state.toolCalls) => bb'.reshaped = bb.reshaped
  <2>1. CASE /\ prime' = [prime EXCEPT !.tools = @ \cup {tool}]
             /\ Emit(toolStart(state, tool), prime.run)
    <3>1. tool \in prime'.tools
      BY <1>1, <2>1 DEF Primes
    <3>2. /\ state' \in ThreadState /\ bb' \in Timelines
          /\ SameTurn /\ SameQueue /\ SameChildren /\ bb'.reshaped = bb.reshaped
          /\ state'.toolCalls = state.toolCalls \cup {tool}
          /\ state'.compaction = state.compaction
          /\ state'.openTextStreams = state.openTextStreams
          /\ bb'.rows = (bb.rows \ KeyIs(tool)) \cup {[key |-> tool, shape |-> "started"]}
      BY <1>1, <2>1, ToolStarts
    <3> QED BY <3>1, <3>2
  <2>2. CASE Emit(toolEnd(state, tool), prime.run)
    BY <1>1, <2>2, ToolEnds
  <2> QED BY <1>4, <2>1, <2>2
<1>7. /\ \A other : other # tool => (HasRow(other)' <=> HasRow(other))
      /\ \A row \in bb'.rows : row \in bb.rows \/ row.shape = "started"
  <2>1. CASE bb'.rows = (bb.rows \ KeyIs(tool)) \cup {[key |-> tool, shape |-> "started"]}
    BY <1>1, <2>1, OtherRows
  <2>2. CASE bb'.rows = bb.rows \ KeyIs(tool)
    <3>1. \A row \in bb.rows : row.key # tool => row \in bb'.rows
      BY <2>2 DEF KeyIs
    <3> QED BY <2>2, <3>1 DEF HasRow
  <2> QED BY <1>6, <2>1, <2>2
<1>8. tool \notin Children /\ tool \notin Channels /\ \A c \in Channels : c \notin Tools
  BY KeysAssumption
<1>9. SameChildRows
  BY <1>7, <1>8 DEF SameChildRows
<1>10. bb'.turn = bb.turn /\ bb'.mixed = bb.mixed
  BY <1>6 DEF SameTurn
<1>11. openTurn' = openTurn /\ compact' = compact /\ started' = started /\ abort' = abort
       /\ wire' = wire /\ told' = told
  BY <1>2 DEF SameLane
<1>12. prime'.run = prime.run /\ prime'.kind = "prompt"
  BY <1>2, <1>5 DEF SameRuns
<1>13. HasRow(tool)' => tool \in prime'.tools /\ tool \in state'.toolCalls
  <2>1. CASE bb'.rows = bb.rows \ KeyIs(tool)
    <3>1. ASSUME NEW row \in bb'.rows PROVE row.key # tool
      <4>1. row \in Rows
        BY <1>6 DEF Timelines
      <4> QED BY <2>1, <4>1 DEF KeyIs
    <3> QED BY <3>1 DEF HasRow
  <2> QED BY <1>6, <2>1
<1>21. TypesInv'
  BY <1>0, <1>1, <1>2, <1>5, <1>6, TypesKept
<1>22. NumbersInv'
  BY <1>0, <1>5, <1>6, <1>11, NumbersKept
<1>23. RunsInv'
  BY <1>0, <1>2, <1>5, <1>6, <1>12, RunsKept
<1>24. QueueInv'
  BY <1>0, <1>3, <1>5, <1>6, <1>11, QueueKept
<1>25. ChildrenInv'
  BY <1>0, <1>3, <1>5, <1>6, <1>9, ChildrenKept
<1>26. OwnedInv'
  BY <1>0, <1>2, <1>3, <1>6, <1>10, <1>11, <1>12, OwnedKept
<1>27. RowsInv'
  <2> SUFFICES ASSUME Spared({"cut"})'
               PROVE  /\ \A x \in Channels : HasRow(x)' =>
                           \/ Held(x)'
                           \/ x \in state'.openTextStreams /\ prime'.kind = "prompt"
                      /\ \A x \in Tools : HasRow(x)' => x \in prime'.tools
                      /\ wire' # "up" => \A key \in Channels \cup Tools : ~HasRow(key)'
    BY DEF RowsInv
  <2>1. /\ \A x \in Channels : HasRow(x) =>
             Held(x) \/ (x \in state.openTextStreams /\ prime.kind = "prompt")
        /\ \A x \in Tools : HasRow(x) => x \in prime.tools
    BY <1>0, <1>3, SparedBefore DEF RowsInv
  <2>2. \A x : Held(x) => Held(x)'
    BY <1>11 DEF Held
  <2>3. \A x \in Channels : HasRow(x)' <=> HasRow(x)
    BY <1>7, <1>8
  <2>4. ASSUME NEW x \in Tools, HasRow(x)' PROVE x \in prime'.tools
    <3>1. CASE x = tool
      BY <1>13, <2>4, <3>1
    <3>2. CASE x # tool
      BY <1>5, <1>7, <2>1, <2>4, <3>2
    <3> QED BY <3>1, <3>2
  <2>5. wire' = "up"
    BY <1>11 DEF StreamsTool, Streams
  <2>6. \A x \in Channels : HasRow(x)' => Held(x)' \/ (x \in state'.openTextStreams /\ prime'.kind = "prompt")
    BY <1>6, <1>12, <2>1, <2>2, <2>3
  <2> QED BY <2>4, <2>5, <2>6
<1>28. UnmixedInv'
  BY <1>0, <1>3, <1>5, <1>6, <1>10, <1>11, UnmixedKept
<1>29. ShapesInv'
  <2> SUFFICES ASSUME Spared({"midtool"})'
               PROVE  /\ ~bb'.reshaped /\ \A row \in bb'.rows : row.shape # "named"
                      /\ \A x \in Tools : HasRow(x)' => x \in state'.toolCalls
    BY DEF ShapesInv
  <2>1. Spared({"midtool"})
    BY <1>3, SparedBefore
  <2>2. /\ ~bb.reshaped /\ \A row \in bb.rows : row.shape # "named"
        /\ \A x \in Tools : HasRow(x) => x \in state.toolCalls
    BY <1>0, <2>1 DEF ShapesInv
  <2>3. \A row \in bb.rows : row.key = tool => row.shape = "started" /\ tool \in state.toolCalls
    <3>1. \A row \in bb.rows : row.key = tool => row.shape = "started"
      BY <1>1, <2>2, ShapeOfRows
    <3> QED BY <2>2, <3>1 DEF HasRow
  <2>4. bb'.reshaped = bb.reshaped
    BY <1>6, <2>3
  <2>5. ASSUME NEW x \in Tools, HasRow(x)' PROVE x \in state'.toolCalls
    <3>1. CASE x = tool
      BY <1>13, <2>5, <3>1
    <3>2. CASE x # tool
      BY <1>6, <1>7, <2>2, <2>5, <3>2
    <3> QED BY <3>1, <3>2
  <2> QED BY <1>7, <2>2, <2>4, <2>5
<1>30. OnceInv'
  BY <1>0, <1>3, <1>5, <1>6, <1>11, OnceKept
<1> QED BY <1>21, <1>22, <1>23, <1>24, <1>25, <1>26, <1>27, <1>28, <1>29, <1>30 DEF IInv

LEMMA ChildChangesStep == ASSUME IInv, ChildChanges PROVE IInv'
<1>0. /\ TypesInv /\ NumbersInv /\ RunsInv /\ QueueInv /\ ChildrenInv
      /\ OwnedInv /\ RowsInv /\ UnmixedInv /\ ShapesInv /\ OnceInv
  BY DEF IInv
<1>1. state \in ThreadState /\ bb \in Timelines /\ prime \in Primes
      /\ upset \subseteq Upsets /\ counts \in Tallies
  BY <1>0, Initially
<1>2. SameLane /\ upset' = upset /\ counts' = counts
  BY DEF ChildChanges, Quietly, SameLane
<1>3. MoreUpset /\ StaysUp
  BY <1>2 DEF MoreUpset, StaysUp, SameLane
<1>4. PICK c \in Children, s \in {"running", "done"} :
        /\ prime' = [prime EXCEPT !.children[c] = s]
        /\ Emit(childDeltas(state, c, s), prime.run)
  BY DEF ChildChanges
<1>5. /\ prime' \in Primes /\ SameRuns /\ prime'.tools = prime.tools
      /\ prime'.queue = prime.queue /\ prime'.children = [prime.children EXCEPT ![c] = s]
  <2>1. s \in ChildStatus
    BY DEF ChildStatus, Live
  <2>2. [prime.children EXCEPT ![c] = s] \in [Children -> ChildStatus]
    BY <1>1, <2>1 DEF Primes
  <2>3. prime' = [prime EXCEPT !.children = [prime.children EXCEPT ![c] = s]]
    BY <1>4
  <2> QED BY <1>1, <2>2, <2>3 DEF Primes, SameRuns
<1>6. /\ state' \in ThreadState /\ bb' \in Timelines
      /\ SameTurn /\ SameQueue
      /\ state'.toolCalls = state.toolCalls /\ state'.compaction = state.compaction
      /\ state'.openTextStreams = state.openTextStreams
      /\ s \in Live =>
           /\ state'.openDelegations = state.openDelegations \cup {c}
           /\ c \in state.openDelegations => bb'.rows = bb.rows
           /\ c \notin state.openDelegations =>
                bb'.rows = (bb.rows \ KeyIs(c)) \cup {[key |-> c, shape |-> "started"]}
      /\ s \notin Live =>
           /\ state'.openDelegations = state.openDelegations \ {c}
           /\ bb'.rows = bb.rows \ KeyIs(c)
      /\ (\A row \in bb.rows : row.shape # "named") => bb'.reshaped = bb.reshaped
  BY <1>1, <1>4, ChildEmits
<1>7. /\ \A other : other # c => (HasRow(other)' <=> HasRow(other))
      /\ \A row \in bb'.rows : row \in bb.rows \/ row.shape = "started"
  <2>1. CASE bb'.rows = (bb.rows \ KeyIs(c)) \cup {[key |-> c, shape |-> "started"]}
    BY <1>1, <2>1, OtherRows
  <2>2. CASE bb'.rows = bb.rows \ KeyIs(c)
    <3>1. \A row \in bb.rows : row.key # c => row \in bb'.rows
      BY <2>2 DEF KeyIs
    <3> QED BY <2>2, <3>1 DEF HasRow
  <2>3. CASE bb'.rows = bb.rows
    BY <2>3 DEF HasRow
  <2> QED BY <1>6, <2>1, <2>2, <2>3
<1>8. \A key \in Channels \cup Tools : key # c
  BY KeysAssumption
<1>9. NoMoreRows /\ StartedRows
  BY <1>7, <1>8 DEF NoMoreRows, StartedRows
<1>10. bb'.turn = bb.turn /\ bb'.mixed = bb.mixed
  BY <1>6 DEF SameTurn
<1>11. openTurn' = openTurn /\ compact' = compact /\ started' = started /\ abort' = abort
       /\ wire' = wire /\ told' = told
  BY <1>2 DEF SameLane
<1>12. prime'.run = prime.run /\ prime'.kind = prime.kind
  BY <1>5 DEF SameRuns
<1>21. TypesInv'
  BY <1>0, <1>1, <1>2, <1>5, <1>6, TypesKept
<1>22. NumbersInv'
  BY <1>0, <1>5, <1>6, <1>11, NumbersKept
<1>23. RunsInv'
  <2>1. prime'.kind # "prompt" => prime'.tools = {}
    BY <1>0, <1>5, <1>12 DEF RunsInv
  <2> QED BY <1>0, <1>2, <1>5, <1>6, <2>1, RunsKept
<1>24. QueueInv'
  BY <1>0, <1>3, <1>5, <1>6, <1>11, QueueKept
<1>25. ChildrenInv'
  <2>1. \A x \in Children : HasRow(x) <=> x \in state.openDelegations
    BY <1>0 DEF ChildrenInv
  <2>2. HasRow(c)' <=> c \in state'.openDelegations
    <3>1. CASE s \in Live /\ c \in state.openDelegations
      <4>1. bb'.rows = bb.rows /\ c \in state'.openDelegations /\ HasRow(c)
        BY <1>6, <2>1, <3>1
      <4> QED BY <4>1 DEF HasRow
    <3>2. CASE s \in Live /\ c \notin state.openDelegations
      <4>1. [key |-> c, shape |-> "started"] \in bb'.rows /\ c \in state'.openDelegations
        BY <1>6, <3>2
      <4>2. [key |-> c, shape |-> "started"].key = c
        OBVIOUS
      <4> QED BY <4>1, <4>2 DEF HasRow
    <3>3. CASE s \notin Live
      <4>1. ASSUME NEW row \in bb'.rows PROVE row.key # c
        <5>1. row \in Rows
          BY <1>6 DEF Timelines
        <5> QED BY <1>6, <3>3, <5>1 DEF KeyIs
      <4> QED BY <1>6, <3>3, <4>1 DEF HasRow
    <3> QED BY <3>1, <3>2, <3>3
  <2>3. \A x \in Children : x # c => (x \in state'.openDelegations <=> x \in state.openDelegations)
    BY <1>6
  <2>4. \A x \in Children : HasRow(x)' <=> x \in state'.openDelegations
    BY <1>7, <2>1, <2>2, <2>3
  <2>5. ASSUME Spared({"child"})', NEW x \in Children
        PROVE  x \in state'.openDelegations <=> prime'.children[x] \in Live
    <3>1. x \in state.openDelegations <=> prime.children[x] \in Live
      BY <1>0, <1>3, <2>5, SparedBefore DEF ChildrenInv
    <3>2. prime.children \in [Children -> ChildStatus]
      BY <1>1 DEF Primes
    <3>3. prime'.children[x] = IF x = c THEN s ELSE prime.children[x]
      BY <1>5, <3>2
    <3>4. CASE x = c
      BY <1>6, <3>3, <3>4
    <3>5. CASE x # c
      BY <2>3, <3>1, <3>3, <3>5
    <3> QED BY <3>4, <3>5
  <2> QED BY <2>4, <2>5 DEF ChildrenInv
<1>26. OwnedInv'
  BY <1>0, <1>3, <1>6, <1>10, <1>11, <1>12, OwnedKept
<1>27. RowsInv'
  BY <1>0, <1>3, <1>5, <1>6, <1>9, <1>11, <1>12, RowsKept
<1>28. UnmixedInv'
  BY <1>0, <1>3, <1>5, <1>6, <1>10, <1>11, UnmixedKept
<1>29. ShapesInv'
  <2>1. CASE Spared({"midtool"})
    <3>1. \A row \in bb.rows : row.shape # "named"
      BY <1>0, <2>1 DEF ShapesInv
    <3> QED BY <1>0, <1>3, <1>6, <1>9, <3>1, ShapesKept
  <2>2. CASE ~Spared({"midtool"})
    BY <1>3, <2>2, SparedBefore DEF ShapesInv
  <2> QED BY <2>1, <2>2
<1>30. OnceInv'
  BY <1>0, <1>3, <1>5, <1>6, <1>11, OnceKept
<1> QED BY <1>21, <1>22, <1>23, <1>24, <1>25, <1>26, <1>27, <1>28, <1>29, <1>30 DEF IInv

(* A step that emits nothing. *)
LEMMA EmitsNothing ==
  ASSUME state' = state, bb' = bb
  PROVE  /\ SameTurn /\ SameQueue /\ SameChildren
         /\ SameChildRows /\ NoMoreRows /\ StartedRows
         /\ bb'.reshaped = bb.reshaped /\ bb'.mixed = bb.mixed /\ bb'.turn = bb.turn
BY DEF SameTurn, SameQueue, SameChildren, SameChildRows, NoMoreRows, StartedRows, HasRow

LEMMA ShowsQueue ==
  ASSUME QueueInv, state \in ThreadState, bb \in Timelines, NEW run, NEW q \in Payloads,
         Emit(queueUpdateDeltas(state, q), run)
  PROVE  /\ state' \in ThreadState /\ bb' \in Timelines
         /\ SameTurn /\ SameChildren /\ SameChildRows /\ NoMoreRows /\ StartedRows
         /\ bb'.reshaped = bb.reshaped
         /\ state'.toolCalls = state.toolCalls /\ state'.compaction = state.compaction
         /\ state'.openTextStreams = state.openTextStreams
         /\ state'.queuePayload = q /\ bb'.queue = q
<1>1. /\ state' \in ThreadState /\ bb' \in Timelines
      /\ SameTurn /\ SameChildren /\ bb'.reshaped = bb.reshaped /\ bb'.rows = bb.rows
      /\ state'.toolCalls = state.toolCalls /\ state'.compaction = state.compaction
      /\ state'.openTextStreams = state.openTextStreams
      /\ state'.queuePayload = q
      /\ bb'.queue = IF q = state.queuePayload THEN bb.queue ELSE q
  BY Shows
<1>2. q # Undefined
  BY PayloadsAssumption DEF Payloads
<1>3. bb'.queue = q
  BY <1>1, <1>2 DEF QueueInv
<1>4. SameChildRows /\ NoMoreRows /\ StartedRows
  BY <1>1 DEF SameChildRows, NoMoreRows, StartedRows, HasRow
<1> QED BY <1>1, <1>3, <1>4

LEMMA QueueChangesStep == ASSUME IInv, QueueChanges PROVE IInv'
<1>0. /\ TypesInv /\ NumbersInv /\ RunsInv /\ QueueInv /\ ChildrenInv
      /\ OwnedInv /\ RowsInv /\ UnmixedInv /\ ShapesInv /\ OnceInv
  BY DEF IInv
<1>1. state \in ThreadState /\ bb \in Timelines /\ prime \in Primes
      /\ upset \subseteq Upsets /\ counts \in Tallies
  BY <1>0, Initially
<1>2. /\ upset' = upset /\ counts' \in Tallies
      /\ openTurn' = openTurn /\ compact' = compact /\ started' = started
      /\ abort' = abort /\ wire' = wire /\ told' = TRUE
  BY <1>1 DEF QueueChanges, Tallies
<1>3. MoreUpset /\ StaysUp
  BY <1>2 DEF MoreUpset, StaysUp
<1>4. PICK q \in Payloads :
        /\ prime' = [prime EXCEPT !.queue = q]
        /\ Emit(queueUpdateDeltas(state, q), prime.run)
  BY DEF QueueChanges
<1>5. /\ prime' \in Primes /\ SameRuns /\ prime'.tools = prime.tools
      /\ prime'.children = prime.children /\ prime'.queue = q
  BY <1>1, <1>4 DEF Primes, SameRuns
<1>6. /\ state' \in ThreadState /\ bb' \in Timelines
      /\ SameTurn /\ SameChildren /\ SameChildRows /\ NoMoreRows /\ StartedRows
      /\ bb'.reshaped = bb.reshaped
      /\ state'.toolCalls = state.toolCalls /\ state'.compaction = state.compaction
      /\ state'.openTextStreams = state.openTextStreams
      /\ state'.queuePayload = q /\ bb'.queue = q
  BY <1>0, <1>1, <1>4, ShowsQueue
<1>10. bb'.turn = bb.turn /\ bb'.mixed = bb.mixed
  BY <1>6 DEF SameTurn
<1>11. prime'.run = prime.run /\ prime'.kind = prime.kind
  BY <1>5 DEF SameRuns
<1>21. TypesInv'
  BY <1>0, <1>1, <1>2, <1>5, <1>6 DEF TypesInv, Holds
<1>22. NumbersInv'
  BY <1>0, <1>5, <1>6, <1>2, NumbersKept
<1>23. RunsInv'
  <2>1. prime'.kind # "prompt" => prime'.tools = {}
    BY <1>0, <1>5, <1>11 DEF RunsInv
  <2> QED BY <1>0, <1>2, <1>5, <1>6, <2>1 DEF RunsInv, SameRuns, SameTurn
<1>24. QueueInv'
  BY <1>5, <1>6 DEF QueueInv
<1>25. ChildrenInv'
  BY <1>0, <1>3, <1>5, <1>6, ChildrenKept
<1>26. OwnedInv'
  BY <1>0, <1>3, <1>6, <1>10, <1>2, <1>11, OwnedKept
<1>27. RowsInv'
  BY <1>0, <1>3, <1>5, <1>6, <1>2, <1>11, RowsKept
<1>28. UnmixedInv'
  BY <1>0, <1>3, <1>5, <1>6, <1>10, <1>2, UnmixedKept
<1>29. ShapesInv'
  BY <1>0, <1>3, <1>6, ShapesKept
<1>30. OnceInv'
  BY <1>0, <1>3, <1>5, <1>6, <1>2, OnceKept
<1> QED BY <1>21, <1>22, <1>23, <1>24, <1>25, <1>26, <1>27, <1>28, <1>29, <1>30 DEF IInv

LEMMA ConnectionRestoredStep == ASSUME IInv, ConnectionRestored PROVE IInv'
<1>0. /\ TypesInv /\ NumbersInv /\ RunsInv /\ QueueInv /\ ChildrenInv
      /\ OwnedInv /\ RowsInv /\ UnmixedInv /\ ShapesInv /\ OnceInv
  BY DEF IInv
<1>1. state \in ThreadState /\ bb \in Timelines /\ prime \in Primes
      /\ upset \subseteq Upsets /\ counts \in Tallies
  BY <1>0, Initially
<1>2. /\ wire # "up" /\ wire' = "up" /\ upset' = upset /\ counts' = counts /\ prime' = prime
      /\ openTurn' = openTurn /\ compact' = compact /\ started' = started /\ abort' = abort
  BY DEF ConnectionRestored
<1>4. PICK answered \in BOOLEAN :
        /\ Emit(ShowsWaiting(state, answered), prime.run)
        /\ told' = (answered /\ prime.queue # Drained)
  BY DEF ConnectionRestored
<1>3. MoreUpset /\ StaysUp
  BY <1>2 DEF MoreUpset, StaysUp
<1>5. SameRuns /\ prime'.tools = prime.tools /\ prime.queue \in Payloads
  BY <1>1, <1>2 DEF Primes, SameRuns
<1>6. /\ state' \in ThreadState /\ bb' \in Timelines
      /\ SameTurn /\ SameChildren /\ SameChildRows /\ NoMoreRows /\ StartedRows
      /\ bb'.reshaped = bb.reshaped
      /\ state'.toolCalls = state.toolCalls /\ state'.compaction = state.compaction
      /\ state'.openTextStreams = state.openTextStreams
      /\ \/ /\ ~told'
            /\ state'.queuePayload = state.queuePayload /\ bb'.queue = bb.queue
         \/ state'.queuePayload = prime.queue /\ bb'.queue = prime.queue
  <2>1. CASE prime.queue = Drained \/ ~answered
    <3>1. state' = state /\ bb' = Assembled(bb, <<>>, prime.run)
      BY <1>4, <2>1 DEF Emit, ShowsWaiting, Answer
    <3>2. bb' = bb
      BY <3>1, AssemblesNone
    <3>3. /\ SameTurn /\ SameChildren /\ SameChildRows /\ NoMoreRows /\ StartedRows
          /\ bb'.reshaped = bb.reshaped
      BY <3>1, <3>2, EmitsNothing
    <3> QED BY <1>1, <1>4, <2>1, <3>1, <3>2, <3>3
  <2>2. CASE ~(prime.queue = Drained \/ ~answered)
    <3>1. Emit(queueUpdateDeltas(state, prime.queue), prime.run)
      BY <1>4, <2>2 DEF ShowsWaiting
    <3> QED BY <1>0, <1>1, <1>5, <3>1, ShowsQueue
  <2> QED BY <2>1, <2>2
<1>10. bb'.turn = bb.turn /\ bb'.mixed = bb.mixed
  BY <1>6 DEF SameTurn
<1>21. TypesInv'
  BY <1>0, <1>1, <1>2, <1>4, <1>6 DEF TypesInv, Holds
<1>22. NumbersInv'
  BY <1>0, <1>2, <1>5, <1>6, NumbersKept
<1>23. RunsInv'
  BY <1>0, <1>2, <1>6 DEF RunsInv, SameTurn
<1>24. QueueInv'
  BY <1>0, <1>2, <1>6 DEF QueueInv
<1>25. ChildrenInv'
  BY <1>0, <1>2, <1>3, <1>6, ChildrenKept
<1>26. OwnedInv'
  BY <1>0, <1>2, <1>3, <1>6, <1>10, OwnedKept
<1>27. RowsInv'
  BY <1>0, <1>2, <1>3, <1>6, RowsKept
<1>28. UnmixedInv'
  BY <1>0, <1>2, <1>3, <1>5, <1>6, <1>10, UnmixedKept
<1>29. ShapesInv'
  BY <1>0, <1>3, <1>6, ShapesKept
<1>30. OnceInv'
  BY <1>0, <1>2, <1>3, <1>5, <1>6, OnceKept
<1> QED BY <1>21, <1>22, <1>23, <1>24, <1>25, <1>26, <1>27, <1>28, <1>29, <1>30 DEF IInv

-----------------------------------------------------------------------------
(* What the lane does not see. *)
LEMMA MissedStep == ASSUME IInv, Missed PROVE IInv'
<1>0. /\ TypesInv /\ NumbersInv /\ RunsInv /\ QueueInv /\ ChildrenInv
      /\ OwnedInv /\ RowsInv /\ UnmixedInv /\ ShapesInv /\ OnceInv
  BY DEF IInv
<1>1. state \in ThreadState /\ bb \in Timelines /\ prime \in Primes
      /\ upset \subseteq Upsets /\ counts \in Tallies
  BY <1>0, Initially
<1>2. wire # "up" /\ state' = state /\ bb' = bb /\ SameLane /\ counts' = counts
  BY DEF Missed, SameLane
<1>3. PICK c \in [Children -> ChildStatus], q \in Payloads, ends \in BOOLEAN :
        /\ \A x \in Children : c[x] = prime.children[x] \/ (prime.children[x] \in Live /\ c[x] = "done")
        /\ prime' = [prime EXCEPT !.children = c, !.queue = q,
                       !.run = IF ends THEN Idle ELSE @, !.kind = IF ends THEN "none" ELSE @,
                       !.asked = IF ends THEN Idle ELSE @,
                       !.texts = IF ends THEN {} ELSE @, !.tools = IF ends THEN {} ELSE @,
                       !.compacting = IF ends THEN FALSE ELSE @, !.owed = IF ends THEN 0 ELSE @]
        /\ Suffers(Upset("child", c # prime.children))
  BY ZenonT(40) DEF Missed
<1>4. /\ prime' \in Primes /\ prime'.last = prime.last
      /\ prime'.children = c /\ prime'.queue = q
      /\ ends => /\ prime'.run = Idle /\ prime'.kind = "none" /\ prime'.asked = Idle
                 /\ prime'.tools = {} /\ prime'.compacting = FALSE
      /\ ~ends => SameRuns /\ prime'.tools = prime.tools
  <2>1. CASE ends
    <3>1. prime' = [prime EXCEPT !.children = c, !.queue = q, !.run = Idle, !.kind = "none",
                      !.asked = Idle, !.texts = {}, !.tools = {}, !.compacting = FALSE, !.owed = 0]
      BY <1>3, <2>1
    <3>2. Idle \in 0..MaxRuns
      BY BoundsAssumption DEF Idle
    <3> QED BY <1>1, <2>1, <3>1, <3>2 DEF Primes
  <2>2. CASE ~ends
    <3>1. prime' = [prime EXCEPT !.children = c, !.queue = q, !.run = @, !.kind = @,
                      !.asked = @, !.texts = @, !.tools = @, !.compacting = @, !.owed = @]
      BY <1>3, <2>2
    <3> QED BY <1>1, <2>2, <3>1 DEF Primes, SameRuns
  <2> QED BY <2>1, <2>2
<1>5. upset' = upset \cup Upset("child", c # prime.children)
  BY <1>3 DEF Suffers
<1>6. /\ MoreUpset /\ upset' \subseteq Upsets
      /\ c # prime.children => "child" \in upset'
  BY <1>1, <1>5 DEF MoreUpset, Upset, Upsets
<1>7. /\ SameTurn /\ SameQueue /\ SameChildren
      /\ SameChildRows /\ NoMoreRows /\ StartedRows
      /\ bb'.reshaped = bb.reshaped /\ bb'.mixed = bb.mixed /\ bb'.turn = bb.turn
  BY <1>2, EmitsNothing
<1>8. /\ openTurn' = openTurn /\ compact' = compact /\ started' = started /\ abort' = abort
      /\ wire' = wire /\ told' = told
  BY <1>2 DEF SameLane
<1>9. abort = NoAbort /\ compact = Idle
  BY <1>0, <1>2 DEF RunsInv
<1>10. prime.run \in Nat /\ prime.last \in Nat /\ prime.asked \in Nat /\ Idle = 0
  BY <1>1, BoundsAssumption DEF Primes, Idle
<1>21. TypesInv'
  BY <1>0, <1>1, <1>2, <1>4, <1>6, TypesKept
<1>22. NumbersInv'
  <2>1. prime'.run <= prime'.last /\ prime'.asked <= prime'.last
    BY <1>0, <1>4, <1>10 DEF NumbersInv, SameRuns
  <2> QED BY <1>0, <1>2, <1>4, <1>8, <2>1 DEF NumbersInv
<1>23. RunsInv'
  <2>1. CASE ends
    BY <1>0, <1>2, <1>4, <1>8, <1>9, <2>1 DEF RunsInv
  <2>2. CASE ~ends
    <3>1. prime'.kind # "prompt" => prime'.tools = {}
      BY <1>0, <1>4, <2>2 DEF RunsInv, SameRuns
    <3> QED BY <1>0, <1>2, <1>4, <1>7, <2>2, <3>1, RunsKept
  <2> QED BY <2>1, <2>2
<1>24. QueueInv'
  BY <1>0, <1>2, <1>8 DEF QueueInv
<1>25. ChildrenInv'
  <2>1. CASE c = prime.children
    BY <1>0, <1>4, <1>6, <1>7, <2>1, ChildrenKept
  <2>2. CASE c # prime.children
    <3>1. ~Spared({"child"})'
      BY <1>6, <2>2 DEF Spared
    <3>2. \A x \in Children : HasRow(x)' <=> x \in state'.openDelegations
      BY <1>0, <1>7 DEF ChildrenInv, SameChildRows, SameChildren
    <3> QED BY <3>1, <3>2 DEF ChildrenInv
  <2> QED BY <2>1, <2>2
<1>26. OwnedInv'
  <2>1. ASSUME Spared({"cut"})' PROVE bb'.turn = Idle
    BY <1>0, <1>2, <1>6, <2>1, SparedBefore DEF OwnedInv, DownIsIdle
  <2>2. Spared({"unowned", "cut"})' => Spared({"cut"})'
    BY DEF Spared
  <2> QED BY <2>1, <2>2 DEF OwnedInv, DownIsIdle
<1>27. RowsInv'
  <2>1. ASSUME Spared({"cut"})', NEW key \in Channels \cup Tools PROVE ~HasRow(key)'
    BY <1>0, <1>2, <1>6, <1>7, <2>1, SparedBefore DEF RowsInv, NoMoreRows
  <2> QED BY <2>1 DEF RowsInv
<1>28. UnmixedInv'
  <2> SUFFICES ASSUME Spared({"crossing", "cut", "refused"})'
               PROVE  ~bb'.mixed /\ bb'.turn = Idle
    BY <1>8, <1>9 DEF UnmixedInv, DownIsIdle
  <2>1. Spared({"crossing", "cut", "refused"})
    BY <1>6, SparedBefore
  <2> QED BY <1>0, <1>2, <2>1 DEF UnmixedInv, DownIsIdle
<1>29. ShapesInv'
  BY <1>0, <1>2, <1>6, <1>7, ShapesKept
<1>30. OnceInv'
  <2>1. CASE ends
    <3> SUFFICES ASSUME Spared({"reprompt", "crossing", "unheld", "refused", "blind"})'
                 PROVE  ~bb'.twice
      BY <1>4, <1>8, <1>9, <2>1 DEF OnceInv
    <3>1. Spared({"reprompt", "crossing", "unheld", "refused", "blind"})
      BY <1>6, SparedBefore
    <3> QED BY <1>0, <1>2, <3>1 DEF OnceInv
  <2>2. CASE ~ends
    BY <1>0, <1>4, <1>6, <1>7, <1>8, <2>2, OnceKept
  <2> QED BY <2>1, <2>2
<1> QED BY <1>21, <1>22, <1>23, <1>24, <1>25, <1>26, <1>27, <1>28, <1>29, <1>30 DEF IInv

(* A drop, or a refusal, before the lane has re-attached. *)
LEMMA StaysDownStep == ASSUME IInv, LostAgain \/ AttachRefused PROVE IInv'
<1>0. /\ TypesInv /\ NumbersInv /\ RunsInv /\ QueueInv /\ ChildrenInv
      /\ OwnedInv /\ RowsInv /\ UnmixedInv /\ ShapesInv /\ OnceInv
  BY DEF IInv
<1>1. /\ wire # "up" /\ wire' # "up" /\ wire' \in {"down", "deaf"}
      /\ state' = state /\ bb' = bb /\ prime' = prime /\ upset' = upset /\ counts' = counts
      /\ openTurn' = openTurn /\ compact' = compact /\ started' = started /\ abort' = abort
      /\ told' = told
  BY DEF LostAgain, AttachRefused
<1>2. MoreUpset /\ StaysUp /\ SameRuns
  BY <1>1 DEF MoreUpset, StaysUp, SameRuns
<1>3. /\ SameTurn /\ SameQueue /\ SameChildren
      /\ SameChildRows /\ NoMoreRows /\ StartedRows
      /\ bb'.reshaped = bb.reshaped /\ bb'.mixed = bb.mixed /\ bb'.turn = bb.turn
  BY <1>1, EmitsNothing
<1>21. TypesInv'
  BY <1>0, <1>1 DEF TypesInv, Holds
<1>22. NumbersInv'
  BY <1>0, <1>1 DEF NumbersInv
<1>23. RunsInv'
  BY <1>0, <1>1 DEF RunsInv
<1>24. QueueInv'
  BY <1>0, <1>1 DEF QueueInv
<1>25. ChildrenInv'
  BY <1>0, <1>1, <1>2, <1>3, ChildrenKept
<1>26. OwnedInv'
  BY <1>0, <1>1, <1>2, <1>3, OwnedKept
<1>27. RowsInv'
  BY <1>0, <1>1, <1>2, <1>3, RowsKept
<1>28. UnmixedInv'
  BY <1>0, <1>1, <1>2, <1>3, UnmixedKept
<1>29. ShapesInv'
  BY <1>0, <1>1, <1>2, <1>3, ShapesKept
<1>30. OnceInv'
  BY <1>0, <1>1, <1>2, <1>3, OnceKept
<1> QED BY <1>21, <1>22, <1>23, <1>24, <1>25, <1>26, <1>27, <1>28, <1>29, <1>30 DEF IInv

(* While the wire is down, nothing bb shows waits for anything. *)
LEMMA WhileDown ==
  ASSUME IInv, wire # "up", state' = state, bb' = bb, abort' = abort, MoreUpset
  PROVE  OwnedInv' /\ RowsInv' /\ UnmixedInv'
<1>0. OwnedInv /\ RowsInv /\ UnmixedInv /\ abort = NoAbort
  BY DEF IInv, RunsInv
<1>1. OwnedInv'
  <2>1. ASSUME Spared({"cut"})' PROVE bb'.turn = Idle
    BY <1>0, <2>1, SparedBefore DEF OwnedInv, DownIsIdle
  <2>2. Spared({"unowned", "cut"})' => Spared({"cut"})'
    BY DEF Spared
  <2> QED BY <2>1, <2>2 DEF OwnedInv, DownIsIdle
<1>2. RowsInv'
  <2>1. ASSUME Spared({"cut"})', NEW key \in Channels \cup Tools PROVE ~HasRow(key)'
    BY <1>0, <2>1, SparedBefore DEF RowsInv, HasRow
  <2> QED BY <2>1 DEF RowsInv
<1>3. UnmixedInv'
  <2> SUFFICES ASSUME Spared({"crossing", "cut", "refused"})'
               PROVE  ~bb'.mixed /\ bb'.turn = Idle
    BY <1>0 DEF UnmixedInv, DownIsIdle
  <2>1. Spared({"crossing", "cut", "refused"})
    BY SparedBefore
  <2> QED BY <1>0, <2>1 DEF UnmixedInv, DownIsIdle
<1> QED BY <1>1, <1>2, <1>3

LEMMA RunBegins ==
  ASSUME prime \in Primes, RunStarts
  PROVE  /\ prime' \in Primes /\ prime.run = Idle
         /\ prime'.run = prime.last + 1 /\ prime'.last = prime.last + 1
         /\ prime'.kind = "prompt" /\ prime'.asked = prime.asked
         /\ prime'.compacting = prime.compacting /\ prime'.tools = prime.tools
         /\ prime'.children = prime.children /\ prime'.queue = prime.queue
         /\ prime.last \in Nat /\ prime.last + 1 \in 0..MaxRuns
<1>1. PICK owed \in {0, 1} :
        /\ owed <= prime.owed
        /\ prime' = [prime EXCEPT !.run = prime.last + 1, !.last = prime.last + 1,
                                  !.kind = "prompt", !.owed = @ - owed]
  BY DEF RunStarts
<1>2. prime.run = Idle /\ prime.last < MaxRuns
  BY DEF RunStarts
<1>3. prime.last \in Nat /\ prime.last + 1 \in 0..MaxRuns /\ prime.owed - owed \in Nat
  BY <1>1, <1>2, BoundsAssumption DEF Primes
<1> QED BY <1>1, <1>2, <1>3 DEF Primes

(* The runs a new one leaves in order. *)
LEMMA RunBeginsInOrder ==
  ASSUME IInv, RunStarts, ~prime.compacting, compact' = compact, started' = started,
         abort' = abort, wire' = wire, bb'.closed = bb.closed,
         bb'.turn \in {bb.turn, prime.last + 1}
  PROVE  NumbersInv' /\ RunsInv' /\ prime.last + 1 \notin bb.closed
<1>0. TypesInv /\ NumbersInv /\ RunsInv
  BY DEF IInv
<1>1. prime \in Primes /\ compact \in Nat /\ bb.turn \in Nat /\ Idle = 0
      /\ bb.closed \subseteq Nat /\ prime.asked \in Nat
  BY <1>0, Initially, BoundsAssumption DEF Primes, Timelines, Idle
<1>2. /\ prime.run = Idle
      /\ prime'.run = prime.last + 1 /\ prime'.last = prime.last + 1
      /\ prime'.kind = "prompt" /\ prime'.asked = prime.asked
      /\ prime'.compacting = prime.compacting /\ prime'.tools = prime.tools
      /\ prime.last \in Nat
  BY <1>1, RunBegins
<1>3. abort.turn \in Nat \/ abort.turn = -1
  <2>1. CASE abort = NoAbort
    BY <2>1 DEF NoAbort
  <2>2. CASE abort # NoAbort
    <3>1. PICK S \in SUBSET Channels : Holds(abort, S)
      BY <1>0, <2>2 DEF TypesInv
    <3>2. abort.turn \in 0..MaxRuns
      BY <3>1 DEF Holds
    <3> QED BY <3>2, BoundsAssumption
  <2> QED BY <2>1, <2>2
<1>4. NumbersInv'
  <2>1. \A run \in bb'.closed : run <= prime'.last
    BY <1>0, <1>1, <1>2 DEF NumbersInv
  <2> QED BY <1>0, <1>1, <1>2, <1>3, <2>1 DEF NumbersInv
<1>5. /\ compact # prime.last + 1 /\ prime.asked # prime.last + 1 /\ prime.last + 1 # Idle
      /\ prime.last + 1 \notin bb.closed
  BY <1>0, <1>1, <1>2 DEF NumbersInv
<1>6. RunsInv'
  <2>1. prime'.asked # Idle => prime'.asked \notin {prime'.run, bb'.turn}
    BY <1>0, <1>2, <1>5 DEF RunsInv
  <2> QED BY <1>0, <1>2, <1>5, <2>1 DEF RunsInv
<1> QED BY <1>4, <1>5, <1>6

LEMMA BeginsUnseenStep == ASSUME IInv, BeginsUnseen PROVE IInv'
<1>0. /\ TypesInv /\ NumbersInv /\ RunsInv /\ QueueInv /\ ChildrenInv
      /\ OwnedInv /\ RowsInv /\ UnmixedInv /\ ShapesInv /\ OnceInv
  BY DEF IInv
<1>1. state \in ThreadState /\ bb \in Timelines /\ prime \in Primes
      /\ upset \subseteq Upsets /\ counts \in Tallies
  BY <1>0, Initially
<1>2. /\ wire # "up" /\ ~prime.compacting /\ state' = state /\ bb' = bb
      /\ SameLane /\ counts' = counts
  BY DEF BeginsUnseen, SameLane
<1>3. \/ RunStarts /\ upset' = upset
      \/ /\ prime.asked # Idle /\ prime.run = Idle
         /\ prime' = [prime EXCEPT !.run = prime.asked, !.kind = "compact", !.asked = Idle]
         /\ upset' = upset \cup {"blind"}
      \/ /\ prime.kind # "compact"
         /\ prime' = [prime EXCEPT !.compacting = TRUE]
         /\ upset' = upset \cup {"blind"}
  BY DEF BeginsUnseen, Suffers
<1>4. MoreUpset /\ upset' \subseteq Upsets
  BY <1>1, <1>3 DEF MoreUpset, Upsets
<1>5. /\ openTurn' = openTurn /\ compact' = compact /\ started' = started /\ abort' = abort
      /\ wire' = wire /\ told' = told
  BY <1>2 DEF SameLane
<1>6. /\ SameTurn /\ SameQueue /\ SameChildren
      /\ SameChildRows /\ NoMoreRows /\ StartedRows
      /\ bb'.reshaped = bb.reshaped /\ bb'.mixed = bb.mixed /\ bb'.turn = bb.turn
  BY <1>2, EmitsNothing
<1>7. abort = NoAbort /\ compact = Idle
  BY <1>0, <1>2 DEF RunsInv
<1>8. prime' \in Primes /\ prime'.children = prime.children /\ prime'.queue = prime.queue
  <2>1. CASE RunStarts
    BY <1>1, <2>1, RunBegins
  <2>2. prime.asked \in 0..MaxRuns /\ Idle \in 0..MaxRuns
    BY <1>1, BoundsAssumption DEF Primes, Idle
  <2>3. CASE prime' = [prime EXCEPT !.run = prime.asked, !.kind = "compact", !.asked = Idle]
    BY <1>1, <2>2, <2>3 DEF Primes
  <2>4. CASE prime' = [prime EXCEPT !.compacting = TRUE]
    BY <1>1, <2>4 DEF Primes
  <2> QED BY <1>3, <2>1, <2>3, <2>4
<1>21. TypesInv'
  BY <1>0, <1>1, <1>2, <1>4, <1>8, TypesKept
<1>22. NumbersInv' /\ RunsInv'
  <2>1. CASE RunStarts
    BY <1>2, <1>5, <2>1, RunBeginsInOrder
  <2>2. CASE /\ prime.asked # Idle /\ prime.run = Idle
             /\ prime' = [prime EXCEPT !.run = prime.asked, !.kind = "compact", !.asked = Idle]
    <3>1. /\ prime'.run = prime.asked /\ prime'.last = prime.last /\ prime'.kind = "compact"
          /\ prime'.asked = Idle /\ prime'.tools = prime.tools /\ prime'.compacting = prime.compacting
      BY <1>1, <2>2 DEF Primes
    <3>2. prime.last \in Nat /\ Idle = 0
      BY <1>1, BoundsAssumption DEF Primes, Idle
    <3>3. prime'.run <= prime'.last /\ prime'.asked <= prime'.last
      BY <1>0, <3>1, <3>2 DEF NumbersInv
    <3>4. prime.tools = {}
      BY <1>0, <2>2 DEF RunsInv
    <3>5. NumbersInv'
      BY <1>0, <1>2, <1>5, <3>1, <3>3 DEF NumbersInv
    <3>6. RunsInv'
      BY <1>2, <1>5, <1>7, <2>2, <3>1, <3>4 DEF RunsInv
    <3> QED BY <3>5, <3>6
  <2>3. CASE prime.kind # "compact" /\ prime' = [prime EXCEPT !.compacting = TRUE]
    <3>1. /\ prime'.run = prime.run /\ prime'.last = prime.last /\ prime'.kind = prime.kind
          /\ prime'.asked = prime.asked /\ prime'.tools = prime.tools
      BY <1>1, <2>3 DEF Primes
    <3>2. NumbersInv'
      BY <1>0, <1>2, <1>5, <3>1 DEF NumbersInv
    <3>3. RunsInv'
      BY <1>0, <1>2, <1>5, <2>3, <3>1 DEF RunsInv
    <3> QED BY <3>2, <3>3
  <2> QED BY <1>3, <2>1, <2>2, <2>3
<1>24. QueueInv'
  BY <1>0, <1>4, <1>5, <1>6, <1>8, QueueKept
<1>25. ChildrenInv'
  BY <1>0, <1>4, <1>6, <1>8, ChildrenKept
<1>26. OwnedInv' /\ RowsInv' /\ UnmixedInv'
  BY <1>2, <1>4, <1>5, WhileDown
<1>29. ShapesInv'
  BY <1>0, <1>2, <1>4, <1>6, ShapesKept
<1>30. OnceInv'
  <2>1. CASE RunStarts
    <3> SUFFICES ASSUME Spared({"reprompt", "crossing", "unheld", "refused", "blind"})'
                 PROVE  ~bb'.twice /\ prime'.run \notin bb'.closed /\ prime'.kind = "prompt"
      BY <1>5, <1>7 DEF OnceInv
    <3>1. ~bb.twice
      BY <1>0, <1>4, SparedBefore DEF OnceInv
    <3>2. prime'.run = prime.last + 1 /\ prime'.kind = "prompt"
      BY <1>1, <2>1, RunBegins
    <3>3. prime.last + 1 \notin bb.closed
      BY <1>2, <1>5, <2>1, RunBeginsInOrder
    <3> QED BY <1>2, <3>1, <3>2, <3>3
  <2>2. CASE "blind" \in upset'
    BY <2>2 DEF OnceInv, Spared
  <2> QED BY <1>3, <2>1, <2>2
<1> QED BY <1>21, <1>22, <1>24, <1>25, <1>26, <1>29, <1>30 DEF IInv

-----------------------------------------------------------------------------
LEMMA StartRunStep == ASSUME IInv, StartRun PROVE IInv'
<1>0. /\ TypesInv /\ NumbersInv /\ RunsInv /\ QueueInv /\ ChildrenInv
      /\ OwnedInv /\ RowsInv /\ UnmixedInv /\ ShapesInv /\ OnceInv
  BY DEF IInv
<1>1. state \in ThreadState /\ bb \in Timelines /\ prime \in Primes
      /\ upset \subseteq Upsets /\ counts \in Tallies
  BY <1>0, Initially
<1>2. /\ wire = "up" /\ ~prime.compacting /\ RunStarts /\ SameLane /\ counts' = counts
      /\ Emit(Answer(state, <<TurnOpen>>), prime.last + 1)
      /\ upset' = upset \cup (Upset("unowned", openTurn = "settled")
                                \cup Upset("crossing", abort # NoAbort))
  BY DEF StartRun, Streams, Suffers, SameLane
<1>3. /\ prime' \in Primes /\ prime.run = Idle
      /\ prime'.run = prime.last + 1 /\ prime'.last = prime.last + 1
      /\ prime'.kind = "prompt" /\ prime'.asked = prime.asked
      /\ prime'.compacting = prime.compacting /\ prime'.tools = prime.tools
      /\ prime'.children = prime.children /\ prime'.queue = prime.queue
      /\ prime.last \in Nat /\ prime.last + 1 \in 0..MaxRuns
  BY <1>1, <1>2, RunBegins
<1>4. state' = state /\ bb' = [bb EXCEPT !.turn = prime.last + 1]
  <2>1. state' = state /\ bb' = Assembled(bb, <<TurnOpen>>, prime.last + 1)
    BY <1>2 DEF Emit, Answer
  <2>2. bb' = Apply(prime.last + 1, bb, TurnOpen)
    BY <2>1, AssemblesOne
  <2> QED BY <2>1, <2>2, AppliesTurnOpen
<1>5. /\ bb' \in Timelines /\ bb'.turn = prime.last + 1 /\ bb'.rows = bb.rows
      /\ bb'.queue = bb.queue /\ bb'.closed = bb.closed /\ bb'.mixed = bb.mixed
      /\ bb'.twice = bb.twice /\ bb'.reshaped = bb.reshaped
  BY <1>1, <1>3, <1>4 DEF Timelines
<1>6. /\ MoreUpset /\ upset' \subseteq Upsets
      /\ openTurn = "settled" => "unowned" \in upset'
      /\ abort # NoAbort => "crossing" \in upset'
  BY <1>1, <1>2 DEF MoreUpset, Upset, Upsets
<1>7. /\ openTurn' = openTurn /\ compact' = compact /\ started' = started /\ abort' = abort
      /\ wire' = wire /\ told' = told /\ StaysUp
  BY <1>2 DEF SameLane, StaysUp
<1>8. SameQueue /\ SameChildren /\ SameChildRows /\ NoMoreRows /\ StartedRows
  BY <1>4, <1>5 DEF SameQueue, SameChildren, SameChildRows, NoMoreRows, StartedRows, HasRow
<1>21. TypesInv'
  BY <1>0, <1>1, <1>2, <1>3, <1>4, <1>5, <1>6, TypesKept
<1>22. NumbersInv' /\ RunsInv' /\ prime.last + 1 \notin bb.closed
  BY <1>2, <1>5, <1>7, RunBeginsInOrder
<1>24. QueueInv'
  BY <1>0, <1>3, <1>6, <1>7, <1>8, QueueKept
<1>25. ChildrenInv'
  BY <1>0, <1>3, <1>6, <1>8, ChildrenKept
<1>26. OwnedInv'
  <2>1. Spared({"unowned", "cut"})' => openTurn' # "settled"
    BY <1>6, <1>7 DEF Spared
  <2> QED BY <1>2, <1>3, <1>7, <2>1 DEF OwnedInv, DownIsIdle
<1>27. RowsInv'
  BY <1>0, <1>3, <1>4, <1>6, <1>7, <1>8, RowsKept
<1>28. UnmixedInv'
  <2> SUFFICES ASSUME Spared({"crossing", "cut", "refused"})'
               PROVE  ~bb'.mixed /\ abort = NoAbort
    BY <1>2, <1>3, <1>5, <1>7 DEF UnmixedInv, DownIsIdle
  <2>1. ~bb.mixed
    BY <1>0, <1>6, SparedBefore DEF UnmixedInv
  <2>2. abort = NoAbort
    BY <1>6 DEF Spared
  <2> QED BY <1>5, <2>1, <2>2
<1>29. ShapesInv'
  BY <1>0, <1>4, <1>5, <1>6, <1>8, ShapesKept
<1>30. OnceInv'
  <2> SUFFICES ASSUME Spared({"reprompt", "crossing", "unheld", "refused", "blind"})'
               PROVE  /\ ~bb'.twice /\ prime'.run \notin bb'.closed /\ abort = NoAbort
                      /\ compact' = prime'.asked /\ compact' # Idle => compact' \notin bb'.closed
    BY <1>3, <1>7 DEF OnceInv
  <2>1. Spared({"reprompt", "crossing", "unheld", "refused", "blind"})
    BY <1>6, SparedBefore
  <2>2. abort = NoAbort
    BY <1>6 DEF Spared
  <2>3. ~bb.twice /\ (compact = prime.asked /\ compact # Idle => compact \notin bb.closed)
    BY <1>0, <2>1 DEF OnceInv
  <2> QED BY <1>3, <1>5, <1>7, <1>22, <2>2, <2>3
<1> QED BY <1>21, <1>22, <1>24, <1>25, <1>26, <1>27, <1>28, <1>29, <1>30 DEF IInv

-----------------------------------------------------------------------------
(* What bb asks. *)
LEMMA TurnStep == ASSUME IInv, Turn PROVE IInv'
<1>0. /\ TypesInv /\ NumbersInv /\ RunsInv /\ QueueInv /\ ChildrenInv
      /\ OwnedInv /\ RowsInv /\ UnmixedInv /\ ShapesInv /\ OnceInv
  BY DEF IInv
<1>1. state \in ThreadState /\ bb \in Timelines /\ prime \in Primes
      /\ upset \subseteq Upsets /\ counts \in Tallies
  BY <1>0, Initially
<1>2. /\ state' = state /\ bb' = bb /\ openTurn' = "open" /\ compact' = compact
      /\ started' = started /\ abort' = abort /\ wire' = wire /\ told' = told /\ wire = "up"
      /\ counts' = [counts EXCEPT !.turns = @ + 1]
      /\ prime' = [prime EXCEPT !.owed = @ + 1]
      /\ upset' = upset \cup Upset("reprompt", openTurn = "settled" /\ prime.run # Idle)
  BY DEF Turn, Suffers, Streams
<1>3. /\ MoreUpset /\ upset' \subseteq Upsets /\ StaysUp /\ counts' \in Tallies
      /\ openTurn = "settled" /\ prime.run # Idle => "reprompt" \in upset'
  BY <1>1, <1>2 DEF MoreUpset, Upset, Upsets, StaysUp, Tallies
<1>5. /\ prime' \in Primes /\ SameRuns /\ prime'.tools = prime.tools
      /\ prime'.children = prime.children /\ prime'.queue = prime.queue
  BY <1>1, <1>2 DEF Primes, SameRuns
<1>6. /\ SameTurn /\ SameQueue /\ SameChildren
      /\ SameChildRows /\ NoMoreRows /\ StartedRows
      /\ bb'.reshaped = bb.reshaped /\ bb'.mixed = bb.mixed /\ bb'.turn = bb.turn
  BY <1>2, EmitsNothing
<1>12. prime'.run = prime.run /\ prime'.kind = prime.kind /\ prime'.asked = prime.asked
  BY <1>5 DEF SameRuns
<1>21. TypesInv'
  BY <1>0, <1>1, <1>2, <1>3, <1>5 DEF TypesInv, Holds
<1>22. NumbersInv'
  BY <1>0, <1>2, <1>5, <1>6, NumbersKept
<1>23. RunsInv'
  BY <1>0, <1>2, <1>5 DEF RunsInv, SameRuns
<1>24. QueueInv'
  BY <1>0, <1>2, <1>3, <1>5, <1>6, QueueKept
<1>25. ChildrenInv'
  BY <1>0, <1>3, <1>5, <1>6, ChildrenKept
<1>26. OwnedInv'
  <2>1. ASSUME Spared({"cut"})'
        PROVE  prime'.kind = "compact" => state'.compaction = "manual" \/ bb'.turn = Idle
    BY <1>0, <1>2, <1>3, <1>12, <2>1, SparedBefore DEF OwnedInv
  <2>2. ASSUME Spared({"unowned", "cut"})'
        PROVE  \/ bb'.turn = Idle \/ abort' # NoAbort \/ prime'.kind = "compact"
               \/ prime'.kind = "prompt" /\ openTurn' # "settled"
    BY <1>0, <1>2, <1>3, <1>12, <2>2, SparedBefore DEF OwnedInv
  <2>3. DownIsIdle'
    BY <1>2 DEF DownIsIdle
  <2> QED BY <2>1, <2>2, <2>3 DEF OwnedInv
<1>27. RowsInv'
  BY <1>0, <1>2, <1>3, <1>5, <1>6, <1>12, RowsKept
<1>28. UnmixedInv'
  BY <1>0, <1>2, <1>3, <1>5, <1>6, UnmixedKept
<1>29. ShapesInv'
  BY <1>0, <1>2, <1>3, <1>6, ShapesKept
<1>30. OnceInv'
  <2> SUFFICES ASSUME Spared({"reprompt", "crossing", "unheld", "refused", "blind"})'
               PROVE  /\ ~bb'.twice
                      /\ ~(prime'.kind = "prompt" /\ prime'.run \in bb'.closed)
                      /\ abort' # NoAbort => prime'.run = Idle
                      /\ prime'.kind = "compact" => bb'.turn = prime'.run /\ abort' = NoAbort
                      /\ compact' = prime'.asked /\ compact' # Idle => compact' \notin bb'.closed
    BY DEF OnceInv
  <2>1. /\ ~bb.twice
        /\ prime.kind = "prompt" /\ prime.run \in bb.closed => openTurn = "settled"
        /\ abort # NoAbort => openTurn = "settled" \/ prime.run = Idle
        /\ prime.kind = "compact" => bb.turn = prime.run /\ abort = NoAbort
        /\ compact = prime.asked /\ compact # Idle => compact \notin bb.closed
    BY <1>0, <1>3, SparedBefore DEF OnceInv
  <2>2. openTurn = "settled" => prime.run = Idle
    BY <1>3 DEF Spared
  <2>3. prime.kind = "prompt" => prime.run # Idle
    BY <1>0 DEF RunsInv
  <2> QED BY <1>2, <1>12, <2>1, <2>2, <2>3
<1> QED BY <1>21, <1>22, <1>23, <1>24, <1>25, <1>26, <1>27, <1>28, <1>29, <1>30 DEF IInv

LEMMA CompactStep == ASSUME IInv, Compact PROVE IInv'
<1>0. /\ TypesInv /\ NumbersInv /\ RunsInv /\ QueueInv /\ ChildrenInv
      /\ OwnedInv /\ RowsInv /\ UnmixedInv /\ ShapesInv /\ OnceInv
  BY DEF IInv
<1>1. state \in ThreadState /\ bb \in Timelines /\ prime \in Primes
      /\ upset \subseteq Upsets /\ counts \in Tallies
  BY <1>0, Initially
<1>2. /\ state' = state /\ bb' = bb /\ openTurn' = openTurn /\ compact' = prime.last + 1
      /\ started' = FALSE /\ abort' = abort /\ wire' = wire /\ told' = told /\ wire = "up" /\ compact = Idle
      /\ counts' = counts /\ upset' = upset /\ prime.last < MaxRuns
      /\ prime' = [prime EXCEPT !.last = @ + 1, !.asked = prime.last + 1]
  BY DEF Compact, Streams
<1>3. MoreUpset /\ upset' \subseteq Upsets /\ StaysUp
  BY <1>1, <1>2 DEF MoreUpset, StaysUp
<1>4. prime.last \in Nat /\ prime.last + 1 \in 0..MaxRuns /\ Idle = 0
  BY <1>1, <1>2, BoundsAssumption DEF Primes, Idle
<1>5. /\ prime' \in Primes /\ prime'.tools = prime.tools
      /\ prime'.children = prime.children /\ prime'.queue = prime.queue
      /\ prime'.run = prime.run /\ prime'.kind = prime.kind /\ prime'.compacting = prime.compacting
      /\ prime'.last = prime.last + 1 /\ prime'.asked = prime.last + 1
  BY <1>1, <1>2, <1>4 DEF Primes
<1>6. /\ SameTurn /\ SameQueue /\ SameChildren
      /\ SameChildRows /\ NoMoreRows /\ StartedRows
      /\ bb'.reshaped = bb.reshaped /\ bb'.mixed = bb.mixed /\ bb'.turn = bb.turn
  BY <1>2, EmitsNothing
<1>7. /\ prime.run \in Nat /\ bb.turn \in Nat /\ bb.closed \subseteq Nat
      /\ abort.turn \in Nat \/ abort.turn = -1
  <2>1. prime.run \in Nat /\ bb.turn \in Nat /\ bb.closed \subseteq Nat
    BY <1>1, BoundsAssumption DEF Primes, Timelines
  <2>2. CASE abort = NoAbort
    BY <2>1, <2>2 DEF NoAbort
  <2>3. CASE abort # NoAbort
    <3>1. PICK S \in SUBSET Channels : Holds(abort, S)
      BY <1>0, <2>3 DEF TypesInv
    <3>2. abort.turn \in 0..MaxRuns
      BY <3>1 DEF Holds
    <3> QED BY <2>1, <3>2, BoundsAssumption
  <2> QED BY <2>2, <2>3
<1>8. /\ prime.last + 1 # prime.run /\ prime.last + 1 # bb.turn /\ prime.last + 1 \notin bb.closed
  BY <1>0, <1>4, <1>7 DEF NumbersInv
<1>21. TypesInv'
  BY <1>0, <1>1, <1>2, <1>3, <1>4, <1>5 DEF TypesInv, Holds
<1>22. NumbersInv'
  <2>1. \A run \in bb'.closed : run <= prime'.last
    BY <1>0, <1>2, <1>4, <1>5, <1>7 DEF NumbersInv
  <2> QED BY <1>0, <1>2, <1>4, <1>5, <1>7, <2>1 DEF NumbersInv
<1>23. RunsInv'
  BY <1>0, <1>2, <1>5, <1>8 DEF RunsInv
<1>24. QueueInv'
  BY <1>0, <1>2, <1>3, <1>5, <1>6, QueueKept
<1>25. ChildrenInv'
  BY <1>0, <1>3, <1>5, <1>6, ChildrenKept
<1>26. OwnedInv'
  BY <1>0, <1>2, <1>3, <1>5, <1>6, OwnedKept
<1>27. RowsInv'
  BY <1>0, <1>2, <1>3, <1>5, <1>6, RowsKept
<1>28. UnmixedInv'
  <2> SUFFICES ASSUME Spared({"crossing", "cut", "refused"})'
               PROVE  /\ ~bb'.mixed /\ DownIsIdle'
                      /\ bb'.turn = Idle \/ prime'.run = Idle \/ bb'.turn = prime'.run
                      /\ abort' # NoAbort => bb'.turn \in {Idle, abort'.turn}
                      /\ prime'.compacting => state'.compaction = "auto" \/ bb'.turn = Idle
    BY DEF UnmixedInv
  <2>1. Spared({"crossing", "cut", "refused"})
    BY <1>3, SparedBefore
  <2> QED BY <1>0, <1>2, <1>5, <2>1 DEF UnmixedInv, DownIsIdle
<1>29. ShapesInv'
  BY <1>0, <1>2, <1>3, <1>6, ShapesKept
<1>30. OnceInv'
  <2> SUFFICES ASSUME Spared({"reprompt", "crossing", "unheld", "refused", "blind"})'
               PROVE  /\ ~bb'.twice
                      /\ prime'.kind = "prompt" /\ prime'.run \in bb'.closed => openTurn' = "settled"
                      /\ abort' # NoAbort => openTurn' = "settled" \/ prime'.run = Idle
                      /\ prime'.kind = "compact" => bb'.turn = prime'.run /\ abort' = NoAbort
                      /\ compact' \notin bb'.closed
    BY DEF OnceInv
  <2>1. /\ ~bb.twice
        /\ prime.kind = "prompt" /\ prime.run \in bb.closed => openTurn = "settled"
        /\ abort # NoAbort => openTurn = "settled" \/ prime.run = Idle
        /\ prime.kind = "compact" => bb.turn = prime.run /\ abort = NoAbort
    BY <1>0, <1>3, SparedBefore DEF OnceInv
  <2> QED BY <1>2, <1>5, <1>8, <2>1
<1> QED BY <1>21, <1>22, <1>23, <1>24, <1>25, <1>26, <1>27, <1>28, <1>29, <1>30 DEF IInv

-----------------------------------------------------------------------------
(* What closes a turn. *)
LEMMA BoundCloses ==
  ASSUME NEW x, NEW b, NEW run, NEW claim \in BOOLEAN, Bound(x, b, run, claim)
  PROVE  /\ x.turn = Idle
         /\ \A n \in x.closed : n \in b.closed \/ (n = b.turn /\ n # Idle) \/ (n = run /\ n # Idle)
         /\ ~claim => \A n \in x.closed : n \in b.closed \/ (n = b.turn /\ n # Idle)
         /\ b.turn \in {Idle, run} => (x.mixed <=> b.mixed)
         /\ (b.turn = Idle /\ claim => run \notin b.closed) => (x.twice <=> b.twice)
<1>1. CASE b.turn # Idle
  BY <1>1 DEF Bound
<1>2. CASE b.turn = Idle /\ claim
  BY <1>2 DEF Bound
<1>3. CASE b.turn = Idle /\ ~claim
  BY <1>3 DEF Bound
<1> QED BY <1>1, <1>2, <1>3

LEMMA BoundNumbers ==
  ASSUME NumbersInv, bb'.turn \in {Idle, bb.turn}, prime'.last = prime.last, prime.last \in Nat,
         prime'.run \in {Idle, prime.run, prime.asked}, prime'.asked \in {Idle, prime.asked},
         compact' \in {Idle, compact}, abort'.turn \in {-1, bb.turn, abort.turn},
         \A n \in bb'.closed : n \in bb.closed \/ n = bb.turn \/ n \in {prime.run, compact}
  PROVE  NumbersInv'
<1>1. Idle <= prime.last /\ -1 <= prime.last
  BY DEF Idle
<1>2. \A n \in bb'.closed : n <= prime'.last
  BY DEF NumbersInv
<1> QED BY <1>1, <1>2 DEF NumbersInv

LEMMA AbortEmits ==
  ASSUME TypesInv, abort # NoAbort, NEW b \in Timelines, NEW x, x = EmitsInterrupt(b)
  PROVE  /\ x \in Timelines /\ x.queue = b.queue /\ x.reshaped = b.reshaped
         /\ Bound(x, b, abort.turn, FALSE) /\ Drops(x, b)
         /\ \A row \in x.rows : ~Held(row.key)
<1>1. ASSUME NEW S \in SUBSET Channels, Holds(abort, S)
      PROVE  /\ x \in Timelines /\ x.queue = b.queue /\ x.reshaped = b.reshaped
             /\ Bound(x, b, abort.turn, FALSE) /\ Drops(x, b)
             /\ \A row \in x.rows : row.key \notin S
  <2>1. abort.deltas = Append(Closes(S), Boundary(FALSE)) /\ abort.turn \in 0..MaxRuns
    BY <1>1 DEF Holds
  <2>2. x = Assembled(b, Append(Closes(S), Boundary(FALSE)), abort.turn)
    BY <2>1 DEF EmitsInterrupt
  <2> DEFINE claim == FALSE
  <2>3. claim \in BOOLEAN /\ x = Assembled(b, Append(Closes(S), Boundary(claim)), abort.turn)
    BY <2>2
  <2> HIDE DEF claim
  <2>4. x = Settled(b, S, abort.turn, claim)
    BY <2>3, AssemblesSettling
  <2>5. Settlement(x, b, S, abort.turn, claim)
    BY <2>1, <2>3, <2>4, Settles
  <2> QED BY <2>5 DEF Settlement, claim
<1>2. \E S \in SUBSET Channels : Holds(abort, S)
  BY DEF TypesInv
<1>3. \A row \in x.rows : ~Held(row.key)
  BY <1>1 DEF Held
<1> QED BY <1>1, <1>2, <1>3

LEMMA AbortAnsweredStep == ASSUME IInv, AbortAnswered PROVE IInv'
<1>0. /\ TypesInv /\ NumbersInv /\ RunsInv /\ QueueInv /\ ChildrenInv
      /\ OwnedInv /\ RowsInv /\ UnmixedInv /\ ShapesInv /\ OnceInv
  BY DEF IInv
<1>1. state \in ThreadState /\ bb \in Timelines /\ prime \in Primes
      /\ upset \subseteq Upsets /\ counts \in Tallies
  BY <1>0, Initially
<1>2. /\ abort # NoAbort /\ abort' = NoAbort /\ bb' = EmitsInterrupt(bb) /\ wire = "up"
      /\ state' = state /\ openTurn' = openTurn /\ compact' = compact /\ started' = started
      /\ wire' = wire /\ told' = told /\ prime' = prime /\ upset' = upset /\ counts' = counts
  BY DEF AbortAnswered, Streams
<1>3. MoreUpset /\ StaysUp
  BY <1>2 DEF MoreUpset, StaysUp
<1>4. /\ bb' \in Timelines /\ bb'.queue = bb.queue /\ bb'.reshaped = bb.reshaped
      /\ Bound(bb', bb, abort.turn, FALSE) /\ Drops(bb', bb)
      /\ \A row \in bb'.rows : ~Held(row.key)
  BY <1>0, <1>1, <1>2, AbortEmits
<1>5. /\ bb'.turn = Idle
      /\ \A n \in bb'.closed : n \in bb.closed \/ (n = bb.turn /\ n # Idle)
      /\ bb.turn \in {Idle, abort.turn} => (bb'.mixed <=> bb.mixed)
      /\ (bb'.twice <=> bb.twice)
  BY <1>4, BoundCloses
<1>6. /\ SameChildRows /\ NoMoreRows /\ StartedRows
      /\ \A row \in bb'.rows : row \in bb.rows
  BY <1>4, DropsRows
<1>7. SameQueue /\ SameChildren
  BY <1>2, <1>4 DEF SameQueue, SameChildren
<1>8. prime.last \in Nat /\ abort'.turn = -1
  BY <1>1, <1>2, BoundsAssumption DEF Primes, NoAbort
<1>21. TypesInv'
  BY <1>0, <1>2, <1>4 DEF TypesInv
<1>22. NumbersInv'
  BY <1>0, <1>2, <1>5, <1>8, BoundNumbers
<1>23. RunsInv'
  BY <1>0, <1>2, <1>5 DEF RunsInv
<1>24. QueueInv'
  BY <1>0, <1>2, <1>3, <1>7, QueueKept
<1>25. ChildrenInv'
  BY <1>0, <1>2, <1>3, <1>6, <1>7, ChildrenKept
<1>26. OwnedInv'
  BY <1>5 DEF OwnedInv, DownIsIdle
<1>27. RowsInv'
  <2> SUFFICES ASSUME Spared({"cut"})'
               PROVE  /\ \A c \in Channels : HasRow(c)' =>
                           c \in state'.openTextStreams /\ prime'.kind = "prompt"
                      /\ \A tool \in Tools : HasRow(tool)' => tool \in prime'.tools
    BY <1>2 DEF RowsInv
  <2>1. /\ \A c \in Channels : HasRow(c) =>
             Held(c) \/ (c \in state.openTextStreams /\ prime.kind = "prompt")
        /\ \A tool \in Tools : HasRow(tool) => tool \in prime.tools
    BY <1>0, <1>3, SparedBefore DEF RowsInv
  <2>2. \A c : HasRow(c)' => HasRow(c) /\ ~Held(c)
    BY <1>4, <1>6 DEF HasRow
  <2> QED BY <1>2, <2>1, <2>2
<1>28. UnmixedInv'
  <2> SUFFICES ASSUME Spared({"crossing", "cut", "refused"})' PROVE ~bb'.mixed
    BY <1>2, <1>5 DEF UnmixedInv, DownIsIdle
  <2>1. Spared({"crossing", "cut", "refused"})
    BY <1>3, SparedBefore
  <2> QED BY <1>0, <1>2, <1>5, <2>1 DEF UnmixedInv
<1>29. ShapesInv'
  BY <1>0, <1>2, <1>3, <1>4, <1>6, ShapesKept
<1>30. OnceInv'
  <2> SUFFICES ASSUME Spared({"reprompt", "crossing", "unheld", "refused", "blind"})'
               PROVE  /\ ~bb'.twice
                      /\ prime.kind = "prompt" => openTurn = "settled"
                      /\ prime.kind # "compact"
                      /\ compact = prime.asked /\ compact # Idle => compact \notin bb'.closed
    BY <1>2 DEF OnceInv
  <2>1. /\ ~bb.twice
        /\ abort # NoAbort => openTurn = "settled" \/ prime.run = Idle
        /\ prime.kind = "compact" => abort = NoAbort
        /\ compact = prime.asked /\ compact # Idle => compact \notin bb.closed
    BY <1>0, <1>3, SparedBefore DEF OnceInv
  <2>2. /\ prime.kind = "prompt" => prime.run # Idle
        /\ prime.asked # Idle => prime.asked # bb.turn
    BY <1>0 DEF RunsInv
  <2> QED BY <1>2, <1>5, <2>1, <2>2
<1> QED BY <1>21, <1>22, <1>23, <1>24, <1>25, <1>26, <1>27, <1>28, <1>29, <1>30 DEF IInv

LEMMA EndRunStep == ASSUME IInv, EndRun PROVE IInv'
<1>0. /\ TypesInv /\ NumbersInv /\ RunsInv /\ QueueInv /\ ChildrenInv
      /\ OwnedInv /\ RowsInv /\ UnmixedInv /\ ShapesInv /\ OnceInv
  BY DEF IInv
<1>1. state \in ThreadState /\ bb \in Timelines /\ prime \in Primes
      /\ upset \subseteq Upsets /\ counts \in Tallies
      /\ prime.run \in 0..MaxRuns /\ state.openTextStreams \in SUBSET Channels
  BY <1>0, Initially DEF ThreadState
<1>2. /\ wire = "up" /\ prime.kind = "prompt" /\ prime.tools = {} /\ ~prime.compacting
      /\ prime' = [prime EXCEPT !.run = Idle, !.kind = "none", !.texts = {}]
      /\ Emit(agentEnd(state, openTurn = "settled"), prime.run)
      /\ openTurn' = IF HasOpenTurn THEN "settled" ELSE openTurn
      /\ compact' = compact /\ started' = started /\ abort' = abort
      /\ wire' = wire /\ told' = told /\ upset' = upset /\ counts' = counts
  BY DEF EndRun, Streams
<1>3. MoreUpset /\ StaysUp
  BY <1>2 DEF MoreUpset, StaysUp
<1>4. /\ prime' \in Primes /\ prime'.run = Idle /\ prime'.kind = "none"
      /\ prime'.last = prime.last /\ prime'.asked = prime.asked /\ prime'.compacting = prime.compacting
      /\ prime'.tools = {} /\ prime'.children = prime.children /\ prime'.queue = prime.queue
  <2>1. Idle \in 0..MaxRuns
    BY BoundsAssumption DEF Idle
  <2> QED BY <1>1, <1>2, <2>1 DEF Primes
<1>5. /\ state' = [state EXCEPT !.openTextStreams = {}]
      /\ bb' \in Timelines /\ bb'.queue = bb.queue /\ bb'.reshaped = bb.reshaped
      /\ Drops(bb', bb) /\ \A row \in bb'.rows : row.key \notin state.openTextStreams
      /\ \/ openTurn = "settled" /\ SameTurn
         \/ openTurn # "settled" /\ Bound(bb', bb, prime.run, TRUE)
  <2> DEFINE settled == openTurn = "settled"
             S == state.openTextStreams
  <2>1. settled \in BOOLEAN /\ Emit(agentEnd(state, settled), prime.run)
    BY <1>2
  <2> HIDE DEF settled, S
  <2>2. /\ settled => /\ state' = [state EXCEPT !.openTextStreams = {}]
                      /\ bb' = Cleared(bb, state.openTextStreams)
        /\ ~settled => Settling(prime.run, TRUE)
    BY <1>1, <2>1, RunEnds
  <2>3. CASE settled
    <3>1. bb' = Cleared(bb, S) /\ S \in SUBSET Channels
      BY <1>1, <2>2, <2>3 DEF S
    <3>2. /\ bb' \in Timelines
          /\ bb'.turn = bb.turn /\ bb'.queue = bb.queue /\ bb'.closed = bb.closed
          /\ bb'.mixed = bb.mixed /\ bb'.twice = bb.twice /\ bb'.reshaped = bb.reshaped
          /\ bb'.rows = {row \in bb.rows : row.key \notin S}
      BY <1>1, <3>1 DEF Cleared, Timelines
    <3>3. Drops(bb', bb)
      BY <3>1, <3>2, KeysAssumption DEF Drops
    <3> QED BY <2>2, <2>3, <3>2, <3>3 DEF SameTurn, settled, S
  <2>4. CASE ~settled
    <3>1. bb' = Settled(bb, S, prime.run, TRUE) /\ S \in SUBSET Channels
          /\ state' = [state EXCEPT !.openTextStreams = {}]
      BY <1>1, <2>2, <2>4 DEF Settling, S
    <3> DEFINE claim == TRUE
    <3>2. claim \in BOOLEAN /\ bb' = Settled(bb, S, prime.run, claim)
      BY <3>1
    <3> HIDE DEF claim
    <3>3. Settlement(bb', bb, S, prime.run, claim)
      BY <1>1, <3>1, <3>2, Settles
    <3> QED BY <2>4, <3>1, <3>3 DEF settled, S, claim, Settlement
  <2> QED BY <2>3, <2>4
<1>6. /\ state' \in ThreadState
      /\ state'.openTextStreams = {} /\ state'.toolCalls = state.toolCalls
      /\ state'.openDelegations = state.openDelegations
      /\ state'.compaction = state.compaction /\ state'.queuePayload = state.queuePayload
  BY <1>1, <1>5, SettlesState
<1>7. /\ SameChildRows /\ NoMoreRows /\ StartedRows
      /\ \A row \in bb'.rows : row \in bb.rows
  BY <1>5, DropsRows
<1>8. SameQueue /\ SameChildren
  BY <1>5, <1>6 DEF SameQueue, SameChildren
<1>9. openTurn # "settled" =>
        /\ bb'.turn = Idle
        /\ \A n \in bb'.closed : n \in bb.closed \/ (n = bb.turn /\ n # Idle) \/ (n = prime.run /\ n # Idle)
        /\ bb.turn \in {Idle, prime.run} => (bb'.mixed <=> bb.mixed)
        /\ (bb.turn = Idle => prime.run \notin bb.closed) => (bb'.twice <=> bb.twice)
  <2> DEFINE claim == TRUE
  <2>1. openTurn # "settled" => Bound(bb', bb, prime.run, claim)
    BY <1>5
  <2>2. claim \in BOOLEAN /\ claim
    OBVIOUS
  <2> HIDE DEF claim
  <2> QED BY <2>1, <2>2, BoundCloses
<1>10. /\ bb'.turn \in {Idle, bb.turn}
       /\ \A n \in bb'.closed : n \in bb.closed \/ n = bb.turn \/ n = prime.run
  BY <1>5, <1>9 DEF SameTurn
<1>11. prime.last \in Nat /\ prime.run # Idle
  BY <1>0, <1>1, <1>2, BoundsAssumption DEF Primes, RunsInv
<1>12. openTurn' \in {"none", "open", "settled"}
  BY <1>0, <1>2 DEF TypesInv
<1>21. TypesInv'
  BY <1>0, <1>2, <1>4, <1>5, <1>6, <1>12 DEF TypesInv, Holds
<1>22. NumbersInv'
  BY <1>0, <1>2, <1>4, <1>10, <1>11, BoundNumbers
<1>23. RunsInv'
  BY <1>0, <1>2, <1>4, <1>10 DEF RunsInv
<1>24. QueueInv'
  BY <1>0, <1>2, <1>3, <1>4, <1>8, QueueKept
<1>25. ChildrenInv'
  BY <1>0, <1>2, <1>3, <1>4, <1>7, <1>8, ChildrenKept
<1>26. OwnedInv'
  <2>1. ASSUME Spared({"unowned", "cut"})' PROVE bb'.turn = Idle \/ abort' # NoAbort
    <3>1. CASE openTurn = "settled"
      <4>1. bb'.turn = bb.turn
        BY <1>5, <3>1 DEF SameTurn
      <4> QED BY <1>0, <1>2, <1>3, <2>1, <3>1, <4>1, SparedBefore DEF OwnedInv
    <3>2. CASE openTurn # "settled"
      BY <1>9, <3>2
    <3> QED BY <3>1, <3>2
  <2>2. DownIsIdle'
    BY <1>2 DEF DownIsIdle
  <2> QED BY <1>4, <2>1, <2>2 DEF OwnedInv
<1>27. RowsInv'
  <2> SUFFICES ASSUME Spared({"cut"})'
               PROVE  /\ \A c \in Channels : HasRow(c)' => Held(c)'
                      /\ \A tool \in Tools : ~HasRow(tool)'
    BY <1>2 DEF RowsInv
  <2>1. /\ \A c \in Channels : HasRow(c) =>
             Held(c) \/ (c \in state.openTextStreams /\ prime.kind = "prompt")
        /\ \A tool \in Tools : HasRow(tool) => tool \in prime.tools
    BY <1>0, <1>3, SparedBefore DEF RowsInv
  <2>2. \A c : HasRow(c)' => HasRow(c) /\ c \notin state.openTextStreams
    BY <1>5, <1>7 DEF HasRow
  <2>3. \A c : Held(c) => Held(c)'
    BY <1>2 DEF Held
  <2> QED BY <1>2, <2>1, <2>2, <2>3
<1>28. UnmixedInv'
  <2> SUFFICES ASSUME Spared({"crossing", "cut", "refused"})'
               PROVE  /\ ~bb'.mixed
                      /\ abort' # NoAbort => bb'.turn \in {Idle, abort'.turn}
    BY <1>2, <1>4 DEF UnmixedInv, DownIsIdle
  <2>1. /\ ~bb.mixed
        /\ bb.turn = Idle \/ prime.run = Idle \/ bb.turn = prime.run
        /\ abort # NoAbort => bb.turn \in {Idle, abort.turn}
    BY <1>0, <1>3, SparedBefore DEF UnmixedInv
  <2>2. ~bb'.mixed
    BY <1>5, <1>9, <1>11, <2>1 DEF SameTurn
  <2> QED BY <1>2, <1>10, <2>1, <2>2
<1>29. ShapesInv'
  BY <1>0, <1>3, <1>5, <1>6, <1>7, ShapesKept
<1>30. OnceInv'
  <2> SUFFICES ASSUME Spared({"reprompt", "crossing", "unheld", "refused", "blind"})'
               PROVE  /\ ~bb'.twice
                      /\ compact = prime.asked /\ compact # Idle => compact \notin bb'.closed
    BY <1>2, <1>4 DEF OnceInv
  <2>1. /\ ~bb.twice
        /\ prime.run \in bb.closed => openTurn = "settled"
        /\ compact = prime.asked /\ compact # Idle => compact \notin bb.closed
    BY <1>0, <1>2, <1>3, SparedBefore DEF OnceInv
  <2>2. prime.asked # Idle => prime.asked # bb.turn /\ prime.asked # prime.run
    BY <1>0 DEF RunsInv
  <2>3. ~bb'.twice
    BY <1>5, <1>9, <2>1 DEF SameTurn
  <2> QED BY <1>10, <2>1, <2>2, <2>3
<1> QED BY <1>21, <1>22, <1>23, <1>24, <1>25, <1>26, <1>27, <1>28, <1>29, <1>30 DEF IInv

-----------------------------------------------------------------------------
(* What prime compacts on its own: no turn is the compaction's.             *)
SeenInv == Spared({"blind"}) /\ prime.compacting => state.compaction = "auto"

LEMMA CompactionStarted ==
  ASSUME bb \in Timelines, bb'.rows = (bb.rows \ KeyIs("compaction")) \cup {CompactionRow}
  PROVE  SameChildRows /\ NoMoreRows /\ StartedRows
<1> DEFINE key == "compaction"
           new == {[key |-> key, shape |-> "started"]}
<1>1. /\ key \in Channels \cup Tools \cup Children \cup {"compaction"}
      /\ bb'.rows = (bb.rows \ KeyIs(key)) \cup new
      /\ new \in {{}, {[key |-> key, shape |-> "started"]}}
      /\ key \notin Channels \cup Tools \cup Children
  BY KeysAssumption DEF CompactionRow
<1> HIDE DEF key, new
<1>2. /\ \A other : other # key => (HasRow(other)' <=> HasRow(other))
      /\ \A row \in bb'.rows : row \in bb.rows \/ row.shape = "started"
  BY <1>1, OtherRows
<1> QED BY <1>1, <1>2 DEF SameChildRows, NoMoreRows, StartedRows

LEMMA OwnCompactionStarts ==
  ASSUME IInv, wire = "up", prime.kind # "compact", ~prime.compacting,
         prime' = [prime EXCEPT !.compacting = TRUE],
         Emit(compactionStart(state, FALSE), Idle), started' = TRUE,
         UNCHANGED <<openTurn, compact, abort, wire, told, upset, counts>>
  PROVE  IInv'
<1>0. /\ TypesInv /\ NumbersInv /\ RunsInv /\ QueueInv /\ ChildrenInv
      /\ OwnedInv /\ RowsInv /\ UnmixedInv /\ ShapesInv /\ OnceInv
  BY DEF IInv
<1>1. state \in ThreadState /\ bb \in Timelines /\ prime \in Primes
      /\ upset \subseteq Upsets /\ counts \in Tallies
  BY <1>0, Initially
<1>2. MoreUpset /\ StaysUp
  BY DEF MoreUpset, StaysUp
<1>3. /\ prime' \in Primes /\ prime'.compacting
      /\ prime'.run = prime.run /\ prime'.kind = prime.kind /\ prime'.last = prime.last
      /\ prime'.asked = prime.asked /\ prime'.tools = prime.tools
      /\ prime'.children = prime.children /\ prime'.queue = prime.queue
  BY <1>1 DEF Primes
<1>4. /\ state' \in ThreadState /\ bb' \in Timelines /\ SameQueue /\ SameChildren
      /\ state'.toolCalls = state.toolCalls
      /\ state'.openTextStreams = state.openTextStreams
      /\ state'.compaction = "auto"
      /\ bb'.turn = bb.turn /\ bb'.closed = bb.closed /\ bb'.mixed = bb.mixed
      /\ bb'.twice = bb.twice /\ bb'.reshaped = bb.reshaped
      /\ bb'.rows = (bb.rows \ KeyIs("compaction")) \cup {CompactionRow}
  <2> DEFINE manual == FALSE
             run == Idle
  <2>1. /\ manual \in BOOLEAN /\ ~manual
        /\ Emit(compactionStart(state, manual), run)
    OBVIOUS
  <2>2. run \in 0..MaxRuns
    BY BoundsAssumption DEF Idle
  <2> HIDE DEF manual, run
  <2> QED BY <1>1, <2>1, <2>2, CompactionStarts
<1>5. SameChildRows /\ NoMoreRows /\ StartedRows
  BY <1>1, <1>4, CompactionStarted
<1>8. prime.last \in Nat
  BY <1>1, BoundsAssumption DEF Primes
<1>21. TypesInv'
  BY <1>0, <1>3, <1>4 DEF TypesInv, Holds
<1>22. NumbersInv'
  BY <1>0, <1>3, <1>4, <1>8, BoundNumbers
<1>23. RunsInv'
  BY <1>0, <1>3, <1>4 DEF RunsInv
<1>24. QueueInv'
  BY <1>0, <1>2, <1>3, <1>4, QueueKept
<1>25. ChildrenInv'
  BY <1>0, <1>2, <1>3, <1>4, <1>5, ChildrenKept
<1>26. OwnedInv'
  <2>1. ASSUME Spared({"unowned", "cut"})'
        PROVE  \/ bb'.turn = Idle \/ abort' # NoAbort \/ prime'.kind = "compact"
               \/ prime'.kind = "prompt" /\ openTurn' # "settled"
    BY <1>0, <1>2, <1>3, <1>4, <2>1, SparedBefore DEF OwnedInv
  <2>2. DownIsIdle' /\ prime'.kind # "compact"
    BY <1>3 DEF DownIsIdle
  <2> QED BY <2>1, <2>2 DEF OwnedInv
<1>27. RowsInv'
  BY <1>0, <1>2, <1>3, <1>4, <1>5, RowsKept
<1>28. UnmixedInv'
  <2> SUFFICES ASSUME Spared({"crossing", "cut", "refused"})'
               PROVE  /\ ~bb'.mixed
                      /\ bb'.turn = Idle \/ prime'.run = Idle \/ bb'.turn = prime'.run
                      /\ abort' # NoAbort => bb'.turn \in {Idle, abort'.turn}
    BY <1>4 DEF UnmixedInv, DownIsIdle
  <2>1. Spared({"crossing", "cut", "refused"})
    BY <1>2, SparedBefore
  <2> QED BY <1>0, <1>3, <1>4, <2>1 DEF UnmixedInv
<1>29. ShapesInv'
  BY <1>0, <1>2, <1>4, <1>5, ShapesKept
<1>30. OnceInv'
  <2> SUFFICES ASSUME Spared({"reprompt", "crossing", "unheld", "refused", "blind"})'
               PROVE  /\ ~bb.twice
                      /\ prime.kind = "prompt" /\ prime.run \in bb.closed => openTurn = "settled"
                      /\ abort # NoAbort => openTurn = "settled" \/ prime.run = Idle
                      /\ compact = prime.asked /\ compact # Idle => compact \notin bb.closed
    BY <1>3, <1>4 DEF OnceInv
  <2> QED BY <1>0, <1>2, SparedBefore DEF OnceInv
<1> QED BY <1>21, <1>22, <1>23, <1>24, <1>25, <1>26, <1>27, <1>28, <1>29, <1>30 DEF IInv

LEMMA OwnCompactionEnds ==
  ASSUME IInv, SeenInv, wire = "up", prime.kind # "compact", prime.compacting,
         prime' = [prime EXCEPT !.compacting = FALSE], NEW skipped \in BOOLEAN,
         Emit(compactionEnd(state, skipped), Idle), started' = FALSE,
         UNCHANGED <<openTurn, compact, abort, wire, told, upset, counts>>
  PROVE  IInv'
<1>0. /\ TypesInv /\ NumbersInv /\ RunsInv /\ QueueInv /\ ChildrenInv
      /\ OwnedInv /\ RowsInv /\ UnmixedInv /\ ShapesInv /\ OnceInv
  BY DEF IInv
<1>1. state \in ThreadState /\ bb \in Timelines /\ prime \in Primes
      /\ upset \subseteq Upsets /\ counts \in Tallies
  BY <1>0, Initially
<1>2. MoreUpset /\ StaysUp
  BY DEF MoreUpset, StaysUp
<1>3. /\ prime' \in Primes /\ ~prime'.compacting
      /\ prime'.run = prime.run /\ prime'.kind = prime.kind /\ prime'.last = prime.last
      /\ prime'.asked = prime.asked /\ prime'.tools = prime.tools
      /\ prime'.children = prime.children /\ prime'.queue = prime.queue
  BY <1>1 DEF Primes
<1> DEFINE run == Idle
           claim == ~skipped
<1>10. run \in 0..MaxRuns /\ run = Idle /\ Emit(compactionEnd(state, skipped), run)
  BY BoundsAssumption DEF Idle
<1> HIDE DEF run
<1>4. /\ state' \in ThreadState /\ bb' \in Timelines /\ SameQueue /\ SameChildren
      /\ state'.toolCalls = state.toolCalls
      /\ state'.openTextStreams = state.openTextStreams
      /\ Drops(bb', bb)
      /\ (\A row \in bb.rows : row.shape # "named") => bb'.reshaped = bb.reshaped
      /\ state.compaction = "auto" => SameTurn
      /\ state.compaction # "auto" => Bound(bb', bb, run, claim)
  BY <1>1, <1>10, CompactionEnds
<1>11. claim \in BOOLEAN
  OBVIOUS
<1> HIDE DEF claim
<1>5. SameChildRows /\ NoMoreRows /\ StartedRows
  BY <1>4, DropsRows
<1>6. state.compaction # "auto" =>
        /\ bb'.turn = Idle
        /\ \A n \in bb'.closed : n \in bb.closed \/ (n = bb.turn /\ n # Idle)
        /\ bb.turn = Idle => (bb'.mixed <=> bb.mixed)
  BY <1>4, <1>10, <1>11, BoundCloses
<1>7. /\ bb'.turn \in {Idle, bb.turn}
      /\ \A n \in bb'.closed : n \in bb.closed \/ n = bb.turn
  BY <1>4, <1>6 DEF SameTurn
<1>8. prime.last \in Nat
  BY <1>1, BoundsAssumption DEF Primes
<1>21. TypesInv'
  BY <1>0, <1>3, <1>4 DEF TypesInv, Holds
<1>22. NumbersInv'
  BY <1>0, <1>3, <1>7, <1>8, BoundNumbers
<1>23. RunsInv'
  <2>1. prime.asked # Idle => prime.asked # bb'.turn
    BY <1>0, <1>7 DEF RunsInv
  <2> QED BY <1>0, <1>3, <2>1 DEF RunsInv
<1>24. QueueInv'
  BY <1>0, <1>2, <1>3, <1>4, QueueKept
<1>25. ChildrenInv'
  BY <1>0, <1>2, <1>3, <1>4, <1>5, ChildrenKept
<1>26. OwnedInv'
  <2>1. ASSUME Spared({"unowned", "cut"})'
        PROVE  \/ bb'.turn = Idle \/ abort' # NoAbort \/ prime'.kind = "compact"
               \/ prime'.kind = "prompt" /\ openTurn' # "settled"
    BY <1>0, <1>2, <1>3, <1>7, <2>1, SparedBefore DEF OwnedInv
  <2>2. DownIsIdle' /\ prime'.kind # "compact"
    BY <1>3 DEF DownIsIdle
  <2> QED BY <2>1, <2>2 DEF OwnedInv
<1>27. RowsInv'
  BY <1>0, <1>2, <1>3, <1>4, <1>5, RowsKept
<1>28. UnmixedInv'
  <2> SUFFICES ASSUME Spared({"crossing", "cut", "refused"})'
               PROVE  /\ ~bb'.mixed
                      /\ bb'.turn = Idle \/ prime'.run = Idle \/ bb'.turn = prime'.run
                      /\ abort' # NoAbort => bb'.turn \in {Idle, abort'.turn}
    BY <1>3 DEF UnmixedInv, DownIsIdle
  <2>1. /\ ~bb.mixed
        /\ bb.turn = Idle \/ prime.run = Idle \/ bb.turn = prime.run
        /\ abort # NoAbort => bb.turn \in {Idle, abort.turn}
        /\ state.compaction = "auto" \/ bb.turn = Idle
    BY <1>0, <1>2, SparedBefore DEF UnmixedInv
  <2>2. ~bb'.mixed
    BY <1>4, <1>6, <2>1 DEF SameTurn
  <2> QED BY <1>3, <1>7, <2>1, <2>2
<1>29. ShapesInv'
  <2> SUFFICES ASSUME Spared({"midtool"})' PROVE ShapesInv'
    BY DEF ShapesInv
  <2>1. bb'.reshaped = bb.reshaped
    BY <1>0, <1>2, <1>4, SparedBefore DEF ShapesInv
  <2> QED BY <1>0, <1>2, <1>4, <1>5, <2>1, ShapesKept
<1>30. OnceInv'
  <2> SUFFICES ASSUME Spared({"reprompt", "crossing", "unheld", "refused", "blind"})'
               PROVE  /\ ~bb'.twice
                      /\ prime.kind = "prompt" /\ prime.run \in bb'.closed => openTurn = "settled"
                      /\ abort # NoAbort => openTurn = "settled" \/ prime.run = Idle
                      /\ compact = prime.asked /\ compact # Idle => compact \notin bb'.closed
    BY <1>3 DEF OnceInv
  <2>1. SameTurn
    BY <1>2, <1>4, SparedBefore DEF SeenInv, Spared
  <2>2. Spared({"reprompt", "crossing", "unheld", "refused", "blind"})
    BY <1>2, SparedBefore
  <2> QED BY <1>0, <2>1, <2>2 DEF OnceInv, SameTurn
<1> QED BY <1>21, <1>22, <1>23, <1>24, <1>25, <1>26, <1>27, <1>28, <1>29, <1>30 DEF IInv

LEMMA CompactsItselfStep == ASSUME IInv, SeenInv, CompactsItself PROVE IInv'
<1>1. CASE ~prime.compacting
  BY <1>1, OwnCompactionStarts DEF CompactsItself, Streams
<1>2. CASE prime.compacting
  BY <1>2, OwnCompactionEnds DEF CompactsItself, Streams
<1> QED BY <1>1, <1>2

-----------------------------------------------------------------------------
(* What prime compacts because bb asked. *)
LEMMA CompactionRuns ==
  ASSUME IInv, wire = "up", prime.asked # Idle, prime.run = Idle, ~prime.compacting,
         prime' = [prime EXCEPT !.run = prime.asked, !.kind = "compact", !.asked = Idle],
         Emit(compactionStart(state, TRUE), prime.asked), started' = TRUE,
         Suffers(Upset("crossing", abort # NoAbort)),
         UNCHANGED <<openTurn, compact, abort, wire, told, counts>>
  PROVE  IInv'
<1>0. /\ TypesInv /\ NumbersInv /\ RunsInv /\ QueueInv /\ ChildrenInv
      /\ OwnedInv /\ RowsInv /\ UnmixedInv /\ ShapesInv /\ OnceInv
  BY DEF IInv
<1>1. state \in ThreadState /\ bb \in Timelines /\ prime \in Primes
      /\ upset \subseteq Upsets /\ counts \in Tallies /\ prime.asked \in 0..MaxRuns
  BY <1>0, Initially DEF Primes
<1>2. /\ MoreUpset /\ StaysUp /\ upset' \subseteq Upsets
      /\ abort # NoAbort => "crossing" \in upset'
  BY <1>1 DEF MoreUpset, StaysUp, Suffers, Upset, Upsets
<1>3. /\ prime' \in Primes /\ prime'.compacting = prime.compacting
      /\ prime'.run = prime.asked /\ prime'.kind = "compact" /\ prime'.last = prime.last
      /\ prime'.asked = Idle /\ prime'.tools = prime.tools
      /\ prime'.children = prime.children /\ prime'.queue = prime.queue
  <2>1. Idle \in 0..MaxRuns
    BY BoundsAssumption DEF Idle
  <2> QED BY <1>1, <2>1 DEF Primes
<1>4. /\ state' \in ThreadState /\ bb' \in Timelines /\ SameQueue /\ SameChildren
      /\ state'.toolCalls = state.toolCalls
      /\ state'.openTextStreams = state.openTextStreams
      /\ state'.compaction = "manual"
      /\ bb'.turn = prime.asked /\ bb'.closed = bb.closed /\ bb'.mixed = bb.mixed
      /\ bb'.twice = bb.twice /\ bb'.reshaped = bb.reshaped
      /\ bb'.rows = (bb.rows \ KeyIs("compaction")) \cup {CompactionRow}
  <2> DEFINE manual == TRUE
             run == prime.asked
  <2>1. /\ manual \in BOOLEAN /\ manual
        /\ Emit(compactionStart(state, manual), run)
    OBVIOUS
  <2>2. run \in 0..MaxRuns /\ run = prime.asked
    BY <1>1
  <2> HIDE DEF manual, run
  <2>3. /\ state' \in ThreadState /\ bb' \in Timelines /\ SameQueue /\ SameChildren
        /\ state'.toolCalls = state.toolCalls
        /\ state'.openTextStreams = state.openTextStreams
        /\ state'.compaction = IF manual THEN "manual" ELSE "auto"
        /\ bb'.turn = IF manual THEN run ELSE bb.turn
        /\ bb'.closed = bb.closed /\ bb'.mixed = bb.mixed /\ bb'.twice = bb.twice
        /\ bb'.reshaped = bb.reshaped
        /\ bb'.rows = (bb.rows \ KeyIs("compaction")) \cup {CompactionRow}
    BY <1>1, <2>1, <2>2, CompactionStarts
  <2> QED BY <2>1, <2>2, <2>3
<1>5. SameChildRows /\ NoMoreRows /\ StartedRows
  BY <1>1, <1>4, CompactionStarted
<1>6. prime.kind = "none" /\ prime.tools = {}
  BY <1>0 DEF RunsInv
<1>21. TypesInv'
  BY <1>0, <1>2, <1>3, <1>4 DEF TypesInv, Holds
<1>22. NumbersInv'
  <2>1. Idle <= prime.last
    BY <1>1, BoundsAssumption DEF Primes, Idle
  <2> QED BY <1>0, <1>3, <1>4, <2>1 DEF NumbersInv
<1>23. RunsInv'
  BY <1>0, <1>3, <1>4, <1>6 DEF RunsInv
<1>24. QueueInv'
  BY <1>0, <1>2, <1>3, <1>4, QueueKept
<1>25. ChildrenInv'
  BY <1>0, <1>2, <1>3, <1>4, <1>5, ChildrenKept
<1>26. OwnedInv'
  BY <1>3, <1>4 DEF OwnedInv, DownIsIdle
<1>27. RowsInv'
  BY <1>0, <1>2, <1>3, <1>4, <1>5, <1>6, RowsKept
<1>28. UnmixedInv'
  <2> SUFFICES ASSUME Spared({"crossing", "cut", "refused"})'
               PROVE  ~bb'.mixed /\ abort' = NoAbort
    BY <1>3, <1>4 DEF UnmixedInv, DownIsIdle
  <2>1. abort' = NoAbort
    BY <1>2 DEF Spared
  <2>2. Spared({"crossing", "cut", "refused"})
    BY <1>2, SparedBefore
  <2> QED BY <1>0, <1>4, <2>1, <2>2 DEF UnmixedInv
<1>29. ShapesInv'
  BY <1>0, <1>2, <1>4, <1>5, ShapesKept
<1>30. OnceInv'
  <2> SUFFICES ASSUME Spared({"reprompt", "crossing", "unheld", "refused", "blind"})'
               PROVE  ~bb.twice /\ abort = NoAbort
    BY <1>3, <1>4 DEF OnceInv
  <2>1. abort = NoAbort
    BY <1>2 DEF Spared
  <2>2. Spared({"reprompt", "crossing", "unheld", "refused", "blind"})
    BY <1>2, SparedBefore
  <2> QED BY <1>0, <2>1, <2>2 DEF OnceInv
<1> QED BY <1>21, <1>22, <1>23, <1>24, <1>25, <1>26, <1>27, <1>28, <1>29, <1>30 DEF IInv

LEMMA CompactionRunEnds ==
  ASSUME IInv, wire = "up", prime.kind = "compact",
         prime' = [prime EXCEPT !.run = Idle, !.kind = "none"], NEW skipped \in BOOLEAN,
         Emit(compactionEnd(state, skipped), prime.run), started' = FALSE,
         UNCHANGED <<openTurn, compact, abort, wire, told, upset, counts>>
  PROVE  IInv'
<1>0. /\ TypesInv /\ NumbersInv /\ RunsInv /\ QueueInv /\ ChildrenInv
      /\ OwnedInv /\ RowsInv /\ UnmixedInv /\ ShapesInv /\ OnceInv
  BY DEF IInv
<1>1. state \in ThreadState /\ bb \in Timelines /\ prime \in Primes
      /\ upset \subseteq Upsets /\ counts \in Tallies /\ prime.run \in 0..MaxRuns
  BY <1>0, Initially DEF Primes
<1>2. MoreUpset /\ StaysUp
  BY DEF MoreUpset, StaysUp
<1>3. /\ prime' \in Primes /\ prime'.compacting = prime.compacting
      /\ prime'.run = Idle /\ prime'.kind = "none" /\ prime'.last = prime.last
      /\ prime'.asked = prime.asked /\ prime'.tools = prime.tools
      /\ prime'.children = prime.children /\ prime'.queue = prime.queue
  <2>1. Idle \in 0..MaxRuns
    BY BoundsAssumption DEF Idle
  <2> QED BY <1>1, <2>1 DEF Primes
<1> DEFINE claim == ~skipped
<1>4. /\ state' \in ThreadState /\ bb' \in Timelines /\ SameQueue /\ SameChildren
      /\ state'.toolCalls = state.toolCalls
      /\ state'.openTextStreams = state.openTextStreams
      /\ Drops(bb', bb)
      /\ (\A row \in bb.rows : row.shape # "named") => bb'.reshaped = bb.reshaped
      /\ state.compaction = "auto" => SameTurn
      /\ state.compaction # "auto" => Bound(bb', bb, prime.run, claim)
  BY <1>1, CompactionEnds
<1>11. claim \in BOOLEAN
  OBVIOUS
<1> HIDE DEF claim
<1>5. SameChildRows /\ NoMoreRows /\ StartedRows
  BY <1>4, DropsRows
<1>6. state.compaction # "auto" =>
        /\ bb'.turn = Idle
        /\ \A n \in bb'.closed :
              n \in bb.closed \/ (n = bb.turn /\ n # Idle) \/ (n = prime.run /\ n # Idle)
        /\ bb.turn \in {Idle, prime.run} => (bb'.mixed <=> bb.mixed)
        /\ bb.turn # Idle => (bb'.twice <=> bb.twice)
  BY <1>4, <1>11, BoundCloses
<1>7. /\ bb'.turn \in {Idle, bb.turn}
      /\ \A n \in bb'.closed : n \in bb.closed \/ n = bb.turn \/ n = prime.run
  BY <1>4, <1>6 DEF SameTurn
<1>8. prime.last \in Nat
  BY <1>1, BoundsAssumption DEF Primes
<1>9. prime.run # Idle
  BY <1>0 DEF RunsInv
<1>21. TypesInv'
  BY <1>0, <1>3, <1>4 DEF TypesInv, Holds
<1>22. NumbersInv'
  BY <1>0, <1>3, <1>7, <1>8, BoundNumbers
<1>23. RunsInv'
  <2>1. prime.asked # Idle => prime.asked # bb'.turn
    BY <1>0, <1>7 DEF RunsInv
  <2> QED BY <1>0, <1>3, <2>1 DEF RunsInv
<1>24. QueueInv'
  BY <1>0, <1>2, <1>3, <1>4, QueueKept
<1>25. ChildrenInv'
  BY <1>0, <1>2, <1>3, <1>4, <1>5, ChildrenKept
<1>26. OwnedInv'
  <2>1. ASSUME Spared({"unowned", "cut"})' PROVE bb'.turn = Idle
    <3>1. state.compaction = "manual" \/ bb.turn = Idle
      BY <1>0, <1>2, <2>1, SparedBefore DEF OwnedInv, Spared
    <3> QED BY <1>6, <1>7, <3>1
  <2>2. DownIsIdle' /\ prime'.kind # "compact"
    BY <1>3 DEF DownIsIdle
  <2> QED BY <2>1, <2>2 DEF OwnedInv
<1>27. RowsInv'
  BY <1>0, <1>2, <1>3, <1>4, <1>5, RowsKept
<1>28. UnmixedInv'
  <2> SUFFICES ASSUME Spared({"crossing", "cut", "refused"})'
               PROVE  /\ ~bb'.mixed
                      /\ abort' # NoAbort => bb'.turn \in {Idle, abort'.turn}
                      /\ ~prime'.compacting
    BY <1>3 DEF UnmixedInv, DownIsIdle
  <2>1. /\ ~bb.mixed
        /\ bb.turn = Idle \/ prime.run = Idle \/ bb.turn = prime.run
        /\ abort # NoAbort => bb.turn \in {Idle, abort.turn}
    BY <1>0, <1>2, SparedBefore DEF UnmixedInv
  <2>2. ~bb'.mixed
    BY <1>4, <1>6, <1>9, <2>1 DEF SameTurn
  <2>3. ~prime.compacting
    BY <1>0 DEF RunsInv
  <2> QED BY <1>3, <1>7, <2>1, <2>2, <2>3
<1>29. ShapesInv'
  <2> SUFFICES ASSUME Spared({"midtool"})' PROVE ShapesInv'
    BY DEF ShapesInv
  <2>1. bb'.reshaped = bb.reshaped
    BY <1>0, <1>2, <1>4, SparedBefore DEF ShapesInv
  <2> QED BY <1>0, <1>2, <1>4, <1>5, <2>1, ShapesKept
<1>30. OnceInv'
  <2> SUFFICES ASSUME Spared({"reprompt", "crossing", "unheld", "refused", "blind"})'
               PROVE  /\ ~bb'.twice
                      /\ compact = prime.asked /\ compact # Idle => compact \notin bb'.closed
    BY <1>3 DEF OnceInv
  <2>1. /\ ~bb.twice /\ bb.turn = prime.run
        /\ compact = prime.asked /\ compact # Idle => compact \notin bb.closed
    BY <1>0, <1>2, SparedBefore DEF OnceInv
  <2>2. prime.asked # Idle => prime.asked # bb.turn /\ prime.asked # prime.run
    BY <1>0 DEF RunsInv
  <2>3. ~bb'.twice
    BY <1>4, <1>6, <1>9, <2>1 DEF SameTurn
  <2> QED BY <1>7, <2>1, <2>2, <2>3
<1> QED BY <1>21, <1>22, <1>23, <1>24, <1>25, <1>26, <1>27, <1>28, <1>29, <1>30 DEF IInv

LEMMA CompactsStep == ASSUME IInv, Compacts PROVE IInv'
<1>1. CASE prime.kind = "compact"
  <2>1. prime.run # Idle
    BY <1>1 DEF IInv, RunsInv
  <2> QED BY <1>1, <2>1, CompactionRunEnds DEF Compacts, Streams
<1>2. CASE prime.kind # "compact"
  BY <1>2, CompactionRuns DEF Compacts, Streams
<1> QED BY <1>1, <1>2

-----------------------------------------------------------------------------
(* What the lane closes itself. *)
LEMMA SettlingDoes ==
  ASSUME state \in ThreadState, bb \in Timelines, NEW run \in 0..MaxRuns, NEW claim \in BOOLEAN,
         Settling(run, claim)
  PROVE  /\ Settlement(bb', bb, state.openTextStreams, run, claim)
         /\ state' \in ThreadState
         /\ state'.openTextStreams = {} /\ state'.toolCalls = state.toolCalls
         /\ state'.compaction = state.compaction
         /\ SameQueue /\ SameChildren /\ SameChildRows /\ NoMoreRows /\ StartedRows
<1>1. /\ state' = [state EXCEPT !.openTextStreams = {}]
      /\ bb' = Settled(bb, state.openTextStreams, run, claim)
      /\ state.openTextStreams \in SUBSET Channels
  BY DEF Settling, ThreadState
<1>2. Settlement(bb', bb, state.openTextStreams, run, claim)
  BY <1>1, Settles
<1>3. /\ state' \in ThreadState
      /\ state'.openTextStreams = {} /\ state'.toolCalls = state.toolCalls
      /\ state'.openDelegations = state.openDelegations
      /\ state'.compaction = state.compaction /\ state'.queuePayload = state.queuePayload
  BY <1>1, SettlesState
<1>4. Drops(bb', bb) /\ bb'.queue = bb.queue
  BY <1>2 DEF Settlement
<1>5. SameChildRows /\ NoMoreRows /\ StartedRows
  BY <1>4, DropsRows
<1> QED BY <1>2, <1>3, <1>4, <1>5 DEF SameQueue, SameChildren

LEMMA FailureSettles ==
  ASSUME state \in ThreadState, bb \in Timelines, NEW run, Emit(failureDeltas(state), run)
  PROVE  Settling(run, TRUE)
<1> DEFINE claim == TRUE
<1>1. claim \in BOOLEAN
  OBVIOUS
<1>2. Emit(Answer(closeOpenStreams(state).state,
                  Append(closeOpenStreams(state).deltas, Boundary(claim))), run)
  BY DEF failureDeltas
<1> HIDE DEF claim
<1>3. Settling(run, claim)
  BY <1>1, <1>2, EmitsSettling
<1> QED BY <1>3 DEF claim

LEMMA InterruptSettles ==
  ASSUME state \in ThreadState, bb \in Timelines, NEW run, Emit(interruptDeltas(state), run)
  PROVE  Settling(run, FALSE)
<1> DEFINE claim == FALSE
<1>1. claim \in BOOLEAN
  OBVIOUS
<1>2. Emit(Answer(closeOpenStreams(state).state,
                  Append(closeOpenStreams(state).deltas, Boundary(claim))), run)
  BY DEF interruptDeltas
<1> HIDE DEF claim
<1>3. Settling(run, claim)
  BY <1>1, <1>2, EmitsSettling
<1> QED BY <1>3 DEF claim

LEMMA AnswersCompaction ==
  ASSUME IInv, wire = "up", state' = state, bb' = bb, MoreUpset, upset' \subseteq Upsets,
         prime' = [prime EXCEPT !.asked = Idle], compact' = Idle,
         UNCHANGED <<openTurn, started, abort, wire, told, counts>>
  PROVE  IInv'
<1>0. /\ TypesInv /\ NumbersInv /\ RunsInv /\ QueueInv /\ ChildrenInv
      /\ OwnedInv /\ RowsInv /\ UnmixedInv /\ ShapesInv /\ OnceInv
  BY DEF IInv
<1>1. state \in ThreadState /\ bb \in Timelines /\ prime \in Primes /\ counts \in Tallies
      /\ Idle \in 0..MaxRuns /\ prime.last \in Nat
  <2>1. Idle \in 0..MaxRuns
    BY BoundsAssumption DEF Idle
  <2>2. state \in ThreadState /\ bb \in Timelines /\ prime \in Primes /\ counts \in Tallies
    BY <1>0, Initially
  <2>3. prime.last \in Nat
    BY <2>2, BoundsAssumption DEF Primes
  <2> QED BY <2>1, <2>2, <2>3
<1>2. StaysUp
  BY DEF StaysUp
<1>3. /\ prime' \in Primes /\ prime'.asked = Idle
      /\ prime'.run = prime.run /\ prime'.kind = prime.kind /\ prime'.last = prime.last
      /\ prime'.compacting = prime.compacting /\ prime'.tools = prime.tools
      /\ prime'.children = prime.children /\ prime'.queue = prime.queue
  BY <1>1 DEF Primes
<1>6. /\ SameTurn /\ SameQueue /\ SameChildren
      /\ SameChildRows /\ NoMoreRows /\ StartedRows
      /\ bb'.reshaped = bb.reshaped /\ bb'.mixed = bb.mixed /\ bb'.turn = bb.turn
  BY EmitsNothing
<1>21. TypesInv'
  BY <1>0, <1>1, <1>3 DEF TypesInv, Holds
<1>22. NumbersInv'
  BY <1>0, <1>1, <1>3, BoundNumbers
<1>23. RunsInv'
  BY <1>0, <1>3 DEF RunsInv
<1>24. QueueInv'
  BY <1>0, <1>2, <1>3, <1>6, QueueKept
<1>25. ChildrenInv'
  BY <1>0, <1>3, <1>6, ChildrenKept
<1>26. OwnedInv'
  BY <1>0, <1>2, <1>3, <1>6, OwnedKept
<1>27. RowsInv'
  BY <1>0, <1>2, <1>3, <1>6, RowsKept
<1>28. UnmixedInv'
  <2> SUFFICES ASSUME Spared({"crossing", "cut", "refused"})'
               PROVE  /\ ~bb.mixed /\ DownIsIdle'
                      /\ bb.turn = Idle \/ prime.run = Idle \/ bb.turn = prime.run
                      /\ abort # NoAbort => bb.turn \in {Idle, abort.turn}
                      /\ prime.compacting => state.compaction = "auto" \/ bb.turn = Idle
    BY <1>3 DEF UnmixedInv
  <2>1. DownIsIdle'
    BY DEF DownIsIdle
  <2> QED BY <1>0, <2>1, SparedBefore DEF UnmixedInv
<1>29. ShapesInv'
  BY <1>0, <1>6, ShapesKept
<1>30. OnceInv'
  <2> SUFFICES ASSUME Spared({"reprompt", "crossing", "unheld", "refused", "blind"})'
               PROVE  /\ ~bb.twice
                      /\ prime.kind = "prompt" /\ prime.run \in bb.closed => openTurn = "settled"
                      /\ abort # NoAbort => openTurn = "settled" \/ prime.run = Idle
                      /\ prime.kind = "compact" => bb.turn = prime.run /\ abort = NoAbort
    BY <1>3 DEF OnceInv
  <2> QED BY <1>0, SparedBefore DEF OnceInv
<1> QED BY <1>21, <1>22, <1>23, <1>24, <1>25, <1>26, <1>27, <1>28, <1>29, <1>30 DEF IInv

LEMMA RefusesCompaction ==
  ASSUME IInv, wire = "up", compact # Idle, prime.run # compact,
         prime' = [prime EXCEPT !.asked = Idle], compact' = Idle,
         Emit(failureDeltas(state), compact), Suffers(Upset("refused", CompactionIsMoot)),
         UNCHANGED <<openTurn, started, abort, wire, told, counts>>
  PROVE  IInv'
<1>0. /\ TypesInv /\ NumbersInv /\ RunsInv /\ QueueInv /\ ChildrenInv
      /\ OwnedInv /\ RowsInv /\ UnmixedInv /\ ShapesInv /\ OnceInv
  BY DEF IInv
<1>1. state \in ThreadState /\ bb \in Timelines /\ prime \in Primes /\ counts \in Tallies
      /\ upset \subseteq Upsets /\ compact \in 0..MaxRuns
  BY <1>0, Initially DEF TypesInv
<1>2. /\ StaysUp /\ MoreUpset /\ upset' \subseteq Upsets
      /\ CompactionIsMoot => "refused" \in upset'
  <2> DEFINE moot == CompactionIsMoot
  <2>1. upset' = upset \cup Upset("refused", moot)
    BY DEF Suffers
  <2> HIDE DEF moot
  <2>2. MoreUpset /\ upset' \subseteq Upsets /\ (moot => "refused" \in upset')
    BY <1>1, <2>1 DEF MoreUpset, Upset, Upsets
  <2> QED BY <2>2 DEF moot, StaysUp
<1>3. /\ prime' \in Primes /\ prime'.asked = Idle
      /\ prime'.run = prime.run /\ prime'.kind = prime.kind /\ prime'.last = prime.last
      /\ prime'.compacting = prime.compacting /\ prime'.tools = prime.tools
      /\ prime'.children = prime.children /\ prime'.queue = prime.queue
  <2>1. Idle \in 0..MaxRuns
    BY BoundsAssumption DEF Idle
  <2> QED BY <1>1, <2>1 DEF Primes
<1> DEFINE claim == TRUE
<1>10. claim \in BOOLEAN /\ claim /\ Settling(compact, claim)
  BY <1>1, FailureSettles
<1> HIDE DEF claim
<1>4. /\ Settlement(bb', bb, state.openTextStreams, compact, claim)
      /\ state' \in ThreadState
      /\ state'.openTextStreams = {} /\ state'.toolCalls = state.toolCalls
      /\ state'.compaction = state.compaction
      /\ SameQueue /\ SameChildren /\ SameChildRows /\ NoMoreRows /\ StartedRows
  BY <1>1, <1>10, SettlingDoes
<1>5. /\ bb' \in Timelines /\ bb'.reshaped = bb.reshaped
      /\ Bound(bb', bb, compact, claim) /\ Drops(bb', bb)
      /\ \A row \in bb'.rows : row.key \notin state.openTextStreams
  BY <1>4 DEF Settlement
<1>11. claim \in BOOLEAN /\ Bound(bb', bb, compact, claim)
  BY <1>5, <1>10
<1>6. /\ bb'.turn = Idle
      /\ \A n \in bb'.closed :
            n \in bb.closed \/ (n = bb.turn /\ n # Idle) \/ (n = compact /\ n # Idle)
      /\ bb.turn \in {Idle, compact} => (bb'.mixed <=> bb.mixed)
      /\ (bb.turn = Idle /\ claim => compact \notin bb.closed) => (bb'.twice <=> bb.twice)
  BY <1>11, BoundCloses
<1>7. \A n \in bb'.closed : n \in bb.closed \/ n = bb.turn \/ n \in {prime.run, compact}
  BY <1>6
<1>8. prime.last \in Nat
  BY <1>1, BoundsAssumption DEF Primes
<1>9. \A row \in bb'.rows : row \in bb.rows
  BY <1>5, DropsRows
<1>21. TypesInv'
  <2>1. compact' \in 0..MaxRuns
    BY BoundsAssumption DEF Idle
  <2> QED BY <1>0, <1>2, <1>3, <1>4, <1>5, <2>1 DEF TypesInv, Holds
<1>22. NumbersInv'
  BY <1>0, <1>3, <1>6, <1>7, <1>8, BoundNumbers
<1>23. RunsInv'
  BY <1>0, <1>3 DEF RunsInv
<1>24. QueueInv'
  BY <1>0, <1>2, <1>3, <1>4, QueueKept
<1>25. ChildrenInv'
  BY <1>0, <1>2, <1>3, <1>4, ChildrenKept
<1>26. OwnedInv'
  BY <1>6 DEF OwnedInv, DownIsIdle
<1>27. RowsInv'
  <2> SUFFICES ASSUME Spared({"cut"})'
               PROVE  /\ \A c \in Channels : HasRow(c)' => Held(c)'
                      /\ \A tool \in Tools : HasRow(tool)' => tool \in prime'.tools
    BY DEF RowsInv
  <2>1. /\ \A c \in Channels : HasRow(c) =>
             Held(c) \/ (c \in state.openTextStreams /\ prime.kind = "prompt")
        /\ \A tool \in Tools : HasRow(tool) => tool \in prime.tools
    BY <1>0, <1>2, SparedBefore DEF RowsInv
  <2>2. \A c : HasRow(c)' => HasRow(c) /\ c \notin state.openTextStreams
    BY <1>5, <1>9 DEF HasRow
  <2>3. \A c : Held(c) => Held(c)'
    BY DEF Held
  <2> QED BY <1>3, <2>1, <2>2, <2>3
<1>28. UnmixedInv'
  <2> SUFFICES ASSUME Spared({"crossing", "cut", "refused"})' PROVE ~bb'.mixed
    BY <1>6 DEF UnmixedInv, DownIsIdle
  <2>1. Spared({"crossing", "cut", "refused"}) /\ ~CompactionIsMoot
    BY <1>2, SparedBefore DEF Spared
  <2>2. bb.turn \in {Idle, compact}
    BY <2>1 DEF CompactionIsMoot
  <2> QED BY <1>0, <1>6, <2>1, <2>2 DEF UnmixedInv
<1>29. ShapesInv'
  BY <1>0, <1>2, <1>4, <1>5, ShapesKept
<1>30. OnceInv'
  <2> SUFFICES ASSUME Spared({"reprompt", "crossing", "unheld", "refused", "blind"})'
               PROVE  ~bb'.twice /\ prime.run = Idle /\ prime.kind = "none"
    BY <1>3 DEF OnceInv
  <2>1. Spared({"reprompt", "crossing", "unheld", "refused", "blind"}) /\ ~CompactionIsMoot
    BY <1>2, SparedBefore DEF Spared
  <2>2. prime.run = Idle /\ compact = prime.asked
    BY <2>1 DEF CompactionIsMoot, Compacted
  <2>3. ~bb.twice /\ compact \notin bb.closed
    BY <1>0, <2>1, <2>2 DEF OnceInv
  <2> QED BY <1>0, <1>6, <2>2, <2>3 DEF RunsInv
<1> QED BY <1>21, <1>22, <1>23, <1>24, <1>25, <1>26, <1>27, <1>28, <1>29, <1>30 DEF IInv

LEMMA CompactAnsweredStep == ASSUME IInv, CompactAnswered PROVE IInv'
<1>1. /\ wire = "up" /\ compact # Idle /\ prime.run # compact /\ compact' = Idle
      /\ prime' = [prime EXCEPT !.asked = Idle]
      /\ UNCHANGED <<openTurn, started, abort, wire, told, counts>>
  BY DEF CompactAnswered, Streams
<1>2. upset \subseteq Upsets
  BY DEF IInv, TypesInv
<1>3. CASE state' = state /\ bb' = bb
  <2>1. upset' = upset \/ upset' = upset \cup Upset("refused", CompactionIsMoot)
    BY DEF CompactAnswered, Suffers
  <2> DEFINE moot == CompactionIsMoot
  <2>2. upset' = upset \/ upset' = upset \cup Upset("refused", moot)
    BY <2>1
  <2> HIDE DEF moot
  <2>3. MoreUpset /\ upset' \subseteq Upsets
    BY <1>2, <2>2 DEF MoreUpset, Upset, Upsets
  <2> QED BY <1>1, <1>3, <2>3, AnswersCompaction
<1>4. CASE /\ Emit(failureDeltas(state), compact)
           /\ Suffers(Upset("refused", CompactionIsMoot))
  BY <1>1, <1>4, RefusesCompaction
<1> QED BY <1>3, <1>4 DEF CompactAnswered

LEMMA InterruptHolds ==
  ASSUME IInv, HasOpenTurn, abort = NoAbort, wire = "up",
         abort' = [deltas |-> interruptDeltas(state).deltas, turn |-> bb.turn],
         openTurn' = "settled", state' = interruptDeltas(state).state, bb' = bb,
         Suffers(Upset("unheld", bb.turn # Idle /\ (HasOpenTurn => prime.kind = "compact"))),
         UNCHANGED <<compact, started, wire, told, prime, counts>>
  PROVE  IInv'
<1>0. /\ TypesInv /\ NumbersInv /\ RunsInv /\ QueueInv /\ ChildrenInv
      /\ OwnedInv /\ RowsInv /\ UnmixedInv /\ ShapesInv /\ OnceInv
  BY DEF IInv
<1>1. state \in ThreadState /\ bb \in Timelines /\ prime \in Primes /\ counts \in Tallies
      /\ upset \subseteq Upsets /\ bb.turn \in 0..MaxRuns
  BY <1>0, Initially DEF Timelines
<1> DEFINE S == state.openTextStreams
<1>2. /\ StaysUp /\ MoreUpset /\ upset' \subseteq Upsets
      /\ bb.turn # Idle /\ prime.kind = "compact" => "unheld" \in upset'
  BY <1>1 DEF MoreUpset, StaysUp, Suffers, Upset, Upsets
<1>3. /\ state' = [state EXCEPT !.openTextStreams = {}]
      /\ abort'.deltas = Append(Closes(S), Boundary(FALSE))
      /\ abort' = [deltas |-> abort'.deltas, turn |-> abort'.turn]
      /\ abort'.turn = bb.turn
  BY DEF interruptDeltas, closeOpenStreams, Answer, Closes
<1>4. S \in SUBSET Channels /\ S = state.openTextStreams
  BY <1>1 DEF ThreadState
<1> HIDE DEF S
<1>5. Holds(abort', S)
  BY <1>1, <1>3 DEF Holds
<1>6. abort' # NoAbort
  <2>1. bb.turn # -1
    BY <1>1, BoundsAssumption
  <2> QED BY <1>3, <2>1 DEF NoAbort
<1>7. /\ state' \in ThreadState
      /\ state'.openTextStreams = {} /\ state'.toolCalls = state.toolCalls
      /\ state'.openDelegations = state.openDelegations
      /\ state'.compaction = state.compaction /\ state'.queuePayload = state.queuePayload
  BY <1>1, <1>3, SettlesState
<1>8. /\ SameQueue /\ SameChildren /\ SameChildRows /\ NoMoreRows /\ StartedRows
      /\ \A key : HasRow(key)' => HasRow(key)
  BY <1>7 DEF SameQueue, SameChildren, SameChildRows, NoMoreRows, StartedRows, HasRow
<1>9. prime.last \in Nat
  BY <1>1, BoundsAssumption DEF Primes
<1>21. TypesInv'
  <2>1. \E T \in SUBSET Channels : Holds(abort', T)
    BY <1>4, <1>5
  <2>2. openTurn' \in {"none", "open", "settled"}
    OBVIOUS
  <2> QED BY <1>0, <1>2, <1>7, <2>1, <2>2 DEF TypesInv
<1>22. NumbersInv'
  BY <1>0, <1>3, <1>9 DEF NumbersInv
<1>23. RunsInv'
  BY <1>0 DEF RunsInv
<1>24. QueueInv'
  BY <1>0, <1>2, <1>8, QueueKept
<1>25. ChildrenInv'
  BY <1>0, <1>2, <1>8, ChildrenKept
<1>26. OwnedInv'
  <2>1. ASSUME Spared({"cut"})'
        PROVE  prime'.kind = "compact" => state'.compaction = "manual" \/ bb'.turn = Idle
    BY <1>0, <1>2, <1>7, <2>1, SparedBefore DEF OwnedInv
  <2> QED BY <1>6, <2>1 DEF OwnedInv, DownIsIdle
<1>27. RowsInv'
  <2> SUFFICES ASSUME Spared({"cut"})'
               PROVE  /\ \A c \in Channels : HasRow(c)' => Held(c)'
                      /\ \A tool \in Tools : HasRow(tool)' => tool \in prime'.tools
    BY DEF RowsInv
  <2>1. /\ \A c \in Channels : HasRow(c) => Held(c) \/ c \in S
        /\ \A tool \in Tools : HasRow(tool) => tool \in prime.tools
    BY <1>0, <1>2, <1>4, SparedBefore DEF RowsInv
  <2>2. \A c : ~Held(c)
    BY HoldingAborts, BoundsAssumption DEF Held
  <2>3. \A c \in S : Held(c)'
    BY <1>4, <1>5 DEF Held
  <2> QED BY <1>8, <2>1, <2>2, <2>3
<1>28. UnmixedInv'
  <2> SUFFICES ASSUME Spared({"crossing", "cut", "refused"})'
               PROVE  /\ ~bb.mixed
                      /\ bb.turn = Idle \/ prime.run = Idle \/ bb.turn = prime.run
                      /\ prime.compacting => state.compaction = "auto" \/ bb.turn = Idle
    BY <1>3, <1>7 DEF UnmixedInv, DownIsIdle
  <2> QED BY <1>0, <1>2, SparedBefore DEF UnmixedInv
<1>29. ShapesInv'
  BY <1>0, <1>2, <1>7, <1>8, ShapesKept
<1>30. OnceInv'
  <2> SUFFICES ASSUME Spared({"reprompt", "crossing", "unheld", "refused", "blind"})'
               PROVE  /\ ~bb.twice /\ prime.kind # "compact"
                      /\ compact = prime.asked /\ compact # Idle => compact \notin bb.closed
    BY DEF OnceInv
  <2>1. /\ ~bb.twice
        /\ prime.kind = "compact" => bb.turn = prime.run
        /\ compact = prime.asked /\ compact # Idle => compact \notin bb.closed
    BY <1>0, <1>2, SparedBefore DEF OnceInv
  <2>2. prime.kind = "compact" => bb.turn = Idle
    BY <1>2 DEF Spared
  <2>3. prime.kind = "compact" => prime.run # Idle
    BY <1>0 DEF RunsInv
  <2> QED BY <2>1, <2>2, <2>3
<1> QED BY <1>21, <1>22, <1>23, <1>24, <1>25, <1>26, <1>27, <1>28, <1>29, <1>30 DEF IInv

LEMMA InterruptCloses ==
  ASSUME IInv, ~HasOpenTurn, Emit(interruptDeltas(state), bb.turn), abort' = abort,
         openTurn' = openTurn,
         Suffers(Upset("unheld", bb.turn # Idle /\ (HasOpenTurn => prime.kind = "compact"))),
         UNCHANGED <<compact, started, wire, told, prime, counts>>
  PROVE  IInv'
<1>0. /\ TypesInv /\ NumbersInv /\ RunsInv /\ QueueInv /\ ChildrenInv
      /\ OwnedInv /\ RowsInv /\ UnmixedInv /\ ShapesInv /\ OnceInv
  BY DEF IInv
<1>1. state \in ThreadState /\ bb \in Timelines /\ prime \in Primes /\ counts \in Tallies
      /\ upset \subseteq Upsets /\ bb.turn \in 0..MaxRuns
  BY <1>0, Initially DEF Timelines
<1>2. /\ StaysUp /\ MoreUpset /\ upset' \subseteq Upsets
      /\ bb.turn # Idle => "unheld" \in upset'
  BY <1>1 DEF MoreUpset, StaysUp, Suffers, Upset, Upsets
<1> DEFINE claim == FALSE
           run == bb.turn
<1>10. claim \in BOOLEAN /\ ~claim /\ Settling(run, claim)
  BY <1>1, InterruptSettles
<1>11. run \in 0..MaxRuns /\ run = bb.turn
  BY <1>1
<1> HIDE DEF claim, run
<1>4. /\ Settlement(bb', bb, state.openTextStreams, run, claim)
      /\ state' \in ThreadState
      /\ state'.openTextStreams = {} /\ state'.toolCalls = state.toolCalls
      /\ state'.compaction = state.compaction
      /\ SameQueue /\ SameChildren /\ SameChildRows /\ NoMoreRows /\ StartedRows
  BY <1>1, <1>10, <1>11, SettlingDoes
<1>5. /\ bb' \in Timelines /\ bb'.reshaped = bb.reshaped
      /\ Bound(bb', bb, run, claim) /\ Drops(bb', bb)
      /\ \A row \in bb'.rows : row.key \notin state.openTextStreams
  BY <1>4 DEF Settlement
<1>12. claim \in BOOLEAN /\ Bound(bb', bb, run, claim) /\ ~claim
  BY <1>5, <1>10
<1>6. /\ bb'.turn = Idle
      /\ \A n \in bb'.closed : n \in bb.closed \/ (n = bb.turn /\ n # Idle)
      /\ bb.turn \in {Idle, run} => (bb'.mixed <=> bb.mixed)
      /\ (bb'.twice <=> bb.twice)
  BY <1>12, BoundCloses
<1>7. bb'.mixed <=> bb.mixed
  BY <1>6, <1>11
<1>8. prime.last \in Nat
  BY <1>1, BoundsAssumption DEF Primes
<1>9. \A row \in bb'.rows : row \in bb.rows
  BY <1>5, DropsRows
<1>21. TypesInv'
  BY <1>0, <1>2, <1>4, <1>5 DEF TypesInv, Holds
<1>22. NumbersInv'
  BY <1>0, <1>6, <1>8, BoundNumbers
<1>23. RunsInv'
  BY <1>0, <1>6 DEF RunsInv
<1>24. QueueInv'
  BY <1>0, <1>2, <1>4, QueueKept
<1>25. ChildrenInv'
  BY <1>0, <1>2, <1>4, ChildrenKept
<1>26. OwnedInv'
  BY <1>6 DEF OwnedInv, DownIsIdle
<1>27. RowsInv'
  <2> SUFFICES ASSUME Spared({"cut"})'
               PROVE  /\ \A c \in Channels : HasRow(c)' => Held(c)'
                      /\ \A tool \in Tools : HasRow(tool)' => tool \in prime'.tools
                      /\ wire' # "up" => \A key \in Channels \cup Tools : ~HasRow(key)'
    BY DEF RowsInv
  <2>1. /\ \A c \in Channels : HasRow(c) =>
             Held(c) \/ (c \in state.openTextStreams /\ prime.kind = "prompt")
        /\ \A tool \in Tools : HasRow(tool) => tool \in prime.tools
        /\ wire # "up" => \A key \in Channels \cup Tools : ~HasRow(key)
    BY <1>0, <1>2, SparedBefore DEF RowsInv
  <2>2. \A c : HasRow(c)' => HasRow(c) /\ c \notin state.openTextStreams
    BY <1>5, <1>9 DEF HasRow
  <2>3. \A c : Held(c) => Held(c)'
    BY DEF Held
  <2> QED BY <2>1, <2>2, <2>3
<1>28. UnmixedInv'
  <2> SUFFICES ASSUME Spared({"crossing", "cut", "refused"})' PROVE ~bb.mixed
    BY <1>6, <1>7 DEF UnmixedInv, DownIsIdle
  <2> QED BY <1>0, <1>2, SparedBefore DEF UnmixedInv
<1>29. ShapesInv'
  BY <1>0, <1>2, <1>4, <1>5, ShapesKept
<1>30. OnceInv'
  <2> SUFFICES ASSUME Spared({"reprompt", "crossing", "unheld", "refused", "blind"})'
               PROVE  /\ ~bb'.twice
                      /\ prime.kind = "prompt" /\ prime.run \in bb'.closed => openTurn = "settled"
                      /\ abort # NoAbort => openTurn = "settled" \/ prime.run = Idle
                      /\ prime.kind # "compact"
                      /\ compact = prime.asked /\ compact # Idle => compact \notin bb'.closed
    BY DEF OnceInv
  <2>1. /\ ~bb.twice
        /\ prime.kind = "prompt" /\ prime.run \in bb.closed => openTurn = "settled"
        /\ abort # NoAbort => openTurn = "settled" \/ prime.run = Idle
        /\ prime.kind = "compact" => bb.turn = prime.run
        /\ compact = prime.asked /\ compact # Idle => compact \notin bb.closed
    BY <1>0, <1>2, SparedBefore DEF OnceInv
  <2>2. bb.turn = Idle
    BY <1>2 DEF Spared
  <2>3. prime.kind = "compact" => prime.run # Idle
    BY <1>0 DEF RunsInv
  <2>4. /\ ~bb'.twice
        /\ \A n \in bb'.closed : n \in bb.closed
    BY <1>6, <2>1, <2>2
  <2> QED BY <2>1, <2>2, <2>3, <2>4
<1> QED BY <1>21, <1>22, <1>23, <1>24, <1>25, <1>26, <1>27, <1>28, <1>29, <1>30 DEF IInv

LEMMA InterruptStep == ASSUME IInv, Interrupt PROVE IInv'
<1>1. CASE HasOpenTurn
  <2>1. /\ abort = NoAbort /\ wire = "up"
        /\ abort' = [deltas |-> interruptDeltas(state).deltas, turn |-> bb.turn]
        /\ openTurn' = "settled" /\ state' = interruptDeltas(state).state /\ bb' = bb
        /\ Suffers(Upset("unheld", bb.turn # Idle /\ (HasOpenTurn => prime.kind = "compact")))
        /\ UNCHANGED <<compact, started, wire, told, prime, counts>>
    BY <1>1 DEF Interrupt
  <2> QED BY <1>1, <2>1, InterruptHolds
<1>2. CASE ~HasOpenTurn
  <2>1. /\ Emit(interruptDeltas(state), bb.turn) /\ abort' = abort /\ openTurn' = openTurn
        /\ Suffers(Upset("unheld", bb.turn # Idle /\ (HasOpenTurn => prime.kind = "compact")))
        /\ UNCHANGED <<compact, started, wire, told, prime, counts>>
    BY <1>2 DEF Interrupt
  <2> QED BY <1>2, <2>1, InterruptCloses
<1> QED BY <1>1, <1>2

-----------------------------------------------------------------------------
(* The wire drops: the lane fails its open turn, then the compaction bb     *)
(* asked for, then emits what an interrupt held.                            *)
Refusing == compact # Idle /\ ~started
MaySettle(x, b, S, run, claim, happens) ==
  (happens => Settlement(x, b, S, run, claim)) /\ (~happens => x = b)

FailureDone(a, x, st, b, run, happens) ==
  /\ MaySettle(x, b, st.openTextStreams, run, TRUE, happens)
  /\ x \in Timelines
  /\ a.state = IF happens THEN [st EXCEPT !.openTextStreams = {}] ELSE st
  /\ a.state \in ThreadState

LEMMA FailureDoes ==
  ASSUME NEW st \in ThreadState, NEW b \in Timelines, NEW run \in 0..MaxRuns, NEW happens \in BOOLEAN,
         NEW a, a = IF happens THEN failureDeltas(st) ELSE Answer(st, <<>>),
         NEW x, x = Assembled(b, a.deltas, run)
  PROVE  FailureDone(a, x, st, b, run, happens)
<1> DEFINE S == st.openTextStreams
           claim == TRUE
<1>1. claim \in BOOLEAN /\ S \in SUBSET Channels
  BY DEF ThreadState
<1>2. failureDeltas(st) = [state |-> [st EXCEPT !.openTextStreams = {}],
                           deltas |-> Append(Closes(S), Boundary(claim))]
  BY DEF failureDeltas, closeOpenStreams, Answer, Closes
<1>3. [st EXCEPT !.openTextStreams = {}] \in ThreadState
  BY DEF ThreadState
<1> HIDE DEF S, claim
<1>4. CASE happens
  <2>1. a.deltas = Append(Closes(S), Boundary(claim)) /\ a.state = [st EXCEPT !.openTextStreams = {}]
    BY <1>2, <1>4
  <2>5. Assembled(b, Append(Closes(S), Boundary(claim)), run) = Settled(b, S, run, claim)
    BY <1>1, AssemblesSettling
  <2>2. x = Settled(b, S, run, claim)
    BY <2>1, <2>5
  <2>3. Settlement(x, b, S, run, claim)
    BY <1>1, <2>2, Settles
  <2>4. x \in Timelines
    BY <2>3 DEF Settlement
  <2> QED BY <1>3, <1>4, <2>1, <2>3, <2>4 DEF MaySettle, FailureDone, S, claim
<1>5. CASE ~happens
  <2>1. a.deltas = <<>> /\ a.state = st
    BY <1>5 DEF Answer
  <2>2. x = b
    BY <2>1, AssemblesNone
  <2> QED BY <1>5, <2>1, <2>2 DEF MaySettle, FailureDone
<1> QED BY <1>4, <1>5

(* What one of the three does. *)
Settlings(x, b, run, claim, happens) ==
  /\ x.queue = b.queue /\ x.reshaped = b.reshaped
  /\ \A row \in x.rows : row \in b.rows
  /\ \A row \in b.rows : row.key \in Children => row \in x.rows
  /\ happens /\ b.turn # Idle => \A row \in x.rows : row.key \in Children \/ row.shape = "rendered"
  /\ x.turn \in {Idle, b.turn} /\ (happens => x.turn = Idle)
  /\ \A n \in x.closed : n \in b.closed \/ (n = b.turn /\ n # Idle) \/ (n = run /\ n # Idle)
  /\ ~claim => \A n \in x.closed : n \in b.closed \/ (n = b.turn /\ n # Idle)
  /\ b.turn \in {Idle, run} => (x.mixed <=> b.mixed)
  /\ (b.turn = Idle /\ claim => run \notin b.closed) => (x.twice <=> b.twice)

LEMMA MaySettleDoes ==
  ASSUME NEW b, NEW x, NEW S, NEW run, NEW claim \in BOOLEAN, NEW happens,
         MaySettle(x, b, S, run, claim, happens)
  PROVE  Settlings(x, b, run, claim, happens)
<1>1. CASE happens
  <2>1. /\ x.queue = b.queue /\ x.reshaped = b.reshaped
        /\ Bound(x, b, run, claim) /\ Drops(x, b)
    BY <1>1 DEF MaySettle, Settlement
  <2>2. /\ x.turn = Idle
        /\ \A n \in x.closed : n \in b.closed \/ (n = b.turn /\ n # Idle) \/ (n = run /\ n # Idle)
        /\ ~claim => \A n \in x.closed : n \in b.closed \/ (n = b.turn /\ n # Idle)
        /\ b.turn \in {Idle, run} => (x.mixed <=> b.mixed)
        /\ (b.turn = Idle /\ claim => run \notin b.closed) => (x.twice <=> b.twice)
    BY <2>1, BoundCloses
  <2>3. b.turn # Idle => \A row \in x.rows : row.key \in Children \/ row.shape = "rendered"
    BY <2>1 DEF Bound
  <2>4. /\ \A row \in x.rows : row \in b.rows
        /\ \A row \in b.rows : row.key \in Children => row \in x.rows
    BY <2>1 DEF Drops
  <2> QED BY <1>1, <2>1, <2>2, <2>3, <2>4 DEF Settlings
<1>2. CASE ~happens
  BY <1>2 DEF MaySettle, Settlings
<1> QED BY <1>1, <1>2

Lost ==
  /\ bb' \in Timelines /\ state' \in ThreadState /\ SameQueue /\ SameChildren
  /\ bb'.reshaped = bb.reshaped /\ state'.toolCalls = state.toolCalls
  /\ state'.compaction = state.compaction
  /\ SameChildRows /\ NoMoreRows /\ StartedRows
  /\ bb'.turn \in {Idle, bb.turn}
  /\ HasOpenTurn \/ Refusing \/ abort # NoAbort => bb'.turn = Idle
  /\ ~(HasOpenTurn \/ Refusing \/ abort # NoAbort) => bb' = bb
  /\ \A n \in bb'.closed : n \in bb.closed \/ n = bb.turn \/ (Refusing /\ n = compact)
  /\ (Refusing => bb.turn \in {Idle, compact}) /\ (abort # NoAbort => bb.turn \in {Idle, abort.turn})
       => (bb'.mixed <=> bb.mixed)
  /\ (Refusing => compact \notin bb.closed /\ compact # bb.turn) => (bb'.twice <=> bb.twice)
  /\ bb.turn # Idle /\ (HasOpenTurn \/ abort # NoAbort) => \A row \in bb'.rows : row.key \in Children \/ row.shape = "rendered"
  /\ \A row \in bb'.rows : ~Held(row.key)

LEMMA ConnectionLostClears ==
  ASSUME IInv, ConnectionLost PROVE Lost
<1>0. TypesInv
  BY DEF IInv
<1>1. state \in ThreadState /\ bb \in Timelines /\ bb.turn \in 0..MaxRuns /\ compact \in 0..MaxRuns
      /\ bb.closed \in SUBSET (1..MaxRuns) /\ Idle \notin bb.closed
  <2>1. state \in ThreadState /\ bb \in Timelines /\ compact \in 0..MaxRuns
    BY <1>0, Initially DEF TypesInv
  <2>2. bb.turn \in 0..MaxRuns /\ bb.closed \in SUBSET (1..MaxRuns)
    BY <2>1 DEF Timelines
  <2> QED BY <2>1, <2>2, BoundsAssumption DEF Idle
<1> DEFINE lost == IF HasOpenTurn THEN failureDeltas(state) ELSE Answer(state, <<>>)
           refused == IF Refusing THEN failureDeltas(lost.state) ELSE Answer(lost.state, <<>>)
           b1 == Assembled(bb, lost.deltas, bb.turn)
           b2 == Assembled(b1, refused.deltas, compact)
           claim == TRUE
           kept == FALSE
           opens == HasOpenTurn
           refuses == Refusing
           T == state.openTextStreams
           U == lost.state.openTextStreams
<1>2. state' = refused.state /\ bb' = EmitsInterrupt(b2)
  BY DEF ConnectionLost, FailsOpenTurn, FailsCompaction, Refusing
<1>3. claim \in BOOLEAN /\ claim /\ kept \in BOOLEAN /\ ~kept
      /\ opens \in BOOLEAN /\ refuses \in BOOLEAN
  BY DEF HasOpenTurn, Refusing
<1>4. /\ MaySettle(b1, bb, T, bb.turn, claim, opens) /\ b1 \in Timelines
      /\ lost.state = IF opens THEN [state EXCEPT !.openTextStreams = {}] ELSE state
      /\ lost.state \in ThreadState
  <2> DEFINE a == lost
             x == b1
             run == bb.turn
  <2>1. /\ a = IF opens THEN failureDeltas(state) ELSE Answer(state, <<>>)
        /\ x = Assembled(bb, a.deltas, run) /\ run \in 0..MaxRuns
    BY <1>1
  <2> HIDE DEF a, x, run, opens
  <2>2. FailureDone(a, x, state, bb, run, opens)
    BY <1>1, <1>3, <2>1, FailureDoes
  <2> QED BY <2>2 DEF a, x, run, FailureDone
<1>5. /\ MaySettle(b2, b1, U, compact, claim, refuses) /\ b2 \in Timelines
      /\ refused.state = IF refuses THEN [lost.state EXCEPT !.openTextStreams = {}] ELSE lost.state
      /\ refused.state \in ThreadState
  <2> DEFINE a == refused
             x == b2
             st == lost.state
             b == b1
  <2>1. /\ a = IF refuses THEN failureDeltas(st) ELSE Answer(st, <<>>)
        /\ x = Assembled(b, a.deltas, compact) /\ st \in ThreadState /\ b \in Timelines
    BY <1>4
  <2> HIDE DEF a, x, st, b, refuses
  <2>2. FailureDone(a, x, st, b, compact, refuses)
    BY <1>1, <1>3, <2>1, FailureDoes
  <2> QED BY <2>2 DEF a, x, st, b, FailureDone
<1> HIDE DEF b1, b2, claim, kept, opens, refuses, T, U
<1>6. /\ bb' \in Timelines
      /\ \E V : MaySettle(bb', b2, V, abort.turn, kept, abort # NoAbort)
      /\ abort # NoAbort => \A row \in bb'.rows : ~Held(row.key)
  <2>1. CASE abort = NoAbort
    <3>1. bb' = b2
      BY <1>2, <2>1, AssemblesNone DEF EmitsInterrupt, NoAbort
    <3> QED BY <1>5, <2>1, <3>1 DEF MaySettle
  <2>2. CASE abort # NoAbort
    <3> DEFINE x == bb'
               none == {}
    <3>1. x = EmitsInterrupt(b2)
      BY <1>2
    <3> HIDE DEF x
    <3>2. /\ x \in Timelines /\ x.queue = b2.queue /\ x.reshaped = b2.reshaped
          /\ Bound(x, b2, abort.turn, FALSE) /\ Drops(x, b2)
          /\ \A row \in x.rows : ~Held(row.key)
      BY <1>0, <1>5, <2>2, <3>1, AbortEmits
    <3>3. \A row \in x.rows : row.key \notin none
      OBVIOUS
    <3> HIDE DEF none
    <3>4. Settlement(x, b2, none, abort.turn, kept)
      BY <3>2, <3>3 DEF Settlement, kept
    <3>5. MaySettle(x, b2, none, abort.turn, kept, abort # NoAbort)
      BY <2>2, <3>4 DEF MaySettle
    <3> QED BY <3>2, <3>5 DEF x
  <2> QED BY <2>1, <2>2
<1>7. PICK V : MaySettle(bb', b2, V, abort.turn, kept, abort # NoAbort)
  BY <1>6
<1>11. /\ b1.queue = bb.queue /\ b1.reshaped = bb.reshaped
       /\ \A row \in b1.rows : row \in bb.rows
       /\ \A row \in bb.rows : row.key \in Children => row \in b1.rows
       /\ opens /\ bb.turn # Idle => \A row \in b1.rows : row.key \in Children \/ row.shape = "rendered"
       /\ b1.turn \in {Idle, bb.turn} /\ (opens => b1.turn = Idle)
       /\ \A n \in b1.closed : n \in bb.closed \/ (n = bb.turn /\ n # Idle)
       /\ (b1.mixed <=> bb.mixed)
       /\ (b1.twice <=> bb.twice)
  <2>1. Settlings(b1, bb, bb.turn, claim, opens)
    BY <1>3, <1>4, MaySettleDoes
  <2> QED BY <1>1, <2>1 DEF Settlings
<1>12. /\ b2.queue = b1.queue /\ b2.reshaped = b1.reshaped
       /\ \A row \in b2.rows : row \in b1.rows
       /\ \A row \in b1.rows : row.key \in Children => row \in b2.rows
       /\ b2.turn \in {Idle, b1.turn} /\ (refuses => b2.turn = Idle)
       /\ \A n \in b2.closed : n \in b1.closed \/ (n = b1.turn /\ n # Idle) \/ (n = compact /\ n # Idle)
       /\ b1.turn \in {Idle, compact} => (b2.mixed <=> b1.mixed)
       /\ (b1.turn = Idle /\ claim => compact \notin b1.closed) => (b2.twice <=> b1.twice)
       /\ refuses /\ b1.turn # Idle => \A row \in b2.rows : row.key \in Children \/ row.shape = "rendered"
       /\ ~refuses => b2 = b1
  <2>1. ~refuses => b2 = b1
    BY <1>5 DEF MaySettle
  <2>2. Settlings(b2, b1, compact, claim, refuses)
    BY <1>3, <1>5, MaySettleDoes
  <2> QED BY <2>1, <2>2 DEF Settlings
<1>13. /\ bb'.queue = b2.queue /\ bb'.reshaped = b2.reshaped
       /\ \A row \in bb'.rows : row \in b2.rows
       /\ \A row \in b2.rows : row.key \in Children => row \in bb'.rows
       /\ abort # NoAbort /\ b2.turn # Idle => \A row \in bb'.rows : row.key \in Children \/ row.shape = "rendered"
       /\ bb'.turn \in {Idle, b2.turn} /\ (abort # NoAbort => bb'.turn = Idle)
       /\ \A n \in bb'.closed : n \in b2.closed \/ (n = b2.turn /\ n # Idle)
       /\ b2.turn \in {Idle, abort.turn} => (bb'.mixed <=> b2.mixed)
       /\ (bb'.twice <=> b2.twice)
       /\ abort = NoAbort => bb' = b2
  <2>1. abort = NoAbort => bb' = b2
    BY <1>7 DEF MaySettle
  <2>2. Settlings(bb', b2, abort.turn, kept, abort # NoAbort)
    BY <1>3, <1>7, MaySettleDoes
  <2> QED BY <1>3, <2>1, <2>2 DEF Settlings
<1>14. ~opens => b1 = bb
  BY <1>4 DEF MaySettle
<1>21. /\ state' \in ThreadState /\ state'.toolCalls = state.toolCalls
       /\ state'.compaction = state.compaction
       /\ state'.queuePayload = state.queuePayload
       /\ state'.openDelegations = state.openDelegations
  <2>1. /\ state' \in ThreadState
        /\ state' = IF refuses THEN [lost.state EXCEPT !.openTextStreams = {}] ELSE lost.state
        /\ lost.state = IF opens THEN [state EXCEPT !.openTextStreams = {}] ELSE state
    BY <1>2, <1>4, <1>5
  <2> HIDE DEF lost, refused
  <2>2. /\ lost.state.toolCalls = state.toolCalls
        /\ lost.state.compaction = state.compaction
        /\ lost.state.queuePayload = state.queuePayload
        /\ lost.state.openDelegations = state.openDelegations
    BY <1>1, <2>1 DEF ThreadState
  <2>3. /\ state'.toolCalls = lost.state.toolCalls
        /\ state'.compaction = lost.state.compaction
        /\ state'.queuePayload = lost.state.queuePayload
        /\ state'.openDelegations = lost.state.openDelegations
    BY <1>4, <2>1 DEF ThreadState
  <2> QED BY <2>1, <2>2, <2>3
<1> HIDE DEF lost, refused
<1>22. /\ \A row \in bb'.rows : row \in bb.rows
       /\ \A row \in bb.rows : row.key \in Children => row \in bb'.rows
       /\ bb'.queue = bb.queue /\ bb'.reshaped = bb.reshaped
  BY <1>11, <1>12, <1>13
<1>23. SameChildRows /\ NoMoreRows /\ StartedRows
  <2>1. Drops(bb', bb)
    BY <1>22 DEF Drops
  <2> QED BY <2>1, DropsRows
<1>24. /\ bb'.turn \in {Idle, bb.turn}
       /\ opens \/ refuses \/ abort # NoAbort => bb'.turn = Idle
       /\ ~(opens \/ refuses \/ abort # NoAbort) => bb' = bb
  BY <1>11, <1>12, <1>13, <1>14
<1>25. \A n \in bb'.closed : n \in bb.closed \/ n = bb.turn \/ (refuses /\ n = compact)
  BY <1>11, <1>12, <1>13
<1>26. (refuses => bb.turn \in {Idle, compact}) /\ (abort # NoAbort => bb.turn \in {Idle, abort.turn})
         => (bb'.mixed <=> bb.mixed)
  <2> SUFFICES ASSUME refuses => bb.turn \in {Idle, compact},
                      abort # NoAbort => bb.turn \in {Idle, abort.turn}
               PROVE  bb'.mixed <=> bb.mixed
    OBVIOUS
  <2>1. b2.mixed <=> b1.mixed
    BY <1>11, <1>12
  <2>2. bb'.mixed <=> b2.mixed
    BY <1>11, <1>12, <1>13
  <2> QED BY <1>11, <2>1, <2>2
<1>27. (refuses => compact \notin bb.closed /\ compact # bb.turn) => (bb'.twice <=> bb.twice)
  <2> SUFFICES ASSUME refuses => compact \notin bb.closed /\ compact # bb.turn
               PROVE  bb'.twice <=> bb.twice
    OBVIOUS
  <2>1. refuses => compact \notin b1.closed
    BY <1>11
  <2>2. b2.twice <=> b1.twice
    BY <1>12, <2>1
  <2> QED BY <1>11, <1>13, <2>2
<1>28. bb.turn # Idle /\ (opens \/ abort # NoAbort) => \A row \in bb'.rows : row.key \in Children \/ row.shape = "rendered"
  <2>1. CASE bb.turn # Idle /\ opens
    BY <1>11, <1>12, <1>13, <2>1
  <2>2. CASE bb.turn # Idle /\ ~opens /\ abort # NoAbort /\ b2.turn # Idle
    BY <1>13, <2>2
  <2>3. CASE bb.turn # Idle /\ ~opens /\ b2.turn = Idle
    <3>1. refuses /\ b1.turn # Idle
      BY <1>12, <1>14, <2>3
    <3> QED BY <1>12, <1>13, <3>1
  <2> QED BY <2>1, <2>2, <2>3
<1>29. \A row \in bb'.rows : ~Held(row.key)
  <2>1. CASE abort # NoAbort
    BY <1>6, <2>1
  <2>2. CASE abort = NoAbort
    BY <2>2, HoldingAborts, BoundsAssumption DEF Held
  <2> QED BY <2>1, <2>2
<1> QED BY <1>6, <1>21, <1>22, <1>23, <1>24, <1>25, <1>26, <1>27, <1>28, <1>29
        DEF Lost, SameQueue, SameChildren, opens, refuses

LEMMA ConnectionLostStep == ASSUME IInv, ConnectionLost PROVE IInv'
<1>0. /\ TypesInv /\ NumbersInv /\ RunsInv /\ QueueInv /\ ChildrenInv
      /\ OwnedInv /\ RowsInv /\ UnmixedInv /\ ShapesInv /\ OnceInv
  BY DEF IInv
<1>1. state \in ThreadState /\ bb \in Timelines /\ prime \in Primes /\ counts \in Tallies
      /\ upset \subseteq Upsets /\ prime.last \in Nat
  <2>1. state \in ThreadState /\ bb \in Timelines /\ prime \in Primes /\ counts \in Tallies
        /\ upset \subseteq Upsets
    BY <1>0, Initially
  <2> QED BY <2>1, BoundsAssumption DEF Primes
<1>2. /\ wire = "up" /\ wire' = "down" /\ told' = FALSE /\ abort' = NoAbort /\ compact' = Idle
      /\ openTurn' = (IF HasOpenTurn THEN "settled" ELSE openTurn)
      /\ started' = started /\ prime' = prime
      /\ counts' = [counts EXCEPT !.drops = @ + 1]
  BY DEF ConnectionLost, FailsOpenTurn
<1>3. /\ MoreUpset /\ upset' \subseteq Upsets
      /\ HasOpenTurn \/ abort # NoAbort => prime.run \in {Idle, bb.turn} \/ "cut" \in upset'
      /\ ~(HasOpenTurn \/ abort # NoAbort) => {bb.turn, prime.run} = {Idle} \/ "cut" \in upset'
      /\ HasOpenTurn /\ prime.kind = "compact" => "unheld" \in upset'
      /\ compact # Idle /\ CompactionIsMoot => "refused" \in upset'
  <2> DEFINE cuts == IF HasOpenTurn \/ abort # NoAbort
                     THEN prime.run \notin {Idle, bb.turn}
                     ELSE {bb.turn, prime.run} # {Idle}
             claims == HasOpenTurn /\ prime.kind = "compact"
             moot == compact # Idle /\ CompactionIsMoot
  <2>1. upset' = upset \cup (Upset("cut", cuts) \cup Upset("unheld", claims) \cup Upset("refused", moot))
    BY DEF ConnectionLost, Suffers
  <2> HIDE DEF cuts, claims, moot
  <2>2. /\ MoreUpset /\ upset' \subseteq Upsets
        /\ cuts => "cut" \in upset'
        /\ claims => "unheld" \in upset'
        /\ moot => "refused" \in upset'
    BY <1>1, <2>1 DEF MoreUpset, Upset, Upsets
  <2>3. /\ HasOpenTurn \/ abort # NoAbort => prime.run \in {Idle, bb.turn} \/ cuts
        /\ ~(HasOpenTurn \/ abort # NoAbort) => {bb.turn, prime.run} = {Idle} \/ cuts
    BY DEF cuts
  <2> QED BY <2>2, <2>3 DEF claims, moot
<1>4. Lost
  BY ConnectionLostClears
<1>5. /\ bb' \in Timelines /\ state' \in ThreadState /\ SameQueue /\ SameChildren
      /\ bb'.reshaped = bb.reshaped /\ state'.toolCalls = state.toolCalls
      /\ state'.compaction = state.compaction
      /\ SameChildRows /\ NoMoreRows /\ StartedRows
      /\ bb'.turn \in {Idle, bb.turn}
  BY <1>4 DEF Lost
<1>6. /\ HasOpenTurn \/ Refusing \/ abort # NoAbort => bb'.turn = Idle
      /\ ~(HasOpenTurn \/ Refusing \/ abort # NoAbort) => bb' = bb
      /\ \A n \in bb'.closed : n \in bb.closed \/ n = bb.turn \/ (Refusing /\ n = compact)
  BY <1>4 DEF Lost
<1>7. ASSUME ~("refused" \in upset'), Refusing
      PROVE  /\ compact = prime.asked /\ compact # bb.turn
             /\ prime.run \in {Idle, compact} /\ bb.turn \in {Idle, compact}
             /\ prime.kind = "none"
  <2>1. compact # Idle /\ ~started /\ ~CompactionIsMoot
    BY <1>3, <1>7 DEF Refusing
  <2>2. compact \in {prime.asked, prime.run}
        /\ prime.run \in {Idle, compact} /\ bb.turn \in {Idle, compact}
    BY <2>1 DEF CompactionIsMoot, Compacted
  <2>3. prime.run # compact
    BY <1>0, <2>1 DEF RunsInv
  <2> QED BY <1>0, <2>1, <2>2, <2>3 DEF RunsInv
<1>21. TypesInv'
  <2>1. openTurn' \in {"none", "open", "settled"} /\ compact' \in 0..MaxRuns /\ counts' \in Tallies
    <3>1. counts' \in Tallies
      BY <1>1, <1>2 DEF Tallies
    <3>2. compact' \in 0..MaxRuns
      BY <1>2, BoundsAssumption DEF Idle
    <3> QED BY <1>0, <1>2, <3>1, <3>2 DEF TypesInv
  <2> QED BY <1>0, <1>2, <1>3, <1>5, <2>1 DEF TypesInv
<1>22. NumbersInv'
  <2>1. abort'.turn = -1
    BY <1>2 DEF NoAbort
  <2> QED BY <1>0, <1>1, <1>2, <1>5, <1>6, <2>1, BoundNumbers
<1>23. RunsInv'
  BY <1>0, <1>2, <1>5 DEF RunsInv
<1>24. QueueInv'
  <2>1. state'.queuePayload = bb'.queue \/ (state'.queuePayload = Undefined /\ bb'.queue = Drained)
    BY <1>0, <1>5 DEF QueueInv, SameQueue
  <2> QED BY <1>2, <2>1 DEF QueueInv
<1>25. ChildrenInv'
  BY <1>0, <1>2, <1>3, <1>5, ChildrenKept
<1>26. OwnedInv'
  <2>1. ASSUME Spared({"cut"})' PROVE bb'.turn = Idle
    <3>1. HasOpenTurn \/ abort # NoAbort \/ bb.turn = Idle
      BY <1>3, <2>1 DEF Spared
    <3> QED BY <1>5, <1>6, <3>1
  <2>2. Spared({"unowned", "cut"})' => Spared({"cut"})'
    BY DEF Spared
  <2> QED BY <2>1, <2>2 DEF OwnedInv, DownIsIdle
<1>27. RowsInv'
  <2> SUFFICES ASSUME Spared({"cut"})'
               PROVE  \A key \in Channels \cup Tools : ~HasRow(key)'
    BY DEF RowsInv
  <2>1. /\ \A c \in Channels : HasRow(c) =>
             Held(c) \/ (c \in state.openTextStreams /\ prime.kind = "prompt")
        /\ \A tool \in Tools : HasRow(tool) => tool \in prime.tools
    BY <1>0, <1>3, SparedBefore DEF RowsInv
  <2>2. CASE bb.turn # Idle
    <3>1. HasOpenTurn \/ abort # NoAbort
      BY <1>3, <2>2 DEF Spared
    <3>2. \A row \in bb'.rows : row.key \in Children \/ row.shape = "rendered"
      BY <1>4, <2>2, <3>1 DEF Lost
    <3> QED BY <3>2, KeysAssumption DEF HasRow
  <2>3. CASE bb.turn = Idle
    <3>1. prime.run = Idle
      BY <1>3, <2>3 DEF Spared
    <3>2. prime.kind = "none" /\ prime.tools = {}
      BY <1>0, <3>1 DEF RunsInv
    <3>3. \A key : HasRow(key)' => ~Held(key)
      BY <1>4 DEF Lost, HasRow
    <3> QED BY <1>5, <2>1, <3>2, <3>3 DEF NoMoreRows
  <2> QED BY <2>2, <2>3
<1>28. UnmixedInv'
  <2> SUFFICES ASSUME Spared({"crossing", "cut", "refused"})'
               PROVE  ~bb'.mixed /\ bb'.turn = Idle
    BY <1>2 DEF UnmixedInv, DownIsIdle
  <2>1. ~("cut" \in upset') /\ ~("refused" \in upset')
    BY DEF Spared
  <2>2. bb'.turn = Idle
    BY <1>3, <1>5, <1>6, <2>1
  <2>3. ~bb.mixed /\ (abort # NoAbort => bb.turn \in {Idle, abort.turn})
    BY <1>0, <1>3, SparedBefore DEF UnmixedInv
  <2>4. (Refusing => bb.turn \in {Idle, compact}) /\ (abort # NoAbort => bb.turn \in {Idle, abort.turn})
          => (bb'.mixed <=> bb.mixed)
    BY <1>4 DEF Lost
  <2> QED BY <1>7, <2>1, <2>2, <2>3, <2>4
<1>29. ShapesInv'
  BY <1>0, <1>3, <1>5, ShapesKept
<1>30. OnceInv'
  <2> SUFFICES ASSUME Spared({"reprompt", "crossing", "unheld", "refused", "blind"})'
               PROVE  /\ ~bb'.twice
                      /\ prime.kind = "prompt" /\ prime.run \in bb'.closed => openTurn' = "settled"
                      /\ prime.kind = "compact" => bb'.turn = prime.run
    BY <1>2 DEF OnceInv
  <2>1. /\ ~bb.twice
        /\ prime.kind = "prompt" /\ prime.run \in bb.closed => openTurn = "settled"
        /\ abort # NoAbort => openTurn = "settled" \/ prime.run = Idle
        /\ prime.kind = "compact" => bb.turn = prime.run /\ abort = NoAbort
        /\ compact = prime.asked /\ compact # Idle => compact \notin bb.closed
    BY <1>0, <1>3, SparedBefore DEF OnceInv
  <2>2. ~("refused" \in upset') /\ ~("unheld" \in upset')
    BY DEF Spared
  <2>3. ~bb'.twice
    <3>1. Refusing => compact \notin bb.closed /\ compact # bb.turn
      BY <1>7, <2>1, <2>2 DEF Refusing
    <3>2. (Refusing => compact \notin bb.closed /\ compact # bb.turn) => (bb'.twice <=> bb.twice)
      BY <1>4 DEF Lost
    <3> QED BY <2>1, <3>1, <3>2
  <2>4. prime.kind = "prompt" => prime.run # Idle
    BY <1>0 DEF RunsInv
  <2>5. ASSUME prime.kind = "prompt", prime.run \in bb'.closed PROVE openTurn' = "settled"
    <3>1. CASE HasOpenTurn \/ abort # NoAbort
      BY <1>2, <2>1, <2>4, <2>5, <3>1
    <3>2. CASE ~HasOpenTurn /\ abort = NoAbort
      <4>1. ~Refusing
        BY <1>7, <2>2, <2>5
      <4>2. bb' = bb
        BY <1>6, <3>2, <4>1
      <4> QED BY <1>2, <2>1, <2>5, <3>2, <4>2
    <3> QED BY <3>1, <3>2
  <2>6. ASSUME prime.kind = "compact" PROVE bb'.turn = prime.run
    <3>1. ~Refusing /\ abort = NoAbort /\ ~HasOpenTurn
      BY <1>3, <1>7, <2>1, <2>2, <2>6
    <3> QED BY <1>6, <2>1, <2>6, <3>1
  <2> QED BY <2>3, <2>5, <2>6
<1> QED BY <1>21, <1>22, <1>23, <1>24, <1>25, <1>26, <1>27, <1>28, <1>29, <1>30 DEF IInv

-----------------------------------------------------------------------------
(* What the lane shows as it attaches. *)
LEMMA SeqWider ==
  ASSUME NEW S, NEW U, S \subseteq U, NEW s \in Seq(S)
  PROVE  s \in Seq(U)
<1>1. Len(s) \in Nat /\ s \in [1..Len(s) -> S]
  BY LenProperties
<1>2. s \in [1..Len(s) -> U]
  BY <1>1
<1> QED BY <1>1, <1>2, SeqDef

(* What every delta of a sequence leaves true, the sequence does. *)
LEMMA AssemblesWithin ==
  ASSUME NEW G, NEW D, NEW run, NEW b \in G, NEW s \in Seq(D),
         \A x \in G, d \in D : Apply(run, x, d) \in G
  PROVE  Assembled(b, s, run) \in G
<1> DEFINE n == Len(s)
           e(x, d) == Apply(run, x, d)
<1>1. n \in Nat /\ \A i \in 1..n : s[i] \in D
  BY LenProperties
<1>2. PICK h : Folding(h, b, s, run)
  BY <1>1, FoldExists
<1>3. h = [i \in 0..n |-> IF i = 0 THEN b ELSE e(h[i - 1], s[i])]
  BY <1>2 DEF Folding
<1>4. \A x \in G, d \in D : e(x, d) \in G
  OBVIOUS
<1>8. Assembled(b, s, run) = h[n]
  BY <1>1, <1>2, FoldIsOne
<1> HIDE DEF e, n
<1> DEFINE T == {i \in Nat : i <= n => h[i] \in G}
<1>5. 0 \in T
  <2>1. 0 \in 0..n
    BY <1>1
  <2> QED BY <1>3, <2>1
<1>6. ASSUME NEW i \in Nat, i \in T PROVE i + 1 \in T
  <2>1. SUFFICES ASSUME i + 1 <= n PROVE h[i + 1] \in G
    OBVIOUS
  <2>2. i + 1 \in 0..n /\ i + 1 \in 1..n /\ i + 1 # 0 /\ (i + 1) - 1 = i /\ i <= n
    BY <1>1, <2>1
  <2>3. h[i] \in G /\ s[i + 1] \in D
    BY <1>1, <1>6, <2>2
  <2>4. h[i + 1] = e(h[i], s[i + 1])
    BY <1>3, <2>2
  <2> QED BY <1>4, <2>3, <2>4
<1>7. n \in T
  <2> HIDE DEF T
  <2> QED BY <1>1, <1>5, <1>6, Counting
<1> QED BY <1>7, <1>8

(* The children, one by one. *)
ChildAdded(a, child, status) ==
  LET d == childDeltas(a.state, child, status[child])
  IN Answer(d.state, a.deltas \o d.deltas)
Adding(h, st, status, order) ==
  h = [i \in 0..Len(order) |->
         IF i = 0 THEN Answer(st, <<>>) ELSE ChildAdded(h[i - 1], order[i], status)]

LEMMA AddingExists ==
  ASSUME NEW st, NEW status, NEW order, Len(order) \in Nat
  PROVE  \E h : Adding(h, st, status, order)
<1> DEFINE b == Answer(st, <<>>)
           e(i, x) == ChildAdded(x, order[i], status)
           Adds(h, n) == h = [i \in 0..n |-> IF i = 0 THEN b ELSE e(i, h[i - 1])]
           T == {n \in Nat : \E h : Adds(h, n)}
<1> HIDE DEF b, e
<1>1. 0 \in T
  <2> DEFINE h == [i \in 0..0 |-> b]
  <2>1. h = [i \in 0..0 |-> IF i = 0 THEN b ELSE e(i, h[i - 1])]
    OBVIOUS
  <2> QED BY <2>1
<1>2. ASSUME NEW n \in Nat, n \in T PROVE n + 1 \in T
  <2>2. PICK g : g = [i \in 0..n |-> IF i = 0 THEN b ELSE e(i, g[i - 1])]
    BY <1>2
  <2> DEFINE h == [i \in 0..(n + 1) |-> IF i = n + 1 THEN e(i, g[n]) ELSE g[i]]
  <2>3. h = [i \in 0..(n + 1) |-> IF i = n + 1 THEN e(i, g[n]) ELSE g[i]]
    OBVIOUS
  <2> HIDE DEF h
  <2>4. \A i \in 0..n : h[i] = g[i] /\ i # n + 1
    BY <2>3
  <2>5. h[n + 1] = e(n + 1, h[n])
    BY <2>3, <2>4
  <2>6. \A i \in 0..(n + 1) : h[i] = IF i = 0 THEN b ELSE e(i, h[i - 1])
    <3>1. SUFFICES ASSUME NEW i \in 0..(n + 1)
                   PROVE  h[i] = IF i = 0 THEN b ELSE e(i, h[i - 1])
      OBVIOUS
    <3>2. CASE i = n + 1
      <4>1. i - 1 = n /\ i # 0
        BY <3>2
      <4> QED BY <2>5, <3>2, <4>1
    <3>3. CASE i # n + 1
      <4>1. i \in 0..n /\ (i # 0 => i - 1 \in 0..n)
        BY <3>3
      <4>2. h[i] = IF i = 0 THEN b ELSE e(i, g[i - 1])
        BY <2>2, <2>4, <4>1
      <4>3. i # 0 => h[i - 1] = g[i - 1]
        BY <2>4, <4>1
      <4> QED BY <4>2, <4>3
    <3> QED BY <3>2, <3>3
  <2>7. h = [i \in 0..(n + 1) |-> IF i = 0 THEN b ELSE e(i, h[i - 1])]
    <3>1. h = [i \in 0..(n + 1) |-> h[i]]
      BY <2>3
    <3> QED BY <2>6, <3>1
  <2>8. Adds(h, n + 1)
    BY <2>7
  <2> HIDE DEF Adds
  <2> QED BY <2>8
<1>3. Len(order) \in T
  <2> HIDE DEF T
  <2> QED BY <1>1, <1>2, Counting
<1>4. PICK h : Adds(h, Len(order))
  BY <1>3
<1>5. Adding(h, st, status, order)
  BY <1>4 DEF Adding, b, e
<1> QED BY <1>5

LEMMA AddsChildren ==
  ASSUME NEW st, NEW status, Len(SetToSeq(DOMAIN status)) \in Nat
  PROVE  \E h : /\ Adding(h, st, status, SetToSeq(DOMAIN status))
                /\ childrenDeltas(st, status) = h[Len(SetToSeq(DOMAIN status))]
<1> DEFINE order == SetToSeq(DOMAIN status)
           f == CHOOSE g : g = [i \in 0..Len(order) |->
                  IF i = 0 THEN Answer(st, <<>>)
                  ELSE LET d == childDeltas(g[i - 1].state, order[i], status[order[i]])
                       IN Answer(d.state, g[i - 1].deltas \o d.deltas)]
<1>1. PICK h : Adding(h, st, status, order)
  BY AddingExists
<1>2. h = [i \in 0..Len(order) |->
             IF i = 0 THEN Answer(st, <<>>)
             ELSE LET d == childDeltas(h[i - 1].state, order[i], status[order[i]])
                  IN Answer(d.state, h[i - 1].deltas \o d.deltas)]
  BY <1>1 DEF Adding, ChildAdded
<1>3. f = [i \in 0..Len(order) |->
             IF i = 0 THEN Answer(st, <<>>)
             ELSE LET d == childDeltas(f[i - 1].state, order[i], status[order[i]])
                  IN Answer(d.state, f[i - 1].deltas \o d.deltas)]
  BY <1>2
<1>4. childrenDeltas(st, status) = f[Len(order)]
  BY DEF childrenDeltas
<1> HIDE DEF f
<1>5. Adding(f, st, status, order)
  BY <1>3 DEF Adding, ChildAdded
<1> QED BY <1>4, <1>5

ChildDeltas == {Open(c, "started") : c \in Children} \cup {Close(c, "started") : c \in Children}

(* What is shown of some children: a row each for those that are held open. *)
Shown(a, x, b, held) ==
  /\ a.state \in ThreadState /\ a.deltas \in Seq(ChildDeltas)
  /\ a.state.toolCalls = {} /\ a.state.openTextStreams = {}
  /\ a.state.compaction = "none" /\ a.state.queuePayload = Undefined
  /\ a.state.openDelegations = held
  /\ x \in Timelines
  /\ x.turn = b.turn /\ x.closed = b.closed /\ x.mixed = b.mixed
  /\ x.twice = b.twice /\ x.queue = b.queue /\ x.reshaped = b.reshaped
  /\ \A row \in x.rows : (row \in b.rows \/ row.key \in Children) /\ row.shape # "named"
  /\ \A c \in Children : (\E row \in x.rows : row.key = c) <=> c \in held

LEMMA OneMoreShown ==
  ASSUME NEW a, NEW x, NEW b, NEW held, Shown(a, x, b, held), NEW c \in Children, NEW status,
         NEW d, NEW y, ChildApplied(a.state, x, c, status, d, y)
  PROVE  Shown(Answer(d.state, a.deltas \o d.deltas), y, b,
               IF status \in Live THEN held \cup {c} ELSE held \ {c})
<1> DEFINE new == Answer(d.state, a.deltas \o d.deltas)
           now == IF status \in Live THEN held \cup {c} ELSE held \ {c}
           row0 == [key |-> c, shape |-> "started"]
<1>1. new.state = d.state /\ new.deltas = a.deltas \o d.deltas
  BY DEF Answer
<1> HIDE DEF new
<1>2. new.deltas \in Seq(ChildDeltas)
  <2> DEFINE two == {Open(c, "started"), Close(c, "started")}
             S == ChildDeltas
             s == d.deltas
  <2>1. two \subseteq S
    BY DEF ChildDeltas
  <2>2. s \in Seq(two) /\ a.deltas \in Seq(S)
    BY DEF ChildApplied, Shown
  <2> HIDE DEF two, S
  <2>3. s \in Seq(S)
    BY <2>1, <2>2, SeqWider
  <2> HIDE DEF s
  <2>4. a.deltas \o s \in Seq(S)
    BY <2>2, <2>3
  <2> QED BY <1>1, <2>4 DEF S, s
<1>3. /\ d.state \in ThreadState /\ y \in Timelines
      /\ d.state.toolCalls = {} /\ d.state.compaction = "none"
      /\ d.state.openTextStreams = {} /\ d.state.queuePayload = Undefined
      /\ y.turn = b.turn /\ y.closed = b.closed /\ y.mixed = b.mixed
      /\ y.twice = b.twice /\ y.queue = b.queue /\ y.reshaped = b.reshaped
  BY DEF ChildApplied, Shown
<1>4. /\ \A row \in x.rows : (row \in b.rows \/ row.key \in Children) /\ row.shape # "named"
      /\ \A k \in Children : (\E row \in x.rows : row.key = k) <=> k \in held
      /\ a.state.openDelegations = held /\ x \in Timelines /\ x.rows \subseteq Rows
  BY DEF Shown, Timelines
<1>5. row0 \in Rows /\ row0.key = c /\ row0.shape = "started"
      /\ \A row \in Rows : row \in KeyIs(c) <=> row.key = c
  BY DEF Rows, KeyIs
<1> HIDE DEF row0
<1>6. CASE status \in Live
  <2>1. /\ d.state.openDelegations = now
        /\ c \in held => y.rows = x.rows
        /\ c \notin held => y.rows = (x.rows \ KeyIs(c)) \cup {row0}
    BY <1>4, <1>6 DEF ChildApplied, row0
  <2>2. \A row \in y.rows : (row \in b.rows \/ row.key \in Children) /\ row.shape # "named"
    BY <1>4, <1>5, <2>1
  <2>3. \A k \in Children : (\E row \in y.rows : row.key = k) <=> k \in now
    <3>1. CASE c \in held
      BY <1>4, <1>6, <2>1, <3>1
    <3>2. CASE c \notin held
      <4>1. \A k \in Children : k # c => ((\E row \in y.rows : row.key = k) <=> k \in held)
        BY <1>4, <1>5, <2>1, <3>2
      <4>2. \E row \in y.rows : row.key = c
        BY <1>5, <2>1, <3>2
      <4> QED BY <1>6, <4>1, <4>2
    <3> QED BY <3>1, <3>2
  <2> QED BY <1>1, <1>2, <1>3, <2>1, <2>2, <2>3 DEF Shown, new
<1>7. CASE status \notin Live
  <2>1. d.state.openDelegations = now /\ y.rows = x.rows \ KeyIs(c)
    BY <1>4, <1>7 DEF ChildApplied
  <2>2. \A row \in y.rows : (row \in b.rows \/ row.key \in Children) /\ row.shape # "named"
    BY <1>4, <2>1
  <2>3. \A k \in Children : (\E row \in y.rows : row.key = k) <=> k \in now
    BY <1>4, <1>5, <1>7, <2>1
  <2> QED BY <1>1, <1>2, <1>3, <2>1, <2>2, <2>3 DEF Shown, new
<1> QED BY <1>6, <1>7

LEMMA ChildrenShown ==
  ASSUME NEW b \in Timelines, NEW status, DOMAIN status \subseteq Children, NEW run,
         \A row \in b.rows : row.key \notin Children /\ row.shape # "named"
  PROVE  Shown(childrenDeltas(stateFor, status),
               Assembled(b, childrenDeltas(stateFor, status).deltas, run), b,
               {c \in DOMAIN status : status[c] \in Live})
<1> DEFINE order == SetToSeq(DOMAIN status)
           n == Len(order)
           Live0(i) == {c \in DOMAIN status : status[c] \in Live /\ \E j \in 1..i : order[j] = c}
<1>1. IsFiniteSet(DOMAIN status)
  BY KeysAssumption, FS_Subset
<1>2. /\ n \in Nat
      /\ \A i \in 1..n : order[i] \in DOMAIN status
      /\ \A c \in DOMAIN status : \E i \in 1..n : order[i] = c
  BY <1>1, SetAsSequence
<1>3. PICK h : /\ Adding(h, stateFor, status, order)
               /\ childrenDeltas(stateFor, status) = h[n]
  BY <1>2, AddsChildren
<1> HIDE DEF order, n
<1> DEFINE e(i, x) == ChildAdded(x, order[i], status)
<1>4. h = [i \in 0..n |-> IF i = 0 THEN Answer(stateFor, <<>>) ELSE e(i, h[i - 1])]
  BY <1>3 DEF Adding, n
<1> DEFINE T == {i \in Nat : i <= n => Shown(h[i], Assembled(b, h[i].deltas, run), b, Live0(i))}
<1>5. 0 \in T
  <2> DEFINE a == Answer(stateFor, <<>>)
  <2>1. h[0] = a
    BY <1>2, <1>4
  <2>2. Assembled(b, <<>>, run) = b
    BY AssemblesNone
  <2>3. a.state = stateFor /\ a.deltas = <<>>
    BY DEF Answer
  <2> HIDE DEF a
  <2>4. Live0(0) = {}
    OBVIOUS
  <2>5. a.deltas \in Seq(ChildDeltas)
    BY <2>3
  <2>6. /\ a.state \in ThreadState
        /\ a.state.toolCalls = {} /\ a.state.openTextStreams = {}
        /\ a.state.compaction = "none" /\ a.state.queuePayload = Undefined
        /\ a.state.openDelegations = {}
    BY <2>3 DEF stateFor, ThreadState
  <2>7. Shown(a, b, b, {})
    BY <2>5, <2>6 DEF Shown
  <2> QED BY <2>1, <2>2, <2>3, <2>4, <2>7
<1>6. ASSUME NEW i \in Nat, i \in T PROVE i + 1 \in T
  <2>1. SUFFICES ASSUME i + 1 <= n
                 PROVE  Shown(h[i + 1], Assembled(b, h[i + 1].deltas, run), b, Live0(i + 1))
    OBVIOUS
  <2>2. i + 1 \in 0..n /\ i + 1 \in 1..n /\ i + 1 # 0 /\ (i + 1) - 1 = i /\ i <= n
    BY <1>2, <2>1
  <2> DEFINE a == h[i]
             x == Assembled(b, a.deltas, run)
             held == Live0(i)
             c == order[i + 1]
             d == childDeltas(a.state, c, status[c])
             y == Assembled(x, d.deltas, run)
             new == Answer(d.state, a.deltas \o d.deltas)
  <2>3. Shown(a, x, b, held)
    BY <1>6, <2>2
  <2>4. c \in DOMAIN status /\ c \in Children
    BY <1>2, <2>2
  <2>5. h[i + 1] = new
    BY <1>4, <2>2 DEF ChildAdded
  <2>6. Live0(i + 1) = IF status[c] \in Live THEN held \cup {c} ELSE held \ {c}
    <3>1. \A k : (\E j \in 1..(i + 1) : order[j] = k) <=> (k = c \/ \E j \in 1..i : order[j] = k)
      <4>1. \A j \in 1..(i + 1) : j = i + 1 \/ j \in 1..i
        BY <1>6
      <4>2. (i + 1) \in 1..(i + 1) /\ \A j \in 1..i : j \in 1..(i + 1)
        BY <1>6
      <4> QED BY <4>1, <4>2
    <3> HIDE DEF c
    <3> QED BY <2>4, <3>1
  <2>7. a.state \in ThreadState /\ x \in Timelines /\ a.deltas \in Seq(ChildDeltas)
    BY <2>3 DEF Shown
  <2>8. ChildApplied(a.state, x, c, status[c], d, y)
    <3> HIDE DEF x, a, c
    <3> QED BY <2>4, <2>7, ChildApplies
  <2>9. Assembled(b, a.deltas \o d.deltas, run) = y
    <3> DEFINE s == a.deltas
               t == d.deltas
               two == {Open(c, "started"), Close(c, "started")}
               S == ChildDeltas
    <3>1. t \in Seq(two)
      BY <2>8 DEF ChildApplied
    <3>2. two \subseteq S
      BY <2>4 DEF ChildDeltas
    <3>3. s \in Seq(S)
      BY <2>7
    <3> HIDE DEF t, two, S, s
    <3>4. t \in Seq(S)
      BY <3>1, <3>2, SeqWider
    <3>5. Assembled(b, s \o t, run) = Assembled(Assembled(b, s, run), t, run)
      BY <3>3, <3>4, AssemblesParts
    <3> QED BY <3>5 DEF s, t
  <2>10. new.deltas = a.deltas \o d.deltas
    BY DEF Answer
  <2> HIDE DEF held, x, y, c, d, a
  <2>11. Shown(new, y, b, IF status[c] \in Live THEN held \cup {c} ELSE held \ {c})
    BY <2>3, <2>4, <2>8, OneMoreShown
  <2> QED BY <2>5, <2>6, <2>9, <2>10, <2>11
<1>7. n \in T
  <2> HIDE DEF T
  <2> QED BY <1>2, <1>5, <1>6, Counting
<1>8. Live0(n) = {c \in DOMAIN status : status[c] \in Live}
  BY <1>2
<1>9. Shown(h[n], Assembled(b, h[n].deltas, run), b, Live0(n))
  <2>1. n <= n
    BY <1>2
  <2> QED BY <1>7, <2>1
<1> HIDE DEF Live0
<1> QED BY <1>3, <1>8, <1>9

(* The texts of a transcript, and its tool calls that have no result yet. *)
SnapshotDeltas == {Open(c, "rendered") : c \in Rendered} \cup {Open(tool, "started") : tool \in Tools}
OfTranscript(row, calls) ==
  \/ row.key \in calls /\ row.shape = "started"
  \/ row.key \in Rendered /\ row.shape = "rendered"
CallsShown(texts, calls, b) ==
  /\ snapshotDeltas(texts, calls, {}) \in Seq(SnapshotDeltas)
  /\ b \in Timelines /\ b.turn = Idle /\ b.queue = Drained /\ b.closed = {}
  /\ b.mixed = FALSE /\ b.twice = FALSE /\ b.reshaped = FALSE
  /\ \A row \in b.rows : OfTranscript(row, calls)

LEMMA SnapshotShown ==
  ASSUME NEW texts, texts \subseteq Rendered, NEW calls, calls \subseteq Tools, NEW run,
         NEW b, b = Assembled(NewTimeline, snapshotDeltas(texts, calls, {}), run)
  PROVE  CallsShown(texts, calls, b)
<1> DEFINE told0 == [c \in texts |-> Open(c, "rendered")]
           made == [tool \in calls |-> Open(tool, "started")]
           R == {told0[c] : c \in texts}
           D == {made[tool] : tool \in calls}
           zeroth == SetToSeq(R)
           first == SetToSeq(D)
           ends == {Close(tool, "started") : tool \in calls \cap {}}
           second == SetToSeq(ends)
           All == SnapshotDeltas
           s == (zeroth \o first) \o second
           G == {x \in Timelines :
                   /\ x.turn = Idle /\ x.queue = Drained /\ x.closed = {}
                   /\ x.mixed = FALSE /\ x.twice = FALSE /\ x.reshaped = FALSE
                   /\ \A row \in x.rows : OfTranscript(row, calls)}
<1>1. snapshotDeltas(texts, calls, {}) = s
  <2>1. {Open(tool, "started") : tool \in calls} = D /\ {Open(c, "rendered") : c \in texts} = R
    OBVIOUS
  <2> QED BY <2>1 DEF snapshotDeltas
<1>2. first \in Seq(D)
  <2>1. IsFiniteSet(calls) /\ DOMAIN made = calls
    BY KeysAssumption, FS_Subset
  <2> HIDE DEF made
  <2>2. IsFiniteSet(D)
    BY <2>1, FiniteImage
  <2> HIDE DEF D
  <2> QED BY <2>2, SetAsSequence
<1>12. zeroth \in Seq(R)
  <2>1. IsFiniteSet(texts) /\ DOMAIN told0 = texts
    BY KeysAssumption, FS_Subset
  <2> HIDE DEF told0
  <2>2. IsFiniteSet(R)
    BY <2>1, FiniteImage
  <2> HIDE DEF R
  <2> QED BY <2>2, SetAsSequence
<1>3. second \in Seq(D)
  <2>1. ends = {}
    OBVIOUS
  <2>2. IsFiniteSet(ends)
    BY <2>1, FS_EmptySet
  <2> HIDE DEF ends
  <2>3. second \in Seq(ends)
    BY <2>2, SetAsSequence
  <2>4. ends \subseteq D
    BY <2>1
  <2> HIDE DEF second, D
  <2> QED BY <2>3, <2>4, SeqWider
<1>4. D \subseteq All /\ R \subseteq All
  BY DEF SnapshotDeltas
<1>5. /\ \A d \in D : \E tool \in calls : d = Open(tool, "started")
      /\ \A d \in R : \E c \in texts : d = Open(c, "rendered")
  OBVIOUS
<1> HIDE DEF told0, made, R, D, zeroth, first, second, ends
<1> DEFINE E == R \cup D
<1>6. s \in Seq(E)
  <2>1. R \subseteq E /\ D \subseteq E
    OBVIOUS
  <2> HIDE DEF E
  <2>2. zeroth \in Seq(E) /\ first \in Seq(E) /\ second \in Seq(E)
    BY <1>2, <1>3, <1>12, <2>1, SeqWider
  <2>3. zeroth \o first \in Seq(E)
    BY <2>2
  <2> QED BY <2>2, <2>3
<1>7. s \in Seq(All)
  <2>1. E \subseteq All
    BY <1>4
  <2> HIDE DEF E, All, s
  <2> QED BY <1>6, <2>1, SeqWider
<1>8. NewTimeline \in G
  <2>1. Idle \in 0..MaxRuns
    BY BoundsAssumption DEF Idle
  <2> QED BY <2>1 DEF NewTimeline, Timelines, Payloads
<1>9. \A x \in G, d \in E : Apply(run, x, d) \in G
  <2> SUFFICES ASSUME NEW x \in G, NEW d \in E PROVE Apply(run, x, d) \in G
    OBVIOUS
  <2>1. PICK key, shape :
          d = Open(key, shape) /\ (\/ key \in calls /\ shape = "started"
                                   \/ key \in Rendered /\ shape = "rendered")
    BY <1>5
  <2> DEFINE row0 == [key |-> key, shape |-> shape]
             rows == (x.rows \ KeyIs(key)) \cup {row0}
  <2>2. Apply(run, x, d) = [x EXCEPT !.rows = rows]
    BY <2>1, AppliesOpen
  <2>3. row0 \in Rows /\ OfTranscript(row0, calls)
    BY <2>1 DEF Rows, OfTranscript
  <2> HIDE DEF row0
  <2>4. rows \in SUBSET Rows /\ \A row \in rows : OfTranscript(row, calls)
    BY <2>3 DEF Timelines
  <2> HIDE DEF rows
  <2> QED BY <2>2, <2>4 DEF Timelines
<1> HIDE DEF s, G, All, E
<1>10. b = Assembled(NewTimeline, s, run)
  BY <1>1
<1>11. b \in G
  BY <1>6, <1>8, <1>9, <1>10, AssemblesWithin
<1> QED BY <1>1, <1>7, <1>11 DEF G, All, CallsShown

(* A session the lane can find: one it created, or one it adopts. *)
Attachable(p) ==
  /\ p \in Primes /\ p.asked = Idle /\ p.kind \in {"none", "prompt"} /\ p.run <= p.last
  /\ p.kind = "none" <=> p.run = Idle
  /\ p.kind = "none" => p.tools = {} /\ ~p.compacting
  /\ 0 <= p.last

LEMMA CreatedAttaches ==
  ASSUME NEW k \in SUBSET Kinds, NEW p, p = [Created EXCEPT !.streams = k]
  PROVE  Attachable(p)
<1>1. Idle \in 0..MaxRuns /\ Idle = 0
  BY BoundsAssumption DEF Idle
<1>2. /\ p.run = Idle /\ p.last = Idle /\ p.kind = "none" /\ p.asked = Idle /\ p.tools = {}
      /\ p.compacting = FALSE
  BY DEF Created
<1>3. p \in Primes
  BY <1>1, BoundsAssumption DEF Created, Primes, Payloads, ChildStatus, Idle
<1> QED BY <1>1, <1>2, <1>3 DEF Attachable

LEMMA SessionsAttach ==
  ASSUME NEW p \in Sessions
  PROVE  Attachable(p)
<1>1. 0 \in 0..MaxRuns /\ 1 \in 0..MaxRuns /\ Idle = 0
  BY BoundsAssumption DEF Idle
<1>2. /\ p.run = 1 /\ p.last = 1 /\ p.kind = "prompt" /\ p.asked = Idle
  BY DEF Sessions
<1>3. p \in Primes
  BY <1>1 DEF Sessions, Primes, ChildStatus, Live
<1> QED BY <1>1, <1>2, <1>3 DEF Attachable

(* What Begins leaves on the timeline. *)
Attached(p) ==
  /\ state \in ThreadState /\ bb \in Timelines
  /\ bb.turn = Idle /\ bb.closed = {} /\ bb.mixed = FALSE /\ bb.twice = FALSE
  /\ bb.reshaped = FALSE /\ told \in BOOLEAN /\ (told => bb.queue = p.queue)
  /\ state.queuePayload = bb.queue \/ (state.queuePayload = Undefined /\ bb.queue = Drained)
  /\ \A row \in bb.rows :
       /\ row.key \in p.tools \/ row.key \in Children \/ row.shape = "rendered"
       /\ row.shape # "named"
  /\ \A c \in Children : HasRow(c) <=> c \in state.openDelegations
  /\ \A c \in Children : c \in state.openDelegations <=> p.children[c] \in Live

LEMMA BeginsAttached ==
  ASSUME NEW p, Attachable(p), NEW shown \in SUBSET Rendered, NEW answered \in BOOLEAN,
         Begins(p, shown, answered)
  PROVE  Attached(p)
<1> DEFINE known == [c \in {x \in Children : p.children[x] # "none"} |-> p.children[c]]
           a == childrenDeltas(stateFor, known)
           w == IF p.queue = Drained \/ ~answered THEN Answer(a.state, <<>>)
                ELSE queueUpdateDeltas(a.state, p.queue)
           snap == snapshotDeltas(shown, p.tools, {})
           run == Idle
           b1 == Assembled(NewTimeline, snap, run)
           b2 == Assembled(b1, a.deltas, run)
           held == {c \in DOMAIN known : known[c] \in Live}
           Opens == SnapshotDeltas
           Ends == {Queue(p.queue)}
           S == Opens \cup ChildDeltas \cup Ends
<1>1. told = (answered \/ p.queue = Drained) /\ state = w.state /\ bb = Assembled(NewTimeline, (snap \o a.deltas) \o w.deltas, run)
  BY DEF Begins
<1>2. /\ p.tools \subseteq Tools /\ p.queue \in Payloads
      /\ p.children \in [Children -> ChildStatus]
  BY DEF Attachable, Primes
<1>3. /\ snap \in Seq(Opens)
      /\ b1 \in Timelines /\ b1.turn = Idle /\ b1.queue = Drained /\ b1.closed = {}
      /\ b1.mixed = FALSE /\ b1.twice = FALSE /\ b1.reshaped = FALSE
      /\ \A row \in b1.rows : OfTranscript(row, p.tools)
  <2>1. CallsShown(shown, p.tools, b1)
    BY <1>2, SnapshotShown
  <2> QED BY <2>1 DEF CallsShown
<1>4. Shown(a, b2, b1, held)
  <2>1. DOMAIN known \subseteq Children
    OBVIOUS
  <2>2. \A row \in b1.rows : row.key \notin Children /\ row.shape # "named"
    BY <1>2, <1>3, KeysAssumption DEF OfTranscript
  <2> HIDE DEF known, b1, run
  <2> QED BY <1>3, <2>1, <2>2, ChildrenShown
<1>5. \A c \in Children : c \in held <=> p.children[c] \in Live
  <2>1. "none" \notin Live
    BY DEF Live
  <2> QED BY <2>1
<1> HIDE DEF known, a, snap, run, b1, b2, held
<1>6. /\ a.state \in ThreadState /\ a.deltas \in Seq(ChildDeltas)
      /\ a.state.queuePayload = Undefined /\ a.state.openDelegations = held
      /\ b2 \in Timelines
      /\ b2.turn = Idle /\ b2.closed = {} /\ b2.mixed = FALSE
      /\ b2.twice = FALSE /\ b2.queue = Drained /\ b2.reshaped = FALSE
      /\ \A row \in b2.rows :
           /\ row.key \in p.tools \/ row.key \in Children \/ row.shape = "rendered"
           /\ row.shape # "named"
      /\ \A c \in Children :
           (\E row \in b2.rows : row.key = c /\ row.shape # "rendered") <=> c \in held
  <2>1. \A row \in b2.rows : row.key \in Children => row.shape # "rendered"
    BY <1>4, KeysAssumption DEF Shown, Timelines, Rows
  <2> QED BY <1>3, <1>4, <2>1 DEF Shown, OfTranscript
<1>7. /\ w.deltas = IF p.queue = Drained \/ ~answered THEN <<>> ELSE <<Queue(p.queue)>>
      /\ w.state = IF p.queue = Drained \/ ~answered THEN a.state
                   ELSE [a.state EXCEPT !.queuePayload = p.queue]
  <2>1. p.queue # Undefined
    BY <1>2, PayloadsAssumption DEF Payloads
  <2> QED BY <1>6, <2>1 DEF queueUpdateDeltas, Answer
<1> HIDE DEF w
<1>8. snap \in Seq(S) /\ a.deltas \in Seq(S) /\ w.deltas \in Seq(S)
  <2> DEFINE s == a.deltas
             t == w.deltas
  <2>1. s \in Seq(ChildDeltas) /\ t \in Seq(Ends)
    <3>1. <<>> \in Seq(Ends) /\ <<Queue(p.queue)>> \in Seq(Ends)
      OBVIOUS
    <3> HIDE DEF Ends
    <3> QED BY <1>6, <1>7, <3>1
  <2>2. Opens \subseteq S /\ ChildDeltas \subseteq S /\ Ends \subseteq S
    OBVIOUS
  <2> HIDE DEF s, t, S, Opens, Ends
  <2>3. snap \in Seq(S) /\ s \in Seq(S) /\ t \in Seq(S)
    BY <1>3, <2>1, <2>2, SeqWider
  <2> QED BY <2>3 DEF s, t
<1>9. bb = Assembled(b2, w.deltas, run)
  <2> DEFINE s == a.deltas
             t == w.deltas
             st == snap \o s
  <2> HIDE DEF S
  <2>1. snap \in Seq(S) /\ s \in Seq(S) /\ t \in Seq(S) /\ st \in Seq(S)
    BY <1>8
  <2> HIDE DEF s, t
  <2>2. Assembled(NewTimeline, snap \o s, run) = Assembled(Assembled(NewTimeline, snap, run), s, run)
    BY <2>1, AssemblesParts
  <2> HIDE DEF st
  <2>3. Assembled(NewTimeline, st \o t, run) = Assembled(Assembled(NewTimeline, st, run), t, run)
    BY <2>1, AssemblesParts
  <2> QED BY <1>1, <2>2, <2>3 DEF s, t, st, b1, b2
<1>10. CASE p.queue = Drained \/ ~answered
  <2>1. bb = b2 /\ state = a.state
    BY <1>1, <1>7, <1>9, <1>10, AssemblesNone
  <2> QED BY <1>1, <1>5, <1>6, <1>10, <2>1 DEF Attached, HasRow
<1>11. CASE ~(p.queue = Drained \/ ~answered)
  <2>1. bb = [b2 EXCEPT !.queue = p.queue]
    <3>1. bb = Apply(run, b2, Queue(p.queue))
      BY <1>7, <1>9, <1>11, AssemblesOne
    <3> QED BY <3>1, AppliesQueue
  <2>2. state = [a.state EXCEPT !.queuePayload = p.queue]
    BY <1>1, <1>7, <1>11
  <2>3. /\ bb \in Timelines /\ bb.rows = b2.rows /\ bb.queue = p.queue
        /\ bb.turn = Idle /\ bb.closed = {} /\ bb.mixed = FALSE
        /\ bb.twice = FALSE /\ bb.reshaped = FALSE
    BY <1>2, <1>6, <2>1 DEF Timelines
  <2>4. /\ state \in ThreadState /\ state.queuePayload = p.queue
        /\ state.openDelegations = held
    BY <1>2, <1>6, <2>2 DEF ThreadState, Payloads
  <2> QED BY <1>1, <1>5, <1>6, <2>3, <2>4 DEF Attached, HasRow
<1> QED BY <1>10, <1>11

LEMMA StartsTimeline == Init => IInv /\ SeenInv
<1> SUFFICES ASSUME Init PROVE IInv /\ SeenInv
  OBVIOUS
<1>0. \E p : \E shown \in SUBSET Rendered, answered \in BOOLEAN :
        Attachable(p) /\ Begins(p, shown, answered)
  <2>1. PICK answered \in BOOLEAN :
          \/ \E k \in SUBSET Kinds : Begins([Created EXCEPT !.streams = k], {}, answered)
          \/ \E p \in Sessions, shown \in SUBSET Rendered : Begins(p, shown, answered)
    BY DEF Init
  <2>2. CASE \E k \in SUBSET Kinds : Begins([Created EXCEPT !.streams = k], {}, answered)
    <3>1. PICK k \in SUBSET Kinds : Begins([Created EXCEPT !.streams = k], {}, answered)
      BY <2>2
    <3> DEFINE p == [Created EXCEPT !.streams = k]
               none == {}
    <3>2. none \in SUBSET Rendered /\ Attachable(p) /\ Begins(p, none, answered)
      BY <3>1, CreatedAttaches
    <3> HIDE DEF p, none
    <3> QED BY <3>2
  <2>3. CASE \E p \in Sessions, shown \in SUBSET Rendered : Begins(p, shown, answered)
    <3>1. PICK p \in Sessions, shown \in SUBSET Rendered : Begins(p, shown, answered)
      BY <2>3
    <3>2. Attachable(p)
      BY SessionsAttach
    <3> QED BY <3>1, <3>2
  <2> QED BY <2>1, <2>2, <2>3
<1>1. PICK p : \E shown \in SUBSET Rendered, answered \in BOOLEAN :
        Attachable(p) /\ Begins(p, shown, answered)
  BY <1>0
<1>2. /\ openTurn = "none" /\ compact = Idle /\ started = FALSE /\ abort = NoAbort
      /\ wire = "up" /\ counts = [turns |-> 0, drops |-> 0, queues |-> 0]
  BY DEF Init
<1>3. /\ prime = p
      /\ upset = Upset("blind", p.compacting) \cup Upset("midtool", p.tools # {})
  BY <1>1 DEF Begins
<1>4. upset \subseteq Upsets /\ (p.compacting => "blind" \in upset)
      /\ (p.tools # {} => "midtool" \in upset)
  BY <1>3 DEF Upset, Upsets
<1>5. Attached(p)
  BY <1>1, BeginsAttached
<1>6. /\ prime \in Primes /\ prime.asked = Idle /\ prime.kind \in {"none", "prompt"}
      /\ prime.run <= prime.last
      /\ prime.kind = "none" <=> prime.run = Idle
      /\ prime.kind = "none" => prime.tools = {} /\ ~prime.compacting
      /\ 0 <= prime.last
  BY <1>1, <1>3 DEF Attachable
<1>7. 0 \in 0..MaxRuns /\ Idle = 0
  BY BoundsAssumption DEF Idle
<1>21. TypesInv
  BY <1>2, <1>4, <1>5, <1>6, <1>7 DEF TypesInv, Attached, Tallies
<1>22. NumbersInv
  <2>1. prime.last \in Nat
    BY <1>6, BoundsAssumption DEF Primes
  <2>2. abort.turn <= prime.last
    BY <1>2, <2>1 DEF NoAbort
  <2> QED BY <1>2, <1>5, <1>6, <1>7, <2>2 DEF NumbersInv, Attached
<1>23. RunsInv
  BY <1>2, <1>6 DEF RunsInv
<1>24. QueueInv
  BY <1>2, <1>3, <1>5 DEF QueueInv, Attached
<1>25. ChildrenInv
  BY <1>3, <1>5 DEF ChildrenInv, Attached
<1>26. OwnedInv
  BY <1>5 DEF OwnedInv, DownIsIdle, Attached
<1>27. RowsInv
  <2>1. \A row \in bb.rows : row.key \in p.tools \/ row.key \in Children \/ row.shape = "rendered"
    BY <1>5 DEF Attached
  <2>2. p.tools \subseteq Tools
    BY <1>3, <1>6 DEF Primes
  <2> QED BY <1>2, <1>3, <2>1, <2>2, KeysAssumption DEF RowsInv, HasRow
<1>28. UnmixedInv
  BY <1>5 DEF UnmixedInv, DownIsIdle, Attached
<1>29. ShapesInv
  <2> SUFFICES ASSUME Spared({"midtool"})
               PROVE  /\ ~bb.reshaped /\ \A row \in bb.rows : row.shape # "named"
                      /\ \A tool \in Tools : ~HasRow(tool)
    BY DEF ShapesInv
  <2>1. p.tools = {}
    BY <1>4 DEF Spared
  <2> QED BY <1>5, <2>1, KeysAssumption DEF Attached, HasRow
<1>30. OnceInv
  BY <1>2, <1>5, <1>6 DEF OnceInv, Attached
<1>31. SeenInv
  BY <1>3, <1>4 DEF SeenInv, Spared
<1> QED BY <1>21, <1>22, <1>23, <1>24, <1>25, <1>26, <1>27, <1>28, <1>29, <1>30, <1>31 DEF IInv

-----------------------------------------------------------------------------
(* The lane sees the compactions prime begins, unless it is not there. *)
LEMMA SeenKept ==
  ASSUME SeenInv, upset \subseteq upset', prime'.compacting => prime.compacting,
         state'.compaction = state.compaction
  PROVE  SeenInv'
BY DEF SeenInv, Spared

LEMMA AnswersKeep ==
  ASSUME NEW st \in ThreadState
  PROVE  /\ \A c : textDelta(st, c).state.compaction = st.compaction
         /\ \A c : textClose(st, c).state.compaction = st.compaction
         /\ \A c : toolStart(st, c).state.compaction = st.compaction
         /\ \A c : toolEnd(st, c).state.compaction = st.compaction
         /\ \A c, s : childDeltas(st, c, s).state.compaction = st.compaction
         /\ \A q : queueUpdateDeltas(st, q).state.compaction = st.compaction
         /\ \A s : agentEnd(st, s).state.compaction = st.compaction
         /\ interruptDeltas(st).state.compaction = st.compaction
         /\ failureDeltas(st).state.compaction = st.compaction
         /\ \A d : Answer(st, d).state.compaction = st.compaction
<1>1. \A S : [st EXCEPT !.openTextStreams = S].compaction = st.compaction
  BY DEF ThreadState
<1>2. \A S : [st EXCEPT !.toolCalls = S].compaction = st.compaction
  BY DEF ThreadState
<1>3. \A S : [st EXCEPT !.openDelegations = S].compaction = st.compaction
  BY DEF ThreadState
<1>4. \A q : [st EXCEPT !.queuePayload = q].compaction = st.compaction
  BY DEF ThreadState
<1>5. closeOpenStreams(st).state = [st EXCEPT !.openTextStreams = {}]
  BY DEF closeOpenStreams, Answer
<1>6. /\ \A c : textDelta(st, c).state.compaction = st.compaction
      /\ \A c : textClose(st, c).state.compaction = st.compaction
  BY <1>1 DEF textDelta, textClose, Answer
<1>7. /\ \A c : toolStart(st, c).state.compaction = st.compaction
      /\ \A c : toolEnd(st, c).state.compaction = st.compaction
  BY <1>2 DEF toolStart, toolEnd, Answer
<1>8. \A c, s : childDeltas(st, c, s).state.compaction = st.compaction
  <2> SUFFICES ASSUME NEW c, NEW s
               PROVE  childDeltas(st, c, s).state.compaction = st.compaction
    OBVIOUS
  <2>1. \/ childDeltas(st, c, s).state = [st EXCEPT !.openDelegations = @ \cup {c}]
        \/ childDeltas(st, c, s).state = [st EXCEPT !.openDelegations = @ \ {c}]
    BY DEF childDeltas, Answer
  <2> QED BY <1>3, <2>1
<1>9. \A q : queueUpdateDeltas(st, q).state.compaction = st.compaction
  <2> SUFFICES ASSUME NEW q PROVE queueUpdateDeltas(st, q).state.compaction = st.compaction
    OBVIOUS
  <2>1. \/ queueUpdateDeltas(st, q).state = [st EXCEPT !.queuePayload = q]
        \/ queueUpdateDeltas(st, q).state = st
    BY DEF queueUpdateDeltas, Answer
  <2> QED BY <1>4, <2>1
<1>10. /\ \A s : agentEnd(st, s).state.compaction = st.compaction
       /\ interruptDeltas(st).state.compaction = st.compaction
       /\ failureDeltas(st).state.compaction = st.compaction
  <2>1. /\ \A s : agentEnd(st, s).state = closeOpenStreams(st).state
        /\ interruptDeltas(st).state = closeOpenStreams(st).state
        /\ failureDeltas(st).state = closeOpenStreams(st).state
    BY DEF agentEnd, interruptDeltas, failureDeltas, Answer
  <2>2. closeOpenStreams(st).state.compaction = st.compaction
    BY <1>1, <1>5
  <2> QED BY <2>1, <2>2
<1>11. \A d : Answer(st, d).state.compaction = st.compaction
  BY DEF Answer
<1> QED BY <1>6, <1>7, <1>8, <1>9, <1>10, <1>11

LEMMA SeenStep == ASSUME IInv, SeenInv, Next PROVE SeenInv'
<1>1. state \in ThreadState /\ prime \in Primes
  BY Initially DEF IInv
<1> DEFINE Keeps == /\ upset \subseteq upset' /\ (prime'.compacting => prime.compacting)
                    /\ state'.compaction = state.compaction
<1>2. SUFFICES ASSUME ~Keeps PROVE SeenInv'
  BY SeenKept
<1>3. CASE StartRun
  <2>1. prime'.compacting = prime.compacting
    BY <1>1, <1>3, RunBegins DEF StartRun
  <2>2. upset \subseteq upset' /\ state'.compaction = state.compaction
    BY <1>1, <1>3, AnswersKeep DEF StartRun, Emit, Suffers
  <2> QED BY <1>2, <2>1, <2>2
<1>4. CASE StreamsText \/ StreamsTool
  <2>1. upset \subseteq upset' /\ prime'.compacting = prime.compacting
    BY <1>1, <1>4 DEF StreamsText, StreamsTool, Quietly, Primes
  <2>2. state'.compaction = state.compaction
    BY <1>1, <1>4, AnswersKeep DEF StreamsText, StreamsTool, Emit
  <2> QED BY <1>2, <2>1, <2>2
<1>5. CASE EndRun
  <2>1. upset \subseteq upset' /\ prime'.compacting = prime.compacting
    BY <1>1, <1>5 DEF EndRun, Primes
  <2>2. state'.compaction = state.compaction
    BY <1>1, <1>5, AnswersKeep DEF EndRun, Emit
  <2> QED BY <1>2, <2>1, <2>2
<1>6. CASE CompactsItself
  <2>1. CASE prime.compacting
    <3>1. prime'.compacting = FALSE
      BY <1>1, <1>6, <2>1 DEF CompactsItself, Primes
    <3> QED BY <3>1 DEF SeenInv
  <2>2. CASE ~prime.compacting
    <3>1. state'.compaction = "auto"
      <4>1. Emit(compactionStart(state, FALSE), Idle)
        BY <1>6, <2>2 DEF CompactsItself
      <4>2. state' = [state EXCEPT !.compaction = "auto"]
        BY <4>1 DEF Emit, compactionStart, Answer
      <4> QED BY <1>1, <4>2 DEF ThreadState
    <3> QED BY <3>1 DEF SeenInv
  <2> QED BY <2>1, <2>2
<1>7. CASE ChildChanges \/ QueueChanges
  <2>1. upset \subseteq upset' /\ prime'.compacting = prime.compacting
    BY <1>1, <1>7 DEF ChildChanges, QueueChanges, Quietly, Primes
  <2>2. state'.compaction = state.compaction
    BY <1>1, <1>7, AnswersKeep DEF ChildChanges, QueueChanges, Emit
  <2> QED BY <1>2, <2>1, <2>2
<1>8. CASE Turn \/ Compact \/ AbortAnswered
  <2>1. upset \subseteq upset' /\ prime'.compacting = prime.compacting /\ state' = state
    BY <1>1, <1>8 DEF Turn, Compact, AbortAnswered, Suffers, Primes
  <2> QED BY <1>2, <2>1
<1>9. CASE Compacts
  <2>1. prime.kind = "compact" => ~prime.compacting
    BY DEF IInv, RunsInv
  <2>2. ~prime.compacting
    BY <1>9, <2>1 DEF Compacts
  <2>3. prime'.compacting = prime.compacting
    BY <1>1, <1>9 DEF Compacts, Primes
  <2> QED BY <2>2, <2>3 DEF SeenInv
<1>10. CASE CompactAnswered
  <2>1. prime'.compacting = prime.compacting
    BY <1>1, <1>10 DEF CompactAnswered, Primes
  <2>2. upset \subseteq upset' /\ state'.compaction = state.compaction
    BY <1>1, <1>10, AnswersKeep DEF CompactAnswered, Emit, Suffers
  <2> QED BY <1>2, <2>1, <2>2
<1>11. CASE Interrupt
  <2>1. prime' = prime /\ upset \subseteq upset'
    BY <1>11 DEF Interrupt, Suffers
  <2>2. state'.compaction = state.compaction
    BY <1>1, <1>11, AnswersKeep DEF Interrupt, Emit
  <2> QED BY <1>2, <2>1, <2>2
<1>12. CASE ConnectionLost
  <2>1. prime' = prime /\ upset \subseteq upset'
    BY <1>12 DEF ConnectionLost, Suffers
  <2>2. state'.compaction = state.compaction
    BY <1>12, ConnectionLostClears DEF Lost
  <2> QED BY <1>2, <2>1, <2>2
<1>13. CASE Missed
  <2>1. state' = state /\ upset \subseteq upset'
    BY <1>13 DEF Missed, Suffers
  <2>2. prime'.compacting => prime.compacting
    BY <1>1, <1>13 DEF Missed, Primes
  <2> QED BY <1>2, <2>1, <2>2
<1>14. CASE BeginsUnseen
  <2>1. state' = state /\ upset \subseteq upset'
    BY <1>14 DEF BeginsUnseen, Suffers
  <2>2. CASE RunStarts
    <3>1. prime'.compacting = prime.compacting
      BY <1>1, <2>2, RunBegins
    <3> QED BY <1>2, <2>1, <3>1
  <2>3. CASE Suffers({"blind"})
    <3>1. ~Spared({"blind"})'
      BY <2>3 DEF Suffers, Spared
    <3> QED BY <3>1 DEF SeenInv
  <2> QED BY <1>14, <2>2, <2>3 DEF BeginsUnseen
<1>15. CASE ConnectionRestored
  <2>1. prime' = prime /\ upset \subseteq upset'
    BY <1>15 DEF ConnectionRestored
  <2>2. state'.compaction = state.compaction
    BY <1>1, <1>15, AnswersKeep DEF ConnectionRestored, ShowsWaiting, Emit
  <2> QED BY <1>2, <2>1, <2>2
<1>16. CASE LostAgain \/ AttachRefused
  <2>1. prime' = prime /\ upset' = upset /\ state' = state
    BY <1>16 DEF LostAgain, AttachRefused
  <2> QED BY <1>2, <2>1
<1> QED BY <1>3, <1>4, <1>5, <1>6, <1>7, <1>8, <1>9, <1>10, <1>11, <1>12, <1>13, <1>14, <1>15,
           <1>16
        DEF Next

LEMMA StepKeepsTimeline == ASSUME IInv, SeenInv, Next PROVE IInv'
BY StartRunStep, StreamsTextStep, StreamsToolStep, EndRunStep, CompactsItselfStep,
   ChildChangesStep, QueueChangesStep, TurnStep, CompactStep, CompactsStep, CompactAnsweredStep,
   InterruptStep, AbortAnsweredStep, ConnectionLostStep, MissedStep, BeginsUnseenStep,
   ConnectionRestoredStep, StaysDownStep
   DEF Next

LEMMA StutterKeepsTimeline == ASSUME IInv, SeenInv, UNCHANGED vars PROVE IInv' /\ SeenInv'
<1>1. /\ state' = state /\ openTurn' = openTurn /\ compact' = compact /\ started' = started
      /\ abort' = abort /\ wire' = wire /\ prime' = prime /\ bb' = bb /\ upset' = upset
      /\ counts' = counts /\ told' = told
  BY DEF vars
<1>2. TypesInv'
  BY <1>1 DEF IInv, TypesInv, Holds
<1>3. NumbersInv' /\ RunsInv' /\ QueueInv' /\ SeenInv'
  BY <1>1 DEF IInv, NumbersInv, RunsInv, QueueInv, Spared, SeenInv
<1>4. ChildrenInv' /\ OwnedInv'
  BY <1>1 DEF IInv, ChildrenInv, OwnedInv, Spared, HasRow, DownIsIdle
<1>5. RowsInv'
  BY <1>1 DEF IInv, RowsInv, Spared, HasRow, Held
<1>6. UnmixedInv' /\ ShapesInv' /\ OnceInv'
  BY <1>1 DEF IInv, UnmixedInv, ShapesInv, OnceInv, Spared, HasRow, DownIsIdle
<1> QED BY <1>2, <1>3, <1>4, <1>5, <1>6 DEF IInv

(* The inductive invariant holds throughout: whatever streams, drops,       *)
(* aborts and compactions come between, each turn and row bb shows has      *)
(* somebody who will close it, for any ids, payloads and bounds.            *)
THEOREM TimelineInvariant == Spec => [](IInv /\ SeenInv)
<1>1. Init => IInv /\ SeenInv
  BY StartsTimeline
<1>2. IInv /\ SeenInv /\ [Next]_vars => (IInv /\ SeenInv)'
  BY StepKeepsTimeline, SeenStep, StutterKeepsTimeline
<1> QED BY <1>1, <1>2, PTL DEF Spec

(* The translator's state, the lane's and what bb shows stay well-typed     *)
(* (src/delta-translation.ts, src/prime-session.ts).                        *)
THEOREM TimelineTyped == Spec => []TypeOK
<1>1. IInv => TypeOK
  BY DEF IInv, TypesInv, TypeOK, Timelines, Primes
<1> QED BY <1>1, TimelineInvariant, PTL

(* Once prime has nothing to do and the lane waits for nothing, bb shows    *)
(* no turn under way, and no answer, thinking block or tool call open: the  *)
(* boundaries of agent_end, interrupt() and handleConnectionLost leave none *)
(* behind, but for the texts that snapshotDeltas opened.                    *)
THEOREM TimelineClosesAll == Spec => []NothingLeftOpen
<1>1. IInv => NothingLeftOpen
  <2> SUFFICES ASSUME IInv PROVE NothingLeftOpen
    OBVIOUS
  <2>0. TypesInv /\ RunsInv /\ OwnedInv /\ RowsInv
    BY DEF IInv
  <2>1. ASSUME Spared({"unowned", "cut"}), Quiet PROVE bb.turn = Idle
    BY <2>0, <2>1 DEF OwnedInv, RunsInv, Quiet
  <2>2. ASSUME Quiet, Spared({"cut"}), NEW row \in bb.rows
        PROVE  row.key \in Children \cup {"compaction"} \/ row.shape = "rendered"
    <3>1. prime.kind = "none" /\ prime.tools = {} /\ abort = NoAbort
      BY <2>0, <2>2 DEF RunsInv, Quiet
    <3>2. \/ row.key \in Channels \cup Tools \cup Children \cup {"compaction"}
          \/ row.shape = "rendered"
      BY <2>0, <2>2 DEF TypesInv, Timelines, Rows
    <3>3. \A c : ~Held(c)
      BY <3>1, HoldingAborts, BoundsAssumption DEF Held
    <3>4. row.shape = "rendered" \/ (row.key \notin Channels /\ row.key \notin Tools)
      BY <2>0, <2>2, <3>1, <3>3 DEF RowsInv, HasRow
    <3> QED BY <3>2, <3>4
  <2> QED BY <2>1, <2>2 DEF NothingLeftOpen, TurnsEnd
<1> QED BY <1>1, TimelineInvariant, PTL

(* What closes is what was opened: the boundary that closes a turn is of    *)
(* that turn's own run, compaction or interrupt, and a tool call's row      *)
(* closes with the arguments it was opened with (toolCalls).                *)
THEOREM TimelineClosesItsOwn == Spec => []ClosesWhatWasOpened
<1>1. IInv => ClosesWhatWasOpened
  BY DEF IInv, UnmixedInv, ShapesInv, ClosesWhatWasOpened
<1> QED BY <1>1, TimelineInvariant, PTL

(* A run bb saw closed is not claimed and closed again: settledLocally,     *)
(* compactionStarted and the reason compaction_start gave keep the claims   *)
(* of agent_end, a refused compaction and compaction_end apart.             *)
THEOREM TimelineClosesOnce == Spec => []ClosedOnce
<1>1. IInv => ClosedOnce
  BY DEF IInv, OnceInv, ClosedOnce
<1> QED BY <1>1, TimelineInvariant, PTL

(* A child's row is open exactly while prime's last word of it is that it   *)
(* lives, through boundaries, drops and the snapshot of an adopted session  *)
(* (openDelegations).                                                       *)
THEOREM TimelineFollowsChildren == Spec => []ChildRowsFollow
<1>1. IInv => ChildRowsFollow
  <2> SUFFICES ASSUME IInv PROVE ChildRowsFollow
    OBVIOUS
  <2>1. ChildrenInv /\ \A row \in bb.rows : row.key \in Children => row.shape # "rendered"
    BY KeysAssumption DEF IInv, TypesInv, Timelines, Rows
  <2> QED BY <2>1 DEF ChildrenInv, ChildRowsFollow, HasRow
<1> QED BY <1>1, TimelineInvariant, PTL

(* Once a push or the read of an attach has told the lane what waits, bb    *)
(* shows the queue prime holds until the wire drops, though an empty answer *)
(* is not shown and a payload that repeats is not sent again (queuePayload). *)
THEOREM TimelineShowsQueue == Spec => []QueueIsShown
<1>1. IInv => QueueIsShown
  BY DEF IInv, QueueInv, QueueIsShown
<1> QED BY <1>1, TimelineInvariant, PTL
=============================================================================
