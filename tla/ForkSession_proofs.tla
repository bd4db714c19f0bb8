-------------------------- MODULE ForkSession_proofs --------------------------
(***************************************************************************)
(* Proofs about ForkSession, for any texts and any number of turns, forks, *)
(* polls and faults: its types; a fork that returns has left the source    *)
(* alone; and the branch it hands out ends with the turn of the checkpoint *)
(* it was asked for.                                                       *)
(***************************************************************************)
EXTENDS ForkSession, SequenceTheorems, FiniteSetTheorems, NaturalsInduction,
        WellFoundedInduction, TLAPS

-----------------------------------------------------------------------------
(* The inductive invariant.  What a tree of entries holds does not matter:  *)
(* only that files, replacements and forks are sequences, and that a fork   *)
(* is a record.                                                             *)
IsSeq(s) == s \in Seq({s[i] : i \in DOMAIN s})
IsFork(f) ==
  /\ f = [at |-> f.at, checkpoint |-> f.checkpoint, alone |-> f.alone,
          original |-> f.original, branched |-> f.branched, branch |-> f.branch,
          target |-> f.target, polls |-> f.polls]
  /\ f.alone \in BOOLEAN /\ f.original \in Nat

FilesInv == IsSeq(files) /\ Len(files) > 0 /\ running \in Nat /\ pending \in Seq(Nat)
ForksInv == IsSeq(forks) /\ \A k \in DOMAIN forks : IsFork(forks[k])

(* A fork that is alone is the only one under way ...                       *)
Unfinished(k) == forks[k].alone /\ ~Over(k)
OnlyOne ==
  \A k, j \in DOMAIN forks : Unfinished(k) /\ j # k => Over(j)

(* ... and where it stands says what the source runs and what will replace  *)
(* it: nothing before the fork; the branch, now or soon, after it; the      *)
(* branch before the switch; and then the branch or, for good, the source.  *)
AtHome(runs, next) == runs = 1 /\ next = <<>>
Leaving(runs, next) == runs = 1 /\ Len(next) = 1 /\ next[1] # 1
Away(runs, next) == runs # 1 /\ next = <<>>
ComingBack(runs, next) == runs # 1 /\ next = <<1>>
Bracket(f, runs, next) ==
  \/ f.at = "state" /\ f.branched = 0 /\ AtHome(runs, next)
  \/ /\ f.at \in {"tree", "messages", "fork"}
     /\ f.original = 1 /\ f.branched = 0 /\ AtHome(runs, next)
  \/ /\ f.at = "branched"
     /\ f.original = 1 /\ (Leaving(runs, next) \/ Away(runs, next))
  \/ /\ f.at = "switch"
     /\ f.original = 1 /\ f.branched # 1 /\ Away(runs, next)
  \/ /\ f.at = "verify"
     /\ f.original = 1 /\ f.branched # 1 /\ (ComingBack(runs, next) \/ AtHome(runs, next))
BracketInv ==
  \A k \in DOMAIN forks : Unfinished(k) => Bracket(forks[k], running, pending)

IInv == FilesInv /\ ForksInv /\ OnlyOne /\ BracketInv

(* What SourceIsLeftAlone says of a step. *)
LeavesAlone ==
  \A k \in DOMAIN forks : Returns(k) /\ forks[k].alone =>
    running = 1 /\ pending = <<>> /\ forks[k].branched # 1

-----------------------------------------------------------------------------
(* Sequences.                                                               *)

(* A sequence over any set is one over the values it takes. *)
LEMMA SeqOfItsValues ==
  ASSUME NEW S, NEW s \in Seq(S)
  PROVE  IsSeq(s) /\ Len(s) \in Nat /\ DOMAIN s = 1..Len(s)
<1>1. Len(s) \in Nat /\ DOMAIN s = 1..Len(s) /\ s \in [1..Len(s) -> S]
  BY LenProperties
<1>2. s \in [1..Len(s) -> {s[i] : i \in DOMAIN s}]
  BY <1>1
<1>3. QED BY <1>1, <1>2, SeqDef DEF IsSeq

(* What has the domain of a sequence is a sequence of its length. *)
LEMMA SameDomain ==
  ASSUME NEW s, IsSeq(s), NEW t, t = [i \in DOMAIN s |-> t[i]]
  PROVE  IsSeq(t) /\ Len(t) = Len(s) /\ Len(s) \in Nat
         /\ DOMAIN s = 1..Len(s) /\ DOMAIN t = 1..Len(s)
<1>1. Len(s) \in Nat /\ DOMAIN s = 1..Len(s)
  BY LenProperties DEF IsSeq
<1>2. t \in [1..Len(s) -> {t[i] : i \in DOMAIN t}] /\ DOMAIN t = 1..Len(s)
  BY <1>1
<1>3. t \in Seq({t[i] : i \in DOMAIN t})
  BY <1>1, <1>2, SeqDef
<1>4. Len(t) = Len(s)
  BY <1>1, <1>2, <1>3, LenProperties
<1>5. QED BY <1>1, <1>2, <1>3, <1>4 DEF IsSeq

(* Appending to a sequence keeps it and adds one element. *)
LEMMA Appended ==
  ASSUME NEW s, IsSeq(s), NEW x
  PROVE  /\ IsSeq(Append(s, x)) /\ Len(Append(s, x)) = Len(s) + 1
         /\ Append(s, x) = s \o <<x>>
         /\ Len(s) \in Nat /\ DOMAIN s = 1..Len(s)
         /\ DOMAIN Append(s, x) = 1..(Len(s) + 1)
         /\ \A i \in 1..Len(s) : Append(s, x)[i] = s[i]
         /\ Append(s, x)[Len(s) + 1] = x
<1> DEFINE S == {s[i] : i \in DOMAIN s} \cup {x}
<1>1. s \in Seq(S) /\ x \in S
  <2>1. Len(s) \in Nat /\ s \in [1..Len(s) -> {s[i] : i \in DOMAIN s}]
    BY LenProperties DEF IsSeq
  <2>2. s \in [1..Len(s) -> S]
    BY <2>1
  <2>3. QED BY <2>1, <2>2, SeqDef
<1>2. /\ Append(s, x) \in Seq(S) /\ Len(Append(s, x)) = Len(s) + 1
      /\ \A i \in 1..Len(s) : Append(s, x)[i] = s[i]
      /\ Append(s, x)[Len(s) + 1] = x
  BY <1>1, AppendProperties
<1>3. Append(s, x) = s \o <<x>>
  BY <1>1, AppendIsConcat
<1>4. IsSeq(Append(s, x)) /\ DOMAIN Append(s, x) = 1..(Len(s) + 1)
  BY <1>2, SeqOfItsValues
<1>5. Len(s) \in Nat /\ DOMAIN s = 1..Len(s)
  BY <1>1, LenProperties
<1>6. QED BY <1>2, <1>3, <1>4, <1>5

(* A sequence rewritten in place, and one element more. *)
LEMMA OneMore ==
  ASSUME NEW s, IsSeq(s), NEW t, t = [i \in DOMAIN s |-> t[i]], NEW x
  PROVE  \E last : /\ last \notin DOMAIN s
                   /\ DOMAIN (t \o <<x>>) = DOMAIN s \cup {last}
                   /\ IsSeq(t \o <<x>>)
                   /\ (t \o <<x>>)[last] = x
                   /\ \A i \in DOMAIN s : (t \o <<x>>)[i] = t[i]
<1>1. IsSeq(t) /\ Len(s) \in Nat /\ DOMAIN s = 1..Len(s) /\ Len(t) = Len(s)
  BY SameDomain
<1>2. /\ t \o <<x>> = Append(t, x) /\ IsSeq(Append(t, x))
      /\ DOMAIN Append(t, x) = 1..(Len(t) + 1)
      /\ \A i \in 1..Len(t) : Append(t, x)[i] = t[i]
      /\ Append(t, x)[Len(t) + 1] = x
  BY <1>1, Appended
<1>3. Len(s) + 1 \notin DOMAIN s /\ 1..(Len(s) + 1) = DOMAIN s \cup {Len(s) + 1}
  BY <1>1
<1>4. QED BY <1>1, <1>2, <1>3

-----------------------------------------------------------------------------
(* A fork with one field rewritten is a fork, and its other fields stay.    *)
Data(g, checkpoint, branch, target, polls) ==
  g.checkpoint = checkpoint /\ g.branch = branch /\ g.target = target /\ g.polls = polls
Stand(g, f) == g.at = f.at /\ g.alone = f.alone /\ g.original = f.original /\ g.branched = f.branched
LEMMA TargetSet ==
  ASSUME NEW f, IsFork(f), NEW x
  PROVE  LET g == [f EXCEPT !.target = x]
         IN IsFork(g) /\ Stand(g, f) /\ Data(g, f.checkpoint, f.branch, x, f.polls)
BY SMT DEF IsFork, Stand, Data
LEMMA PollsSet ==
  ASSUME NEW f, IsFork(f), NEW x
  PROVE  LET g == [f EXCEPT !.polls = x]
         IN IsFork(g) /\ Stand(g, f) /\ Data(g, f.checkpoint, f.branch, f.target, x)
BY SMT DEF IsFork, Stand, Data
LEMMA BranchSet ==
  ASSUME NEW f, IsFork(f), NEW x
  PROVE  LET g == [f EXCEPT !.branch = x]
         IN IsFork(g) /\ Stand(g, f) /\ Data(g, f.checkpoint, x, f.target, f.polls)
BY SMT DEF IsFork, Stand, Data
LEMMA CheckpointSet ==
  ASSUME NEW f, IsFork(f), NEW x
  PROVE  LET g == [f EXCEPT !.checkpoint = x]
         IN IsFork(g) /\ Stand(g, f) /\ Data(g, x, f.branch, f.target, f.polls)
BY SMT DEF IsFork, Stand, Data
LEMMA AtSet ==
  ASSUME NEW f, IsFork(f), NEW x
  PROVE  LET g == [f EXCEPT !.at = x]
         IN IsFork(g) /\ g.at = x /\ g.alone = f.alone /\ g.original = f.original /\ g.branched = f.branched
            /\ Data(g, f.checkpoint, f.branch, f.target, f.polls)
BY SMT DEF IsFork, Data
LEMMA BranchedSet ==
  ASSUME NEW f, IsFork(f), NEW x
  PROVE  LET g == [f EXCEPT !.branched = x]
         IN IsFork(g) /\ g.at = f.at /\ g.alone = f.alone /\ g.original = f.original /\ g.branched = x
            /\ Data(g, f.checkpoint, f.branch, f.target, f.polls)
BY SMT DEF IsFork, Data
LEMMA OriginalSet ==
  ASSUME NEW f, IsFork(f), NEW x \in Nat
  PROVE  LET g == [f EXCEPT !.original = x]
         IN IsFork(g) /\ g.at = f.at /\ g.alone = f.alone /\ g.original = x /\ g.branched = f.branched
            /\ Data(g, f.checkpoint, f.branch, f.target, f.polls)
BY SMT DEF IsFork, Data
LEMMA AloneSet ==
  ASSUME NEW f, IsFork(f), NEW x \in BOOLEAN
  PROVE  LET g == [f EXCEPT !.alone = x]
         IN IsFork(g) /\ g.at = f.at /\ g.alone = x /\ g.original = f.original /\ g.branched = f.branched
            /\ Data(g, f.checkpoint, f.branch, f.target, f.polls)
BY SMT DEF IsFork, Data

(* And with several. *)
PollsAtOf(f, x, y) == [f EXCEPT !.polls = x, !.at = y]
LEMMA PollsAtSet ==
  ASSUME NEW f, IsFork(f), NEW x, NEW y
  PROVE  LET g == PollsAtOf(f, x, y)
         IN IsFork(g) /\ g.at = y /\ g.alone = f.alone /\ g.original = f.original /\ g.branched = f.branched
            /\ Data(g, f.checkpoint, f.branch, f.target, x)
<1> DEFINE a == [f EXCEPT !.polls = x]
<1>1. IsFork(a) /\ Stand(a, f) /\ Data(a, f.checkpoint, f.branch, f.target, x)
  BY PollsSet
<1> HIDE DEF a
<1> DEFINE b == [a EXCEPT !.at = y]
<1>2. IsFork(b) /\ b.at = y /\ b.alone = a.alone /\ b.original = a.original /\ b.branched = a.branched
      /\ Data(b, a.checkpoint, a.branch, a.target, a.polls)
  BY <1>1, AtSet
<1>3. [f EXCEPT !.polls = x, !.at = y] = [[f EXCEPT !.polls = x] EXCEPT !.at = y]
  BY SMT DEF IsFork
<1>4. PollsAtOf(f, x, y) = b
  BY <1>3 DEF PollsAtOf, a
<1> HIDE DEF b
<1>5. QED BY <1>1, <1>2, <1>4 DEF Stand, Data
TargetAtOf(f, x, y) == [f EXCEPT !.target = x, !.at = y]
LEMMA TargetAtSet ==
  ASSUME NEW f, IsFork(f), NEW x, NEW y
  PROVE  LET g == TargetAtOf(f, x, y)
         IN IsFork(g) /\ g.at = y /\ g.alone = f.alone /\ g.original = f.original /\ g.branched = f.branched
            /\ Data(g, f.checkpoint, f.branch, x, f.polls)
<1> DEFINE a == [f EXCEPT !.target = x]
<1>1. IsFork(a) /\ Stand(a, f) /\ Data(a, f.checkpoint, f.branch, x, f.polls)
  BY TargetSet
<1> HIDE DEF a
<1> DEFINE b == [a EXCEPT !.at = y]
<1>2. IsFork(b) /\ b.at = y /\ b.alone = a.alone /\ b.original = a.original /\ b.branched = a.branched
      /\ Data(b, a.checkpoint, a.branch, a.target, a.polls)
  BY <1>1, AtSet
<1>3. [f EXCEPT !.target = x, !.at = y] = [[f EXCEPT !.target = x] EXCEPT !.at = y]
  BY SMT DEF IsFork
<1>4. TargetAtOf(f, x, y) = b
  BY <1>3 DEF TargetAtOf, a
<1> HIDE DEF b
<1>5. QED BY <1>1, <1>2, <1>4 DEF Stand, Data
OriginalAtOf(f, x, y) == [f EXCEPT !.original = x, !.at = y]
LEMMA OriginalAtSet ==
  ASSUME NEW f, IsFork(f), NEW x \in Nat, NEW y
  PROVE  LET g == OriginalAtOf(f, x, y)
         IN IsFork(g) /\ g.at = y /\ g.alone = f.alone /\ g.original = x /\ g.branched = f.branched
            /\ Data(g, f.checkpoint, f.branch, f.target, f.polls)
<1> DEFINE a == [f EXCEPT !.original = x]
<1>1. IsFork(a) /\ a.at = f.at /\ a.alone = f.alone /\ a.original = x /\ a.branched = f.branched
      /\ Data(a, f.checkpoint, f.branch, f.target, f.polls)
  BY OriginalSet
<1> HIDE DEF a
<1> DEFINE b == [a EXCEPT !.at = y]
<1>2. IsFork(b) /\ b.at = y /\ b.alone = a.alone /\ b.original = a.original /\ b.branched = a.branched
      /\ Data(b, a.checkpoint, a.branch, a.target, a.polls)
  BY <1>1, AtSet
<1>3. [f EXCEPT !.original = x, !.at = y] = [[f EXCEPT !.original = x] EXCEPT !.at = y]
  BY SMT DEF IsFork
<1>4. OriginalAtOf(f, x, y) = b
  BY <1>3 DEF OriginalAtOf, a
<1> HIDE DEF b
<1>5. QED BY <1>1, <1>2, <1>4 DEF Stand, Data
CheckpointAloneOf(f, x, y) == [f EXCEPT !.checkpoint = x, !.alone = y]
LEMMA CheckpointAloneSet ==
  ASSUME NEW f, IsFork(f), NEW x, NEW y \in BOOLEAN
  PROVE  LET g == CheckpointAloneOf(f, x, y)
         IN IsFork(g) /\ g.at = f.at /\ g.alone = y /\ g.original = f.original /\ g.branched = f.branched
            /\ Data(g, x, f.branch, f.target, f.polls)
<1> DEFINE a == [f EXCEPT !.checkpoint = x]
<1>1. IsFork(a) /\ Stand(a, f) /\ Data(a, x, f.branch, f.target, f.polls)
  BY CheckpointSet
<1> HIDE DEF a
<1> DEFINE b == [a EXCEPT !.alone = y]
<1>2. IsFork(b) /\ b.at = a.at /\ b.alone = y /\ b.original = a.original /\ b.branched = a.branched
      /\ Data(b, a.checkpoint, a.branch, a.target, a.polls)
  BY <1>1, AloneSet
<1>3. [f EXCEPT !.checkpoint = x, !.alone = y] = [[f EXCEPT !.checkpoint = x] EXCEPT !.alone = y]
  BY SMT DEF IsFork
<1>4. CheckpointAloneOf(f, x, y) = b
  BY <1>3 DEF CheckpointAloneOf, a
<1> HIDE DEF b
<1>5. QED BY <1>1, <1>2, <1>4 DEF Stand, Data
BranchTargetAtOf(f, x, y, z) == [f EXCEPT !.branch = x, !.target = y, !.at = z]
LEMMA BranchTargetAtSet ==
  ASSUME NEW f, IsFork(f), NEW x, NEW y, NEW z
  PROVE  LET g == BranchTargetAtOf(f, x, y, z)
         IN IsFork(g) /\ g.at = z /\ g.alone = f.alone /\ g.original = f.original /\ g.branched = f.branched
            /\ Data(g, f.checkpoint, x, y, f.polls)
<1> DEFINE a == [f EXCEPT !.branch = x]
<1>1. IsFork(a) /\ Stand(a, f) /\ Data(a, f.checkpoint, x, f.target, f.polls)
  BY BranchSet
<1> HIDE DEF a
<1> DEFINE b == [a EXCEPT !.target = y]
<1>2. IsFork(b) /\ Stand(b, a) /\ Data(b, a.checkpoint, a.branch, y, a.polls)
  BY <1>1, TargetSet
<1> HIDE DEF b
<1> DEFINE c == [b EXCEPT !.at = z]
<1>3. IsFork(c) /\ c.at = z /\ c.alone = b.alone /\ c.original = b.original /\ c.branched = b.branched
      /\ Data(c, b.checkpoint, b.branch, b.target, b.polls)
  BY <1>2, AtSet
<1>4. [f EXCEPT !.branch = x, !.target = y, !.at = z] = [[[f EXCEPT !.branch = x] EXCEPT !.target = y] EXCEPT !.at = z]
  BY SMT DEF IsFork
<1>5. BranchTargetAtOf(f, x, y, z) = c
  BY <1>4 DEF BranchTargetAtOf, a, b
<1> HIDE DEF c
<1>6. QED BY <1>1, <1>2, <1>3, <1>5 DEF Stand, Data
BranchedPollsAtOf(f, x, y, z) == [f EXCEPT !.branched = x, !.polls = y, !.at = z]
LEMMA BranchedPollsAtSet ==
  ASSUME NEW f, IsFork(f), NEW x, NEW y, NEW z
  PROVE  LET g == BranchedPollsAtOf(f, x, y, z)
         IN IsFork(g) /\ g.at = z /\ g.alone = f.alone /\ g.original = f.original /\ g.branched = x
            /\ Data(g, f.checkpoint, f.branch, f.target, y)
<1> DEFINE a == [f EXCEPT !.branched = x]
<1>1. IsFork(a) /\ a.at = f.at /\ a.alone = f.alone /\ a.original = f.original /\ a.branched = x
      /\ Data(a, f.checkpoint, f.branch, f.target, f.polls)
  BY BranchedSet
<1> HIDE DEF a
<1> DEFINE b == [a EXCEPT !.polls = y]
<1>2. IsFork(b) /\ Stand(b, a) /\ Data(b, a.checkpoint, a.branch, a.target, y)
  BY <1>1, PollsSet
<1> HIDE DEF b
<1> DEFINE c == [b EXCEPT !.at = z]
<1>3. IsFork(c) /\ c.at = z /\ c.alone = b.alone /\ c.original = b.original /\ c.branched = b.branched
      /\ Data(c, b.checkpoint, b.branch, b.target, b.polls)
  BY <1>2, AtSet
<1>4. [f EXCEPT !.branched = x, !.polls = y, !.at = z] = [[[f EXCEPT !.branched = x] EXCEPT !.polls = y] EXCEPT !.at = z]
  BY SMT DEF IsFork
<1>5. BranchedPollsAtOf(f, x, y, z) = c
  BY <1>4 DEF BranchedPollsAtOf, a, b
<1> HIDE DEF c
<1>6. QED BY <1>1, <1>2, <1>3, <1>5 DEF Stand, Data
LEMMA BlankIsFork == IsFork(Blank) /\ Blank.at = "state" /\ Blank.branched = 0
BY DEF IsFork, Blank

-----------------------------------------------------------------------------
(* Forks.                                                                   *)
Finished(f) == f.at \in {"returned", "failed"}
ForksAfter == ForksInv' /\ OnlyOne' /\ BracketInv' /\ LeavesAlone

(* Sets rewrites one fork, and blanks one that is over. *)
LEMMA SetsOne ==
  ASSUME ForksInv, NEW k \in DOMAIN forks, NEW f, IsFork(f), Sets(k, f)
  PROVE  /\ ForksInv' /\ DOMAIN forks' = DOMAIN forks
         /\ forks'[k] = IF Finished(f) THEN [Blank EXCEPT !.at = f.at] ELSE f
         /\ \A j \in DOMAIN forks : j # k => forks'[j] = forks[j]
<1> DEFINE g == IF Finished(f) THEN [Blank EXCEPT !.at = f.at] ELSE f
<1>1. forks' = [forks EXCEPT ![k] = g]
  BY DEF Sets, Finished
<1>2. IsFork(g)
  BY DEF IsFork, Blank
<1>3. DOMAIN forks' = DOMAIN forks /\ forks'[k] = g
      /\ \A j \in DOMAIN forks : j # k => forks'[j] = forks[j]
  BY <1>1
<1>4. IsSeq(forks')
  <2>1. forks' = [i \in DOMAIN forks |-> forks'[i]]
    BY <1>1
  <2>2. QED BY <2>1, SameDomain DEF ForksInv
<1>5. \A j \in DOMAIN forks' : IsFork(forks'[j])
  BY <1>2, <1>3 DEF ForksInv
<1>6. ForksInv'
  BY <1>4, <1>5 DEF ForksInv, IsSeq, IsFork
<1>7. QED BY <1>3, <1>6

(* A step of one fork keeps the invariant if that fork still fits its       *)
(* bracket, and it may return only from home.                               *)
LEMMA StepOfOne ==
  ASSUME ForksInv, OnlyOne, BracketInv,
         NEW k \in DOMAIN forks, ~Over(k),
         NEW f, IsFork(f), f.alone = forks[k].alone, Sets(k, f),
         forks[k].alone /\ ~Finished(f) => Bracket(f, running', pending'),
         forks[k].alone /\ f.at = "returned" =>
           running = 1 /\ pending = <<>> /\ forks[k].branched # 1
  PROVE  ForksAfter
<1>1. /\ ForksInv' /\ DOMAIN forks' = DOMAIN forks
      /\ forks'[k] = IF Finished(f) THEN [Blank EXCEPT !.at = f.at] ELSE f
      /\ \A j \in DOMAIN forks : j # k => forks'[j] = forks[j]
  BY SetsOne
<1>2. Finished(f) => forks'[k].at = f.at /\ forks'[k].alone = FALSE
  BY <1>1 DEF Blank
<1>3. ASSUME NEW i \in DOMAIN forks', Unfinished(i)'
      PROVE  i = k /\ Unfinished(k) /\ ~Finished(f)
  <2>1. CASE i = k
    BY <1>1, <1>2, <1>3, <2>1 DEF Unfinished, Over, Finished
  <2>2. CASE i # k
    <3>1. Unfinished(i)
      BY <1>1, <1>3, <2>2 DEF Unfinished, Over
    <3>2. Over(k)
      BY <1>1, <2>2, <3>1 DEF OnlyOne
    <3>3. QED BY <3>2
  <2>3. QED BY <2>1, <2>2
<1>4. OnlyOne'
  <2>1. SUFFICES ASSUME NEW i \in DOMAIN forks', NEW j \in DOMAIN forks',
                        Unfinished(i)', j # i
                 PROVE  Over(j)'
    BY DEF OnlyOne
  <2>2. i = k /\ Unfinished(k)
    BY <1>3, <2>1
  <2>3. Over(j) /\ forks'[j] = forks[j]
    BY <1>1, <2>1, <2>2 DEF OnlyOne
  <2>4. QED BY <2>3 DEF Over
<1>5. BracketInv'
  <2>1. SUFFICES ASSUME NEW i \in DOMAIN forks', Unfinished(i)'
                 PROVE  Bracket(forks'[i], running', pending')
    BY DEF BracketInv
  <2>2. i = k /\ Unfinished(k) /\ ~Finished(f)
    BY <1>3, <2>1
  <2>3. QED BY <1>1, <2>2 DEF Unfinished
<1>6. LeavesAlone
  <2>1. SUFFICES ASSUME NEW i \in DOMAIN forks, Returns(i), forks[i].alone
                 PROVE  running = 1 /\ pending = <<>> /\ forks[i].branched # 1
    BY DEF LeavesAlone
  <2>2. i = k
    BY <1>1, <2>1 DEF Returns, Over
  <2>3. f.at = "returned"
    BY <1>1, <1>2, <2>1, <2>2 DEF Returns, Finished
  <2>4. QED BY <2>1, <2>2, <2>3
<1>7. QED BY <1>1, <1>4, <1>5, <1>6 DEF ForksAfter

(* A step that only takes `alone` away, and leaves alone what the source    *)
(* runs, keeps the invariant.                                               *)
LEMMA StepOfNone ==
  ASSUME ForksInv, OnlyOne, BracketInv, UNCHANGED <<running, pending>>,
         Crosses \/ UNCHANGED forks
  PROVE  ForksAfter
<1>1. /\ DOMAIN forks' = DOMAIN forks
      /\ \A k \in DOMAIN forks :
           /\ IsFork(forks'[k]) /\ forks'[k].at = forks[k].at
           /\ forks'[k].original = forks[k].original
           /\ forks'[k].branched = forks[k].branched
           /\ forks'[k].alone => forks[k].alone
  <2>1. CASE UNCHANGED forks
    BY <2>1 DEF ForksInv
  <2>2. CASE Crosses
    <3>1. SUFFICES ASSUME NEW k \in DOMAIN forks
                   PROVE  /\ IsFork(forks'[k]) /\ forks'[k].at = forks[k].at
                          /\ forks'[k].original = forks[k].original
                          /\ forks'[k].branched = forks[k].branched
                          /\ forks'[k].alone => forks[k].alone
      BY <2>2 DEF Crosses
    <3>2. forks'[k] = [forks[k] EXCEPT !.alone = @ /\ ~Bracketing(k)]
      BY <2>2 DEF Crosses
    <3>3. IsFork(forks[k])
      BY DEF ForksInv
    <3>4. (forks[k].alone /\ ~Bracketing(k)) \in BOOLEAN
      OBVIOUS
    <3>5. QED BY <3>2, <3>3, <3>4 DEF IsFork
  <2>3. QED BY <2>1, <2>2
<1>2. IsSeq(forks')
  <2>1. CASE UNCHANGED forks
    BY <2>1 DEF ForksInv
  <2>2. CASE Crosses
    <3>1. forks' = [k \in DOMAIN forks |-> forks'[k]]
      BY <2>2 DEF Crosses
    <3>2. QED BY <3>1, SameDomain DEF ForksInv
  <2>3. QED BY <2>1, <2>2
<1>3. ForksInv'
  BY <1>1, <1>2 DEF ForksInv, IsSeq, IsFork
<1>4. \A k \in DOMAIN forks : (Over(k)' <=> Over(k)) /\ (Unfinished(k)' => Unfinished(k))
  BY <1>1 DEF Over, Unfinished
<1>5. OnlyOne'
  BY <1>1, <1>4 DEF OnlyOne
<1>6. BracketInv'
  <2>1. SUFFICES ASSUME NEW i \in DOMAIN forks', Unfinished(i)'
                 PROVE  Bracket(forks'[i], running', pending')
    BY DEF BracketInv
  <2>2. Bracket(forks[i], running, pending)
    BY <1>1, <1>4, <2>1 DEF BracketInv
  <2>3. QED BY <1>1, <2>2 DEF Bracket
<1>7. LeavesAlone
  BY <1>4 DEF LeavesAlone, Returns
<1>8. QED BY <1>3, <1>5, <1>6, <1>7 DEF ForksAfter

-----------------------------------------------------------------------------
(* The actions of prime and bb.                                             *)
LEMMA Begins ==
  Init => IInv
<1> SUFFICES ASSUME Init PROVE IInv
  OBVIOUS
<1>1. IsSeq(files) /\ Len(files) > 0
  <2>1. files \in Seq({[entries |-> {}, leaf |-> 0]}) /\ Len(files) = 1
    BY DEF Init
  <2>2. QED BY <2>1, SeqOfItsValues
<1>2. running \in Nat /\ pending \in Seq(Nat)
  BY DEF Init
<1>3. forks = <<>> /\ DOMAIN forks = {}
  BY DEF Init
<1>4. IsSeq(forks)
  BY <1>3, EmptySeq DEF IsSeq
<1>5. QED
  BY <1>1, <1>2, <1>3, <1>4 DEF IInv, FilesInv, ForksInv, OnlyOne, BracketInv

(* Only a file's entries or its leaf change. *)
LEMMA FilesKept ==
  ASSUME FilesInv, files' = [i \in DOMAIN files |-> files'[i]],
         UNCHANGED <<running, pending>>
  PROVE  FilesInv'
<1>1. IsSeq(files') /\ Len(files') = Len(files)
  BY SameDomain DEF FilesInv
<1>2. QED BY <1>1 DEF FilesInv, IsSeq

LEMMA WritesStep ==
  ASSUME IInv, NEW text, Writes(text)
  PROVE  FilesInv' /\ ForksAfter
<1>1. files' = [i \in DOMAIN files |-> files'[i]] /\ UNCHANGED <<running, pending>>
  BY DEF Writes
<1>2. FilesInv'
  BY <1>1, FilesKept DEF IInv
<1>3. ForksAfter
  BY <1>1, StepOfNone DEF Writes, IInv
<1>4. QED BY <1>2, <1>3

LEMMA RewindsStep ==
  ASSUME IInv, Rewinds
  PROVE  FilesInv' /\ ForksAfter
<1>1. files' = [i \in DOMAIN files |-> files'[i]] /\ UNCHANGED <<running, pending>>
  BY DEF Rewinds
<1>2. FilesInv'
  BY <1>1, FilesKept DEF IInv
<1>3. ForksAfter
  BY <1>1, StepOfNone DEF Rewinds, IInv
<1>4. QED BY <1>2, <1>3

(* A replacement applied: the branch while the source is leaving, its own   *)
(* transcript while it is coming back.                                      *)
LEMMA AppliesStep ==
  ASSUME IInv, Applies
  PROVE  FilesInv' /\ ForksAfter
<1>1. pending \in Seq(Nat) /\ pending # <<>>
  BY DEF Applies, IInv, FilesInv
<1>2. running' \in Nat /\ pending' \in Seq(Nat)
  BY <1>1 DEF Applies
<1>3. FilesInv'
  BY <1>2 DEF Applies, IInv, FilesInv, IsSeq
<1>4. UNCHANGED forks
  BY DEF Applies
<1>5. ForksInv' /\ OnlyOne' /\ LeavesAlone
  BY <1>4 DEF IInv, ForksInv, IsSeq, IsFork, OnlyOne, Unfinished, Over, LeavesAlone, Returns
<1>6. BracketInv'
  <2>1. SUFFICES ASSUME NEW k \in DOMAIN forks, Unfinished(k)
                 PROVE  Bracket(forks[k], running', pending')
    BY <1>4 DEF BracketInv, Unfinished, Over
  <2>2. Bracket(forks[k], running, pending)
    BY <2>1 DEF IInv, BracketInv
  <2>3. CASE Leaving(running, pending) /\ forks[k].at = "branched"
    <3>1. running' = pending[1] /\ pending' = <<>>
      BY <1>1, <2>3 DEF Applies, Leaving
    <3>2. QED BY <2>2, <2>3, <3>1 DEF Bracket, Leaving, Away, AtHome, ComingBack
  <2>4. CASE ComingBack(running, pending) /\ forks[k].at = "verify"
    <3>1. running' = 1 /\ pending' = <<>>
      BY <2>4 DEF Applies, ComingBack
    <3>2. QED BY <2>2, <2>4, <3>1 DEF Bracket, Leaving, Away, AtHome, ComingBack
  <2>5. QED BY <1>1, <2>2, <2>3, <2>4 DEF Bracket, AtHome, Away
<1>7. QED BY <1>3, <1>5, <1>6 DEF ForksAfter

(* A new fork: the others that are under way are no longer alone, and it is *)
(* only if there are none and the source runs its own transcript.           *)
(* A new fork, and the forks it finds. *)
LEMMA ForkAsked ==
  ASSUME ForksInv, AskFork
  PROVE  \E last, c, alone :
           /\ c \in checkpoints \cup {NoCheckpoint} /\ alone \in BOOLEAN
           /\ alone <=> (\A k \in DOMAIN forks : Over(k)) /\ running = 1 /\ pending = <<>>
           /\ last \notin DOMAIN forks /\ DOMAIN forks' = DOMAIN forks \cup {last}
           /\ IsSeq(forks') /\ forks'[last] = CheckpointAloneOf(Blank, c, alone)
           /\ \A k \in DOMAIN forks :
                forks'[k] = IF Over(k) THEN forks[k] ELSE [forks[k] EXCEPT !.alone = FALSE]
<1> DEFINE Left(k) == IF Over(k) THEN forks[k] ELSE [forks[k] EXCEPT !.alone = FALSE]
           old == [k \in DOMAIN forks |-> Left(k)]
           alone == (\A k \in DOMAIN forks : Over(k)) /\ running = 1 /\ pending = <<>>
<1>1. PICK c \in checkpoints \cup {NoCheckpoint} :
        forks' = old \o <<[Blank EXCEPT !.checkpoint = c, !.alone = alone]>>
  BY Zenon DEF AskFork
<1> DEFINE new == CheckpointAloneOf(Blank, c, alone)
<1>2. old = [k \in DOMAIN forks |-> old[k]] /\ \A k \in DOMAIN forks : old[k] = Left(k)
  OBVIOUS
<1>3. forks' = old \o <<new>>
  BY <1>1 DEF CheckpointAloneOf
<1>4. IsSeq(forks)
  BY DEF ForksInv
<1>5. alone \in BOOLEAN
  OBVIOUS
<1> HIDE DEF old, new, Left
<1>6. PICK last : /\ last \notin DOMAIN forks
                  /\ DOMAIN (old \o <<new>>) = DOMAIN forks \cup {last}
                  /\ IsSeq(old \o <<new>>) /\ (old \o <<new>>)[last] = new
                  /\ \A k \in DOMAIN forks : (old \o <<new>>)[k] = old[k]
  BY <1>2, <1>4, OneMore
<1>7. /\ last \notin DOMAIN forks /\ DOMAIN forks' = DOMAIN forks \cup {last}
      /\ IsSeq(forks') /\ forks'[last] = new
      /\ \A k \in DOMAIN forks : forks'[k] = Left(k)
  BY <1>2, <1>3, <1>6
<1>8. QED
  <2>1. new = CheckpointAloneOf(Blank, c, alone)
    BY DEF new
  <2>2. \A k \in DOMAIN forks :
          forks'[k] = IF Over(k) THEN forks[k] ELSE [forks[k] EXCEPT !.alone = FALSE]
    BY <1>7 DEF Left
  <2>3. alone <=> (\A k \in DOMAIN forks : Over(k)) /\ running = 1 /\ pending = <<>>
    OBVIOUS
  <2> HIDE DEF alone
  <2>4. QED BY <1>5, <1>7, <2>1, <2>2, <2>3

LEMMA AskForkStep ==
  ASSUME IInv, AskFork
  PROVE  FilesInv' /\ ForksAfter
<1>1. UNCHANGED <<files, running, pending>>
  BY DEF AskFork, prime
<1>2. FilesInv'
  BY <1>1 DEF IInv, FilesInv, IsSeq
<1>3. PICK last, c, alone :
        /\ c \in checkpoints \cup {NoCheckpoint} /\ alone \in BOOLEAN
        /\ alone <=> (\A k \in DOMAIN forks : Over(k)) /\ running = 1 /\ pending = <<>>
        /\ last \notin DOMAIN forks /\ DOMAIN forks' = DOMAIN forks \cup {last}
        /\ IsSeq(forks') /\ forks'[last] = CheckpointAloneOf(Blank, c, alone)
        /\ \A k \in DOMAIN forks :
             forks'[k] = IF Over(k) THEN forks[k] ELSE [forks[k] EXCEPT !.alone = FALSE]
  BY ForkAsked DEF IInv
<1>4. /\ IsFork(forks'[last]) /\ forks'[last].at = "state"
      /\ forks'[last].branched = 0 /\ forks'[last].alone = alone
  BY <1>3, BlankIsFork, CheckpointAloneSet
<1>5. ASSUME NEW i \in DOMAIN forks
      PROVE  /\ IsFork(forks'[i]) /\ forks'[i].at = forks[i].at
             /\ Over(i) \/ forks'[i].alone = FALSE
  <2>1. IsFork(forks[i])
    BY DEF IInv, ForksInv
  <2>2. CASE Over(i)
    BY <1>3, <2>1, <2>2
  <2>3. CASE ~Over(i)
    <3>1. forks'[i] = [forks[i] EXCEPT !.alone = FALSE]
      BY <1>3, <2>3
    <3>2. QED BY <2>1, <3>1 DEF IsFork
  <2>4. QED BY <2>2, <2>3
<1>6. ForksInv'
  <2>1. \A i \in DOMAIN forks' : IsFork(forks'[i])
    BY <1>3, <1>4, <1>5
  <2>2. QED BY <1>3, <2>1 DEF ForksInv, IsSeq, IsFork
<1>7. \A i \in DOMAIN forks : Over(i)' <=> Over(i)
  BY <1>5 DEF Over
<1>8. ASSUME NEW i \in DOMAIN forks', Unfinished(i)'
      PROVE  i = last /\ alone
  BY <1>3, <1>4, <1>5, <1>7, <1>8 DEF Unfinished
<1>9. OnlyOne'
  BY <1>3, <1>7, <1>8 DEF OnlyOne
<1>10. BracketInv'
  <2>1. SUFFICES ASSUME NEW i \in DOMAIN forks', Unfinished(i)'
                 PROVE  Bracket(forks'[i], running', pending')
    BY DEF BracketInv
  <2>2. i = last /\ alone
    BY <1>8, <2>1
  <2>3. QED BY <1>1, <1>3, <1>4, <2>2 DEF Bracket, AtHome
<1>11. LeavesAlone
  BY <1>7 DEF LeavesAlone, Returns
<1>12. QED BY <1>2, <1>6, <1>9, <1>10, <1>11 DEF ForksAfter

-----------------------------------------------------------------------------
(* The steps of a fork.  A step that leaves prime alone keeps its part.     *)
LEMMA PrimeKept ==
  ASSUME FilesInv, UNCHANGED prime
  PROVE  FilesInv' /\ UNCHANGED <<running, pending>>
BY DEF FilesInv, prime, IsSeq

(* What the invariant says of a fork that takes a step. *)
LEMMA ForkAtStep ==
  ASSUME IInv, NEW k \in DOMAIN forks
  PROVE  /\ IsFork(forks[k]) /\ forks[k].original \in Nat
         /\ forks[k].alone /\ ~Over(k) => Bracket(forks[k], running, pending)
BY DEF IInv, ForksInv, BracketInv, Unfinished, IsFork

LEMMA ReadsStateStep ==
  ASSUME IInv, NEW k \in DOMAIN forks, ReadsState(k)
  PROVE  FilesInv' /\ ForksAfter
<1>0. IsFork(forks[k])
  BY ForkAtStep
<1> DEFINE f == [forks[k] EXCEPT !.original = running, !.at = "tree"]
<1>1. FilesInv' /\ UNCHANGED <<running, pending>> /\ running \in Nat
  BY PrimeKept DEF ReadsState, IInv, FilesInv
<1>2. forks[k].at = "state" /\ ~Over(k) /\ Sets(k, f)
  BY DEF ReadsState, At, Over
<1>3. IsFork(f) /\ f.alone = forks[k].alone /\ f.at = "tree"
      /\ f.original = running /\ f.branched = forks[k].branched
  <2>1. f = OriginalAtOf(forks[k], running, "tree")
    BY DEF OriginalAtOf
  <2> HIDE DEF f
  <2>2. QED BY <1>0, <1>1, <2>1, OriginalAtSet
<1> HIDE DEF f
<1>4. forks[k].alone => Bracket(f, running', pending')
  BY <1>1, <1>2, <1>3, ForkAtStep DEF Bracket, AtHome
<1>5. QED BY <1>1, <1>2, <1>3, <1>4, StepOfOne DEF IInv

LEMMA ReadsTreeStep ==
  ASSUME IInv, NEW k \in DOMAIN forks, ReadsTree(k)
  PROVE  FilesInv' /\ ForksAfter
<1>0. IsFork(forks[k])
  BY ForkAtStep
<1>1. FilesInv' /\ UNCHANGED <<running, pending>>
  BY PrimeKept DEF ReadsTree, IInv
<1>2. forks[k].at = "tree" /\ ~Over(k)
  BY DEF ReadsTree, At, Over
<1>3. PICK branch, target, at :
        /\ Sets(k, [forks[k] EXCEPT !.branch = branch, !.target = target, !.at = at])
        /\ at \in {"messages", "returned", "fork"}
  BY DEF ReadsTree
<1> DEFINE f == [forks[k] EXCEPT !.branch = branch, !.target = target, !.at = at]
<1>4. IsFork(f) /\ f.alone = forks[k].alone /\ f.at = at
      /\ f.original = forks[k].original /\ f.branched = forks[k].branched
  <2>1. f = BranchTargetAtOf(forks[k], branch, target, at)
    BY DEF BranchTargetAtOf
  <2> HIDE DEF f
  <2>2. QED BY <1>0, <2>1, BranchTargetAtSet
<1>5. Sets(k, f)
  BY <1>3
<1> HIDE DEF f
<1>6. forks[k].alone => forks[k].original = 1 /\ forks[k].branched = 0
                        /\ AtHome(running, pending)
  BY <1>2, ForkAtStep DEF Bracket
<1>7. forks[k].alone /\ ~Finished(f) => Bracket(f, running', pending')
  BY <1>1, <1>3, <1>4, <1>6 DEF Bracket, AtHome, Finished
<1>8. QED BY <1>1, <1>2, <1>4, <1>5, <1>6, <1>7, StepOfOne DEF IInv, AtHome

LEMMA ReadsMessagesStep ==
  ASSUME IInv, NEW k \in DOMAIN forks, ReadsMessages(k)
  PROVE  FilesInv' /\ ForksAfter
<1>0. IsFork(forks[k])
  BY ForkAtStep
<1>1. FilesInv' /\ UNCHANGED <<running, pending>>
  BY PrimeKept DEF ReadsMessages, IInv
<1>2. forks[k].at = "messages" /\ ~Over(k)
  BY DEF ReadsMessages, At, Over
<1>3. PICK target, at :
        /\ Sets(k, [forks[k] EXCEPT !.target = target, !.at = at])
        /\ at \in {"failed", "fork"}
  BY DEF ReadsMessages
<1> DEFINE f == [forks[k] EXCEPT !.target = target, !.at = at]
<1>4. IsFork(f) /\ f.alone = forks[k].alone /\ f.at = at
      /\ f.original = forks[k].original /\ f.branched = forks[k].branched
  <2>1. f = TargetAtOf(forks[k], target, at)
    BY DEF TargetAtOf
  <2> HIDE DEF f
  <2>2. QED BY <1>0, <2>1, TargetAtSet
<1>5. Sets(k, f)
  BY <1>3
<1> HIDE DEF f
<1>6. forks[k].alone => forks[k].original = 1 /\ forks[k].branched = 0
                        /\ AtHome(running, pending)
  BY <1>2, ForkAtStep DEF Bracket
<1>7. forks[k].alone /\ ~Finished(f) => Bracket(f, running', pending')
  BY <1>1, <1>3, <1>4, <1>6 DEF Bracket, AtHome, Finished
<1>8. QED BY <1>1, <1>2, <1>3, <1>4, <1>5, <1>7, StepOfOne DEF IInv

(* The branch prime replaces the session with is a new transcript.          *)
LEMMA BranchesAway ==
  ASSUME IInv, NEW k \in DOMAIN forks, Branches(k)
  PROVE  /\ FilesInv' /\ running' = running
         /\ AtHome(running, pending) => Leaving(running', pending')
<1>1. PICK file : files' = Append(files, file)
  BY DEF Branches
<1>2. IsSeq(files') /\ Len(files') = Len(files) + 1 /\ Len(files) \in Nat /\ Len(files) > 0
  BY <1>1, Appended DEF IInv, FilesInv
<1>3. pending \in Seq(Nat) /\ pending' = Append(pending, Len(files) + 1)
      /\ Len(files) + 1 \in Nat /\ running' = running /\ running \in Nat
  BY <1>2 DEF Branches, IInv, FilesInv
<1>4. pending' \in Seq(Nat)
  BY <1>3
<1>5. FilesInv'
  BY <1>2, <1>3, <1>4 DEF FilesInv, IsSeq
<1>6. AtHome(running, pending) => Leaving(running', pending')
  BY <1>2, <1>3 DEF AtHome, Leaving
<1>7. QED BY <1>3, <1>5, <1>6

LEMMA ForksStep ==
  ASSUME IInv, NEW k \in DOMAIN forks, Forks(k)
  PROVE  FilesInv' /\ ForksAfter
<1> DEFINE f == [forks[k] EXCEPT !.at = "branched"]
<1>1. FilesInv' /\ (AtHome(running, pending) => Leaving(running', pending'))
  BY BranchesAway DEF Forks
<1>2. forks[k].at = "fork" /\ ~Over(k) /\ Sets(k, f)
  BY DEF Forks, At, Over
<1>3. IsFork(f) /\ f.alone = forks[k].alone /\ f.at = "branched"
      /\ f.original = forks[k].original /\ f.branched = forks[k].branched
  BY ForkAtStep DEF IsFork
<1> HIDE DEF f
<1>4. forks[k].alone => Bracket(f, running', pending')
  BY <1>1, <1>2, <1>3, ForkAtStep DEF Bracket
<1>5. QED BY <1>1, <1>2, <1>3, <1>4, StepOfOne DEF IInv

LEMMA PollsBranchStep ==
  ASSUME IInv, NEW k \in DOMAIN forks, PollsBranch(k)
  PROVE  FilesInv' /\ ForksAfter
<1>0. IsFork(forks[k])
  BY ForkAtStep
<1>1. FilesInv' /\ UNCHANGED <<running, pending>> /\ running \in Nat
  BY PrimeKept DEF PollsBranch, IInv, FilesInv
<1>2. forks[k].at = "branched" /\ ~Over(k)
  BY DEF PollsBranch, At, Over
<1>3. forks[k].alone => forks[k].original = 1
                        /\ (Leaving(running, pending) \/ Away(running, pending))
  BY <1>2, ForkAtStep DEF Bracket
<1>4. CASE IsBranch(running, forks[k].original)
  <2> DEFINE f == [forks[k] EXCEPT !.branched = running, !.polls = 0, !.at = "switch"]
  <2>1. Sets(k, f) /\ running # forks[k].original
    BY <1>4 DEF PollsBranch, IsBranch, OtherFile
  <2>2. IsFork(f) /\ f.alone = forks[k].alone /\ f.at = "switch"
        /\ f.original = forks[k].original /\ f.branched = running
    <3>1. f = BranchedPollsAtOf(forks[k], running, 0, "switch")
      BY DEF BranchedPollsAtOf
    <3> HIDE DEF f
    <3>2. QED BY <1>0, <3>1, BranchedPollsAtSet
  <2> HIDE DEF f
  <2>3. forks[k].alone => Bracket(f, running', pending')
    BY <1>1, <1>3, <2>1, <2>2 DEF Bracket, Leaving, Away
  <2>4. QED BY <1>1, <1>2, <2>1, <2>2, <2>3, StepOfOne DEF IInv
<1>5. CASE ~IsBranch(running, forks[k].original)
  <2>1. PICK at, polls : /\ Sets(k, [forks[k] EXCEPT !.polls = polls, !.at = at])
                         /\ at \in {"failed", "branched"}
    <3>1. Sets(k, [forks[k] EXCEPT !.polls = @ + 1, !.at = IF LastPoll(k) THEN "failed" ELSE @])
      BY <1>5 DEF PollsBranch
    <3>2. QED BY <1>2, <3>1
  <2> DEFINE f == [forks[k] EXCEPT !.polls = polls, !.at = at]
  <2>2. IsFork(f) /\ f.alone = forks[k].alone /\ f.at = at
        /\ f.original = forks[k].original /\ f.branched = forks[k].branched
    <3>1. f = PollsAtOf(forks[k], polls, at)
      BY DEF PollsAtOf
    <3> HIDE DEF f
    <3>2. QED BY <1>0, <3>1, PollsAtSet
  <2>3. Sets(k, f)
    BY <2>1
  <2> HIDE DEF f
  <2>4. forks[k].alone /\ ~Finished(f) => Bracket(f, running', pending')
    BY <1>1, <1>3, <2>1, <2>2 DEF Bracket, Finished
  <2>5. QED BY <1>1, <1>2, <2>1, <2>2, <2>3, <2>4, StepOfOne DEF IInv
<1>6. QED BY <1>4, <1>5

(* The switch puts the source's own transcript behind nothing else. *)
LEMMA SwitchedBack ==
  ASSUME IInv, NEW k \in DOMAIN forks, SwitchesBack(k)
  PROVE  /\ FilesInv' /\ running' = running
         /\ Away(running, pending) /\ forks[k].original = 1 => ComingBack(running', pending')
<1>1. pending \in Seq(Nat) /\ pending' = Append(pending, forks[k].original)
      /\ forks[k].original \in Nat /\ UNCHANGED <<files, running>>
  BY ForkAtStep DEF SwitchesBack, IInv, FilesInv
<1>2. pending' \in Seq(Nat)
  BY <1>1
<1>3. FilesInv'
  BY <1>1, <1>2 DEF IInv, FilesInv, IsSeq
<1>4. Append(<<>>, 1) = <<1>>
  OBVIOUS
<1>5. QED BY <1>1, <1>3, <1>4 DEF Away, ComingBack

LEMMA SwitchesStep ==
  ASSUME IInv, NEW k \in DOMAIN forks, Switches(k)
  PROVE  FilesInv' /\ ForksAfter
<1> DEFINE f == [forks[k] EXCEPT !.at = "verify"]
<1>1. /\ FilesInv'
      /\ Away(running, pending) /\ forks[k].original = 1 => ComingBack(running', pending')
  BY SwitchedBack DEF Switches
<1>2. forks[k].at = "switch" /\ ~Over(k) /\ Sets(k, f)
  BY DEF Switches, At, Over
<1>3. IsFork(f) /\ f.alone = forks[k].alone /\ f.at = "verify"
      /\ f.original = forks[k].original /\ f.branched = forks[k].branched
  BY ForkAtStep DEF IsFork
<1> HIDE DEF f
<1>4. forks[k].alone => Bracket(f, running', pending')
  BY <1>1, <1>2, <1>3, ForkAtStep DEF Bracket
<1>5. QED BY <1>1, <1>2, <1>3, <1>4, StepOfOne DEF IInv

LEMMA PollsRestoredStep ==
  ASSUME IInv, NEW k \in DOMAIN forks, PollsRestored(k)
  PROVE  FilesInv' /\ ForksAfter
<1>0. IsFork(forks[k])
  BY ForkAtStep
<1>1. FilesInv' /\ UNCHANGED <<running, pending>>
  BY PrimeKept DEF PollsRestored, IInv
<1>2. forks[k].at = "verify" /\ ~Over(k)
  BY DEF PollsRestored, At, Over
<1>3. forks[k].alone =>
        /\ forks[k].original = 1 /\ forks[k].branched # 1
        /\ ComingBack(running, pending) \/ AtHome(running, pending)
  BY <1>2, ForkAtStep DEF Bracket
<1>4. PICK at, polls : /\ Sets(k, [forks[k] EXCEPT !.polls = polls, !.at = at])
                       /\ at \in {"failed", "verify", "returned"}
                       /\ at = "returned" => running = forks[k].original
  <2>1. CASE IsRestored(running, forks[k].original)
    <3>1. Sets(k, [forks[k] EXCEPT !.at = "returned"])
      BY <2>1 DEF PollsRestored
    <3>2. [forks[k] EXCEPT !.at = "returned"]
            = [forks[k] EXCEPT !.polls = forks[k].polls, !.at = "returned"]
      BY ForkAtStep DEF IsFork
    <3>3. QED BY <2>1, <3>1, <3>2 DEF IsRestored, OwnFile
  <2>2. CASE ~IsRestored(running, forks[k].original)
    <3> DEFINE PickAt == IF LastPoll(k) THEN "failed" ELSE forks[k].at
    <3>1. Sets(k, [forks[k] EXCEPT !.polls = forks[k].polls + 1, !.at = PickAt])
      BY <2>2 DEF PollsRestored
    <3>2. forks[k].at = "verify" /\ PickAt \in {"failed", "verify"}
      BY <1>2
    <3>3. QED BY <3>1, <3>2
  <2>3. QED BY <2>1, <2>2
<1> DEFINE f == [forks[k] EXCEPT !.polls = polls, !.at = at]
<1>5. IsFork(f) /\ f.alone = forks[k].alone /\ f.at = at
      /\ f.original = forks[k].original /\ f.branched = forks[k].branched
  <2>1. f = PollsAtOf(forks[k], polls, at)
    BY DEF PollsAtOf
  <2> HIDE DEF f
  <2>2. QED BY <1>0, <2>1, PollsAtSet
<1>6. Sets(k, f)
  BY <1>4
<1> HIDE DEF f
<1>7. forks[k].alone /\ ~Finished(f) => Bracket(f, running', pending')
  BY <1>1, <1>3, <1>4, <1>5 DEF Bracket, Finished
<1>8. forks[k].alone /\ f.at = "returned" =>
        running = 1 /\ pending = <<>> /\ forks[k].branched # 1
  BY <1>3, <1>4, <1>5 DEF ComingBack, AtHome
<1>9. QED BY <1>1, <1>2, <1>5, <1>6, <1>7, <1>8, StepOfOne DEF IInv

LEMMA FailsStep ==
  ASSUME IInv, NEW k \in DOMAIN forks, Fails(k)
  PROVE  FilesInv' /\ ForksAfter
<1> DEFINE f == [forks[k] EXCEPT !.at = "failed"]
<1>1. FilesInv'
  BY PrimeKept, BranchesAway, SwitchedBack DEF Fails, IInv
<1>2. ~Over(k) /\ Sets(k, f)
  BY DEF Fails
<1>3. IsFork(f) /\ f.alone = forks[k].alone /\ f.at = "failed"
  BY ForkAtStep DEF IsFork
<1> HIDE DEF f
<1>4. Finished(f)
  BY <1>3 DEF Finished
<1>5. QED BY <1>1, <1>2, <1>3, <1>4, StepOfOne DEF IInv

-----------------------------------------------------------------------------
(* Every step, and a step that changes nothing.                             *)
LEMMA EachStep ==
  ASSUME IInv, [Next]_vars
  PROVE  FilesInv' /\ ForksAfter
<1>1. CASE Prompted
  BY <1>1, WritesStep DEF Prompted, Turn, TypedOutside
<1>2. CASE LaneStartsOver
  BY <1>2, PrimeKept, StepOfNone DEF LaneStartsOver, IInv
<1>3. CASE Rewinds
  BY <1>3, RewindsStep
<1>4. CASE Applies
  BY <1>4, AppliesStep
<1>5. CASE AskFork
  BY <1>5, AskForkStep
<1>6. CASE Reads
  BY <1>6, ReadsStateStep, ReadsTreeStep, ReadsMessagesStep DEF Reads
<1>7. CASE Brackets
  BY <1>7, ForksStep, SwitchesStep DEF Brackets
<1>8. CASE Polls
  BY <1>8, PollsBranchStep, PollsRestoredStep DEF Polls
<1>9. CASE ForkFails
  BY <1>9, FailsStep DEF ForkFails
<1>10. CASE UNCHANGED vars
  BY <1>10, PrimeKept, StepOfNone DEF vars, IInv
<1>11. CASE TurnFails
  BY <1>11, WritesStep, PrimeKept, StepOfNone DEF TurnFails, IInv
<1>12. QED
  BY <1>1, <1>2, <1>3, <1>4, <1>5, <1>6, <1>7, <1>8, <1>9, <1>10, <1>11 DEF Next

(* Where a fork that is alone stands always says what the source runs and   *)
(* what is about to replace it (the bracket of src/fork-session.ts).        *)
THEOREM ForkIsBracketed == Spec => []IInv
<1>1. Init => IInv
  BY Begins
<1>2. IInv /\ [Next]_vars => IInv'
  BY EachStep DEF IInv, ForksAfter
<1>3. QED BY <1>1, <1>2, PTL DEF Spec

(* A fork that returns, and had the source to itself, leaves the source on  *)
(* its own transcript with nothing about to replace it, and hands out       *)
(* another transcript than the source's (forkPrimeSession).                 *)
THEOREM ForkLeavesSourceAlone == Spec => SourceIsLeftAlone
<1>1. IInv /\ [Next]_vars =>
        [\A k \in DOMAIN forks : Returns(k) /\ forks[k].alone =>
           /\ running = 1 /\ pending = <<>>
           /\ forks[k].branched # 1]_vars
  BY EachStep DEF ForksAfter, LeavesAlone
<1>2. QED BY <1>1, ForkIsBracketed, PTL DEF Spec, SourceIsLeftAlone

-----------------------------------------------------------------------------
(* Natural numbers.  Induction, as a fact about sets: a set that holds 0    *)
(* and the successor of what it holds is all of them.                       *)
Below == {p \in Nat \X Nat : p[1] < p[2]}

LEMMA LeastNumber ==
  ASSUME NEW T, T \subseteq Nat, T # {}
  PROVE  \E x \in T : \A y \in T : x <= y
<1>1. IsWellFoundedOn(Below, Nat)
  BY NatLessThanWellFounded DEF OpToRel, Below
<1>2. PICK x \in T : \A y \in T : ~(<<y, x>> \in Below)
  BY <1>1, WFMin
<1>3. ASSUME NEW y \in T PROVE x <= y
  <2>1. x \in Nat /\ y \in Nat /\ ~(<<y, x>> \in Below)
    BY <1>2
  <2>2. QED BY <2>1 DEF Below
<1>4. QED BY <1>3

LEMMA EveryNumber ==
  ASSUME NEW T, 0 \in T, \A n \in Nat : n \in T => n + 1 \in T
  PROVE  \A n \in Nat : n \in T
<1> DEFINE U == Nat \ T
<1> SUFFICES ASSUME U # {} PROVE FALSE
  OBVIOUS
<1>1. U \subseteq Nat
  OBVIOUS
<1>2. PICK x \in U : \A y \in U : x <= y
  <2> HIDE DEF U
  <2>1. QED BY <1>1, LeastNumber
<1>3. x \in Nat /\ x # 0 /\ x - 1 \in Nat /\ ~(x <= x - 1) /\ (x - 1) + 1 = x
  OBVIOUS
<1>4. x - 1 \in T
  BY <1>2, <1>3
<1>5. QED BY <1>3, <1>4

(* The least and the greatest of some numbers. *)
LEMMA MinIsLeast ==
  ASSUME NEW T, T \subseteq Nat, T # {}
  PROVE  Min(T) \in T /\ \A y \in T : Min(T) <= y
BY LeastNumber DEF Min

LEMMA MaxIsGreatest ==
  ASSUME NEW n \in Nat, NEW T, T \subseteq 0..n, NEW x \in T, \A y \in T : x >= y
  PROVE  Max(T) = x
<1>1. Max(T) \in T /\ \A y \in T : Max(T) >= y
  BY DEF Max
<1> DEFINE m == Max(T)
<1>2. m \in T /\ m >= x
  BY <1>1
<1> HIDE DEF m
<1>3. x >= m /\ x \in 0..n /\ m \in 0..n
  BY <1>2
<1>4. x \in Int /\ m \in Int
  BY <1>3
<1>5. m = x
  BY <1>2, <1>3, <1>4
<1>6. QED BY <1>5 DEF m

IsEven(n) == \E m \in Nat : n = 2 * m
LEMMA EvenOrOdd ==
  ASSUME NEW n \in Nat
  PROVE  /\ IsEven(n) => ~IsEven(n + 1) /\ IsEven(n + 2)
         /\ ~IsEven(n) => \E m \in Nat : n = 2 * m + 1
<1> DEFINE T == {k \in Nat : \E m \in Nat : k = 2 * m \/ k = 2 * m + 1}
<1>1. 0 \in T
  <2>1. 0 = 2 * 0
    OBVIOUS
  <2>2. QED BY <2>1
<1>2. ASSUME NEW k \in Nat, k \in T PROVE k + 1 \in T
  <2>1. PICK m \in Nat : k = 2 * m \/ k = 2 * m + 1
    BY <1>2
  <2>2. CASE k = 2 * m
    <3>1. k + 1 = 2 * m + 1
      BY <2>2
    <3>2. QED BY <3>1
  <2>3. CASE k = 2 * m + 1
    <3> DEFINE j == m + 1
    <3>1. k + 1 = 2 * j /\ j \in Nat
      BY <2>3
    <3> HIDE DEF j
    <3>2. QED BY <3>1
  <2>4. QED BY <2>1, <2>2, <2>3
<1>3. n \in T
  <2> HIDE DEF T
  <2>1. QED BY <1>1, <1>2, EveryNumber
<1>4. IsEven(n) => ~IsEven(n + 1) /\ IsEven(n + 2)
  <2>1. SUFFICES ASSUME NEW m \in Nat, n = 2 * m
                 PROVE  ~IsEven(n + 1) /\ IsEven(n + 2)
    BY DEF IsEven
  <2>2. \A i \in Nat : n + 1 # 2 * i
    BY <2>1
  <2>3. n + 2 = 2 * (m + 1) /\ m + 1 \in Nat
    BY <2>1
  <2>4. ~IsEven(n + 1)
    BY <2>2 DEF IsEven
  <2>5. IsEven(n + 2)
    BY <2>3 DEF IsEven
  <2>6. QED BY <2>4, <2>5
<1>5. QED BY <1>3, <1>4 DEF IsEven

(* An odd number comes before an even one. *)
LEMMA OddFollowed ==
  ASSUME NEW n \in Nat, ~IsEven(n)
  PROVE  IsEven(n + 1) /\ n # 0 /\ n - 1 \in Nat /\ IsEven(n - 1)
<1>1. PICK m \in Nat : n = 2 * m + 1
  BY EvenOrOdd
<1>2. n + 1 = 2 * (m + 1) /\ n - 1 = 2 * m
  BY <1>1
<1>3. QED BY <1>1, <1>2 DEF IsEven

LEMMA EvenPreceded ==
  ASSUME NEW n \in Nat, IsEven(n), n # 0
  PROVE  n - 1 \in Nat /\ ~IsEven(n - 1) /\ n - 2 \in Nat /\ IsEven(n - 2)
<1>1. PICK m \in Nat : n = 2 * m
  BY DEF IsEven
<1>2. m - 1 \in Nat /\ n - 2 = 2 * (m - 1) /\ n - 1 \in Nat /\ n - 2 \in Nat
  BY <1>1
<1>3. IsEven(n - 2) /\ (n - 2) + 1 = n - 1
  BY <1>2 DEF IsEven
<1>4. ~IsEven((n - 2) + 1)
  BY <1>2, <1>3, EvenOrOdd
<1>5. QED BY <1>2, <1>3, <1>4

-----------------------------------------------------------------------------
(* A transcript's entries: messages and answers in turn, each turn after an *)
(* earlier answer.                                                          *)
IsPaired(S, n) ==
  S \subseteq 1..n /\ \A e \in S : IF IsEven(e) THEN e - 1 \in S ELSE e + 1 \in S
IsTree ==
  /\ Len(entries) \in Nat /\ IsEven(Len(entries)) /\ DOMAIN entries = 1..Len(entries)
  /\ \A e \in 1..Len(entries) :
       /\ entries[e].parent \in 0..(e - 1)
       /\ IsEven(e) => ~entries[e].user /\ entries[e].parent = e - 1
       /\ ~IsEven(e) => entries[e].user /\ IsEven(entries[e].parent)

(* Branch is what its recursion says. *)
Climbs(g, n) == g = [k \in 0..n |-> IF k = 0 THEN {} ELSE {k} \cup g[entries[k].parent]]

LEMMA ClimbExists ==
  ASSUME IsTree, NEW n \in 0..Len(entries)
  PROVE  \E g : Climbs(g, n)
<1> DEFINE T == {m \in Nat : m <= Len(entries) => \E g : Climbs(g, m)}
<1>1. 0 \in T
  <2> DEFINE h == [k \in 0..0 |-> {}]
  <2>1. h = [k \in 0..0 |-> IF k = 0 THEN {} ELSE {k} \cup h[entries[k].parent]]
    OBVIOUS
  <2>2. Climbs(h, 0)
    BY <2>1 DEF Climbs
  <2>3. QED BY <2>2
<1>2. ASSUME NEW m \in Nat, m \in T PROVE m + 1 \in T
  <2>1. SUFFICES ASSUME m + 1 <= Len(entries) PROVE \E g : Climbs(g, m + 1)
    OBVIOUS
  <2>2. Len(entries) \in Nat /\ m <= Len(entries)
    BY <2>1 DEF IsTree
  <2>3. PICK g : Climbs(g, m)
    BY <1>2, <2>2
  <2>4. g = [k \in 0..m |-> IF k = 0 THEN {} ELSE {k} \cup g[entries[k].parent]]
    BY <2>3 DEF Climbs
  <2> DEFINE h == [k \in 0..(m + 1) |-> IF k = m + 1 THEN {k} \cup g[entries[k].parent] ELSE g[k]]
  <2>5. \A k \in 1..(m + 1) : entries[k].parent \in 0..m /\ entries[k].parent # m + 1
                              /\ entries[k].parent \in 0..(m + 1)
    <3>1. SUFFICES ASSUME NEW k \in 1..(m + 1)
                   PROVE  entries[k].parent \in 0..m /\ entries[k].parent # m + 1
                          /\ entries[k].parent \in 0..(m + 1)
      OBVIOUS
    <3>2. k \in 1..Len(entries) /\ entries[k].parent \in 0..(k - 1)
      BY <2>1, <2>2 DEF IsTree
    <3>3. QED BY <3>2
  <2>6. \A k \in 0..m : k \in 0..(m + 1) /\ k # m + 1 /\ (k = 0 \/ k \in 1..(m + 1))
    OBVIOUS
  <2>7. \A k \in 0..m : h[k] = g[k]
    BY <2>6
  <2>8. \A k \in 0..(m + 1) : h[k] = IF k = 0 THEN {} ELSE {k} \cup h[entries[k].parent]
    <3>1. SUFFICES ASSUME NEW k \in 0..(m + 1)
                   PROVE  h[k] = IF k = 0 THEN {} ELSE {k} \cup h[entries[k].parent]
      OBVIOUS
    <3>2. CASE k = 0
      <4>1. 0 \in 0..m
        OBVIOUS
      <4>2. h[0] = g[0] /\ g[0] = {}
        BY <2>4, <2>7, <4>1
      <4>3. QED BY <3>2, <4>2
    <3>3. CASE k # 0
      <4>1. k \in 1..(m + 1) /\ h[entries[k].parent] = g[entries[k].parent]
        BY <2>5, <2>7, <3>3
      <4>2. CASE k = m + 1
        BY <3>3, <4>1, <4>2
      <4>3. CASE k # m + 1
        <5>1. k \in 0..m /\ h[k] = g[k]
          BY <2>7, <4>3
        <5>2. g[k] = {k} \cup g[entries[k].parent]
          BY <2>4, <3>3, <5>1
        <5>3. QED BY <3>3, <4>1, <5>1, <5>2
      <4>4. QED BY <4>2, <4>3
    <3>4. QED BY <3>2, <3>3
  <2>9. h = [k \in 0..(m + 1) |-> h[k]]
    OBVIOUS
  <2> HIDE DEF h
  <2>10. h = [k \in 0..(m + 1) |-> IF k = 0 THEN {} ELSE {k} \cup h[entries[k].parent]]
    BY <2>8, <2>9
  <2>11. QED BY <2>10 DEF Climbs
<1>3. n \in Nat /\ n <= Len(entries)
  BY DEF IsTree
<1>4. n \in T
  <2> HIDE DEF T
  <2>1. QED BY <1>1, <1>2, <1>3, EveryNumber
<1>5. QED BY <1>3, <1>4

LEMMA BranchClimbs ==
  ASSUME IsTree
  PROVE  \A e \in 0..Len(entries) :
           Branch(e) = IF e = 0 THEN {} ELSE {e} \cup Branch(entries[e].parent)
<1> DEFINE n == Len(entries)
           up == CHOOSE g : g = [k \in 0..n |-> IF k = 0 THEN {} ELSE {k} \cup g[entries[k].parent]]
<1>1. n \in Nat /\ n \in 0..Len(entries)
  BY DEF IsTree
<1>2. PICK g : g = [k \in 0..n |-> IF k = 0 THEN {} ELSE {k} \cup g[entries[k].parent]]
  BY <1>1, ClimbExists DEF Climbs
<1>3. up = [k \in 0..n |-> IF k = 0 THEN {} ELSE {k} \cup up[entries[k].parent]]
  BY <1>2
<1>4. \A e : Branch(e) = up[e]
  BY DEF Branch
<1> HIDE DEF up
<1>5. \A e \in 0..n : up[e] = IF e = 0 THEN {} ELSE {e} \cup up[entries[e].parent]
  BY <1>3
<1>6. QED BY <1>4, <1>5

(* The branch from an answer consists of whole turns, and holds the answer. *)
LEMMA BranchIsPaired ==
  ASSUME IsTree, NEW e \in 0..Len(entries), IsEven(e)
  PROVE  IsPaired(Branch(e), Len(entries)) /\ (e # 0 => e \in Branch(e))
<1> DEFINE n == Len(entries)
           T == {m \in Nat : \A l \in 0..m : 2 * l <= n => IsPaired(Branch(2 * l), n)}
<1>0. n \in Nat
  BY DEF IsTree
<1>1. 0 \in T
  <2>1. Branch(0) = {}
    BY <1>0, BranchClimbs
  <2>2. IsPaired(Branch(0), n)
    BY <2>1 DEF IsPaired
  <2>3. \A l \in 0..0 : 2 * l = 0
    OBVIOUS
  <2>4. QED BY <2>2, <2>3
<1>2. ASSUME NEW m \in Nat, m \in T PROVE m + 1 \in T
  <2>1. SUFFICES ASSUME 2 * (m + 1) <= n PROVE IsPaired(Branch(2 * (m + 1)), n)
    <3>1. \A l \in 0..(m + 1) : l \in 0..m \/ l = m + 1
      OBVIOUS
    <3>2. QED BY <1>2, <3>1
  <2> DEFINE a == 2 * (m + 1)
             p == entries[a - 1].parent
  <2>2. a \in 1..n /\ a - 1 \in 1..n /\ a \in 0..n /\ a - 1 \in 0..n /\ a # 0 /\ a - 1 # 0 /\ a \in Nat
    BY <1>0, <2>1
  <2>3. IsEven(a) /\ ~IsEven(a - 1)
    <3>1. IsEven(a)
      BY DEF IsEven
    <3>2. QED BY <2>2, <3>1, EvenPreceded
  <2>4. entries[a].parent = a - 1 /\ p \in 0..(a - 2) /\ IsEven(p)
    <3>1. entries[a].parent = a - 1
      BY <2>2, <2>3 DEF IsTree
    <3>2. p \in 0..((a - 1) - 1) /\ IsEven(p)
      BY <2>2, <2>3 DEF IsTree
    <3>3. QED BY <3>1, <3>2
  <2>5. PICK l \in Nat : p = 2 * l
    BY <2>4 DEF IsEven
  <2> HIDE DEF p
  <2>6. l \in 0..m /\ 2 * l <= n /\ p \in 0..n
    BY <1>0, <2>1, <2>4, <2>5
  <2>7. IsPaired(Branch(p), n)
    BY <1>2, <2>5, <2>6
  <2>8. Branch(a) = {a, a - 1} \cup Branch(p)
    <3>1. Branch(a) = {a} \cup Branch(a - 1)
      BY <2>2, <2>4, BranchClimbs
    <3>2. Branch(a - 1) = {a - 1} \cup Branch(p)
      BY <2>2, BranchClimbs DEF p
    <3>3. QED BY <3>1, <3>2
  <2>9. IsPaired(Branch(a), n)
    <3>1. \A b \in Branch(a) : IF IsEven(b) THEN b - 1 \in Branch(a) ELSE b + 1 \in Branch(a)
      <4>1. SUFFICES ASSUME NEW b \in Branch(a)
                     PROVE  IF IsEven(b) THEN b - 1 \in Branch(a) ELSE b + 1 \in Branch(a)
        OBVIOUS
      <4>2. (a - 1) + 1 = a
        BY <2>2
      <4>3. CASE b = a
        BY <2>3, <2>8, <4>3
      <4>4. CASE b = a - 1
        BY <2>3, <2>8, <4>2, <4>4
      <4>5. CASE b \in Branch(p)
        BY <2>7, <2>8, <4>5 DEF IsPaired
      <4>6. QED BY <2>8, <4>1, <4>3, <4>4, <4>5
    <3>2. QED BY <2>2, <2>7, <2>8, <3>1 DEF IsPaired
  <2>10. QED BY <2>9
<1>3. PICK m \in Nat : e = 2 * m
  BY DEF IsEven
<1>4. m \in T
  <2> HIDE DEF T
  <2>1. QED BY <1>1, <1>2, EveryNumber
<1>5. m \in 0..m /\ 2 * m <= n
  BY <1>0, <1>3
<1>6. IsPaired(Branch(e), n)
  BY <1>3, <1>4, <1>5
<1>7. e # 0 => e \in Branch(e)
  BY BranchClimbs
<1>8. QED BY <1>6, <1>7

-----------------------------------------------------------------------------
(* resolveForkTarget.                                                       *)

(* On a branch of whole turns the turn of a message ends with its answer.   *)
LEMMA TurnEndsWithAnswer ==
  ASSUME IsTree, NEW branch, IsPaired(branch, Len(entries)),
         NEW a \in branch, ~IsEven(a)
  PROVE  EndOfTurn(a, branch) = a + 1
<1> DEFINE n == Len(entries)
           next == {e \in branch : e > a /\ entries[e].user}
<1>1. n \in Nat /\ branch \subseteq 1..n /\ a \in Nat /\ a + 1 \in branch
  BY DEF IsTree, IsPaired
<1>2. \A e \in branch : entries[e].user <=> ~IsEven(e)
  BY <1>1 DEF IsTree
<1>3. IsEven(a + 1)
  BY <1>1, OddFollowed
<1>4. ASSUME NEW e \in branch, e > a + 1
      PROVE  \E u \in next : u <= e
  <2>1. CASE ~IsEven(e)
    BY <1>1, <1>2, <1>4, <2>1
  <2>2. CASE IsEven(e)
    <3>1. e - 1 \in branch /\ e \in Nat /\ e # 0
      BY <1>1, <2>2 DEF IsPaired
    <3>2. ~IsEven(e - 1)
      BY <2>2, <3>1, EvenPreceded
    <3>3. e - 1 > a /\ e - 1 <= e
      BY <1>1, <1>4, <3>1
    <3>4. QED BY <1>2, <3>1, <3>2, <3>3
  <2>3. QED BY <2>1, <2>2
<1>5. CASE next = {}
  <2>1. \A e \in branch : a + 1 >= e
    BY <1>1, <1>4, <1>5
  <2>2. branch \subseteq 0..n
    BY <1>1
  <2>3. Max(branch) = a + 1
    BY <1>1, <2>1, <2>2, MaxIsGreatest
  <2>4. QED BY <1>5, <2>3 DEF EndOfTurn
<1>6. CASE next # {}
  <2> DEFINE q == Min(next)
             before == {e \in branch : e < q}
  <2>1. next \subseteq Nat
    <3>1. \A e \in branch : e \in Nat
      BY <1>1
    <3>2. \A e \in next : e \in branch
      OBVIOUS
    <3> HIDE DEF next
    <3>3. QED BY <3>1, <3>2
  <2>2. q \in next /\ \A y \in next : q <= y
    <3> HIDE DEF next
    <3>1. QED BY <1>6, <2>1, MinIsLeast
  <2> HIDE DEF q
  <2>3. q \in Nat /\ q > a /\ ~IsEven(q)
    <3>1. q \in branch /\ q > a /\ entries[q].user
      BY <2>2
    <3>2. QED BY <1>1, <1>2, <3>1
  <2>4. a + 1 < q
    <3>1. q # a + 1
      BY <1>3, <2>3
    <3>2. QED BY <1>1, <2>3, <3>1
  <2>5. a + 1 \in before /\ before \subseteq 0..n
    <3>1. a + 1 \in before
      BY <1>1, <2>4
    <3>2. \A e \in branch : e \in 0..n
      BY <1>1
    <3>3. QED BY <3>1, <3>2
  <2>6. \A e \in before : a + 1 >= e
    <3>1. SUFFICES ASSUME NEW e \in before, e > a + 1 PROVE FALSE
      BY <1>1
    <3>2. PICK u \in next : u <= e
      BY <1>4, <3>1
    <3>3. QED BY <1>1, <2>1, <2>2, <2>3, <3>1, <3>2
  <2>7. Max(before) = a + 1
    BY <1>1, <2>5, <2>6, MaxIsGreatest
  <2>8. QED BY <1>6, <2>7 DEF EndOfTurn, q
<1>7. QED BY <1>5, <1>6

(* What the checkpoints say of the entries: each was minted for a message   *)
(* of its text.                                                             *)
IsMinted(c) ==
  /\ c.at \in 1..Len(entries) /\ ~IsEven(c.at)
  /\ c.text = entries[c.at].text /\ c.ordinal \in Nat \ {0}
AreMinted == \A c \in checkpoints : IsMinted(c)
Meant(c) == Sole(c) \/ Unshifted(c)

(* A later message of a transcript has a later position. *)
LEMMA PositionGrows ==
  ASSUME NEW n \in Nat, NEW users, users \subseteq 1..n,
         NEW a \in users, NEW b \in users, a < b
  PROVE  Position(a, users) \in Nat /\ Position(a, users) < Position(b, users)
<1> DEFINE Lower(e) == {u \in users : u < e}
           more == Lower(a) \cup {a}
<1>1. IsFiniteSet(Lower(a)) /\ IsFiniteSet(Lower(b))
  <2>1. IsFiniteSet(1..n)
    BY FS_Interval
  <2>2. Lower(a) \subseteq 1..n /\ Lower(b) \subseteq 1..n
    OBVIOUS
  <2> HIDE DEF Lower
  <2>3. QED BY <2>1, <2>2, FS_Subset
<1>2. a \notin Lower(a) /\ more \subseteq Lower(b)
  <2>1. ASSUME NEW u \in users, u < a PROVE u < b
    <3>1. u \in Nat /\ a \in Nat /\ b \in Nat
      OBVIOUS
    <3>2. QED BY <2>1, <3>1
  <2>2. ~(a < a)
    <3>1. a \in Nat
      OBVIOUS
    <3>2. QED BY <3>1
  <2>3. QED BY <2>1, <2>2, Zenon
<1>3. Position(a, users) = Cardinality(Lower(a)) /\ Position(b, users) = Cardinality(Lower(b))
  BY DEF Position
<1> HIDE DEF Lower
<1>4. /\ IsFiniteSet(more) /\ Cardinality(more) = Cardinality(Lower(a)) + 1
      /\ Cardinality(Lower(a)) \in Nat
  BY <1>1, <1>2, FS_AddElement, FS_CardinalityType
<1>5. Cardinality(more) <= Cardinality(Lower(b)) /\ Cardinality(Lower(b)) \in Nat
  BY <1>1, <1>2, FS_Subset, FS_CardinalityType
<1>6. QED BY <1>3, <1>4, <1>5

(* A target is an answer; and it answers the message the checkpoint was     *)
(* minted for, if that is what the checkpoint can be taken to mean.         *)
LEMMA TargetIsAnswer ==
  ASSUME IsTree, AreMinted, NEW c \in checkpoints,
         NEW branch, IsPaired(branch, Len(entries)),
         NEW f, files[f].entries \subseteq 1..Len(entries)
  PROVE  LET t == Target(c, branch, Users(f))
         IN /\ t \in 0..Len(entries) /\ IsEven(t)
            /\ t # 0 /\ f = 1 /\ Meant(c) => t = c.at + 1
<1> DEFINE n == Len(entries)
           users == Users(f)
           found == Candidates(c, users)
           t == Target(c, branch, users)
<1>1. n \in Nat /\ branch \subseteq 1..n
  BY DEF IsTree, IsPaired
<1>2. \A e \in users : e \in 1..n /\ entries[e].user /\ ~IsEven(e)
  <2>1. \A e \in 1..n : entries[e].user <=> ~IsEven(e)
    BY DEF IsTree
  <2>2. QED BY <2>1 DEF Users
<1>3. IsMinted(c)
  BY DEF AreMinted
<1>4. \A e : e \in found <=> e \in users /\ entries[e].text = c.text
                             /\ Position(e, users) >= c.ordinal - 1
  BY DEF Candidates, AtOrAfter, SameText
<1>5. CASE found = {} \/ Min(found) \notin branch
  <2>1. t = 0
    BY <1>5 DEF Target
  <2>2. IsEven(0)
    <3>1. 0 = 2 * 0
      OBVIOUS
    <3>2. QED BY <3>1 DEF IsEven
  <2>3. QED BY <1>1, <2>1, <2>2
<1>6. CASE ~(found = {} \/ Min(found) \notin branch)
  <2> DEFINE m == Min(found)
  <2>1. m \in found /\ \A e \in found : m <= e
    <3>1. found \subseteq Nat
      BY <1>1, <1>2, <1>4
    <3> HIDE DEF found
    <3>2. QED BY <1>6, <3>1, MinIsLeast
  <2>2. m \in branch /\ m \in users /\ ~IsEven(m) /\ m \in 1..n
    BY <1>2, <1>4, <1>6, <2>1
  <2>3. t = EndOfTurn(m, branch)
    BY <1>6 DEF Target
  <2> HIDE DEF m, t
  <2>4. t = m + 1
    BY <2>2, <2>3, TurnEndsWithAnswer
  <2>5. t \in branch /\ IsEven(t)
    BY <1>1, <2>2, <2>4, OddFollowed DEF IsPaired
  <2>6. ASSUME f = 1, Sole(c) PROVE m = c.at
    <3>1. m \in DOMAIN entries /\ entries[m].user /\ entries[m].text = c.text
      BY <1>2, <1>4, <2>1, <2>2 DEF IsTree
    <3>2. QED BY <2>6, <3>1 DEF Sole
  <2>7. ASSUME f = 1, Unshifted(c) PROVE m = c.at
    <3>1. c.at \in users
      BY <1>3, <2>7 DEF Unshifted, Users, IsMinted, IsTree
    <3>2. Position(c.at, users) = c.ordinal - 1 /\ c.ordinal - 1 \in Nat
      BY <1>3, <2>7 DEF Unshifted, IsMinted
    <3> HIDE DEF users
    <3>3. c.at \in found
      BY <1>3, <1>4, <3>1, <3>2 DEF IsMinted
    <3>4. m <= c.at /\ Position(m, users) >= c.ordinal - 1
      BY <1>4, <2>1, <3>3
    <3>5. users \subseteq 1..n
      BY <1>2
    <3>6. ~(m < c.at)
      <4>1. SUFFICES ASSUME m < c.at PROVE FALSE
        OBVIOUS
      <4>2. Position(m, users) \in Nat /\ Position(m, users) < Position(c.at, users)
        BY <1>1, <2>2, <3>1, <3>5, <4>1, PositionGrows
      <4>3. QED BY <3>2, <3>4, <4>2
    <3>7. m \in 1..n /\ c.at \in 1..n
      BY <2>2, <3>1, <3>5
    <3>8. QED BY <1>1, <3>4, <3>6, <3>7
  <2>8. f = 1 /\ Meant(c) => t = c.at + 1
    BY <2>4, <2>6, <2>7 DEF Meant
  <2>9. t \in 0..n
    BY <1>1, <2>5
  <2>10. QED BY <2>5, <2>8, <2>9 DEF t
<1>7. QED BY <1>5, <1>6

-----------------------------------------------------------------------------
(* The types of the state, and what a fork is after.                        *)
TreeInv ==
  /\ IsSeq(entries) /\ IsTree /\ Len(entries) <= 2 * MaxTurns
  /\ ordinal \in Nat /\ 2 * ordinal <= Len(entries) + 2 * faults
  /\ faults \in 0..MaxFaults
IsFile(x, n) ==
  /\ x = [entries |-> x.entries, leaf |-> x.leaf]
  /\ x.entries \subseteq 1..n /\ x.leaf \in x.entries \cup {0} /\ IsEven(x.leaf)
TranscriptsInv ==
  /\ running \in 1..Len(files) /\ \A i \in DOMAIN pending : pending[i] \in 1..Len(files)
  /\ \A i \in 1..Len(files) : IsFile(files[i], Len(entries))

ForkTyped(f, n, m, minted) ==
  /\ f.at \in Steps /\ f.polls \in 0..(MaxPolls - 1)
  /\ f.target \in 0..n /\ IsEven(f.target) /\ IsPaired(f.branch, n)
  /\ f.original \in 0..m /\ f.branched \in 0..m
  /\ f.at \in {"state", "returned", "failed"} \/ f.original # 0
  /\ f.checkpoint \in minted \cup {NoCheckpoint}
  /\ f.at = "messages" => f.checkpoint # NoCheckpoint
TypedForks ==
  \A k \in DOMAIN forks : ForkTyped(forks[k], Len(entries), Len(files), checkpoints)

(* A fork that is alone has found the turn of its checkpoint, and what it   *)
(* put behind the source, made it run and handed out ends with it.          *)
Aims(f, c) ==
  f.alone /\ f.checkpoint = c /\ f.at \in {"fork", "branched", "switch", "verify"}
    => f.target = c.at + 1
AimedForks == \A c \in checkpoints : Meant(c) => \A k \in DOMAIN forks : Aims(forks[k], c)
Carried(f, transcripts, runs, next) ==
  /\ f.alone /\ f.at = "branched" =>
       transcripts[IF runs = 1 THEN next[1] ELSE runs].leaf = f.target
  /\ f.alone /\ f.at \in {"switch", "verify"} => transcripts[f.branched].leaf = f.target
CarriedForks == \A k \in DOMAIN forks : Carried(forks[k], files, running, pending)

(* What BranchEndsWithTurn says of a step. *)
TurnsEnd ==
  \A k \in DOMAIN forks :
    LET c == forks[k].checkpoint
    IN Returns(k) /\ forks[k].alone /\ c # NoCheckpoint /\ (Sole(c) \/ Unshifted(c))
       => EndsWithTurn(k)

TInv == IInv /\ TreeInv /\ TranscriptsInv /\ AreMinted /\ TypedForks /\ AimedForks /\ CarriedForks
ForksTypedAfter == TypedForks' /\ AimedForks' /\ CarriedForks' /\ TurnsEnd

-----------------------------------------------------------------------------
(* A fork stays typed while entries, transcripts and checkpoints are added. *)
LEMMA TypedGrows ==
  ASSUME NEW f, NEW n \in Nat, NEW m \in Nat, NEW minted, ForkTyped(f, n, m, minted),
         NEW g, g.at = f.at, g.original = f.original, g.branched = f.branched,
         Data(g, f.checkpoint, f.branch, f.target, f.polls),
         NEW p \in Nat, n <= p, NEW q \in Nat, m <= q, NEW more, minted \subseteq more
  PROVE  ForkTyped(g, p, q, more)
<1>1. IsPaired(f.branch, p)
  <2>1. 1..n \subseteq 1..p
    OBVIOUS
  <2>2. QED BY <2>1 DEF ForkTyped, IsPaired
<1>2. f.target \in 0..p /\ f.original \in 0..q /\ f.branched \in 0..q
  BY DEF ForkTyped
<1>3. QED BY <1>1, <1>2 DEF ForkTyped, Data

LEMMA BlankIsTyped ==
  ASSUME NEW n \in Nat, NEW m \in Nat, NEW minted, NEW x \in {"state", "returned", "failed"},
         NEW c \in minted \cup {NoCheckpoint}, NEW f, f.at = x,
         f.original = 0, f.branched = 0, Data(f, c, {}, 0, 0)
  PROVE  ForkTyped(f, n, m, minted)
<1>1. IsEven(0)
  <2>1. 0 = 2 * 0
    OBVIOUS
  <2>2. QED BY <2>1 DEF IsEven
<1>2. 0 \in 0..(MaxPolls - 1)
  BY ForkAssumption
<1>3. IsPaired({}, n)
  BY DEF IsPaired
<1>4. QED BY <1>1, <1>2, <1>3 DEF ForkTyped, Data, Steps

(* A fork that is over is blank. *)
LEMMA OverIsBlank ==
  ASSUME NEW x, NEW f, f = [Blank EXCEPT !.at = x]
  PROVE  /\ IsFork(f) /\ f.at = x /\ f.alone = FALSE /\ f.original = 0 /\ f.branched = 0
         /\ Data(f, NoCheckpoint, {}, 0, 0)
BY DEF Blank, IsFork, Data

(* A step of one fork, which leaves entries and checkpoints alone and may   *)
(* add a transcript.                                                        *)
LEMMA TypedStepOfOne ==
  ASSUME TInv, UNCHANGED <<entries, checkpoints>>,
         Len(files') \in Nat, Len(files) <= Len(files'),
         \A i \in 1..Len(files) : files'[i] = files[i],
         NEW k \in DOMAIN forks, ~Over(k),
         NEW f, IsFork(f), f.alone = forks[k].alone, f.checkpoint = forks[k].checkpoint, Sets(k, f),
         ~Finished(f) => ForkTyped(f, Len(entries), Len(files'), checkpoints),
         ~Finished(f) => \A c \in checkpoints : Meant(c) => Aims(f, c),
         ~Finished(f) => Carried(f, files', running', pending'),
         f.at = "returned" => forks[k].at = "verify" \/ forks[k].checkpoint = NoCheckpoint
  PROVE  ForksTypedAfter
<1>1. /\ ForksInv' /\ DOMAIN forks' = DOMAIN forks
      /\ forks'[k] = IF Finished(f) THEN [Blank EXCEPT !.at = f.at] ELSE f
      /\ \A j \in DOMAIN forks : j # k => forks'[j] = forks[j]
  BY SetsOne DEF TInv, IInv
<1>2. Len(entries) \in Nat /\ Len(files) \in Nat
  BY SeqOfItsValues DEF TInv, TreeInv, IsTree, IInv, FilesInv, IsSeq
<1>3. ASSUME NEW j \in DOMAIN forks, j # k
      PROVE  /\ ForkTyped(forks[j], Len(entries), Len(files'), checkpoints)
             /\ forks[j].alone => forks[j].at \in {"returned", "failed"}
  <2>1. ForkTyped(forks[j], Len(entries), Len(files), checkpoints)
    BY DEF TInv, TypedForks
  <2>2. ForkTyped(forks[j], Len(entries), Len(files'), checkpoints)
    <3> DEFINE g == forks[j]
    <3>1. Data(g, g.checkpoint, g.branch, g.target, g.polls)
      BY DEF Data
    <3>2. ForkTyped(g, Len(entries), Len(files), checkpoints)
      BY <2>1
    <3> HIDE DEF g
    <3>3. ForkTyped(g, Len(entries), Len(files'), checkpoints)
      BY <1>2, <3>1, <3>2, TypedGrows
    <3>4. QED BY <3>3 DEF g
  <2>3. forks[j].alone => Over(j)
    BY <1>3 DEF TInv, IInv, OnlyOne, Unfinished
  <2>4. QED BY <2>2, <2>3 DEF Over
<1>4. Finished(f) => /\ forks'[k].at = f.at /\ forks'[k].alone = FALSE
                     /\ ForkTyped(forks'[k], Len(entries), Len(files'), checkpoints)
  <2>1. SUFFICES ASSUME Finished(f)
                 PROVE  /\ forks'[k].at = f.at /\ forks'[k].alone = FALSE
                        /\ ForkTyped(forks'[k], Len(entries), Len(files'), checkpoints)
    OBVIOUS
  <2> DEFINE g == forks'[k]
  <2>2. g = [Blank EXCEPT !.at = f.at]
    BY <1>1, <2>1
  <2> HIDE DEF g
  <2>3. /\ g.at = f.at /\ g.alone = FALSE /\ g.original = 0 /\ g.branched = 0
        /\ Data(g, NoCheckpoint, {}, 0, 0)
    <3> DEFINE x == f.at
    <3>1. g = [Blank EXCEPT !.at = x]
      BY <2>2
    <3> HIDE DEF x
    <3>2. IsFork(g) /\ g.at = x /\ g.alone = FALSE /\ g.original = 0 /\ g.branched = 0
          /\ Data(g, NoCheckpoint, {}, 0, 0)
      BY <3>1, OverIsBlank
    <3>3. QED BY <3>2 DEF x
  <2>4. f.at \in {"state", "returned", "failed"}
    BY <2>1 DEF Finished
  <2>5. ForkTyped(g, Len(entries), Len(files'), checkpoints)
    <3>1. NoCheckpoint \in checkpoints \cup {NoCheckpoint}
      OBVIOUS
    <3> HIDE DEF NoCheckpoint
    <3>2. QED BY <1>2, <2>3, <2>4, <3>1, BlankIsTyped
  <2>6. QED BY <2>3, <2>5 DEF g
<1>5. TypedForks'
  <2>1. SUFFICES ASSUME NEW j \in DOMAIN forks
                 PROVE  ForkTyped(forks'[j], Len(entries), Len(files'), checkpoints)
    BY <1>1 DEF TypedForks
  <2>2. CASE j = k
    BY <1>1, <1>4, <2>2
  <2>3. CASE j # k
    BY <1>1, <1>3, <2>3
  <2>4. QED BY <2>2, <2>3
<1>6. \A c : Meant(c)' <=> Meant(c)
  <2>1. files'[1] = files[1]
    BY <1>2 DEF TInv, IInv, FilesInv
  <2>2. QED BY <2>1 DEF Meant, Sole, Unshifted, Users
<1>7. AimedForks'
  <2>1. SUFFICES ASSUME NEW c \in checkpoints, Meant(c), NEW j \in DOMAIN forks
                 PROVE  Aims(forks'[j], c)
    BY <1>1, <1>6 DEF AimedForks
  <2>2. CASE j = k /\ ~Finished(f)
    BY <1>1, <2>1, <2>2
  <2>3. CASE j = k /\ Finished(f)
    BY <1>4, <2>3 DEF Aims
  <2>4. CASE j # k
    BY <1>1, <1>3, <2>4 DEF Aims
  <2>5. QED BY <2>2, <2>3, <2>4
<1>8. CarriedForks'
  <2>1. SUFFICES ASSUME NEW j \in DOMAIN forks
                 PROVE  Carried(forks'[j], files', running', pending')
    BY <1>1 DEF CarriedForks
  <2>2. CASE j = k /\ ~Finished(f)
    BY <1>1, <2>2
  <2>3. CASE j = k /\ Finished(f)
    BY <1>4, <2>3 DEF Carried
  <2>4. CASE j # k
    BY <1>1, <1>3, <2>4 DEF Carried
  <2>5. QED BY <2>2, <2>3, <2>4
<1>9. TurnsEnd
  <2>1. SUFFICES ASSUME NEW j \in DOMAIN forks, Returns(j), forks[j].alone,
                        forks[j].checkpoint # NoCheckpoint,
                        Sole(forks[j].checkpoint) \/ Unshifted(forks[j].checkpoint)
                 PROVE  EndsWithTurn(j)
    BY DEF TurnsEnd
  <2>2. j = k
    BY <1>1, <2>1 DEF Returns, Over
  <2>3. forks[j].at = "verify"
    BY <1>1, <1>4, <2>1, <2>2 DEF Returns, Finished
  <2>4. forks[j].target = forks[j].checkpoint.at + 1
    <3>1. forks[j].checkpoint \in checkpoints /\ Meant(forks[j].checkpoint)
      BY <2>1 DEF TInv, TypedForks, ForkTyped, Meant
    <3>2. QED BY <2>1, <2>3, <3>1 DEF TInv, AimedForks, Aims
  <2>5. files[forks[j].branched].leaf = forks[j].target
    BY <2>1, <2>3 DEF TInv, CarriedForks, Carried
  <2>6. QED BY <2>4, <2>5 DEF EndsWithTurn
<1>10. QED BY <1>5, <1>7, <1>8, <1>9 DEF ForksTypedAfter

(* A step beside the forks: more entries and checkpoints, and whoever       *)
(* brackets the source is not alone any more if it touches the transcripts. *)
LEMMA TypedStepOfNone ==
  ASSUME TInv, Len(entries') \in Nat, Len(entries) <= Len(entries'),
         Len(files') = Len(files), checkpoints \subseteq checkpoints',
         NoCheckpoint \notin checkpoints',
         \A c \in checkpoints : Meant(c)' => Meant(c),
         Crosses \/ UNCHANGED <<files, running, pending, forks>>
  PROVE  ForksTypedAfter
<1>1. Len(entries) \in Nat /\ Len(files) \in Nat
  BY SeqOfItsValues DEF TInv, TreeInv, IsTree, IInv, FilesInv, IsSeq
<1>2. /\ DOMAIN forks' = DOMAIN forks
      /\ \A k \in DOMAIN forks :
           /\ forks'[k].at = forks[k].at /\ forks'[k].original = forks[k].original
           /\ forks'[k].branched = forks[k].branched
           /\ Data(forks'[k], forks[k].checkpoint, forks[k].branch, forks[k].target, forks[k].polls)
           /\ forks'[k].alone => forks[k].alone
           /\ Crosses /\ forks'[k].alone => ~Bracketing(k)
  <2>1. CASE Crosses
    <3>1. DOMAIN forks' = DOMAIN forks
      BY <2>1 DEF Crosses
    <3>2. ASSUME NEW k \in DOMAIN forks
          PROVE  /\ forks'[k].at = forks[k].at /\ forks'[k].original = forks[k].original
                 /\ forks'[k].branched = forks[k].branched
                 /\ Data(forks'[k], forks[k].checkpoint, forks[k].branch, forks[k].target, forks[k].polls)
                 /\ forks'[k].alone => forks[k].alone
                 /\ forks'[k].alone => ~Bracketing(k)
      <4> DEFINE f == forks[k]
                 x == f.alone /\ ~Bracketing(k)
                 g == [f EXCEPT !.alone = x]
      <4>1. forks'[k] = g
        BY <2>1 DEF Crosses
      <4>2. IsFork(f) /\ x \in BOOLEAN
        BY DEF TInv, IInv, ForksInv
      <4> HIDE DEF f, x
      <4>3. g.at = f.at /\ g.alone = x /\ g.original = f.original /\ g.branched = f.branched
            /\ Data(g, f.checkpoint, f.branch, f.target, f.polls)
        BY <4>2, AloneSet
      <4> HIDE DEF g
      <4>4. QED BY <4>1, <4>3 DEF f, x
    <3>3. QED BY <3>1, <3>2
  <2>2. CASE ~Crosses
    BY <2>2 DEF Data
  <2>3. QED BY <2>1, <2>2
<1>3. TypedForks'
  <2>1. SUFFICES ASSUME NEW k \in DOMAIN forks
                 PROVE  ForkTyped(forks'[k], Len(entries'), Len(files'), checkpoints')
    BY <1>2 DEF TypedForks
  <2>2. ForkTyped(forks[k], Len(entries), Len(files), checkpoints)
    BY DEF TInv, TypedForks
  <2>3. QED BY <1>1, <1>2, <2>2, TypedGrows
<1>4. AimedForks'
  <2>1. SUFFICES ASSUME NEW c \in checkpoints', Meant(c)', NEW k \in DOMAIN forks
                 PROVE  Aims(forks'[k], c)
    BY <1>2 DEF AimedForks
  <2>2. forks'[k].checkpoint = forks[k].checkpoint /\ forks'[k].target = forks[k].target
    BY <1>2 DEF Data
  <2>3. CASE c \in checkpoints
    BY <1>2, <2>1, <2>2, <2>3 DEF TInv, AimedForks, Aims
  <2>4. CASE c \notin checkpoints
    <3>1. forks[k].checkpoint \in checkpoints \cup {NoCheckpoint}
      BY DEF TInv, TypedForks, ForkTyped
    <3>2. QED BY <2>1, <2>2, <2>4, <3>1 DEF Aims
  <2>5. QED BY <2>3, <2>4
<1>5. CarriedForks'
  <2>1. SUFFICES ASSUME NEW k \in DOMAIN forks
                 PROVE  Carried(forks'[k], files', running', pending')
    BY <1>2 DEF CarriedForks
  <2>2. Carried(forks[k], files, running, pending)
    BY DEF TInv, CarriedForks
  <2>3. CASE Crosses
    BY <1>2, <2>3 DEF Carried, Bracketing
  <2>4. CASE ~Crosses
    BY <2>2, <2>4
  <2>5. QED BY <2>3, <2>4
<1>6. TurnsEnd
  BY <1>2 DEF TurnsEnd, Returns, Over
<1>7. QED BY <1>3, <1>4, <1>5, <1>6 DEF ForksTypedAfter

-----------------------------------------------------------------------------
(* The entries, the transcripts and the checkpoints.                        *)
LEMMA Counted ==
  ASSUME TInv
  PROVE  /\ Len(entries) \in Nat /\ DOMAIN entries = 1..Len(entries)
         /\ Len(files) \in Nat /\ 1 \in 1..Len(files) /\ DOMAIN files = 1..Len(files)
         /\ NoCheckpoint \notin checkpoints
<1>1. Len(entries) \in Nat /\ DOMAIN entries = 1..Len(entries)
  BY DEF TInv, TreeInv, IsTree
<1>2. Len(files) \in Nat /\ DOMAIN files = 1..Len(files) /\ Len(files) > 0
  BY SeqOfItsValues DEF TInv, IInv, FilesInv, IsSeq
<1>3. NoCheckpoint \notin checkpoints
  BY DEF TInv, AreMinted, IsMinted, NoCheckpoint
<1>4. QED BY <1>1, <1>2, <1>3

LEMMA MintedKept ==
  ASSUME AreMinted, UNCHANGED <<entries, checkpoints>>, files'[1].entries = files[1].entries
  PROVE  AreMinted' /\ \A c \in checkpoints : Meant(c)' => Meant(c)
<1>1. \A c : Unshifted(c)' <=> Unshifted(c)
  BY DEF Unshifted, Users
<1>2. \A c : Sole(c)' <=> Sole(c)
  BY DEF Sole
<1>3. \A c : IsMinted(c)' <=> IsMinted(c)
  BY DEF IsMinted
<1>4. QED BY <1>1, <1>2, <1>3 DEF AreMinted, Meant

LEMMA TreeKept ==
  ASSUME TreeInv, UNCHANGED entries, ordinal' \in 0..ordinal, faults' \in faults..MaxFaults
  PROVE  TreeInv'
BY DEF TreeInv, IsTree, IsSeq

LEMMA FaultCounted ==
  ASSUME TreeInv, Faulty
  PROVE  faults' \in faults..MaxFaults
BY ForkAssumption DEF TreeInv, Faulty

(* A turn adds its message and its answer to the entries and to what the    *)
(* session runs.                                                            *)
Grown(text) ==
  /\ Len(entries') = Len(entries) + 2 /\ IsSeq(entries') /\ IsTree'
  /\ Len(entries') <= 2 * MaxTurns
  /\ \A e \in 1..Len(entries) : entries'[e] = entries[e]
  /\ entries'[Len(entries) + 1].user /\ entries'[Len(entries) + 1].text = text
LEMMA EntriesGrow ==
  ASSUME TInv, NEW text, Writes(text)
  PROVE  Grown(text)
<1> DEFINE n == Len(entries)
           a == [parent |-> files[running].leaf, user |-> TRUE, text |-> text]
           b == [parent |-> n + 1, user |-> FALSE, text |-> text]
<1>1. n \in Nat /\ IsEven(n) /\ n < 2 * MaxTurns /\ entries' = entries \o <<a, b>>
      /\ DOMAIN entries = 1..n
  BY Counted DEF Writes, TInv, TreeInv, IsTree
<1>2. n + 2 <= 2 * MaxTurns
  <2>1. PICK m \in Nat : n = 2 * m
    BY <1>1 DEF IsEven
  <2>2. MaxTurns \in Nat
    BY ForkAssumption
  <2>3. QED BY <1>1, <2>1, <2>2
<1> DEFINE leaf == files[running].leaf
<1>3. leaf \in 0..n /\ IsEven(leaf)
  <2>1. IsFile(files[running], n)
    BY DEF TInv, TranscriptsInv
  <2>2. QED BY <1>1, <2>1 DEF IsFile
<1> HIDE DEF leaf
<1>4. a = [parent |-> leaf, user |-> TRUE, text |-> text]
  BY DEF leaf
<1> HIDE DEF a
<1>5. /\ IsSeq(entries') /\ Len(entries') = n + 2 /\ DOMAIN entries' = 1..(n + 2)
      /\ \A e \in 1..n : entries'[e] = entries[e]
      /\ entries'[n + 1] = a /\ entries'[n + 2] = b
  <2> HIDE DEF b
  <2> DEFINE S == {entries[i] : i \in DOMAIN entries} \cup {a, b}
  <2>1. entries \in Seq(S)
    <3>1. entries \in [1..n -> {entries[i] : i \in DOMAIN entries}]
      BY <1>1, LenProperties DEF TInv, TreeInv, IsSeq
    <3>2. entries \in [1..n -> S]
      BY <3>1
    <3>3. QED BY <1>1, <3>2, SeqDef
  <2>2. a \in S /\ b \in S
    OBVIOUS
  <2> HIDE DEF S
  <2>3. <<a, b>> \in Seq(S) /\ Len(<<a, b>>) = 2 /\ <<a, b>>[1] = a /\ <<a, b>>[2] = b
    BY <2>2
  <2>4. /\ entries' \in Seq(S) /\ Len(entries') = n + 2
        /\ \A e \in 1..(n + 2) : entries'[e] = IF e <= n THEN entries[e] ELSE <<a, b>>[e - n]
    BY <1>1, <2>1, <2>3, ConcatProperties
  <2>5. IsSeq(entries') /\ DOMAIN entries' = 1..(n + 2)
    BY <2>4, SeqOfItsValues
  <2>6. \A e \in 1..n : e \in 1..(n + 2) /\ e <= n
    BY <1>1
  <2>7. /\ n + 1 \in 1..(n + 2) /\ ~(n + 1 <= n) /\ (n + 1) - n = 1
        /\ n + 2 \in 1..(n + 2) /\ ~(n + 2 <= n) /\ (n + 2) - n = 2
    BY <1>1
  <2>8. QED BY <2>3, <2>4, <2>5, <2>6, <2>7
<1>6. IsTree'
  <2>1. IsEven(n + 2) /\ ~IsEven(n + 1)
    BY <1>1, EvenOrOdd
  <2>2. ASSUME NEW e \in 1..(n + 2)
        PROVE  /\ entries'[e].parent \in 0..(e - 1)
               /\ IsEven(e) => ~entries'[e].user /\ entries'[e].parent = e - 1
               /\ ~IsEven(e) => entries'[e].user /\ IsEven(entries'[e].parent)
    <3>1. CASE e \in 1..n
      <4>1. entries'[e] = entries[e]
        BY <1>5, <3>1
      <4>2. QED BY <3>1, <4>1 DEF TInv, TreeInv, IsTree
    <3>2. CASE e = n + 1
      <4>1. entries'[e].parent = leaf /\ entries'[e].user
        BY <1>4, <1>5, <3>2
      <4>2. QED BY <1>1, <1>3, <2>1, <3>2, <4>1
    <3>3. CASE e = n + 2
      <4>1. entries'[e].parent = n + 1 /\ ~entries'[e].user
        BY <1>5, <3>3
      <4>2. n + 1 = e - 1 /\ n + 1 \in 0..(e - 1)
        BY <1>1, <3>3
      <4>3. QED BY <2>1, <3>3, <4>1, <4>2
    <3>4. QED BY <1>1, <3>1, <3>2, <3>3
  <2>3. n + 2 \in Nat
    BY <1>1
  <2>4. QED BY <1>5, <2>1, <2>2, <2>3 DEF IsTree
<1>7. entries'[n + 1].user /\ entries'[n + 1].text = text
  BY <1>4, <1>5
<1>8. QED BY <1>2, <1>5, <1>6, <1>7 DEF Grown

LEMMA TranscriptsGrow ==
  ASSUME TInv, NEW text, Writes(text)
  PROVE  /\ TranscriptsInv' /\ Len(files') = Len(files)
         /\ \A e \in 1..Len(entries) : e \in files'[1].entries <=> e \in files[1].entries
<1> DEFINE n == Len(entries)
           f == files[running]
           g == [[f EXCEPT !.entries = @ \cup {n + 1, n + 2}] EXCEPT !.leaf = n + 2]
<1>1. n \in Nat /\ Len(files) \in Nat /\ DOMAIN files = 1..Len(files) /\ running \in 1..Len(files)
      /\ IsEven(n) /\ Len(entries') = n + 2
  BY Counted, EntriesGrow DEF TInv, TranscriptsInv, TreeInv, IsTree, Grown
<1>2. \A i \in 1..Len(files) : IsFile(files[i], n)
  BY DEF TInv, TranscriptsInv
<1>3. files' = [files EXCEPT ![running] = g]
  BY <1>1 DEF Writes
<1>4. g = [entries |-> f.entries \cup {n + 1, n + 2}, leaf |-> n + 2]
  <2>1. IsFile(f, n)
    BY <1>1, <1>2
  <2> HIDE DEF f
  <2>2. f = [entries |-> f.entries, leaf |-> f.leaf]
    BY <2>1 DEF IsFile
  <2> DEFINE more == f.entries \cup {n + 1, n + 2}
             h == [f EXCEPT !.entries = more]
  <2>3. g = [h EXCEPT !.leaf = n + 2]
    BY <2>2
  <2> HIDE DEF more
  <2>4. h = [entries |-> more, leaf |-> f.leaf]
    BY <2>2
  <2> HIDE DEF h
  <2>5. [h EXCEPT !.leaf = n + 2] = [entries |-> more, leaf |-> n + 2]
    BY <2>4
  <2> HIDE DEF g
  <2>6. QED BY <2>3, <2>5 DEF more
<1> HIDE DEF g
<1>5. DOMAIN files' = DOMAIN files /\ Len(files') = Len(files) /\ files' = [i \in DOMAIN files |-> files'[i]]
  <2>1. DOMAIN files' = DOMAIN files /\ files' = [i \in DOMAIN files |-> files'[i]]
    BY <1>3
  <2>2. QED BY <2>1, SameDomain DEF TInv, IInv, FilesInv
<1>6. files'[running] = g /\ \A i \in DOMAIN files : i # running => files'[i] = files[i]
  BY <1>1, <1>3
<1>7. IsFile(g, n + 2)
  <2>1. f.entries \subseteq 1..n
    BY <1>1, <1>2 DEF IsFile
  <2>2. IsEven(n + 2)
    BY <1>1, EvenOrOdd
  <2>3. f.entries \cup {n + 1, n + 2} \subseteq 1..(n + 2)
    BY <1>1, <2>1
  <2> HIDE DEF f
  <2>4. QED BY <1>4, <2>2, <2>3 DEF IsFile
<1>8. \A i \in 1..Len(files) : IsFile(files'[i], n + 2)
  <2>1. SUFFICES ASSUME NEW i \in 1..Len(files), i # running PROVE IsFile(files[i], n + 2)
    BY <1>1, <1>6, <1>7
  <2>2. 1..n \subseteq 1..(n + 2)
    BY <1>1
  <2>3. QED BY <1>2, <2>1, <2>2 DEF IsFile
<1>9. \A e \in 1..n : e \in files'[1].entries <=> e \in files[1].entries
  <2>1. SUFFICES ASSUME NEW e \in 1..n, running = 1 PROVE e \in g.entries <=> e \in f.entries
    BY <1>1, <1>6, Counted
  <2>2. g.entries = f.entries \cup {n + 1, n + 2}
    BY <1>4
  <2>3. QED BY <1>1, <2>1, <2>2
<1>10. UNCHANGED <<running, pending>>
  BY DEF Writes
<1>11. TranscriptsInv'
  BY <1>1, <1>5, <1>8, <1>10 DEF TInv, TranscriptsInv
<1>12. QED BY <1>5, <1>9, <1>11

(* What a checkpoint can be taken to mean is not more after a turn: the     *)
(* message of a checkpoint keeps its position.                              *)
LEMMA MeantBefore ==
  ASSUME TInv, NEW text, Writes(text)
  PROVE  \A c \in checkpoints : Meant(c)' => Meant(c)
<1>1. /\ \A e \in 1..Len(entries) : entries'[e] = entries[e] /\ e \in 1..Len(entries')
      /\ DOMAIN entries = 1..Len(entries) /\ DOMAIN entries' = 1..Len(entries')
      /\ Len(entries) \in Nat
  BY Counted, EntriesGrow DEF Grown, IsTree
<1>2. \A c : Sole(c)' => Sole(c)
  BY <1>1 DEF Sole
<1>3. ASSUME NEW c \in checkpoints, Unshifted(c)' PROVE Unshifted(c)
  <2>1. c.at \in 1..Len(entries)
    BY DEF TInv, AreMinted, IsMinted
  <2>2. files[1].entries \subseteq 1..Len(entries) /\ files'[1].entries \subseteq 1..Len(entries')
        /\ Len(entries') \in Nat
    <3>1. TranscriptsInv /\ TranscriptsInv' /\ Len(files') = Len(files) /\ Grown(text)
      BY TranscriptsGrow, EntriesGrow DEF TInv
    <3>2. IsFile(files[1], Len(entries)) /\ IsFile(files'[1], Len(entries'))
      BY <3>1, Counted DEF TranscriptsInv
    <3>3. QED BY <1>1, <3>1, <3>2 DEF IsFile, Grown
  <2>3. \A e \in 1..Len(entries) : e \in files'[1].entries <=> e \in files[1].entries
    BY TranscriptsGrow
  <2>4. {u \in Users(1)' : u < c.at} = {u \in Users(1) : u < c.at}
    <3>1. \A e \in 1..Len(entries) : e \in Users(1)' <=> e \in Users(1)
      BY <1>1, <2>3 DEF Users
    <3>2. \A e : e \in Users(1) \/ e \in Users(1)' => e \in Nat
                 /\ (e < c.at => e \in 1..Len(entries))
      BY <1>1, <2>1, <2>2 DEF Users
    <3>3. \A e \in Users(1) : e < c.at => e \in Users(1)'
      BY <3>1, <3>2
    <3>4. \A e \in Users(1)' : e < c.at => e \in Users(1)
      BY <3>1, <3>2
    <3>5. QED BY <3>3, <3>4
  <2>5. QED BY <1>3, <2>1, <2>3, <2>4 DEF Unshifted, Position
<1>4. QED BY <1>2, <1>3 DEF Meant

(* What bb stores: a turn's checkpoint is the one for its message. *)
LEMMA MintedByTurn ==
  ASSUME TInv, NEW text, Turn(text)
  PROVE  AreMinted' /\ checkpoints \subseteq checkpoints'
<1> DEFINE n == Len(entries)
           new == [ordinal |-> ordinal + 1, text |-> text, at |-> n + 1]
<1>1. n \in Nat /\ IsEven(n) /\ ~IsEven(n + 1) /\ ordinal \in Nat
      /\ Writes(text) /\ checkpoints' = checkpoints \cup {new}
  BY Counted, EvenOrOdd DEF TInv, TreeInv, IsTree, Turn
<1>2. new.ordinal = ordinal + 1 /\ new.text = text /\ new.at = n + 1
  OBVIOUS
<1> HIDE DEF new
<1>3. Grown(text)
  BY <1>1, EntriesGrow
<1>4. /\ n + 1 \in 1..Len(entries') /\ entries'[n + 1].text = text
      /\ \A e \in 1..n : e \in 1..Len(entries') /\ entries'[e] = entries[e]
  BY <1>1, <1>3 DEF Grown
<1>5. SUFFICES ASSUME NEW c \in checkpoints' PROVE IsMinted(c)'
  BY <1>1 DEF AreMinted
<1>6. CASE c \in checkpoints
  BY <1>4, <1>6 DEF TInv, AreMinted, IsMinted
<1>7. CASE c = new
  BY <1>1, <1>2, <1>4, <1>7 DEF IsMinted
<1>8. QED BY <1>1, <1>6, <1>7

(* A message typed elsewhere has no checkpoint.                             *)
LEMMA MintedDespite ==
  ASSUME TInv, NEW text, Writes(text), UNCHANGED checkpoints
  PROVE  AreMinted'
<1>1. \A e \in 1..Len(entries) : e \in 1..Len(entries') /\ entries'[e] = entries[e]
  BY Counted, EntriesGrow DEF Grown
<1>2. QED BY <1>1 DEF TInv, AreMinted, IsMinted

-----------------------------------------------------------------------------
(* The actions.                                                             *)
PrimeAfter == TreeInv' /\ TranscriptsInv' /\ AreMinted'

LEMMA TypedTurn ==
  ASSUME TInv, NEW text, Turn(text)
  PROVE  PrimeAfter /\ ForksTypedAfter
<1>1. Writes(text) /\ ordinal' = ordinal + 1 /\ faults' = faults
  BY DEF Turn
<1>2. Grown(text)
  BY <1>1, EntriesGrow
<1>3. TreeInv'
  BY <1>1, <1>2, Counted DEF TInv, TreeInv, Grown
<1>4. TranscriptsInv' /\ Len(files') = Len(files)
  BY <1>1, TranscriptsGrow
<1>5. AreMinted' /\ checkpoints \subseteq checkpoints' /\ \A c \in checkpoints : Meant(c)' => Meant(c)
  BY <1>1, MintedByTurn, MeantBefore
<1>6. NoCheckpoint \notin checkpoints'
  BY <1>5 DEF AreMinted, IsMinted, NoCheckpoint
<1>7. Len(entries') \in Nat /\ Len(entries) <= Len(entries')
  BY <1>2, Counted DEF Grown
<1>8. ForksTypedAfter
  BY <1>1, <1>4, <1>5, <1>6, <1>7, TypedStepOfNone DEF Writes
<1>9. QED BY <1>3, <1>4, <1>5, <1>8 DEF PrimeAfter

(* A message that has no checkpoint: typed outside the lane, or carried out *)
(* of a prompt that failed.                                                 *)
LEMMA TypedUnminted ==
  ASSUME TInv, NEW text, Writes(text), UNCHANGED checkpoints, faults' \in faults..MaxFaults,
         ordinal' \in Nat, ordinal' <= ordinal + 1
  PROVE  PrimeAfter /\ ForksTypedAfter
<1>1. Grown(text)
  BY EntriesGrow
<1>2. TreeInv'
  BY <1>1, Counted DEF TInv, TreeInv, Grown
<1>3. TranscriptsInv' /\ Len(files') = Len(files)
  BY TranscriptsGrow
<1>4. AreMinted' /\ \A c \in checkpoints : Meant(c)' => Meant(c)
  BY MintedDespite, MeantBefore
<1>5. NoCheckpoint \notin checkpoints'
  BY Counted
<1>6. Len(entries') \in Nat /\ Len(entries) <= Len(entries')
  BY <1>1, Counted DEF Grown
<1>7. ForksTypedAfter
  BY <1>3, <1>4, <1>5, <1>6, TypedStepOfNone DEF Writes
<1>8. QED BY <1>2, <1>3, <1>4, <1>7 DEF PrimeAfter

LEMMA TypedTypedOutside ==
  ASSUME TInv, NEW text, TypedOutside(text)
  PROVE  PrimeAfter /\ ForksTypedAfter
<1>1. Writes(text) /\ UNCHANGED <<ordinal, checkpoints, faults>>
  BY DEF TypedOutside
<1>2. ordinal \in Nat /\ faults \in faults..MaxFaults
  BY ForkAssumption DEF TInv, TreeInv
<1>3. QED BY <1>1, <1>2, TypedUnminted

LEMMA TypedTurnFails ==
  ASSUME TInv, TurnFails
  PROVE  PrimeAfter /\ ForksTypedAfter
<1>1. ordinal' = ordinal + 1 /\ Faulty /\ UNCHANGED checkpoints
  BY DEF TurnFails
<1>2. ordinal' \in Nat /\ ordinal' <= ordinal + 1 /\ faults' \in faults..MaxFaults
  BY <1>1, FaultCounted DEF TInv, TreeInv
<1>3. CASE \E text \in Texts : Writes(text)
  BY <1>1, <1>2, <1>3, TypedUnminted
<1>4. CASE UNCHANGED <<prime, forks>>
  <2>1. UNCHANGED <<entries, files, running, pending, checkpoints, forks>>
    BY <1>1, <1>4 DEF prime
  <2>2. TreeInv'
    BY <1>1, <1>2, <2>1 DEF TInv, TreeInv, IsTree, IsSeq, Faulty
  <2>3. TranscriptsInv'
    BY <2>1 DEF TInv, TranscriptsInv
  <2>4. AreMinted' /\ \A c \in checkpoints : Meant(c)' => Meant(c)
    BY <2>1, MintedKept DEF TInv
  <2>5. Len(entries') \in Nat /\ Len(entries) <= Len(entries') /\ NoCheckpoint \notin checkpoints'
    BY <2>1, Counted
  <2>6. ForksTypedAfter
    BY <2>1, <2>4, <2>5, TypedStepOfNone
  <2>7. QED BY <2>2, <2>3, <2>4, <2>6 DEF PrimeAfter
<1>5. QED BY <1>3, <1>4 DEF TurnFails

LEMMA TypedStartOver ==
  ASSUME TInv, LaneStartsOver
  PROVE  PrimeAfter /\ ForksTypedAfter
<1>1. UNCHANGED <<entries, files, running, pending, checkpoints, forks>> /\ ordinal' = 0 /\ Faulty
  BY DEF LaneStartsOver, prime
<1>2. TreeInv'
  BY <1>1, FaultCounted, TreeKept DEF TInv, TreeInv
<1>3. TranscriptsInv'
  BY <1>1 DEF TInv, TranscriptsInv
<1>4. AreMinted' /\ \A c \in checkpoints : Meant(c)' => Meant(c)
  BY <1>1, MintedKept DEF TInv
<1>5. Len(entries') \in Nat /\ Len(entries) <= Len(entries') /\ NoCheckpoint \notin checkpoints'
  BY <1>1, Counted
<1>6. ForksTypedAfter
  BY <1>1, <1>4, <1>5, TypedStepOfNone
<1>7. QED BY <1>2, <1>3, <1>4, <1>6 DEF PrimeAfter

LEMMA TypedStutter ==
  ASSUME TInv, UNCHANGED vars
  PROVE  PrimeAfter /\ ForksTypedAfter
<1>1. UNCHANGED <<entries, files, running, pending, ordinal, checkpoints, forks, faults>>
  BY DEF vars, prime
<1>2. TreeInv'
  BY <1>1 DEF TInv, TreeInv, IsTree, IsSeq
<1>3. TranscriptsInv'
  BY <1>1 DEF TInv, TranscriptsInv
<1>4. AreMinted' /\ \A c \in checkpoints : Meant(c)' => Meant(c)
  BY <1>1, MintedKept DEF TInv
<1>5. Len(entries') \in Nat /\ Len(entries) <= Len(entries') /\ NoCheckpoint \notin checkpoints'
  BY <1>1, Counted
<1>6. ForksTypedAfter
  BY <1>1, <1>4, <1>5, TypedStepOfNone
<1>7. QED BY <1>2, <1>3, <1>4, <1>6 DEF PrimeAfter

LEMMA TypedRewinds ==
  ASSUME TInv, Rewinds
  PROVE  PrimeAfter /\ ForksTypedAfter
<1>1. PICK e \in files[running].entries :
        ~entries[e].user /\ files' = [files EXCEPT ![running].leaf = e]
  BY DEF Rewinds
<1>2. UNCHANGED <<entries, running, pending, ordinal, checkpoints>> /\ Crosses /\ Faulty
  BY DEF Rewinds
<1> DEFINE n == Len(entries)
           f == files[running]
           g == [f EXCEPT !.leaf = e]
<1>3. n \in Nat /\ running \in 1..Len(files) /\ DOMAIN files = 1..Len(files) /\ 1 \in 1..Len(files)
      /\ \A i \in 1..Len(files) : IsFile(files[i], n)
  BY Counted DEF TInv, TranscriptsInv
<1>4. files' = [files EXCEPT ![running] = g]
  BY <1>1
<1>5. IsFile(g, n) /\ g.entries = f.entries
  <2>1. IsFile(f, n)
    BY <1>3
  <2>2. e \in f.entries
    OBVIOUS
  <2> HIDE DEF f
  <2>3. e \in 1..n /\ IsEven(e)
    <3>1. e \in 1..n
      BY <2>1, <2>2 DEF IsFile
    <3>2. QED BY <1>1, <3>1 DEF TInv, TreeInv, IsTree
  <2>4. f = [entries |-> f.entries, leaf |-> f.leaf] /\ f.entries \subseteq 1..n
    BY <2>1 DEF IsFile
  <2>5. g = [entries |-> f.entries, leaf |-> e]
    BY <2>4
  <2> HIDE DEF g
  <2>6. QED BY <2>2, <2>3, <2>4, <2>5 DEF IsFile
<1> HIDE DEF g
<1>6. Len(files') = Len(files) /\ files'[running] = g
      /\ \A i \in 1..Len(files) : i # running => files'[i] = files[i]
  <2>1. files' = [i \in DOMAIN files |-> files'[i]]
    BY <1>4
  <2>2. Len(files') = Len(files)
    BY <2>1, SameDomain DEF TInv, IInv, FilesInv
  <2>3. QED BY <1>3, <1>4, <2>2
<1>7. TranscriptsInv'
  BY <1>2, <1>3, <1>5, <1>6 DEF TInv, TranscriptsInv
<1>8. files'[1].entries = files[1].entries
  BY <1>3, <1>5, <1>6
<1>9. AreMinted' /\ \A c \in checkpoints : Meant(c)' => Meant(c)
  BY <1>2, <1>8, MintedKept DEF TInv
<1>10. TreeInv'
  BY <1>2, FaultCounted, TreeKept DEF TInv, TreeInv
<1>11. Len(entries') \in Nat /\ Len(entries) <= Len(entries') /\ NoCheckpoint \notin checkpoints'
  BY <1>2, Counted
<1>12. ForksTypedAfter
  BY <1>2, <1>6, <1>9, <1>11, TypedStepOfNone
<1>13. QED BY <1>7, <1>9, <1>10, <1>12 DEF PrimeAfter

LEMMA TypedApplies ==
  ASSUME TInv, Applies
  PROVE  PrimeAfter /\ ForksTypedAfter
<1>1. /\ pending # <<>> /\ running' = Head(pending) /\ pending' = Tail(pending)
      /\ UNCHANGED <<entries, files, ordinal, checkpoints, forks, faults>>
  BY DEF Applies
<1>2. pending \in Seq(Nat)
  BY DEF TInv, IInv, FilesInv
<1>3. /\ Len(pending) \in Nat /\ DOMAIN pending = 1..Len(pending) /\ Len(pending) > 0
      /\ running' = pending[1]
      /\ pending' \in Seq(Nat) /\ DOMAIN pending' = 1..(Len(pending) - 1)
      /\ \A i \in 1..(Len(pending) - 1) : pending'[i] = pending[i + 1]
  BY <1>1, <1>2, HeadTailProperties, LenProperties
<1>4. TranscriptsInv'
  <2>1. \A i \in 1..Len(pending) : pending[i] \in 1..Len(files)
    BY <1>3 DEF TInv, TranscriptsInv
  <2>2. \A i \in 1..(Len(pending) - 1) : i + 1 \in 1..Len(pending)
    BY <1>3
  <2>3. 1 \in 1..Len(pending)
    BY <1>3
  <2>4. QED BY <1>1, <1>3, <2>1, <2>2, <2>3 DEF TInv, TranscriptsInv
<1>5. TreeInv' /\ AreMinted' /\ \A c \in checkpoints : Meant(c)' => Meant(c)
  BY <1>1, MintedKept DEF TInv, TreeInv, IsTree, IsSeq
<1>6. TypedForks'
  BY <1>1 DEF TInv, TypedForks
<1>7. AimedForks'
  BY <1>1, <1>5 DEF TInv, AimedForks
<1>8. CarriedForks'
  <2>1. SUFFICES ASSUME NEW k \in DOMAIN forks, forks[k].alone
                 PROVE  Carried(forks[k], files, running', pending')
    BY <1>1 DEF CarriedForks, Carried
  <2>2. Carried(forks[k], files, running, pending)
    BY DEF TInv, CarriedForks
  <2>3. CASE forks[k].at = "branched"
    <3>1. Leaving(running, pending)
      BY <1>1, <2>1, <2>3 DEF TInv, IInv, BracketInv, Bracket, Unfinished, Over, Away
    <3>2. QED BY <1>3, <2>1, <2>2, <2>3, <3>1 DEF Leaving, Carried
  <2>4. CASE forks[k].at # "branched"
    BY <2>2, <2>4 DEF Carried
  <2>5. QED BY <2>3, <2>4
<1>9. TurnsEnd
  BY <1>1 DEF TurnsEnd, Returns, Over
<1>10. QED BY <1>4, <1>5, <1>6, <1>7, <1>8, <1>9 DEF PrimeAfter, ForksTypedAfter

LEMMA TypedAskFork ==
  ASSUME TInv, AskFork
  PROVE  PrimeAfter /\ ForksTypedAfter
<1>1. UNCHANGED <<entries, files, running, pending, ordinal, checkpoints, faults>>
  BY DEF AskFork, prime
<1>2. PICK last, c, alone :
           /\ c \in checkpoints \cup {NoCheckpoint} /\ alone \in BOOLEAN
           /\ last \notin DOMAIN forks /\ DOMAIN forks' = DOMAIN forks \cup {last}
           /\ forks'[last] = CheckpointAloneOf(Blank, c, alone)
           /\ \A k \in DOMAIN forks :
                forks'[k] = IF Over(k) THEN forks[k] ELSE [forks[k] EXCEPT !.alone = FALSE]
  <2>1. ForksInv
    BY DEF TInv, IInv
  <2>2. QED BY <2>1, ForkAsked
<1>3. TreeInv' /\ TranscriptsInv'
  BY <1>1 DEF TInv, TreeInv, TranscriptsInv, IsTree, IsSeq
<1>4. AreMinted' /\ \A d \in checkpoints : Meant(d)' => Meant(d)
  BY <1>1, MintedKept DEF TInv
<1> DEFINE g == forks'[last]
<1>5. g.at = "state" /\ g.original = 0 /\ g.branched = 0 /\ Data(g, c, {}, 0, 0)
  <2>1. IsFork(Blank)
    BY BlankIsFork
  <2>2. g.at = Blank.at /\ g.original = Blank.original /\ g.branched = Blank.branched
        /\ Data(g, c, Blank.branch, Blank.target, Blank.polls)
    BY <1>2, <2>1, CheckpointAloneSet
  <2>3. QED BY <2>2 DEF Blank
<1>6. ASSUME NEW k \in DOMAIN forks
      PROVE  /\ forks'[k].at = forks[k].at /\ forks'[k].original = forks[k].original
             /\ forks'[k].branched = forks[k].branched
             /\ Data(forks'[k], forks[k].checkpoint, forks[k].branch, forks[k].target, forks[k].polls)
             /\ forks'[k].alone => Over(k)
  <2>1. CASE Over(k)
    BY <1>2, <2>1 DEF Data
  <2>2. CASE ~Over(k)
    <3> DEFINE f == forks[k]
    <3>1. forks'[k] = [f EXCEPT !.alone = FALSE] /\ IsFork(f) /\ FALSE \in BOOLEAN
      BY <1>2, <2>2 DEF TInv, IInv, ForksInv
    <3> HIDE DEF f
    <3>2. /\ forks'[k].at = f.at /\ forks'[k].original = f.original /\ forks'[k].alone = FALSE
          /\ forks'[k].branched = f.branched
          /\ Data(forks'[k], f.checkpoint, f.branch, f.target, f.polls)
      BY <3>1, AloneSet
    <3>3. QED BY <3>2 DEF f
  <2>3. QED BY <2>1, <2>2
<1>7. TypedForks'
  <2>1. SUFFICES ASSUME NEW k \in DOMAIN forks \cup {last}
                 PROVE  ForkTyped(forks'[k], Len(entries), Len(files), checkpoints)
    BY <1>1, <1>2 DEF TypedForks
  <2>2. CASE k = last
    <3> HIDE DEF g
    <3>1. ForkTyped(g, Len(entries), Len(files), checkpoints)
      BY <1>2, <1>5, Counted, BlankIsTyped
    <3>2. QED BY <2>2, <3>1 DEF g
  <2>3. CASE k \in DOMAIN forks
    <3>1. ForkTyped(forks[k], Len(entries), Len(files), checkpoints)
      BY <2>3 DEF TInv, TypedForks
    <3>2. QED BY <1>6, <2>3, <3>1, Counted, TypedGrows
  <2>4. QED BY <2>2, <2>3
<1>8. \A k \in DOMAIN forks' : forks'[k].alone =>
        forks'[k].at \in {"state", "returned", "failed"}
  BY <1>2, <1>5, <1>6 DEF Over
<1>9. AimedForks'
  BY <1>8 DEF AimedForks, Aims
<1>10. CarriedForks'
  BY <1>8 DEF CarriedForks, Carried
<1>11. TurnsEnd
  BY <1>6 DEF TurnsEnd, Returns, Over
<1>12. QED BY <1>3, <1>4, <1>7, <1>9, <1>10, <1>11 DEF PrimeAfter, ForksTypedAfter

-----------------------------------------------------------------------------
(* The steps of a fork.                                                     *)

(* A step that leaves prime alone. *)
LEMMA PrimeUntouched ==
  ASSUME TInv, UNCHANGED prime, Quiet
  PROVE  /\ PrimeAfter /\ UNCHANGED <<entries, checkpoints, files, running, pending>>
         /\ Len(files') \in Nat /\ Len(files) <= Len(files')
<1>1. UNCHANGED <<entries, files, running, pending, ordinal, checkpoints, faults>>
  BY DEF prime, Quiet
<1>2. TreeInv' /\ TranscriptsInv'
  BY <1>1 DEF TInv, TreeInv, TranscriptsInv, IsTree, IsSeq
<1>3. AreMinted'
  BY <1>1, MintedKept DEF TInv
<1>4. QED BY <1>1, <1>2, <1>3, Counted DEF PrimeAfter

(* What the types say of a fork that takes a step. *)
LEMMA ForkKnown ==
  ASSUME TInv, NEW k \in DOMAIN forks
  PROVE  /\ IsFork(forks[k])
         /\ ForkTyped(forks[k], Len(entries), Len(files), checkpoints)
         /\ \A c \in checkpoints : Meant(c) => Aims(forks[k], c)
         /\ Carried(forks[k], files, running, pending)
         /\ forks[k].alone /\ ~Over(k) => Bracket(forks[k], running, pending)
BY ForkAtStep DEF TInv, TypedForks, AimedForks, CarriedForks

LEMMA TypedReadsState ==
  ASSUME TInv, NEW k \in DOMAIN forks, ReadsState(k)
  PROVE  PrimeAfter /\ ForksTypedAfter
<1> DEFINE f == OriginalAtOf(forks[k], running, "tree")
<1>1. PrimeAfter /\ UNCHANGED <<entries, checkpoints, files, running, pending>>
      /\ Len(files') \in Nat /\ Len(files) <= Len(files')
  BY PrimeUntouched DEF ReadsState
<1>2. forks[k].at = "state" /\ ~Over(k) /\ Sets(k, f)
  BY DEF ReadsState, At, Over, OriginalAtOf
<1>3. /\ IsFork(f) /\ f.at = "tree" /\ f.alone = forks[k].alone /\ f.original = running
      /\ f.branched = forks[k].branched
      /\ Data(f, forks[k].checkpoint, forks[k].branch, forks[k].target, forks[k].polls)
  <2>1. IsFork(forks[k]) /\ running \in Nat
    BY ForkKnown DEF TInv, IInv, FilesInv
  <2>2. QED BY <2>1, OriginalAtSet
<1> HIDE DEF f
<1>4. ForkTyped(f, Len(entries), Len(files'), checkpoints)
  <2>1. running \in 1..Len(files)
    BY DEF TInv, TranscriptsInv
  <2>2. running \in 0..Len(files) /\ running # 0
    BY <2>1, Counted
  <2>3. QED BY <1>1, <1>3, <2>2, ForkKnown DEF ForkTyped, Data, Steps
<1>5. (\A c \in checkpoints : Meant(c) => Aims(f, c)) /\ Carried(f, files', running', pending')
  BY <1>3 DEF Aims, Carried
<1>6. f.checkpoint = forks[k].checkpoint /\ f.at # "returned"
  BY <1>3 DEF Data
<1>7. ForksTypedAfter
  BY <1>1, <1>2, <1>3, <1>4, <1>5, <1>6, TypedStepOfOne
<1>8. QED BY <1>1, <1>7

LEMMA TypedReadsTree ==
  ASSUME TInv, NEW k \in DOMAIN forks, ReadsTree(k)
  PROVE  PrimeAfter /\ ForksTypedAfter
<1> DEFINE leaf == files[running].leaf
           branch == Branch(leaf)
           tip == forks[k].checkpoint = NoCheckpoint
           target == IF tip THEN leaf ELSE 0
           at == IF ~tip THEN "messages" ELSE IF branch = {} THEN "returned" ELSE "fork"
           f == BranchTargetAtOf(forks[k], branch, target, at)
<1>1. PrimeAfter /\ UNCHANGED <<entries, checkpoints, files, running, pending>>
      /\ Len(files') \in Nat /\ Len(files) <= Len(files')
  BY PrimeUntouched DEF ReadsTree
<1>2. forks[k].at = "tree" /\ ~Over(k) /\ Sets(k, f)
  BY DEF ReadsTree, At, Over, BranchTargetAtOf
<1>3. IsFork(forks[k])
  BY ForkKnown
<1> DEFINE n == Len(entries)
<1>4. n \in Nat /\ leaf \in 0..n /\ IsEven(leaf)
  <2>1. IsFile(files[running], n)
    BY DEF TInv, TranscriptsInv
  <2>2. n \in Nat
    BY Counted
  <2>3. QED BY <2>1, <2>2 DEF IsFile
<1>5. IsPaired(branch, n)
  <2> HIDE DEF leaf
  <2>1. QED BY <1>4, BranchIsPaired DEF TInv, TreeInv
<1>6. target \in 0..n /\ IsEven(target)
  <2>1. IsEven(0)
    <3>1. 0 = 2 * 0
      OBVIOUS
    <3>2. QED BY <3>1 DEF IsEven
  <2> HIDE DEF leaf, tip
  <2>2. QED BY <1>4, <2>1
<1>7. /\ at \in {"messages", "returned", "fork"} /\ (at = "messages" <=> ~tip)
  OBVIOUS
<1> HIDE DEF branch, target, at
<1>8. /\ IsFork(f) /\ f.at = at /\ f.alone = forks[k].alone /\ f.original = forks[k].original
      /\ f.branched = forks[k].branched
      /\ Data(f, forks[k].checkpoint, branch, target, forks[k].polls)
  BY <1>3, BranchTargetAtSet
<1> HIDE DEF f
<1>9. ForkTyped(f, Len(entries), Len(files'), checkpoints)
  BY <1>1, <1>2, <1>5, <1>6, <1>7, <1>8, ForkKnown DEF ForkTyped, Data, Steps
<1>10. f.checkpoint = forks[k].checkpoint /\ (f.at # "messages" => f.checkpoint = NoCheckpoint)
  BY <1>7, <1>8 DEF Data
<1>11. \A c \in checkpoints : Meant(c) => Aims(f, c)
  BY <1>10, Counted DEF Aims
<1>12. Carried(f, files', running', pending')
  BY <1>7, <1>8 DEF Carried
<1>13. f.at = "returned" => forks[k].checkpoint = NoCheckpoint
  BY <1>10
<1>14. ForksTypedAfter
  BY <1>1, <1>2, <1>8, <1>9, <1>10, <1>11, <1>12, <1>13, TypedStepOfOne
<1>15. QED BY <1>1, <1>14

LEMMA TypedReadsMessages ==
  ASSUME TInv, NEW k \in DOMAIN forks, ReadsMessages(k)
  PROVE  PrimeAfter /\ ForksTypedAfter
<1> DEFINE c == forks[k].checkpoint
           target == Target(c, forks[k].branch, Users(running))
           at == IF target = 0 THEN "failed" ELSE "fork"
           f == TargetAtOf(forks[k], target, at)
<1>1. PrimeAfter /\ UNCHANGED <<entries, checkpoints, files, running, pending>>
      /\ Len(files') \in Nat /\ Len(files) <= Len(files')
  BY PrimeUntouched DEF ReadsMessages
<1>2. forks[k].at = "messages" /\ ~Over(k) /\ Sets(k, f)
  BY DEF ReadsMessages, At, Over, TargetAtOf
<1>3. IsFork(forks[k]) /\ ForkTyped(forks[k], Len(entries), Len(files), checkpoints)
      /\ (forks[k].alone => running = 1)
  BY <1>2, ForkKnown DEF Bracket, AtHome
<1>4. c \in checkpoints /\ IsPaired(forks[k].branch, Len(entries))
  BY <1>2, <1>3 DEF ForkTyped
<1>5. /\ target \in 0..Len(entries) /\ IsEven(target)
      /\ target # 0 /\ running = 1 /\ Meant(c) => target = c.at + 1
  <2>1. files[running].entries \subseteq 1..Len(entries) /\ IsTree /\ AreMinted
    BY DEF TInv, TranscriptsInv, IsFile, TreeInv
  <2> HIDE DEF c
  <2>2. QED BY <1>4, <2>1, TargetIsAnswer
<1>6. at \in {"failed", "fork"} /\ (at = "fork" => target # 0)
  OBVIOUS
<1> HIDE DEF target, at
<1>7. /\ IsFork(f) /\ f.at = at /\ f.alone = forks[k].alone /\ f.original = forks[k].original
      /\ f.branched = forks[k].branched
      /\ Data(f, forks[k].checkpoint, forks[k].branch, target, forks[k].polls)
  BY <1>3, TargetAtSet
<1> HIDE DEF f
<1>8. ForkTyped(f, Len(entries), Len(files'), checkpoints)
  BY <1>1, <1>2, <1>3, <1>5, <1>6, <1>7 DEF ForkTyped, Data, Steps
<1>9. f.checkpoint = c /\ f.target = target
  BY <1>7 DEF Data
<1>10. f.at # "failed" => \A d \in checkpoints : Meant(d) => Aims(f, d)
  BY <1>3, <1>5, <1>6, <1>7, <1>9 DEF Aims
<1>11. Carried(f, files', running', pending')
  BY <1>6, <1>7 DEF Carried
<1>12. f.at # "returned"
  BY <1>6, <1>7
<1>13. ForksTypedAfter
  BY <1>1, <1>2, <1>7, <1>8, <1>9, <1>10, <1>11, <1>12, TypedStepOfOne DEF Finished
<1>14. QED BY <1>1, <1>13

(* The branch is a transcript of whole turns that ends with the target.     *)
LEMMA TypedBranches ==
  ASSUME TInv, UNCHANGED <<ordinal, checkpoints>>, faults' \in faults..MaxFaults,
         NEW k \in DOMAIN forks, Branches(k)
  PROVE  /\ PrimeAfter /\ UNCHANGED <<entries, checkpoints, running>>
         /\ Len(files') = Len(files) + 1 /\ Len(files') \in Nat /\ Len(files) <= Len(files')
         /\ \A i \in 1..Len(files) : files'[i] = files[i]
         /\ pending = <<>> => files'[pending'[1]].leaf = forks[k].target
<1> DEFINE t == forks[k].target
           file == [entries |-> Branch(t), leaf |-> t]
           n == Len(entries)
           m == Len(files)
<1>1. /\ t \in files[running].entries /\ files' = Append(files, file)
      /\ pending' = Append(pending, m + 1) /\ UNCHANGED <<entries, running>>
  BY DEF Branches
<1>2. UNCHANGED checkpoints /\ ordinal' = ordinal /\ faults' \in faults..MaxFaults
  OBVIOUS
<1>3. n \in Nat /\ m \in Nat /\ 1 \in 1..m /\ IsSeq(files) /\ pending \in Seq(Nat)
      /\ running \in 1..m
  BY Counted DEF TInv, IInv, FilesInv, TranscriptsInv
<1>4. IsFile(file, n)
  <2>1. IsEven(t)
    BY ForkKnown DEF ForkTyped
  <2>2. t \in 1..n
    BY <1>1, <1>3 DEF TInv, TranscriptsInv, IsFile
  <2>3. t \in 0..n /\ t # 0
    BY <1>3, <2>2
  <2> HIDE DEF t
  <2>4. IsPaired(Branch(t), n) /\ t \in Branch(t)
    BY <2>1, <2>3, BranchIsPaired DEF TInv, TreeInv
  <2>5. QED BY <2>1, <2>4 DEF IsFile, IsPaired
<1>5. file.leaf = t
  OBVIOUS
<1> HIDE DEF file
<1>6. /\ Len(files') = m + 1 /\ files'[m + 1] = file
      /\ \A i \in 1..m : files'[i] = files[i]
  BY <1>1, <1>3, Appended
<1>7. \A i \in 1..(m + 1) : IsFile(files'[i], n)
  <2>1. \A i \in 1..m : IsFile(files[i], n)
    BY DEF TInv, TranscriptsInv
  <2>2. \A i \in 1..(m + 1) : i \in 1..m \/ i = m + 1
    BY <1>3
  <2>3. QED BY <1>4, <1>6, <2>1, <2>2
<1>8. \A i \in DOMAIN pending' : pending'[i] \in 1..(m + 1)
  <2>1. \A i \in 1..Len(pending) : pending[i] \in 1..m
    BY <1>3, LenProperties DEF TInv, TranscriptsInv
  <2>2. /\ Len(pending) \in Nat /\ pending' \in Seq(Nat) /\ Len(pending') = Len(pending) + 1
        /\ \A i \in 1..Len(pending) : pending'[i] = pending[i]
        /\ pending'[Len(pending) + 1] = m + 1
    BY <1>1, <1>3, AppendProperties, LenProperties
  <2>3. DOMAIN pending' = 1..(Len(pending) + 1)
    BY <2>2, LenProperties
  <2>4. \A i \in 1..(Len(pending) + 1) : i \in 1..Len(pending) \/ i = Len(pending) + 1
    BY <2>2
  <2>5. \A i \in 1..m : i \in 1..(m + 1)
    BY <1>3
  <2>6. m + 1 \in 1..(m + 1)
    BY <1>3
  <2>7. QED BY <2>1, <2>2, <2>3, <2>4, <2>5, <2>6
<1>9. running \in 1..(m + 1)
  BY <1>3
<1>10. TranscriptsInv'
  BY <1>1, <1>6, <1>7, <1>8, <1>9 DEF TranscriptsInv
<1>11. TreeInv'
  BY <1>1, <1>2, TreeKept DEF TInv, TreeInv
<1>12. AreMinted'
  BY <1>1, <1>2, <1>3, <1>6, MintedKept DEF TInv
<1>13. pending = <<>> => files'[pending'[1]].leaf = t
  <2>1. SUFFICES ASSUME pending = <<>> PROVE pending'[1] = m + 1
    BY <1>5, <1>6
  <2>2. QED BY <1>1, <2>1
<1>14. QED BY <1>1, <1>2, <1>3, <1>6, <1>10, <1>11, <1>12, <1>13 DEF PrimeAfter

(* The switch asks for a transcript there is. *)
LEMMA TypedSwitchesBack ==
  ASSUME TInv, UNCHANGED <<ordinal, checkpoints>>, faults' \in faults..MaxFaults,
         NEW k \in DOMAIN forks, forks[k].at = "switch", SwitchesBack(k)
  PROVE  PrimeAfter /\ UNCHANGED <<entries, checkpoints, files, running>>
         /\ Len(files') \in Nat /\ Len(files) <= Len(files')
<1> DEFINE m == Len(files)
           o == forks[k].original
<1>1. pending' = Append(pending, o) /\ UNCHANGED <<entries, files, running>>
  BY DEF SwitchesBack
<1>2. UNCHANGED checkpoints /\ ordinal' = ordinal /\ faults' \in faults..MaxFaults
  OBVIOUS
<1>3. m \in Nat /\ pending \in Seq(Nat)
  BY Counted DEF TInv, IInv, FilesInv
<1>4. o \in 1..m /\ o \in Nat
  <2>1. o \in 0..m /\ o # 0
    BY ForkKnown DEF ForkTyped
  <2>2. QED BY <1>3, <2>1
<1> HIDE DEF o
<1>5. \A i \in DOMAIN pending' : pending'[i] \in 1..m
  <2>1. \A i \in 1..Len(pending) : pending[i] \in 1..m
    BY <1>3, LenProperties DEF TInv, TranscriptsInv
  <2>2. /\ Len(pending) \in Nat /\ pending' \in Seq(Nat) /\ Len(pending') = Len(pending) + 1
        /\ \A i \in 1..Len(pending) : pending'[i] = pending[i]
        /\ pending'[Len(pending) + 1] = o
    BY <1>1, <1>3, <1>4, AppendProperties, LenProperties
  <2>3. DOMAIN pending' = 1..(Len(pending) + 1)
    BY <2>2, LenProperties
  <2>4. \A i \in 1..(Len(pending) + 1) : i \in 1..Len(pending) \/ i = Len(pending) + 1
    BY <2>2
  <2>5. QED BY <1>4, <2>1, <2>2, <2>3, <2>4
<1>6. TranscriptsInv'
  BY <1>1, <1>5 DEF TInv, TranscriptsInv
<1>7. TreeInv'
  BY <1>1, <1>2, TreeKept DEF TInv, TreeInv
<1>8. AreMinted'
  BY <1>1, <1>2, MintedKept DEF TInv
<1>9. QED BY <1>1, <1>2, <1>3, <1>6, <1>7, <1>8 DEF PrimeAfter

LEMMA TypedForksStep ==
  ASSUME TInv, NEW k \in DOMAIN forks, Forks(k)
  PROVE  PrimeAfter /\ ForksTypedAfter
<1>0. Branches(k) /\ UNCHANGED <<ordinal, checkpoints>> /\ faults' \in faults..MaxFaults
  BY DEF Forks, Quiet, TInv, TreeInv
<1> DEFINE f == [forks[k] EXCEPT !.at = "branched"]
<1>1. forks[k].at = "fork" /\ ~Over(k) /\ Sets(k, f) /\ Branches(k) /\ Quiet
  BY DEF Forks, At, Over
<1>2. /\ PrimeAfter /\ UNCHANGED <<entries, checkpoints, running>>
      /\ Len(files') = Len(files) + 1 /\ Len(files') \in Nat /\ Len(files) <= Len(files')
      /\ \A i \in 1..Len(files) : files'[i] = files[i]
      /\ pending = <<>> => files'[pending'[1]].leaf = forks[k].target
  BY <1>0, TypedBranches
<1>3. IsFork(forks[k]) /\ ForkTyped(forks[k], Len(entries), Len(files), checkpoints)
      /\ (forks[k].alone => running = 1 /\ pending = <<>>)
      /\ \A c \in checkpoints : Meant(c) => Aims(forks[k], c)
  BY <1>1, ForkKnown DEF Bracket, AtHome
<1>4. /\ IsFork(f) /\ f.at = "branched" /\ f.alone = forks[k].alone
      /\ f.original = forks[k].original /\ f.branched = forks[k].branched
      /\ Data(f, forks[k].checkpoint, forks[k].branch, forks[k].target, forks[k].polls)
  BY <1>3, AtSet
<1> HIDE DEF f
<1>5. f.checkpoint = forks[k].checkpoint /\ f.target = forks[k].target
  BY <1>4 DEF Data
<1>6. ForkTyped(f, Len(entries), Len(files'), checkpoints)
  <2>1. ForkTyped(f, Len(entries), Len(files), checkpoints)
    BY <1>1, <1>3, <1>4 DEF ForkTyped, Data, Steps
  <2>2. Data(f, f.checkpoint, f.branch, f.target, f.polls)
    BY DEF Data
  <2>3. QED BY <1>2, <2>1, <2>2, Counted, TypedGrows
<1>7. \A c \in checkpoints : Meant(c) => Aims(f, c)
  BY <1>1, <1>3, <1>4, <1>5 DEF Aims
<1>8. Carried(f, files', running', pending')
  BY <1>2, <1>3, <1>4, <1>5 DEF Carried
<1>9. ForksTypedAfter
  BY <1>1, <1>2, <1>4, <1>5, <1>6, <1>7, <1>8, TypedStepOfOne
<1>10. QED BY <1>2, <1>9

LEMMA TypedSwitches ==
  ASSUME TInv, NEW k \in DOMAIN forks, Switches(k)
  PROVE  PrimeAfter /\ ForksTypedAfter
<1>0. forks[k].at = "switch" /\ SwitchesBack(k) /\ UNCHANGED <<ordinal, checkpoints>>
      /\ faults' \in faults..MaxFaults
  BY DEF Switches, At, Quiet, TInv, TreeInv
<1> DEFINE f == [forks[k] EXCEPT !.at = "verify"]
<1>1. forks[k].at = "switch" /\ ~Over(k) /\ Sets(k, f) /\ SwitchesBack(k) /\ Quiet
  BY DEF Switches, At, Over
<1>2. PrimeAfter /\ UNCHANGED <<entries, checkpoints, files, running>>
      /\ Len(files') \in Nat /\ Len(files) <= Len(files')
  BY <1>0, TypedSwitchesBack
<1>3. IsFork(forks[k]) /\ ForkTyped(forks[k], Len(entries), Len(files), checkpoints)
      /\ Carried(forks[k], files, running, pending)
      /\ \A c \in checkpoints : Meant(c) => Aims(forks[k], c)
  BY ForkKnown
<1>4. /\ IsFork(f) /\ f.at = "verify" /\ f.alone = forks[k].alone
      /\ f.original = forks[k].original /\ f.branched = forks[k].branched
      /\ Data(f, forks[k].checkpoint, forks[k].branch, forks[k].target, forks[k].polls)
  BY <1>3, AtSet
<1> HIDE DEF f
<1>5. f.checkpoint = forks[k].checkpoint /\ f.target = forks[k].target
  BY <1>4 DEF Data
<1>6. ForkTyped(f, Len(entries), Len(files'), checkpoints)
  BY <1>1, <1>2, <1>3, <1>4 DEF ForkTyped, Data, Steps
<1>7. \A c \in checkpoints : Meant(c) => Aims(f, c)
  BY <1>1, <1>3, <1>4, <1>5 DEF Aims
<1>8. Carried(f, files', running', pending')
  BY <1>1, <1>2, <1>3, <1>4, <1>5 DEF Carried
<1>9. ForksTypedAfter
  BY <1>1, <1>2, <1>4, <1>5, <1>6, <1>7, <1>8, TypedStepOfOne
<1>10. QED BY <1>2, <1>9

(* A read that does not say what is waited for is one read more. *)
LEMMA OneReadMore ==
  ASSUME TInv, NEW k \in DOMAIN forks, forks[k].at \in {"branched", "verify"}, ~Over(k),
         UNCHANGED prime, Quiet,
         Sets(k, [forks[k] EXCEPT !.polls = @ + 1, !.at = IF LastPoll(k) THEN "failed" ELSE @])
  PROVE  PrimeAfter /\ ForksTypedAfter
<1> DEFINE polls == forks[k].polls + 1
           at == IF LastPoll(k) THEN "failed" ELSE forks[k].at
           f == PollsAtOf(forks[k], polls, at)
<1>1. PrimeAfter /\ UNCHANGED <<entries, checkpoints, files, running, pending>>
      /\ Len(files') \in Nat /\ Len(files) <= Len(files')
  BY PrimeUntouched
<1>2. Sets(k, f)
  BY DEF PollsAtOf
<1>3. IsFork(forks[k]) /\ ForkTyped(forks[k], Len(entries), Len(files), checkpoints)
      /\ Carried(forks[k], files, running, pending)
      /\ \A c \in checkpoints : Meant(c) => Aims(forks[k], c)
  BY ForkKnown
<1>4. /\ at = "failed" \/ at = forks[k].at
      /\ at # "failed" => polls \in 0..(MaxPolls - 1)
  <2>1. forks[k].polls \in 0..(MaxPolls - 1) /\ MaxPolls \in Nat
    BY <1>3, ForkAssumption DEF ForkTyped
  <2>2. QED BY <2>1 DEF LastPoll, ReadsRunOut
<1> HIDE DEF polls, at
<1>5. /\ IsFork(f) /\ f.at = at /\ f.alone = forks[k].alone /\ f.original = forks[k].original
      /\ f.branched = forks[k].branched
      /\ Data(f, forks[k].checkpoint, forks[k].branch, forks[k].target, polls)
  BY <1>3, PollsAtSet
<1> HIDE DEF f
<1>6. f.checkpoint = forks[k].checkpoint /\ f.target = forks[k].target
  BY <1>5 DEF Data
<1>7. f.at # "failed" => ForkTyped(f, Len(entries), Len(files'), checkpoints)
  BY <1>1, <1>3, <1>4, <1>5 DEF ForkTyped, Data, Steps
<1>8. f.at # "failed" => \A c \in checkpoints : Meant(c) => Aims(f, c)
  BY <1>3, <1>4, <1>5, <1>6 DEF Aims
<1>9. f.at # "failed" => Carried(f, files', running', pending')
  BY <1>1, <1>3, <1>4, <1>5, <1>6 DEF Carried
<1>10. f.at # "returned" /\ f.at \in {"failed", "branched", "verify"}
  BY <1>4, <1>5
<1>11. ForksTypedAfter
  BY <1>1, <1>2, <1>5, <1>6, <1>7, <1>8, <1>9, <1>10, TypedStepOfOne DEF Finished
<1>12. QED BY <1>1, <1>11

LEMMA TypedPollsBranch ==
  ASSUME TInv, NEW k \in DOMAIN forks, PollsBranch(k)
  PROVE  PrimeAfter /\ ForksTypedAfter
<1>1. forks[k].at = "branched" /\ ~Over(k) /\ UNCHANGED prime /\ Quiet
  BY DEF PollsBranch, At, Over
<1>2. CASE IsBranch(running, forks[k].original)
  <2> DEFINE f == BranchedPollsAtOf(forks[k], running, 0, "switch")
  <2>1. PrimeAfter /\ UNCHANGED <<entries, checkpoints, files, running, pending>>
        /\ Len(files') \in Nat /\ Len(files) <= Len(files')
    BY <1>1, PrimeUntouched
  <2>2. Sets(k, f) /\ running # forks[k].original
    BY <1>2 DEF PollsBranch, IsBranch, OtherFile, BranchedPollsAtOf
  <2>3. IsFork(forks[k]) /\ ForkTyped(forks[k], Len(entries), Len(files), checkpoints)
        /\ Carried(forks[k], files, running, pending)
        /\ (forks[k].alone => running # 1)
        /\ \A c \in checkpoints : Meant(c) => Aims(forks[k], c)
    BY <1>1, <2>2, ForkKnown DEF Bracket
  <2>4. /\ IsFork(f) /\ f.at = "switch" /\ f.alone = forks[k].alone
        /\ f.original = forks[k].original /\ f.branched = running
        /\ Data(f, forks[k].checkpoint, forks[k].branch, forks[k].target, 0)
    BY <2>3, BranchedPollsAtSet
  <2> HIDE DEF f
  <2>5. f.checkpoint = forks[k].checkpoint /\ f.target = forks[k].target
    BY <2>4 DEF Data
  <2>6. ForkTyped(f, Len(entries), Len(files'), checkpoints)
    <3>1. running \in 0..Len(files)
      BY Counted DEF TInv, TranscriptsInv
    <3>2. 0 \in 0..(MaxPolls - 1)
      BY ForkAssumption
    <3>3. QED BY <1>1, <2>1, <2>3, <2>4, <3>1, <3>2 DEF ForkTyped, Data, Steps
  <2>7. \A c \in checkpoints : Meant(c) => Aims(f, c)
    BY <1>1, <2>3, <2>4, <2>5 DEF Aims
  <2>8. Carried(f, files', running', pending')
    BY <1>1, <2>1, <2>3, <2>4, <2>5 DEF Carried
  <2>9. ForksTypedAfter
    BY <1>1, <2>1, <2>2, <2>4, <2>5, <2>6, <2>7, <2>8, TypedStepOfOne
  <2>10. QED BY <2>1, <2>9
<1>3. CASE ~IsBranch(running, forks[k].original)
  <2>1. Sets(k, [forks[k] EXCEPT !.polls = @ + 1, !.at = IF LastPoll(k) THEN "failed" ELSE @])
    BY <1>3 DEF PollsBranch
  <2>2. QED BY <1>1, <2>1, OneReadMore
<1>4. QED BY <1>2, <1>3

LEMMA TypedPollsRestored ==
  ASSUME TInv, NEW k \in DOMAIN forks, PollsRestored(k)
  PROVE  PrimeAfter /\ ForksTypedAfter
<1>1. forks[k].at = "verify" /\ ~Over(k) /\ UNCHANGED prime /\ Quiet
  BY DEF PollsRestored, At, Over
<1>2. CASE IsRestored(running, forks[k].original)
  <2> DEFINE f == [forks[k] EXCEPT !.at = "returned"]
  <2>1. PrimeAfter /\ UNCHANGED <<entries, checkpoints, files, running, pending>>
        /\ Len(files') \in Nat /\ Len(files) <= Len(files')
    BY <1>1, PrimeUntouched
  <2>2. Sets(k, f)
    BY <1>2 DEF PollsRestored
  <2>3. IsFork(forks[k])
    BY ForkKnown
  <2>4. IsFork(f) /\ f.at = "returned" /\ f.alone = forks[k].alone
        /\ f.checkpoint = forks[k].checkpoint
    BY <2>3, AtSet DEF Data
  <2> HIDE DEF f
  <2>5. ForksTypedAfter
    BY <1>1, <2>1, <2>2, <2>4, TypedStepOfOne DEF Finished
  <2>6. QED BY <2>1, <2>5
<1>3. CASE ~IsRestored(running, forks[k].original)
  <2>1. Sets(k, [forks[k] EXCEPT !.polls = @ + 1, !.at = IF LastPoll(k) THEN "failed" ELSE @])
    BY <1>3 DEF PollsRestored
  <2>2. QED BY <1>1, <2>1, OneReadMore
<1>4. QED BY <1>2, <1>3

LEMMA TypedFails ==
  ASSUME TInv, NEW k \in DOMAIN forks, Fails(k)
  PROVE  PrimeAfter /\ ForksTypedAfter
<1> DEFINE f == [forks[k] EXCEPT !.at = "failed"]
<1>1. ~Over(k) /\ Sets(k, f) /\ UNCHANGED <<ordinal, checkpoints>>
  BY DEF Fails
<1>2. faults' \in faults..MaxFaults
  BY FaultCounted DEF Fails, TInv, TreeInv
<1>3. /\ PrimeAfter /\ UNCHANGED <<entries, checkpoints>>
      /\ Len(files') \in Nat /\ Len(files) <= Len(files')
      /\ \A i \in 1..Len(files) : files'[i] = files[i]
  <2>1. CASE UNCHANGED prime
    <3>1. UNCHANGED <<entries, files, running, pending>>
      BY <2>1 DEF prime
    <3>2. TreeInv'
      BY <1>1, <1>2, <3>1, TreeKept DEF TInv, TreeInv
    <3>3. TranscriptsInv' /\ AreMinted'
      BY <1>1, <3>1, MintedKept DEF TInv, TranscriptsInv
    <3>4. QED BY <1>1, <3>1, <3>2, <3>3, Counted DEF PrimeAfter
  <2>2. CASE Branches(k)
    BY <1>1, <1>2, <2>2, TypedBranches
  <2>3. CASE At(k, "switch") /\ SwitchesBack(k)
    BY <1>1, <1>2, <2>3, TypedSwitchesBack DEF At
  <2>4. QED BY <2>1, <2>2, <2>3 DEF Fails
<1>4. IsFork(forks[k])
  BY ForkKnown
<1>5. IsFork(f) /\ f.at = "failed" /\ f.alone = forks[k].alone /\ f.checkpoint = forks[k].checkpoint
  BY <1>4, AtSet DEF Data
<1> HIDE DEF f
<1>6. ForksTypedAfter
  BY <1>1, <1>3, <1>5, TypedStepOfOne DEF Finished
<1>7. QED BY <1>3, <1>6

-----------------------------------------------------------------------------
LEMMA TypedBegins ==
  Init => TInv
<1> SUFFICES ASSUME Init PROVE TInv
  OBVIOUS
<1>1. IsEven(0)
  <2>1. 0 = 2 * 0
    OBVIOUS
  <2>2. QED BY <2>1 DEF IsEven
<1>2. entries = <<>> /\ ordinal = 0 /\ faults = 0 /\ checkpoints = {} /\ forks = <<>>
      /\ files = <<[entries |-> {}, leaf |-> 0]>> /\ running = 1 /\ pending = <<>>
  BY DEF Init
<1>3. TreeInv
  <2>1. IsSeq(entries) /\ Len(entries) = 0 /\ DOMAIN entries = 1..0
    BY <1>2, EmptySeq DEF IsSeq
  <2>2. \A e \in 1..0 : FALSE
    OBVIOUS
  <2>3. IsTree
    BY <1>1, <2>1, <2>2 DEF IsTree
  <2>4. QED BY <1>2, <2>1, <2>3, ForkAssumption DEF TreeInv
<1>4. TranscriptsInv
  <2>1. Len(files) = 1 /\ files[1] = [entries |-> {}, leaf |-> 0] /\ DOMAIN pending = {}
    BY <1>2
  <2>2. IsFile(files[1], Len(entries))
    BY <1>1, <2>1 DEF IsFile
  <2>3. running \in 1..Len(files) /\ \A i \in 1..Len(files) : i = 1
    BY <1>2, <2>1
  <2> HIDE <1>2
  <2>4. QED BY <2>1, <2>2, <2>3 DEF TranscriptsInv
<1>5. AreMinted
  BY <1>2 DEF AreMinted
<1>6. TypedForks /\ AimedForks /\ CarriedForks
  <2>1. DOMAIN forks = {}
    BY <1>2
  <2>2. QED BY <1>2, <2>1 DEF TypedForks, AimedForks, CarriedForks
<1>7. QED BY <1>3, <1>4, <1>5, <1>6, Begins DEF TInv

LEMMA EachTypedStep ==
  ASSUME TInv, [Next]_vars
  PROVE  PrimeAfter /\ ForksTypedAfter
<1>1. CASE Prompted
  BY <1>1, TypedTurn, TypedTypedOutside DEF Prompted
<1>2. CASE LaneStartsOver
  BY <1>2, TypedStartOver
<1>3. CASE Rewinds
  BY <1>3, TypedRewinds
<1>4. CASE Applies
  BY <1>4, TypedApplies
<1>5. CASE AskFork
  BY <1>5, TypedAskFork
<1>6. CASE Reads
  BY <1>6, TypedReadsState, TypedReadsTree, TypedReadsMessages DEF Reads
<1>7. CASE Brackets
  BY <1>7, TypedForksStep, TypedSwitches DEF Brackets
<1>8. CASE Polls
  BY <1>8, TypedPollsBranch, TypedPollsRestored DEF Polls
<1>9. CASE ForkFails
  BY <1>9, TypedFails DEF ForkFails
<1>10. CASE UNCHANGED vars
  BY <1>10, TypedStutter
<1>11. CASE TurnFails
  BY <1>11, TypedTurnFails
<1>12. QED
  BY <1>1, <1>2, <1>3, <1>4, <1>5, <1>6, <1>7, <1>8, <1>9, <1>10, <1>11 DEF Next

LEMMA TypedForever == Spec => []TInv
<1>1. Init => TInv
  BY TypedBegins
<1>2. TInv /\ [Next]_vars => TInv'
  BY EachTypedStep, EachStep DEF TInv, IInv, ForksAfter, PrimeAfter, ForksTypedAfter
<1>3. QED BY <1>1, <1>2, PTL DEF Spec

(* Every file, fork, entry and counter is what it is meant to be, and the   *)
(* waits of a fork end: after as many reads as the code makes.              *)
THEOREM ForkTypeCorrect == Spec => []TypeOK
<1>1. TInv => TypeOK
  <2> SUFFICES ASSUME TInv PROVE TypeOK
    OBVIOUS
  <2>1. Len(entries) \in Nat /\ DOMAIN entries = 1..Len(entries)
        /\ Len(files) \in Nat /\ DOMAIN files = 1..Len(files)
    BY Counted
  <2>2. running \in DOMAIN files /\ \A i \in DOMAIN pending : pending[i] \in DOMAIN files
    BY <2>1 DEF TInv, TranscriptsInv
  <2>3. \A f \in DOMAIN files : /\ files[f].entries \subseteq DOMAIN entries
                                /\ files[f].leaf \in files[f].entries \cup {0}
    BY <2>1 DEF TInv, TranscriptsInv, IsFile
  <2>4. \A e \in DOMAIN entries : entries[e].parent \in 0..(e - 1)
    BY <2>1 DEF TInv, TreeInv, IsTree
  <2>5. \A k \in DOMAIN forks :
          /\ forks[k].at \in Steps /\ forks[k].polls \in 0..(MaxPolls - 1)
          /\ forks[k].target \in 0..Len(entries)
          /\ {forks[k].original, forks[k].branched} \subseteq 0..Len(files)
    BY DEF TInv, TypedForks, ForkTyped
  <2>6. ordinal \in 0..(MaxTurns + MaxFaults) /\ faults \in 0..MaxFaults
    BY <2>1, ForkAssumption DEF TInv, TreeInv
  <2>7. QED BY <2>2, <2>3, <2>4, <2>5, <2>6 DEF TypeOK
<1>2. QED BY <1>1, TypedForever, PTL

(* A fork of a checkpoint branches at the end of the turn the checkpoint    *)
(* was minted for, and hands out that branch, if no other message has its   *)
(* text or its ordinal is where its message stands in the source's own      *)
(* transcript (resolveForkTarget and the bracket of forkPrimeSession).      *)
THEOREM ForkEndsWithItsTurn == Spec => BranchEndsWithTurn
<1>1. TInv /\ [Next]_vars =>
        [\A k \in DOMAIN forks :
           LET c == forks[k].checkpoint
           IN Returns(k) /\ forks[k].alone /\ c # NoCheckpoint /\ (Sole(c) \/ Unshifted(c))
              => EndsWithTurn(k)]_vars
  BY EachTypedStep DEF ForksTypedAfter, TurnsEnd
<1>2. QED BY <1>1, TypedForever, PTL DEF Spec, BranchEndsWithTurn
=============================================================================
