------------------------- MODULE SessionStream_proofs -------------------------
(***************************************************************************)
(* Proofs about SessionStream, for every bound: its types, that a lane     *)
(* shows every event once and in order, and that it skips none.            *)
(***************************************************************************)
EXTENDS SessionStream, FiniteSets, SequenceTheorems, FiniteSetTheorems,
        NaturalsInduction, WellFoundedInduction, TLAPS

-----------------------------------------------------------------------------
(* Induction over the natural numbers, as a fact about sets: a set that      *)
(* holds 0 and the successor of what it holds is all of them.                *)
Below == {p \in Nat \X Nat : p[1] < p[2]}

LEMMA BelowIsWellFounded == IsWellFoundedOn(Below, Nat)
BY NatLessThanWellFounded DEF OpToRel, Below

LEMMA Least ==
  ASSUME NEW T, T \subseteq Nat, T # {}
  PROVE  \E x \in T : \A y \in T : x <= y
<1>1. PICK x \in T : \A y \in T : ~(<<y, x>> \in Below)
  BY BelowIsWellFounded, WFMin
<1>2. ASSUME NEW y \in T PROVE x <= y
  <2>1. x \in Nat /\ y \in Nat
    OBVIOUS
  <2>2. ~(<<y, x>> \in Below)
    BY <1>1
  <2> QED BY <2>1, <2>2 DEF Below
<1> QED BY <1>2

LEMMA Counting ==
  ASSUME NEW T, 0 \in T, \A n \in Nat : n \in T => n + 1 \in T
  PROVE  \A n \in Nat : n \in T
<1> SUFFICES ASSUME Nat \ T # {} PROVE FALSE
  OBVIOUS
<1>1. PICK x \in Nat \ T : \A y \in Nat \ T : x <= y
  <2> DEFINE U == Nat \ T
  <2>1. U \subseteq Nat /\ U # {}
    OBVIOUS
  <2> HIDE DEF U
  <2>2. \E x \in U : \A y \in U : x <= y
    BY <2>1, Least
  <2> QED BY <2>2 DEF U
<1>2. x # 0 /\ x - 1 \in Nat
  OBVIOUS
<1>3. x - 1 \in T
  BY <1>1, <1>2
<1>4. (x - 1) + 1 \in T
  BY <1>2, <1>3
<1> QED BY <1>4

-----------------------------------------------------------------------------
(* Sequences by their positions. *)
LEMMA Positions ==
  ASSUME NEW S, NEW s \in Seq(S)
  PROVE  Len(s) \in Nat /\ DOMAIN s = 1..Len(s) /\ \A k \in DOMAIN s : s[k] \in S
BY LenProperties, ElementOfSeq

LEMMA SequenceOf ==
  ASSUME NEW S, NEW n \in Nat, NEW s \in [1..n -> S]
  PROVE  s \in Seq(S) /\ Len(s) = n
BY SeqDef, LenProperties

LEMMA Widens ==
  ASSUME NEW S, NEW s \in Seq(S), NEW T, \A k \in DOMAIN s : s[k] \in T
  PROVE  s \in Seq(T)
<1>1. Len(s) \in Nat /\ DOMAIN s = 1..Len(s) /\ s \in [1..Len(s) -> S]
  BY Positions, LenProperties
<1>2. s \in [1..Len(s) -> T]
  BY <1>1
<1> QED BY <1>1, <1>2, SequenceOf

LEMMA TailPositions ==
  ASSUME NEW S, NEW s \in Seq(S), s # <<>>
  PROVE  /\ Head(s) \in S /\ Tail(s) \in Seq(S) /\ 1 \in DOMAIN s /\ s[1] = Head(s)
         /\ \A k \in DOMAIN Tail(s) : k \in Nat \ {0} /\ k + 1 \in DOMAIN s /\ Tail(s)[k] = s[k + 1]
         /\ \A k \in DOMAIN s : k \in Nat \ {0}
                                /\ (k # 1 => k - 1 \in DOMAIN Tail(s) /\ Tail(s)[k - 1] = s[k])
<1>1. Len(s) \in Nat /\ DOMAIN s = 1..Len(s) /\ Len(s) # 0
  BY Positions, EmptySeq
<1>2. /\ Head(s) \in S /\ Tail(s) \in Seq(S) /\ Len(Tail(s)) = Len(s) - 1
      /\ \A k \in 1..Len(Tail(s)) : Tail(s)[k] = s[k + 1]
  BY HeadTailProperties
<1>3. DOMAIN Tail(s) = 1..Len(Tail(s))
  BY <1>2, Positions
<1>4. s[1] = Head(s)
  BY <1>1
<1>5. ASSUME NEW k \in DOMAIN s, k # 1 PROVE k - 1 \in DOMAIN Tail(s) /\ Tail(s)[k - 1] = s[k]
  <2>1. k - 1 \in 1..Len(Tail(s)) /\ (k - 1) + 1 = k
    BY <1>1, <1>2, <1>5
  <2> QED BY <1>2, <1>3, <2>1
<1> QED BY <1>1, <1>2, <1>3, <1>4, <1>5

LEMMA AppendPositions ==
  ASSUME NEW S, NEW s \in Seq(S), NEW x \in S
  PROVE  /\ Append(s, x) \in Seq(S) /\ Len(Append(s, x)) = Len(s) + 1
         /\ DOMAIN Append(s, x) = DOMAIN s \cup {Len(s) + 1}
         /\ Append(s, x)[Len(s) + 1] = x
         /\ \A k \in DOMAIN s : k \in Nat \ {0} /\ k < Len(s) + 1 /\ Append(s, x)[k] = s[k]
<1>1. Len(s) \in Nat /\ DOMAIN s = 1..Len(s)
  BY Positions
<1>2. /\ Append(s, x) \in Seq(S) /\ Len(Append(s, x)) = Len(s) + 1
      /\ \A i \in 1..Len(s) : Append(s, x)[i] = s[i]
      /\ Append(s, x)[Len(s) + 1] = x
  BY AppendProperties
<1>3. DOMAIN Append(s, x) = 1..(Len(s) + 1)
  BY <1>2, Positions
<1> QED BY <1>1, <1>2, <1>3

LEMMA EmptyPositions == DOMAIN (<<>>) = {} /\ \A S : <<>> \in Seq(S)
BY EmptySeq

LEMMA NoPositions ==
  ASSUME NEW S, NEW s \in Seq(S)
  PROVE  (s = <<>>) <=> (DOMAIN s = {})
<1>1. ASSUME DOMAIN s = {} PROVE s = <<>>
  <2>1. Len(s) \in Nat /\ 1 \notin 1..Len(s)
    BY <1>1, Positions
  <2>2. Len(s) = 0
    BY <2>1
  <2> QED BY <2>2, EmptySeq
<1> QED BY <1>1, EmptyPositions

-----------------------------------------------------------------------------
(* The inductive invariant.  The types of what is recorded first, with no    *)
(* bound that moves, and then the bounds.                                    *)
Points == Cursors \cup {NoCursor}
Lanes == [attached : BOOLEAN, closed : BOOLEAN, boundary : Points, last : -1..MaxEvents,
          buffered : Seq(Nat)]
Views == [lane : Lanes, shown : Seq(Nat)]
Messages == [type : MessageTypes, n : Nat, ok : BOOLEAN, at : Points]
Servings == [phase : {"none", "seated", "taken"}, reason : Reasons, upTo : Nat, at : Points]
Tallies == [drops : Nat, replays : Nat, refusals : Nat, restarts : Nat, early : Nat,
            rewound : BOOLEAN]

Gen(n) == events[n].generation
Num(n) == events[n].sequence
IsEvent(m) == m.type = "session_event"
IsAnswer(m) == m.type = "attach" /\ m.ok
In(n, s) == \E i \in DOMAIN s : s[i] = n
Increasing(s) == \A i, j \in DOMAIN s : i < j => s[i] < s[j]

Typed ==
  /\ clock \in Clocks /\ events \in Seq(Cursors) /\ now \in Cursors
  /\ seated \in BOOLEAN /\ wire \in {"up", "down"} /\ serving \in Servings
  /\ toDaemon \in Seq(Reasons) /\ asks \in Seq(Reasons)
  /\ toLane \in Seq(Messages) /\ armed \in Seq(Messages)
  /\ lane \in Lanes /\ shown \in Seq(Nat) /\ rendered \in Nat /\ base \in Nat
  /\ counts \in Tallies

Bounded ==
  /\ Len(events) <= MaxEvents /\ now.sequence <= Len(events)
  /\ serving.upTo <= Len(events)
  /\ \A k \in DOMAIN toLane :
       toLane[k].n <= Len(events) /\ (IsEvent(toLane[k]) => toLane[k].n # 0)
  /\ \A k \in DOMAIN armed : armed[k].type = "attach" /\ armed[k].n <= Len(events)
  /\ \A k \in DOMAIN lane.buffered : lane.buffered[k] \in Events
  /\ \A k \in DOMAIN shown : shown[k] \in Events
  /\ rendered <= base /\ base <= Len(events)

(* Every attach() that waits has its question on the way to the daemon, in   *)
(* its hands, or its answer on the way back, or read.                        *)
Awaited(s) == {k \in DOMAIN s : s[k].type = "attach"}
Working == IF serving.phase = "none" THEN 0 ELSE 1
Counted == Len(asks) = Len(armed) + Len(toDaemon) + Working + Cardinality(Awaited(toLane))

(* What the seat and the wire say of the rest: nothing is buffered once the  *)
(* lane is attached, and nothing streams to a client that is not seated.     *)
Phased ==
  /\ lane.attached => lane.buffered = <<>>
  /\ ~lane.attached => shown = <<>>
  /\ ~seated =>
       /\ serving.phase = "none" /\ \A k \in DOMAIN armed : ~IsAnswer(armed[k])
       /\ lane.attached => counts.drops > 0
       /\ \A k \in DOMAIN toLane : ~IsEvent(toLane[k]) /\ ~IsAnswer(toLane[k])
  /\ wire = "down" => ~seated /\ toLane = <<>> /\ toDaemon = <<>> /\ asks = <<>> /\ armed = <<>>

(* The daemon's numbers: generations never go back, and the sequence grows   *)
(* in each of them; throughout, if no replaced worker starts over.           *)
Numbered ==
  /\ \A m, n \in Events : m < n => Gen(m) <= Gen(n) /\ (Gen(m) = Gen(n) => Num(m) < Num(n))
  /\ \A n \in Events :
       Gen(n) <= now.generation /\ (Gen(n) = now.generation => Num(n) <= now.sequence)
  /\ counts.restarts = 0 => /\ \A m, n \in Events : m < n => Num(m) < Num(n)
                            /\ \A n \in Events : Num(n) <= now.sequence
  /\ now.generation = 1 => now.sequence = Len(events) /\ \A n \in Events : Num(n) = n
  /\ counts.early = 0 /\ ~lane.attached => now.generation = 1

(* A snapshot's cursor parts the k events that it holds from the others. *)
Parts(k, at) ==
  /\ at \in Cursors /\ at.generation <= now.generation
  /\ at.generation = now.generation => at.sequence <= now.sequence
  /\ counts.restarts = 0 => at.sequence <= now.sequence
  /\ \A n \in Events :
       /\ n <= k => Gen(n) <= at.generation /\ (Gen(n) = at.generation => Num(n) <= at.sequence)
       /\ n > k => Gen(n) >= at.generation /\ (Gen(n) = at.generation => Num(n) > at.sequence)
       /\ counts.restarts = 0 /\ n > k => Num(n) > at.sequence
Snaps ==
  /\ serving.phase = "taken" => Parts(serving.upTo, serving.at)
  /\ \A k \in DOMAIN toLane : IsAnswer(toLane[k]) => Parts(toLane[k].n, toLane[k].at)
  /\ \A k \in DOMAIN armed : IsAnswer(armed[k]) => Parts(armed[k].n, armed[k].at)

(* Events are pushed in the order of their generations, and none of an older *)
(* one after an answer. *)
Pushed ==
  /\ \A j, k \in DOMAIN toLane :
       j < k /\ IsEvent(toLane[j]) /\ IsEvent(toLane[k]) => Gen(toLane[j].n) <= Gen(toLane[k].n)
  /\ \A j, k \in DOMAIN toLane :
       j < k /\ IsAnswer(toLane[j]) /\ IsEvent(toLane[k])
       => toLane[j].at.generation <= Gen(toLane[k].n)
  /\ \A j \in DOMAIN armed, k \in DOMAIN toLane :
       IsAnswer(armed[j]) /\ IsEvent(toLane[k]) => armed[j].at.generation <= Gen(toLane[k].n)

(* A later snapshot holds what an earlier one did. *)
Answered ==
  /\ \A j \in DOMAIN armed : IsAnswer(armed[j]) => base <= armed[j].n
  /\ \A i, j \in DOMAIN armed :
       i < j /\ IsAnswer(armed[i]) /\ IsAnswer(armed[j]) => armed[i].n <= armed[j].n
  /\ \A j \in DOMAIN toLane : IsAnswer(toLane[j]) => base <= toLane[j].n
  /\ \A i \in DOMAIN armed, j \in DOMAIN toLane :
       IsAnswer(armed[i]) /\ IsAnswer(toLane[j]) => armed[i].n <= toLane[j].n
  /\ \A i, j \in DOMAIN toLane :
       i < j /\ IsAnswer(toLane[i]) /\ IsAnswer(toLane[j]) => toLane[i].n <= toLane[j].n
  /\ serving.phase = "taken" =>
       /\ base <= serving.upTo
       /\ \A j \in DOMAIN armed : IsAnswer(armed[j]) => armed[j].n <= serving.upTo
       /\ \A j \in DOMAIN toLane : IsAnswer(toLane[j]) => toLane[j].n <= serving.upTo

(* What was shown, in order and past the first snapshot; and why the next    *)
(* event will be: by the sequence, the daemon pushes nothing again that the  *)
(* lane does not drop; by the order of the socket, nothing again at all.     *)
Ascending ==
  lane.attached /\ counts.early = 0 /\ Filtered =>
    Increasing(shown) /\ \A i \in DOMAIN shown : shown[i] > rendered

Coming(n) == Gen(n) = now.generation \/ \E k \in DOMAIN toLane : IsEvent(toLane[k]) /\ toLane[k].n = n
Passed(n, sh, b) == n <= b \/ \E i \in DOMAIN sh : n <= sh[i]
BySequence ==
  HasSequence /\ ~counts.rewound /\ counts.early = 0 /\ lane.attached =>
    /\ lane.last >= 0
    /\ \A n \in Events : Coming(n) /\ Passed(n, shown, rendered) => Num(n) <= lane.last

ByOrder ==
  counts.replays = 0 =>
  /\ \A j, k \in DOMAIN toLane :
       j < k /\ IsEvent(toLane[j]) /\ IsEvent(toLane[k]) => toLane[j].n < toLane[k].n
  /\ \A i \in DOMAIN shown, k \in DOMAIN toLane : IsEvent(toLane[k]) => shown[i] < toLane[k].n
  /\ Increasing(lane.buffered)
  /\ \A i \in DOMAIN lane.buffered, k \in DOMAIN toLane :
       IsEvent(toLane[k]) => lane.buffered[i] < toLane[k].n
  /\ \A j, k \in DOMAIN toLane :
       j < k /\ IsAnswer(toLane[j]) /\ IsEvent(toLane[k]) => toLane[j].n < toLane[k].n
  /\ \A j \in DOMAIN armed, k \in DOMAIN toLane :
       IsAnswer(armed[j]) /\ IsEvent(toLane[k]) => armed[j].n < toLane[k].n
  /\ lane.attached => \A k \in DOMAIN toLane : IsEvent(toLane[k]) => rendered < toLane[k].n

(* The filters drop only what was passed: shown, or held by the snapshot. *)
Knows(l, sh, b) ==
  /\ HasSequence =>
       l.last <= now.sequence /\ \A n \in Events : Num(n) <= l.last => Passed(n, sh, b)
  /\ l.boundary # NoCursor =>
       /\ l.boundary.generation <= now.generation
       /\ l.boundary.generation = now.generation => l.boundary.sequence <= now.sequence
       /\ \A n \in Events :
            Gen(n) = l.boundary.generation /\ Num(n) <= l.boundary.sequence => Passed(n, sh, b)
Filters == lane.attached /\ counts.restarts = 0 => Knows(lane, shown, base)

(* From some event s on, none is missing: not from what was shown, not from  *)
(* what is buffered, not from what is on the socket.                         *)
Before(n, k) == \E j \in DOMAIN toLane : j < k /\ IsEvent(toLane[j]) /\ toLane[j].n = n
Sent(n) == \E k \in DOMAIN toLane : IsEvent(toLane[k]) /\ toLane[k].n = n
Seen(n) == In(n, shown) \/ In(n, lane.buffered)
Settled ==
  /\ serving.phase = "none" /\ \A k \in DOMAIN armed : ~IsAnswer(armed[k])
  /\ \A k \in DOMAIN toLane : ~IsAnswer(toLane[k])
Since(s) ==
  /\ \A n \in Events : n > s => Seen(n) \/ Sent(n)
  /\ \A k \in DOMAIN toLane, n \in Events :
       IsEvent(toLane[k]) /\ s < n /\ n < toLane[k].n => Seen(n) \/ Before(n, k)
  /\ \A k \in DOMAIN toLane : IsAnswer(toLane[k]) => s <= toLane[k].n
  /\ \A k \in DOMAIN toLane, n \in Events :
       IsAnswer(toLane[k]) /\ s < n /\ n <= toLane[k].n => Seen(n) \/ Before(n, k)
  /\ \A k \in DOMAIN armed :
       IsAnswer(armed[k])
       => s <= armed[k].n /\ \A n \in Events : s < n /\ n <= armed[k].n => Seen(n)
  /\ serving.phase = "taken" => s <= serving.upTo
  /\ \A n \in Events : s < n /\ n <= base => In(n, shown)
  /\ \A i \in DOMAIN shown, n \in Events : s < n /\ n < shown[i] => In(n, shown)
  /\ \A i \in DOMAIN lane.buffered, n \in Events :
       s < n /\ n < lane.buffered[i] => \E j \in DOMAIN lane.buffered : j < i /\ lane.buffered[j] = n
  /\ lane.attached /\ Settled => s <= base
  /\ lane.attached /\ counts.drops = 0 => s <= rendered
Streams ==
  counts.restarts = 0 /\ ~lane.closed /\ seated => \E s \in 0..Len(events) : Since(s)

IInv ==
  /\ Typed /\ Bounded /\ Counted /\ Phased /\ Numbered /\ Snaps /\ Pushed /\ Answered
  /\ Ascending /\ BySequence /\ ByOrder /\ Filters /\ Streams
-----------------------------------------------------------------------------
(* What the invariant says of the events' cursors. *)
LEMMA EventTypes ==
  ASSUME Typed, Bounded
  PROVE  /\ Len(events) \in Nat /\ Events \subseteq Nat \ {0} /\ DOMAIN events = Events
         /\ \A n \in Events : /\ events[n] \in Cursors /\ Gen(n) \in 1..MaxGens
                              /\ Num(n) \in 0..MaxEvents /\ events[n] # NoCursor
         /\ now \in Cursors /\ now.generation \in 1..MaxGens /\ now.sequence \in 0..MaxEvents
         /\ now.generation \in Nat /\ now.sequence \in Nat
         /\ \A n \in Events : n \in Nat /\ Gen(n) \in Nat /\ Num(n) \in Nat
         /\ \A c \in Cursors : c.generation \in Nat /\ c.sequence \in Nat
         /\ NoCursor \notin Cursors
         /\ MaxEvents \in Nat \ {0} /\ MaxGens \in Nat \ {0}
<1>1. Len(events) \in Nat /\ DOMAIN events = Events /\ \A n \in Events : events[n] \in Cursors
  BY Positions DEF Typed, Events
<1>2. NoCursor \notin Cursors
  <2>1. NoCursor.sequence = -1 /\ \A c \in Cursors : c.sequence \in 0..MaxEvents
    BY DEF NoCursor, Cursors
  <2>2. -1 \notin 0..MaxEvents
    BY BoundsAssumption
  <2> QED BY <2>1, <2>2
<1>3. \A c \in Cursors : c.generation \in 1..MaxGens /\ c.sequence \in 0..MaxEvents
  BY DEF Cursors
<1>4. 1..MaxGens \subseteq Nat /\ 0..MaxEvents \subseteq Nat
  BY BoundsAssumption
<1>5. now \in Cursors /\ Events \subseteq Nat \ {0}
  BY <1>1 DEF Typed, Events
<1>6. \A n \in Events : Gen(n) = events[n].generation /\ Num(n) = events[n].sequence
  BY DEF Gen, Num
<1> HIDE DEF Typed
<1> QED BY <1>1, <1>2, <1>3, <1>4, <1>5, <1>6, BoundsAssumption

(* ... and of what is recorded of them. *)
LEMMA Records ==
  ASSUME Typed, Bounded
  PROVE  /\ \A k \in DOMAIN toLane :
              /\ k \in Nat \ {0} /\ toLane[k] \in Messages /\ toLane[k].n \in Nat
              /\ toLane[k].at \in Points /\ (IsEvent(toLane[k]) => toLane[k].n \in Events)
         /\ \A k \in DOMAIN armed :
              /\ k \in Nat \ {0} /\ armed[k] \in Messages /\ armed[k].n \in Nat
              /\ armed[k].at \in Points
         /\ \A k \in DOMAIN shown : k \in Nat \ {0} /\ shown[k] \in Nat /\ shown[k] \in Events
         /\ lane.buffered \in Seq(Nat)
         /\ \A k \in DOMAIN lane.buffered :
              k \in Nat \ {0} /\ lane.buffered[k] \in Nat /\ lane.buffered[k] \in Events
         /\ rendered \in Nat /\ base \in Nat /\ serving.upTo \in Nat
         /\ serving.at \in Points /\ serving.phase \in {"none", "seated", "taken"}
         /\ lane.last \in Int /\ lane.boundary \in Points
         /\ lane.attached \in BOOLEAN /\ lane.closed \in BOOLEAN
<1>1. /\ toLane \in Seq(Messages) /\ armed \in Seq(Messages) /\ shown \in Seq(Nat)
      /\ lane \in Lanes /\ serving \in Servings
      /\ rendered \in Nat /\ base \in Nat
  BY DEF Typed
<1>2. \A m \in Messages : m.n \in Nat /\ m.at \in Points
  BY DEF Messages
<1>3. \A k \in DOMAIN toLane :
        /\ k \in Nat \ {0} /\ toLane[k] \in Messages /\ toLane[k].n \in Nat
        /\ toLane[k].at \in Points /\ (IsEvent(toLane[k]) => toLane[k].n \in Events)
  <2> SUFFICES ASSUME NEW k \in DOMAIN toLane
               PROVE  /\ k \in Nat \ {0} /\ toLane[k] \in Messages /\ toLane[k].n \in Nat
                      /\ toLane[k].at \in Points /\ (IsEvent(toLane[k]) => toLane[k].n \in Events)
    OBVIOUS
  <2>1. k \in Nat \ {0} /\ toLane[k] \in Messages
    BY <1>1, Positions
  <2>2. toLane[k].n <= Len(events) /\ (IsEvent(toLane[k]) => toLane[k].n # 0)
    BY DEF Bounded
  <2> QED BY <1>2, <2>1, <2>2, EventTypes DEF Events
<1>4. \A k \in DOMAIN armed :
        /\ k \in Nat \ {0} /\ armed[k] \in Messages /\ armed[k].n \in Nat
        /\ armed[k].at \in Points
  BY <1>1, <1>2, Positions
<1>5. \A k \in DOMAIN shown : k \in Nat \ {0} /\ shown[k] \in Nat /\ shown[k] \in Events
  BY <1>1, Positions DEF Bounded
<1>6. lane.buffered \in Seq(Nat) /\ lane.last \in -1..MaxEvents /\ lane.boundary \in Points
      /\ lane.attached \in BOOLEAN /\ lane.closed \in BOOLEAN
  BY <1>1 DEF Lanes
<1>7. \A k \in DOMAIN lane.buffered :
        k \in Nat \ {0} /\ lane.buffered[k] \in Nat /\ lane.buffered[k] \in Events
  BY <1>6, Positions DEF Bounded
<1>8. -1..MaxEvents \subseteq Int
  BY BoundsAssumption
<1>9. serving.upTo \in Nat /\ serving.at \in Points /\ serving.phase \in {"none", "seated", "taken"}
  BY <1>1 DEF Servings
<1> QED BY <1>1, <1>3, <1>4, <1>5, <1>6, <1>7, <1>8, <1>9

(* What a filter does to one event: drops it, or shows it. *)
LEMMA FilterStep ==
  ASSUME Typed, Bounded, NEW x \in Views, NEW n \in Events
  PROVE  /\ Filter(x, n) \in Views
         /\ Filter(x, n).lane.attached = x.lane.attached
         /\ Filter(x, n).lane.closed = x.lane.closed
         /\ Filter(x, n).lane.buffered = x.lane.buffered
         /\ Filter(x, n).lane.boundary
              = IF MovesBoundary(x.lane, n) THEN Cursor(n) ELSE x.lane.boundary
         /\ \/ /\ Stale(x.lane, n) \/ Repeats(x.lane, n)
               /\ Filter(x, n).shown = x.shown /\ Filter(x, n).lane.last = x.lane.last
            \/ /\ ~Stale(x.lane, n) /\ ~Repeats(x.lane, n)
               /\ Filter(x, n).shown = Append(x.shown, n)
               /\ Filter(x, n).lane.last = IF HasSequence THEN Num(n) ELSE x.lane.last
<1> DEFINE y == IF MovesBoundary(x.lane, n) THEN [x EXCEPT !.lane.boundary = Cursor(n)] ELSE x
<1>1. n \in Nat /\ Cursor(n) \in Points /\ Num(n) \in -1..MaxEvents /\ Num(n) = events[n].sequence
  BY EventTypes DEF Cursor, Points, Num
<1>2. y \in Views /\ y.shown = x.shown /\ y.lane.attached = x.lane.attached
      /\ y.lane.closed = x.lane.closed /\ y.lane.buffered = x.lane.buffered
      /\ y.lane.last = x.lane.last
      /\ y.lane.boundary = IF MovesBoundary(x.lane, n) THEN Cursor(n) ELSE x.lane.boundary
  BY <1>1 DEF Views, Lanes
<1>3. IsRepeat(y.lane, n) <=> Repeats(x.lane, n)
  BY <1>2 DEF IsRepeat, Repeats
<1>4. CASE Stale(x.lane, n)
  <2>1. Filter(x, n) = x /\ ~MovesBoundary(x.lane, n)
    BY <1>4 DEF Filter, IsStale, Stale, MovesBoundary
  <2> QED BY <1>4, <2>1
<1>5. CASE ~Stale(x.lane, n) /\ Repeats(x.lane, n)
  <2>1. Filter(x, n) = y
    BY <1>3, <1>5 DEF Filter, IsStale, Deliver
  <2> HIDE DEF y
  <2> QED BY <1>2, <1>5, <2>1
<1>6. CASE ~Stale(x.lane, n) /\ ~Repeats(x.lane, n)
  <2> DEFINE l == IF HasSequence THEN [y.lane EXCEPT !.last = events[n].sequence] ELSE y.lane
  <2>1. Filter(x, n) = [lane |-> l, shown |-> Append(y.shown, n)]
    BY <1>3, <1>6 DEF Filter, IsStale, Deliver
  <2> HIDE DEF y
  <2>2. y.lane \in Lanes /\ y.shown \in Seq(Nat)
    BY <1>2 DEF Views
  <2>3. l \in Lanes /\ l.attached = y.lane.attached /\ l.closed = y.lane.closed
        /\ l.buffered = y.lane.buffered /\ l.boundary = y.lane.boundary
        /\ l.last = IF HasSequence THEN Num(n) ELSE y.lane.last
    BY <1>1, <2>2 DEF Lanes
  <2>4. Append(y.shown, n) \in Seq(Nat)
    BY <1>1, <2>2, AppendPositions
  <2> HIDE DEF l
  <2>5. [lane |-> l, shown |-> Append(y.shown, n)] \in Views
    BY <2>3, <2>4 DEF Views
  <2> QED BY <1>2, <1>6, <2>1, <2>3, <2>5
<1> QED BY <1>4, <1>5, <1>6
-----------------------------------------------------------------------------
(* The deliveries of attach() one by one.  A recursive function is the       *)
(* function its definition picks, once there is one.                         *)
Recursion(g, x, ns, m) ==
  g = [k \in 0..m |-> IF k = 0 THEN x ELSE Filter(g[k - 1], ns[k])]

LEMMA RecursionExists ==
  ASSUME NEW x, NEW ns
  PROVE  \A m \in Nat : \E g : Recursion(g, x, ns, m)
<1> DEFINE T == {m \in Nat : \E g : Recursion(g, x, ns, m)}
<1>1. 0 \in T
  <2> DEFINE z == [k \in 0..0 |-> x]
  <2>1. z = [k \in 0..0 |-> IF k = 0 THEN x ELSE Filter(z[k - 1], ns[k])]
    OBVIOUS
  <2> QED BY <2>1 DEF Recursion
<1>2. ASSUME NEW m \in Nat, m \in T PROVE m + 1 \in T
  <2>1. PICK g : g = [k \in 0..m |-> IF k = 0 THEN x ELSE Filter(g[k - 1], ns[k])]
    BY <1>2 DEF Recursion
  <2> DEFINE h == [k \in 0..(m + 1) |-> IF k = m + 1 THEN Filter(g[m], ns[m + 1]) ELSE g[k]]
  <2>2. ASSUME NEW k \in 0..(m + 1)
        PROVE  h[k] = IF k = 0 THEN x ELSE Filter(h[k - 1], ns[k])
    <3>1. CASE k = m + 1
      <4>1. m \in 0..(m + 1) /\ m # m + 1 /\ k - 1 = m /\ k # 0
        BY <3>1
      <4>2. h[k] = Filter(g[m], ns[m + 1]) /\ h[m] = g[m]
        BY <3>1, <4>1
      <4> QED BY <3>1, <4>1, <4>2
    <3>2. CASE k # m + 1 /\ k # 0
      <4>1. k \in 0..m /\ k - 1 \in 0..(m + 1) /\ k - 1 # m + 1
        BY <3>2
      <4>2. h[k] = g[k] /\ h[k - 1] = g[k - 1]
        BY <3>2, <4>1
      <4>3. g[k] = Filter(g[k - 1], ns[k])
        BY <2>1, <3>2, <4>1
      <4> QED BY <3>2, <4>2, <4>3
    <3>3. CASE k = 0
      <4>1. 0 \in 0..m /\ k # m + 1
        BY <3>3
      <4>2. h[k] = g[0] /\ g[0] = x
        BY <2>1, <3>3, <4>1
      <4> QED BY <3>3, <4>2
    <3> QED BY <3>1, <3>2, <3>3
  <2>3. h = [k \in 0..(m + 1) |-> h[k]]
    OBVIOUS
  <2> HIDE DEF h
  <2>4. h = [k \in 0..(m + 1) |-> IF k = 0 THEN x ELSE Filter(h[k - 1], ns[k])]
    BY <2>2, <2>3
  <2> QED BY <2>4 DEF Recursion
<1> HIDE DEF T
<1>3. \A m \in Nat : m \in T
  BY <1>1, <1>2, Counting
<1> QED BY <1>3 DEF T

LEMMA DeliversOneByOne ==
  ASSUME Typed, Bounded, NEW x \in Views, NEW ns \in Seq(Nat), \A k \in DOMAIN ns : ns[k] \in Events
  PROVE  \E d : /\ d[0] = x /\ DeliverAll(x, ns) = d[Len(ns)]
                /\ \A k \in 1..Len(ns) : d[k] = Filter(d[k - 1], ns[k])
                /\ \A k \in 0..Len(ns) :
                     /\ d[k] \in Views /\ d[k].lane.attached = x.lane.attached
                     /\ d[k].lane.closed = x.lane.closed /\ d[k].lane.buffered = x.lane.buffered
<1> DEFINE m == Len(ns)
<1>0. m \in Nat /\ DOMAIN ns = 1..m
  BY Positions
<1>1. PICK g : g = [k \in 0..m |-> IF k = 0 THEN x ELSE Filter(g[k - 1], ns[k])]
  <2>1. \E g : Recursion(g, x, ns, m)
    BY <1>0, RecursionExists
  <2> QED BY <2>1 DEF Recursion
<1> DEFINE d == CHOOSE f : f = [k \in 0..m |-> IF k = 0 THEN x ELSE Filter(f[k - 1], ns[k])]
<1>2. d = [k \in 0..m |-> IF k = 0 THEN x ELSE Filter(d[k - 1], ns[k])]
  BY <1>1
<1>3. DeliverAll(x, ns) = d[m]
  BY DEF DeliverAll
<1> HIDE DEF d, m
<1>4. 0 \in 0..m /\ \A k \in 1..m : k \in 0..m /\ k # 0
  BY <1>0
<1>5. d[0] = x /\ \A k \in 1..m : d[k] = Filter(d[k - 1], ns[k])
  BY <1>2, <1>4
<1> DEFINE Ok(k) == /\ d[k] \in Views /\ d[k].lane.attached = x.lane.attached
                    /\ d[k].lane.closed = x.lane.closed /\ d[k].lane.buffered = x.lane.buffered
           T == {k \in Nat : k <= m => Ok(k)}
<1>6. 0 \in T
  BY <1>5
<1>7. ASSUME NEW k \in Nat, k \in T PROVE k + 1 \in T
  <2> SUFFICES ASSUME k + 1 <= m PROVE Ok(k + 1)
    OBVIOUS
  <2>1. k + 1 \in 1..m /\ (k + 1) - 1 = k /\ k <= m
    BY <1>0
  <2>2. Ok(k) /\ d[k + 1] = Filter(d[k], ns[k + 1]) /\ ns[k + 1] \in Events
    BY <1>0, <1>5, <1>7, <2>1
  <2> QED BY <2>2, FilterStep
<1> HIDE DEF T
<1>8. \A k \in Nat : k \in T
  BY <1>6, <1>7, Counting
<1>9. \A k \in 0..m : Ok(k)
  BY <1>0, <1>8 DEF T
<1> QED BY <1>3, <1>5, <1>9 DEF m

-----------------------------------------------------------------------------
(* One event more at the end of what is shown. *)
LEMMA ShowsOneMore ==
  ASSUME NEW sh \in Seq(Nat), NEW e \in Nat, NEW b \in Nat
  PROVE  /\ Append(sh, e) \in Seq(Nat)
         /\ \A n \in Nat : Passed(n, Append(sh, e), b) <=> Passed(n, sh, b) \/ n <= e
         /\ \A n : In(n, Append(sh, e)) <=> In(n, sh) \/ n = e
         /\ \A i \in DOMAIN Append(sh, e) : Append(sh, e)[i] = e \/ In(Append(sh, e)[i], sh)
         /\ Increasing(sh) /\ (\A i \in DOMAIN sh : sh[i] < e) => Increasing(Append(sh, e))
<1> DEFINE t == Append(sh, e)
<1>1. /\ t \in Seq(Nat) /\ DOMAIN t = DOMAIN sh \cup {Len(sh) + 1} /\ t[Len(sh) + 1] = e
      /\ \A k \in DOMAIN sh : k \in Nat \ {0} /\ k < Len(sh) + 1 /\ t[k] = sh[k]
      /\ Len(sh) \in Nat
  BY AppendPositions, Positions
<1> HIDE DEF t
<1>2. ASSUME NEW n \in Nat PROVE Passed(n, t, b) <=> Passed(n, sh, b) \/ n <= e
  BY <1>1 DEF Passed
<1>3. ASSUME NEW n PROVE In(n, t) <=> In(n, sh) \/ n = e
  BY <1>1 DEF In
<1>4. \A i \in DOMAIN t : t[i] = e \/ In(t[i], sh)
  BY <1>1 DEF In
<1>5. ASSUME Increasing(sh), \A i \in DOMAIN sh : sh[i] < e PROVE Increasing(t)
  <2> SUFFICES ASSUME NEW i \in DOMAIN t, NEW j \in DOMAIN t, i < j PROVE t[i] < t[j]
    BY DEF Increasing
  <2>1. i \in DOMAIN sh
    BY <1>1
  <2>2. CASE j \in DOMAIN sh
    BY <1>1, <1>5, <2>1, <2>2 DEF Increasing
  <2>3. CASE j \notin DOMAIN sh
    BY <1>1, <1>5, <2>1, <2>3
  <2> QED BY <2>2, <2>3
<1> QED BY <1>1, <1>2, <1>3, <1>4, <1>5 DEF t

(* The lane of an attach that has just gone on: its boundary and its         *)
(* sequence are the answer's. *)
Armed(l, at) ==
  /\ l.boundary = IF clock = "sequence" THEN NoCursor ELSE at
  /\ l.last = IF clock = "cursor" THEN -1 ELSE at.sequence

(* While no worker starts its sequence over, a filter drops only what was    *)
(* passed, and what it shows keeps it so.                                    *)
LEMMA FreshKnows ==
  ASSUME Typed, Bounded, counts.restarts = 0, NEW m, NEW at, Parts(m, at), m \in Nat,
         NEW l, Armed(l, at), NEW sh
  PROVE  Knows(l, sh, m)
<1>1. at \in Cursors /\ at.sequence <= now.sequence /\ at.generation <= now.generation
      /\ \A n \in Events : ~(n <= m) => Num(n) > at.sequence
  BY EventTypes DEF Parts
<1>2. at.sequence \in Nat /\ \A n \in Events : Num(n) \in Nat
  BY <1>1, EventTypes DEF Cursors
<1>3. \A n \in Events : Num(n) <= at.sequence => Passed(n, sh, m)
  BY <1>1, <1>2 DEF Passed
<1>4. CASE clock = "sequence"
  BY <1>1, <1>3, <1>4 DEF Knows, Armed, HasSequence
<1>5. CASE clock # "sequence"
  <2>1. l.boundary = at
    BY <1>5 DEF Armed
  <2>2. HasSequence => l.last = at.sequence
    BY DEF Armed, HasSequence
  <2> QED BY <1>1, <1>3, <2>1, <2>2 DEF Knows
<1> QED BY <1>4, <1>5

LEMMA FilterKnows ==
  ASSUME Typed, Bounded, Numbered, counts.restarts = 0, NEW x \in Views, NEW n \in Events,
         NEW b \in Nat, Knows(x.lane, x.shown, b)
  PROVE  /\ Knows(Filter(x, n).lane, Filter(x, n).shown, b)
         /\ \/ Filter(x, n).shown = x.shown /\ Passed(n, x.shown, b)
            \/ Filter(x, n).shown = Append(x.shown, n)
<1> DEFINE y == Filter(x, n)
<1>1. /\ n \in Nat /\ x.shown \in Seq(Nat) /\ x.lane.last \in Int
      /\ \A m \in Events : m \in Nat /\ Num(m) \in Nat /\ Gen(m) \in Nat /\ events[m] # NoCursor
      /\ now.sequence \in Nat /\ now.generation \in Nat
      /\ x.lane.boundary \in Points
  <2>1. x.shown \in Seq(Nat) /\ x.lane.last \in -1..MaxEvents /\ x.lane.boundary \in Points
    BY DEF Views, Lanes
  <2>2. -1..MaxEvents \subseteq Int
    BY BoundsAssumption
  <2> QED BY <2>1, <2>2, EventTypes
<1>2. /\ y \in Views
      /\ y.lane.boundary = IF MovesBoundary(x.lane, n) THEN Cursor(n) ELSE x.lane.boundary
      /\ \/ /\ Stale(x.lane, n) \/ Repeats(x.lane, n)
            /\ y.shown = x.shown /\ y.lane.last = x.lane.last
         \/ /\ ~Stale(x.lane, n) /\ ~Repeats(x.lane, n)
            /\ y.shown = Append(x.shown, n)
            /\ y.lane.last = IF HasSequence THEN Num(n) ELSE x.lane.last
  BY FilterStep
<1> HIDE DEF y
<1>3. /\ \A m \in Events : m \in Nat /\ (Num(m) <= Num(n) => m <= n)
      /\ Num(n) <= now.sequence /\ Gen(n) <= now.generation
  BY <1>1 DEF Numbered
<1>4. Stale(x.lane, n) \/ Repeats(x.lane, n) => Passed(n, x.shown, b)
  <2>1. CASE Repeats(x.lane, n)
    BY <1>1, <2>1 DEF Repeats, Knows, Num
  <2>2. CASE Stale(x.lane, n)
    <3>1. Cursor(n) = events[n]
      BY <2>2 DEF Stale, Cursor
    <3>2. x.lane.boundary # NoCursor /\ Gen(n) = x.lane.boundary.generation
          /\ Num(n) <= x.lane.boundary.sequence
      BY <2>2, <3>1 DEF Stale, Gen, Num
    <3> QED BY <3>2 DEF Knows
  <2> QED BY <2>1, <2>2
<1>5. \A m \in Events : Passed(m, x.shown, b) => Passed(m, y.shown, b)
  <2>1. CASE y.shown = x.shown
    BY <2>1
  <2>2. CASE y.shown = Append(x.shown, n)
    <3>1. \A m \in Nat : Passed(m, Append(x.shown, n), b) <=> Passed(m, x.shown, b) \/ m <= n
      BY <1>1, ShowsOneMore
    <3> QED BY <1>1, <2>2, <3>1
  <2> QED BY <1>2, <2>1, <2>2
<1>6. Passed(n, y.shown, b)
  <2>1. CASE Stale(x.lane, n) \/ Repeats(x.lane, n)
    BY <1>4, <1>5, <2>1
  <2>2. CASE y.shown = Append(x.shown, n)
    <3>1. \A m \in Nat : Passed(m, Append(x.shown, n), b) <=> Passed(m, x.shown, b) \/ m <= n
      BY <1>1, ShowsOneMore
    <3> QED BY <1>1, <2>2, <3>1
  <2> QED BY <1>2, <2>1, <2>2
<1>7. \A m \in Events : m <= n => Passed(m, y.shown, b)
  <2> SUFFICES ASSUME NEW m \in Events, m <= n PROVE Passed(m, y.shown, b)
    OBVIOUS
  <2>1. y.shown \in Seq(Nat) /\ \A i \in DOMAIN y.shown : y.shown[i] \in Nat
    BY <1>2, Positions DEF Views
  <2>2. CASE n <= b
    <3>1. m <= b
      BY <1>1, <2>2, EventTypes
    <3> QED BY <3>1 DEF Passed
  <2>3. CASE \E i \in DOMAIN y.shown : n <= y.shown[i]
    <3>1. PICK i \in DOMAIN y.shown : n <= y.shown[i]
      BY <2>3
    <3>2. m <= y.shown[i]
      BY <1>1, <2>1, <3>1, EventTypes
    <3> QED BY <3>2 DEF Passed
  <2> QED BY <1>6, <2>2, <2>3 DEF Passed
<1>8. HasSequence => y.lane.last <= now.sequence
                     /\ \A m \in Events : Num(m) <= y.lane.last => Passed(m, y.shown, b)
  <2> SUFFICES ASSUME HasSequence
               PROVE  y.lane.last <= now.sequence
                      /\ \A m \in Events : Num(m) <= y.lane.last => Passed(m, y.shown, b)
    OBVIOUS
  <2>1. CASE y.lane.last = x.lane.last
    BY <1>5, <2>1 DEF Knows
  <2>2. CASE y.lane.last = Num(n)
    BY <1>3, <1>7, <2>2
  <2> QED BY <1>2, <2>1, <2>2
<1>9. y.lane.boundary # NoCursor =>
        /\ y.lane.boundary.generation <= now.generation
        /\ y.lane.boundary.generation = now.generation => y.lane.boundary.sequence <= now.sequence
        /\ \A m \in Events :
             Gen(m) = y.lane.boundary.generation /\ Num(m) <= y.lane.boundary.sequence
             => Passed(m, y.shown, b)
  <2>1. CASE MovesBoundary(x.lane, n)
    <3>1. Cursor(n) = events[n]
      BY <2>1 DEF MovesBoundary, Cursor
    <3>2. y.lane.boundary.generation = Gen(n) /\ y.lane.boundary.sequence = Num(n)
      BY <1>2, <2>1, <3>1 DEF Gen, Num
    <3> QED BY <1>3, <1>7, <3>2
  <2>2. CASE ~MovesBoundary(x.lane, n)
    BY <1>2, <1>5, <2>2 DEF Knows
  <2> QED BY <2>1, <2>2
<1>10. Knows(y.lane, y.shown, b)
  BY <1>8, <1>9 DEF Knows
<1> QED BY <1>2, <1>4, <1>10 DEF y
-----------------------------------------------------------------------------
(* The deliveries of the first attach, to a lane that has shown nothing.     *)
(* Before any worker was replaced an event's number is its sequence: what is *)
(* shown is past the snapshot, and in order if what was buffered is, or if   *)
(* the lane knows the sequence.                                              *)
FirstOnes(x, ns, m, y, k) ==
  /\ y.lane.boundary = x.lane.boundary
  /\ \A i \in DOMAIN y.shown : y.shown[i] > m /\ \E j \in 1..k : ns[j] = y.shown[i]
  /\ HasSequence => /\ y.lane.last >= x.lane.last /\ Increasing(y.shown)
                    /\ \A n \in Events : Passed(n, y.shown, m) => n <= y.lane.last
  /\ Increasing(ns) => Increasing(y.shown)

LEMMA FirstPoint ==
  ASSUME Typed, Bounded, Numbered, now.generation = 1, NEW m \in Nat, NEW at, Parts(m, at)
  PROVE  /\ at \in Cursors /\ at # NoCursor /\ at.sequence \in Nat /\ at.generation = 1
         /\ \A n \in Events : Gen(n) = 1 /\ Num(n) = n /\ (n <= m <=> n <= at.sequence)
<1>1. at \in Cursors /\ at.generation <= 1
  BY DEF Parts
<1>2. at.generation \in 1..MaxGens /\ at.sequence \in 0..MaxEvents /\ at # NoCursor
      /\ 0..MaxEvents \subseteq Nat /\ MaxGens \in Nat
  BY <1>1, EventTypes DEF Cursors
<1>3. at.generation = 1 /\ at.sequence \in Nat
  BY <1>1, <1>2
<1>4. \A n \in Events : Gen(n) <= 1 /\ Num(n) = n
  BY DEF Numbered
<1>5. \A n \in Events : Gen(n) = 1
  BY <1>4, EventTypes
<1>6. \A n \in Events : n <= m <=> n <= at.sequence
  <2> SUFFICES ASSUME NEW n \in Events PROVE n <= m <=> n <= at.sequence
    OBVIOUS
  <2>1. n \in Nat /\ (n <= m => n <= at.sequence) /\ (n > m => n > at.sequence)
    BY <1>3, <1>4, <1>5, EventTypes DEF Parts
  <2> QED BY <1>3, <2>1
<1> QED BY <1>1, <1>2, <1>3, <1>4, <1>5, <1>6

LEMMA FirstStep ==
  ASSUME Typed, Bounded, Numbered, now.generation = 1, NEW m \in Nat, NEW at, Parts(m, at),
         NEW x \in Views, Armed(x.lane, at), NEW ns \in Seq(Nat), NEW k \in Nat,
         k + 1 \in DOMAIN ns, \A j \in DOMAIN ns : ns[j] \in Events, NEW y \in Views, FirstOnes(x, ns, m, y, k)
  PROVE  FirstOnes(x, ns, m, Filter(y, ns[k + 1]), k + 1)
<1> DEFINE n == ns[k + 1]
           z == Filter(y, n)
<1>1. /\ z.lane.boundary = IF MovesBoundary(y.lane, n) THEN Cursor(n) ELSE y.lane.boundary
      /\ \/ /\ Stale(y.lane, n) \/ Repeats(y.lane, n)
            /\ z.shown = y.shown /\ z.lane.last = y.lane.last
         \/ /\ ~Stale(y.lane, n) /\ ~Repeats(y.lane, n)
            /\ z.shown = Append(y.shown, n)
            /\ z.lane.last = IF HasSequence THEN Num(n) ELSE y.lane.last
  BY FilterStep
<1>2. /\ n \in Events /\ n \in Nat /\ Num(n) = n /\ Gen(n) = 1 /\ events[n] # NoCursor
      /\ at \in Cursors /\ at # NoCursor /\ at.sequence \in Nat /\ at.generation = 1
      /\ (n <= m <=> n <= at.sequence)
      /\ y.shown \in Seq(Nat) /\ Len(ns) \in Nat /\ DOMAIN ns = 1..Len(ns)
  BY FirstPoint, EventTypes, Positions DEF Views
<1>3. y.lane.last \in Int /\ x.lane.last \in Int
  <2>1. y.lane.last \in -1..MaxEvents /\ x.lane.last \in -1..MaxEvents
    BY DEF Views, Lanes
  <2> QED BY <2>1, BoundsAssumption
<1>4. y.lane.boundary = IF clock = "sequence" THEN NoCursor ELSE at
  BY DEF FirstOnes, Armed
<1>5. HasSequence => x.lane.last = at.sequence
  BY DEF Armed, HasSequence
<1>6. ~MovesBoundary(y.lane, n)
  BY <1>2, <1>4 DEF MovesBoundary, Cursor, Gen
<1>7. ASSUME ~Stale(y.lane, n), ~Repeats(y.lane, n) PROVE n > m
  <2>1. CASE clock = "sequence"
    <3>1. HasSequence /\ y.lane.last >= at.sequence
      BY <1>5, <2>1 DEF FirstOnes, HasSequence
    <3>2. ~(Num(n) <= y.lane.last)
      BY <1>2, <1>3, <1>7, <3>1 DEF Repeats, Num
    <3> QED BY <1>2, <1>3, <3>1, <3>2
  <2>2. CASE clock # "sequence"
    <3>1. y.lane.boundary = at /\ Cursor(n) = events[n]
      BY <1>4, <2>2 DEF Cursor
    <3>2. ~(Num(n) <= at.sequence)
      BY <1>2, <1>7, <3>1 DEF Stale, Gen, Num
    <3> QED BY <1>2, <3>2
  <2> QED BY <2>1, <2>2
<1> SUFFICES FirstOnes(x, ns, m, z, k + 1)
  OBVIOUS
<1> HIDE DEF z, n
<1>8. 1..k \subseteq 1..(k + 1) /\ k + 1 \in 1..(k + 1)
  OBVIOUS
<1>9. CASE z.shown = y.shown /\ z.lane.last = y.lane.last
  <2>1. z.lane.boundary = x.lane.boundary
    BY <1>1, <1>6 DEF FirstOnes
  <2>2. \A i \in DOMAIN y.shown : y.shown[i] > m /\ \E j \in 1..(k + 1) : ns[j] = y.shown[i]
    BY <1>8 DEF FirstOnes
  <2> QED BY <1>9, <2>1, <2>2 DEF FirstOnes
<1>10. CASE ~Stale(y.lane, n) /\ ~Repeats(y.lane, n)
  <2>1. /\ z.shown = Append(y.shown, n)
        /\ z.lane.last = IF HasSequence THEN Num(n) ELSE y.lane.last
    BY <1>1, <1>10
  <2>2. n > m
    BY <1>7, <1>10
  <2>3. /\ \A e \in Nat : Passed(e, z.shown, m) <=> Passed(e, y.shown, m) \/ e <= n
        /\ \A i \in DOMAIN z.shown : z.shown[i] = n \/ In(z.shown[i], y.shown)
        /\ Increasing(y.shown) /\ (\A i \in DOMAIN y.shown : y.shown[i] < n) => Increasing(z.shown)
    BY <1>2, <2>1, ShowsOneMore
  <2>4. \A i \in DOMAIN y.shown : y.shown[i] \in Nat /\ \E j \in 1..k : ns[j] = y.shown[i]
    BY <1>2, Positions DEF FirstOnes
  <2>5. \A i \in DOMAIN z.shown : z.shown[i] > m /\ \E j \in 1..(k + 1) : ns[j] = z.shown[i]
    BY <1>8, <2>2, <2>3 DEF FirstOnes, In, n
  <2>6. ASSUME HasSequence
        PROVE  /\ z.lane.last >= x.lane.last /\ Increasing(z.shown)
               /\ \A e \in Events : Passed(e, z.shown, m) => e <= z.lane.last
    <3>1. y.lane.last >= x.lane.last /\ Increasing(y.shown)
          /\ \A e \in Events : Passed(e, y.shown, m) => e <= y.lane.last
      BY <2>6 DEF FirstOnes
    <3>2. z.lane.last = n
      BY <1>2, <2>1, <2>6
    <3>3. y.lane.last < n
      <4>1. ~(y.lane.last >= 0 /\ Num(n) <= y.lane.last)
        BY <1>10, <2>6 DEF Repeats, Num
      <4>2. y.lane.last >= 0
        BY <1>2, <1>3, <1>5, <2>6, <3>1
      <4> QED BY <1>2, <1>3, <4>1, <4>2
    <3>4. \A i \in DOMAIN y.shown : y.shown[i] < n
      <4> SUFFICES ASSUME NEW i \in DOMAIN y.shown PROVE y.shown[i] < n
        OBVIOUS
      <4>0. PICK j \in 1..k : ns[j] = y.shown[i]
        BY <2>4
      <4>1. y.shown[i] \in Events /\ y.shown[i] \in Nat
        <5>1. j \in DOMAIN ns
          BY <1>2
        <5> QED BY <2>4, <4>0, <5>1
      <4>2. Passed(y.shown[i], y.shown, m)
        BY <2>4 DEF Passed
      <4>3. y.shown[i] <= y.lane.last
        BY <3>1, <4>1, <4>2
      <4>4. n \in Nat /\ y.lane.last \in Int
        BY <1>2, <1>3
      <4> QED BY <3>3, <4>1, <4>3, <4>4
    <3>5. \A e \in Events : Passed(e, z.shown, m) => e <= n
      <4> SUFFICES ASSUME NEW e \in Events, Passed(e, y.shown, m) PROVE e <= n
        BY <2>3, EventTypes
      <4>1. e <= y.lane.last /\ e \in Nat
        BY <3>1, EventTypes
      <4> QED BY <1>2, <1>3, <3>3, <4>1
    <3>6. n >= x.lane.last
      BY <1>2, <1>3, <3>1, <3>3
    <3>7. Increasing(z.shown)
      BY <2>3, <3>1, <3>4
    <3> QED BY <3>2, <3>5, <3>6, <3>7
  <2>7. ASSUME Increasing(ns) PROVE Increasing(z.shown)
    <3>0. Increasing(y.shown)
      BY <2>7 DEF FirstOnes
    <3>1. \A i \in DOMAIN y.shown : y.shown[i] < n
      <4> SUFFICES ASSUME NEW i \in DOMAIN y.shown PROVE y.shown[i] < n
        OBVIOUS
      <4>1. PICK j \in 1..k : ns[j] = y.shown[i]
        BY <2>4
      <4>2. j \in DOMAIN ns /\ j < k + 1
        BY <1>2
      <4> QED BY <2>7, <4>1, <4>2 DEF Increasing, n
    <3> QED BY <2>3, <3>0, <3>1
  <2>8. z.lane.boundary = x.lane.boundary
    BY <1>1, <1>6 DEF FirstOnes
  <2> QED BY <2>5, <2>6, <2>7, <2>8 DEF FirstOnes
<1> QED BY <1>1, <1>9, <1>10

LEMMA FirstShown ==
  ASSUME Typed, Bounded, Numbered, now.generation = 1, NEW m \in Nat, NEW at, Parts(m, at),
         NEW x \in Views, Armed(x.lane, at), x.shown = <<>>, NEW ns \in Seq(Nat),
         \A k \in DOMAIN ns : ns[k] \in Events
  PROVE  FirstOnes(x, ns, m, DeliverAll(x, ns), Len(ns))
<1>1. PICK d : /\ d[0] = x /\ DeliverAll(x, ns) = d[Len(ns)]
               /\ \A k \in 1..Len(ns) : d[k] = Filter(d[k - 1], ns[k])
               /\ \A k \in 0..Len(ns) : d[k] \in Views
  BY DeliversOneByOne
<1>2. Len(ns) \in Nat /\ DOMAIN ns = 1..Len(ns)
  BY Positions
<1> DEFINE T == {k \in Nat : k <= Len(ns) => FirstOnes(x, ns, m, d[k], k)}
<1>3. 0 \in T
  <2>1. HasSequence => \A n \in Events : Passed(n, x.shown, m) => n <= x.lane.last
    <3> SUFFICES ASSUME HasSequence, NEW n \in Events, Passed(n, x.shown, m) PROVE n <= x.lane.last
      OBVIOUS
    <3>1. n <= m
      BY EmptyPositions DEF Passed
    <3>2. n <= at.sequence
      BY <3>1, FirstPoint
    <3> QED BY <3>2 DEF Armed, HasSequence
  <2>2. Increasing(x.shown) /\ DOMAIN x.shown = {}
    BY EmptyPositions DEF Increasing
  <2>3. x.lane.last \in Int
    <3>1. x.lane.last \in -1..MaxEvents
      BY DEF Views, Lanes
    <3> QED BY <3>1, BoundsAssumption
  <2> QED BY <1>1, <2>1, <2>2, <2>3 DEF FirstOnes
<1>4. ASSUME NEW k \in Nat, k \in T PROVE k + 1 \in T
  <2> SUFFICES ASSUME k + 1 <= Len(ns) PROVE FirstOnes(x, ns, m, d[k + 1], k + 1)
    OBVIOUS
  <2>1. k + 1 \in 1..Len(ns) /\ (k + 1) - 1 = k /\ k \in 0..Len(ns) /\ k <= Len(ns)
    BY <1>2
  <2>2. FirstOnes(x, ns, m, d[k], k) /\ d[k + 1] = Filter(d[k], ns[k + 1])
        /\ d[k] \in Views /\ k + 1 \in DOMAIN ns /\ ns[k + 1] \in Events
    BY <1>1, <1>2, <1>4, <2>1
  <2> QED BY <2>2, FirstStep
<1> HIDE DEF T
<1>5. \A k \in Nat : k \in T
  BY <1>3, <1>4, Counting
<1>6. FirstOnes(x, ns, m, d[Len(ns)], Len(ns))
  BY <1>2, <1>5 DEF T
<1> QED BY <1>1, <1>6
(* While no worker starts its sequence over, the deliveries drop only what   *)
(* was passed; and if what was buffered misses nothing past s, then what is  *)
(* shown misses nothing past the snapshot.                                   *)
LEMMA AllKnow ==
  ASSUME Typed, Bounded, Numbered, counts.restarts = 0, NEW m \in Nat, NEW x \in Views,
         Knows(x.lane, x.shown, m), NEW ns \in Seq(Nat), \A k \in DOMAIN ns : ns[k] \in Events
  PROVE  Knows(DeliverAll(x, ns).lane, DeliverAll(x, ns).shown, m)
<1>1. PICK d : /\ d[0] = x /\ DeliverAll(x, ns) = d[Len(ns)]
               /\ \A k \in 1..Len(ns) : d[k] = Filter(d[k - 1], ns[k])
               /\ \A k \in 0..Len(ns) : d[k] \in Views
  BY DeliversOneByOne
<1>2. Len(ns) \in Nat /\ DOMAIN ns = 1..Len(ns)
  BY Positions
<1> DEFINE T == {k \in Nat : k <= Len(ns) => Knows(d[k].lane, d[k].shown, m)}
<1>3. 0 \in T
  BY <1>1
<1>4. ASSUME NEW k \in Nat, k \in T PROVE k + 1 \in T
  <2> SUFFICES ASSUME k + 1 <= Len(ns) PROVE Knows(d[k + 1].lane, d[k + 1].shown, m)
    OBVIOUS
  <2>1. k + 1 \in 1..Len(ns) /\ (k + 1) - 1 = k /\ k \in 0..Len(ns) /\ k <= Len(ns)
    BY <1>2
  <2>2. Knows(d[k].lane, d[k].shown, m) /\ d[k + 1] = Filter(d[k], ns[k + 1])
        /\ d[k] \in Views /\ ns[k + 1] \in Events
    BY <1>1, <1>2, <1>4, <2>1
  <2> QED BY <2>2, FilterKnows
<1> HIDE DEF T
<1>5. \A k \in Nat : k \in T
  BY <1>3, <1>4, Counting
<1>6. Knows(d[Len(ns)].lane, d[Len(ns)].shown, m)
  BY <1>2, <1>5 DEF T
<1> QED BY <1>1, <1>6

Gapless(sh, b) == \A i \in DOMAIN sh, n \in Events : b < n /\ n < sh[i] => In(n, sh)
Ordered(ns, b) ==
  \A i \in DOMAIN ns, n \in Events : b < n /\ n < ns[i] => \E j \in DOMAIN ns : j < i /\ ns[j] = n
WholeOnes(ns, m, y, k) ==
  /\ Knows(y.lane, y.shown, m)
  /\ \A j \in 1..k : ns[j] > m => In(ns[j], y.shown)
  /\ Gapless(y.shown, m)

(* What one filter does to what was gapless: an event that nothing before it *)
(* misses is in what is shown afterwards, or was passed by the snapshot.     *)
LEMMA FilterGapless ==
  ASSUME Typed, Bounded, Numbered, counts.restarts = 0, NEW b \in Nat, NEW m \in Nat,
         NEW x \in Views, NEW n \in Events, Knows(x.lane, x.shown, m), Gapless(x.shown, b),
         \A e \in Events : b < e /\ e <= m => In(e, x.shown),
         \A e \in Events : b < e /\ e < n => In(e, x.shown)
  PROVE  /\ Gapless(Filter(x, n).shown, b) /\ (b < n => In(n, Filter(x, n).shown))
         /\ \A e : In(e, x.shown) => In(e, Filter(x, n).shown)
<1> DEFINE y == Filter(x, n)
<1>1. /\ \/ y.shown = x.shown /\ Passed(n, x.shown, m)
         \/ y.shown = Append(x.shown, n)
      /\ x.shown \in Seq(Nat) /\ n \in Nat
  BY FilterKnows, EventTypes DEF Views
<1>2. Len(x.shown) \in Nat /\ \A i \in DOMAIN x.shown : x.shown[i] \in Nat
  BY <1>1, Positions
<1> SUFFICES /\ Gapless(y.shown, b) /\ (b < n => In(n, y.shown))
             /\ \A e : In(e, x.shown) => In(e, y.shown)
  OBVIOUS
<1> HIDE DEF y
<1>3. CASE y.shown = x.shown /\ Passed(n, x.shown, m)
  <2>1. ASSUME b < n PROVE In(n, x.shown)
    <3>1. CASE n <= m
      BY <2>1, <3>1
    <3>2. CASE ~(n <= m)
      <4>1. PICK i \in DOMAIN x.shown : n <= x.shown[i]
        BY <1>3, <3>2 DEF Passed
      <4>2. CASE n = x.shown[i]
        BY <4>2 DEF In
      <4>3. CASE n # x.shown[i]
        <5>1. n < x.shown[i]
          BY <1>1, <1>2, <4>1, <4>3
        <5> QED BY <2>1, <5>1 DEF Gapless
      <4> QED BY <4>2, <4>3
    <3> QED BY <3>1, <3>2
  <2> QED BY <1>3, <2>1
<1>4. CASE y.shown = Append(x.shown, n)
  <2>1. /\ \A e : In(e, y.shown) <=> In(e, x.shown) \/ e = n
        /\ \A i \in DOMAIN y.shown : y.shown[i] = n \/ In(y.shown[i], x.shown)
    BY <1>1, <1>4, ShowsOneMore
  <2>2. ASSUME NEW i \in DOMAIN y.shown, NEW e \in Events, b < e, e < y.shown[i]
        PROVE  In(e, y.shown)
    <3>1. CASE y.shown[i] = n
      BY <2>1, <2>2, <3>1
    <3>2. CASE In(y.shown[i], x.shown)
      BY <2>1, <2>2, <3>2 DEF In, Gapless
    <3> QED BY <2>1, <3>1, <3>2
  <2> QED BY <2>1, <2>2 DEF Gapless
<1> QED BY <1>1, <1>3, <1>4

LEMMA FirstWhole ==
  ASSUME Typed, Bounded, Numbered, counts.restarts = 0, NEW m \in Nat, NEW x \in Views,
         Knows(x.lane, x.shown, m), x.shown = <<>>,
         NEW ns \in Seq(Nat), \A k \in DOMAIN ns : ns[k] \in Events, Ordered(ns, m)
  PROVE  WholeOnes(ns, m, DeliverAll(x, ns), Len(ns))
<1>1. PICK d : /\ d[0] = x /\ DeliverAll(x, ns) = d[Len(ns)]
               /\ \A k \in 1..Len(ns) : d[k] = Filter(d[k - 1], ns[k])
               /\ \A k \in 0..Len(ns) : d[k] \in Views
  BY DeliversOneByOne
<1>2. Len(ns) \in Nat /\ DOMAIN ns = 1..Len(ns)
  BY Positions
<1> DEFINE T == {k \in Nat : k <= Len(ns) => WholeOnes(ns, m, d[k], k)}
<1>3. 0 \in T
  <2>1. DOMAIN x.shown = {}
    BY EmptyPositions
  <2> QED BY <1>1, <2>1 DEF WholeOnes, Gapless
<1>4. ASSUME NEW k \in Nat, k \in T PROVE k + 1 \in T
  <2> SUFFICES ASSUME k + 1 <= Len(ns) PROVE WholeOnes(ns, m, d[k + 1], k + 1)
    OBVIOUS
  <2>1. k + 1 \in 1..Len(ns) /\ (k + 1) - 1 = k /\ k \in 0..Len(ns) /\ k <= Len(ns)
        /\ \A j \in 1..(k + 1) : j = k + 1 \/ j \in 1..k
    BY <1>2
  <2>2. d[k + 1] = Filter(d[k], ns[k + 1]) /\ d[k] \in Views /\ ns[k + 1] \in Events
        /\ WholeOnes(ns, m, d[k], k)
    BY <1>1, <1>2, <1>4, <2>1
  <2>3. Knows(d[k].lane, d[k].shown, m) /\ Gapless(d[k].shown, m)
        /\ \A j \in 1..k : ns[j] > m => In(ns[j], d[k].shown)
    BY <2>2 DEF WholeOnes
  <2>4. ASSUME NEW e \in Events, m < e, e < ns[k + 1] PROVE In(e, d[k].shown)
    <3>1. PICK j \in DOMAIN ns : j < k + 1 /\ ns[j] = e
      BY <1>2, <2>1, <2>4 DEF Ordered
    <3>2. j \in 1..k
      BY <1>2, <3>1
    <3> QED BY <2>3, <2>4, <3>1, <3>2
  <2>5. \A e \in Events : m < e /\ e <= m => In(e, d[k].shown)
    BY EventTypes
  <2>6. /\ Gapless(d[k + 1].shown, m) /\ (m < ns[k + 1] => In(ns[k + 1], d[k + 1].shown))
        /\ \A e : In(e, d[k].shown) => In(e, d[k + 1].shown)
    BY <2>2, <2>3, <2>4, <2>5, FilterGapless
  <2>7. Knows(d[k + 1].lane, d[k + 1].shown, m)
    BY <2>2, <2>3, FilterKnows
  <2>8. \A j \in 1..(k + 1) : ns[j] > m => In(ns[j], d[k + 1].shown)
    BY <2>1, <2>3, <2>6
  <2> QED BY <2>6, <2>7, <2>8 DEF WholeOnes
<1> HIDE DEF T
<1>5. \A k \in Nat : k \in T
  BY <1>3, <1>4, Counting
<1>6. WholeOnes(ns, m, d[Len(ns)], Len(ns))
  BY <1>2, <1>5 DEF T
<1> QED BY <1>1, <1>6
-----------------------------------------------------------------------------
(* What a step does to the socket: one message more at its end, or one less  *)
(* at its front. *)
Onto(m) ==
  /\ toLane' \in Seq(Messages)
  /\ \A k \in DOMAIN toLane :
       k \in Nat /\ k <= Len(toLane) /\ k \in DOMAIN toLane' /\ toLane'[k] = toLane[k]
  /\ \A k \in DOMAIN toLane' : \/ k \in DOMAIN toLane /\ toLane'[k] = toLane[k]
                               \/ k = Len(toLane) + 1 /\ toLane'[k] = m
Lands(m) == Onto(m) /\ Len(toLane) + 1 \in DOMAIN toLane' /\ toLane'[Len(toLane) + 1] = m
Advances ==
  /\ toLane' \in Seq(Messages) /\ 1 \in DOMAIN toLane /\ toLane[1] = Head(toLane)
  /\ Head(toLane) \in Messages
  /\ \A k \in DOMAIN toLane' : k \in Nat \ {0} /\ k + 1 \in DOMAIN toLane /\ toLane'[k] = toLane[k + 1]
  /\ \A k \in DOMAIN toLane :
       k \in Nat \ {0} /\ (k # 1 => k - 1 \in DOMAIN toLane' /\ toLane'[k - 1] = toLane[k])

LEMMA AppendLands ==
  ASSUME Typed, NEW m \in Messages, toLane' = Append(toLane, m)
  PROVE  Lands(m) /\ Len(toLane) \in Nat
<1>1. toLane \in Seq(Messages)
  BY DEF Typed
<1>2. Len(toLane) \in Nat /\ DOMAIN toLane = 1..Len(toLane)
  BY <1>1, Positions
<1>3. /\ toLane' \in Seq(Messages)
      /\ DOMAIN toLane' = DOMAIN toLane \cup {Len(toLane) + 1}
      /\ toLane'[Len(toLane) + 1] = m
      /\ \A k \in DOMAIN toLane : k \in Nat \ {0} /\ k < Len(toLane) + 1 /\ toLane'[k] = toLane[k]
  BY <1>1, AppendPositions
<1> QED BY <1>2, <1>3 DEF Lands, Onto

LEMMA PushLands ==
  ASSUME Typed, NEW m \in Messages, Push(m)
  PROVE  /\ Onto(m) /\ (seated => Lands(m)) /\ (~seated => toLane' = toLane)
         /\ Len(toLane) \in Nat
<1>1. toLane \in Seq(Messages)
  BY DEF Typed
<1>2. Len(toLane) \in Nat /\ DOMAIN toLane = 1..Len(toLane)
  BY <1>1, Positions
<1>3. CASE seated
  BY <1>3, AppendLands DEF Push, Lands
<1>4. CASE ~seated
  BY <1>1, <1>2, <1>4 DEF Push, Onto
<1> QED BY <1>2, <1>3, <1>4

LEMMA TailAdvances ==
  ASSUME Typed, toLane # <<>>, toLane' = Tail(toLane)
  PROVE  Advances
<1>1. toLane \in Seq(Messages)
  BY DEF Typed
<1> QED BY <1>1, TailPositions DEF Advances

(* How many answers are on the socket. *)
LEMMA AwaitedNumber ==
  ASSUME NEW s \in Seq(Messages)
  PROVE  IsFiniteSet(Awaited(s)) /\ Cardinality(Awaited(s)) \in Nat
<1>1. Awaited(s) \subseteq 1..Len(s) /\ Len(s) \in Nat
  BY Positions DEF Awaited
<1>2. IsFiniteSet(1..Len(s))
  BY <1>1, FS_Interval
<1> QED BY <1>1, <1>2, FS_Subset, FS_CardinalityType

LEMMA AwaitedNone == Cardinality(Awaited(<<>>)) = 0
<1>1. Awaited(<<>>) = {}
  BY EmptyPositions DEF Awaited
<1> QED BY <1>1, FS_EmptySet

LEMMA AwaitedMore ==
  ASSUME NEW s \in Seq(Messages), NEW m \in Messages
  PROVE  Cardinality(Awaited(Append(s, m)))
           = Cardinality(Awaited(s)) + IF m.type = "attach" THEN 1 ELSE 0
<1> DEFINE t == Append(s, m)
<1>1. /\ DOMAIN t = DOMAIN s \cup {Len(s) + 1} /\ t[Len(s) + 1] = m
      /\ \A k \in DOMAIN s : k \in Nat \ {0} /\ k < Len(s) + 1 /\ t[k] = s[k]
  BY AppendPositions
<1>2. Len(s) \in Nat
  BY Positions
<1> HIDE DEF t
<1>3. Len(s) + 1 \notin Awaited(s)
  BY <1>1, <1>2 DEF Awaited
<1>4. Awaited(t) = IF m.type = "attach" THEN Awaited(s) \cup {Len(s) + 1} ELSE Awaited(s)
  BY <1>1, <1>2 DEF Awaited
<1>5. Cardinality(Awaited(s) \cup {Len(s) + 1}) = Cardinality(Awaited(s)) + 1
  BY <1>3, AwaitedNumber, FS_AddElement
<1>6. Cardinality(Awaited(s)) \in Nat
  BY AwaitedNumber
<1> QED BY <1>4, <1>5, <1>6 DEF t

LEMMA AwaitedLess ==
  ASSUME NEW s \in Seq(Messages), s # <<>>
  PROVE  Cardinality(Awaited(s))
           = Cardinality(Awaited(Tail(s))) + IF Head(s).type = "attach" THEN 1 ELSE 0
<1> DEFINE t == Tail(s)
           U == Awaited(s) \ {1}
           f == [k \in Awaited(t) |-> k + 1]
<1>1. /\ t \in Seq(Messages) /\ 1 \in DOMAIN s /\ s[1] = Head(s)
      /\ \A k \in DOMAIN t : k \in Nat \ {0} /\ k + 1 \in DOMAIN s /\ t[k] = s[k + 1]
      /\ \A k \in DOMAIN s : k \in Nat \ {0} /\ (k # 1 => k - 1 \in DOMAIN t /\ t[k - 1] = s[k])
  BY TailPositions
<1> HIDE DEF t
<1>0. /\ \A k : k \in Awaited(s) <=> k \in DOMAIN s /\ s[k].type = "attach"
      /\ \A k : k \in Awaited(t) <=> k \in DOMAIN t /\ t[k].type = "attach"
  BY DEF Awaited
<1>2. \A k \in Awaited(t) : k \in Nat \ {0} /\ k + 1 \in U
  <2> SUFFICES ASSUME NEW k \in Awaited(t) PROVE k \in Nat \ {0} /\ k + 1 \in U
    OBVIOUS
  <2>1. k \in DOMAIN t /\ k \in Nat \ {0} /\ k + 1 \in Awaited(s)
    BY <1>0, <1>1
  <2>2. k + 1 # 1
    BY <2>1
  <2> QED BY <2>1, <2>2
<1>3. \A k \in U : k \in Nat /\ k - 1 \in Awaited(t) /\ (k - 1) + 1 = k
  BY <1>0, <1>1
<1>4. f \in Bijection(Awaited(t), U)
  <2>1. f \in [Awaited(t) -> U]
    BY <1>2
  <2>2. \A j, k \in Awaited(t) : f[j] = f[k] => j = k
    BY <1>2
  <2>3. \A k \in U : \E j \in Awaited(t) : f[j] = k
    BY <1>3
  <2> QED BY <2>1, <2>2, <2>3 DEF Bijection, Injection, Surjection, IsInjective
<1>5. Cardinality(U) = Cardinality(Awaited(t))
  <2>1. IsFiniteSet(Awaited(t)) /\ ExistsBijection(Awaited(t), U)
    BY <1>1, <1>4, AwaitedNumber DEF ExistsBijection
  <2> QED BY <2>1, FS_Bijection
<1>6. IsFiniteSet(U) /\ Cardinality(U) \in Nat
  BY AwaitedNumber, FS_Subset, FS_CardinalityType
<1>u. U = Awaited(s) \ {1}
  OBVIOUS
<1> HIDE DEF U
<1>7. CASE Head(s).type = "attach"
  <2>1. Awaited(s) = U \cup {1} /\ 1 \notin U
    BY <1>0, <1>1, <1>7, <1>u
  <2>2. Cardinality(Awaited(s)) = Cardinality(U) + 1
    BY <1>6, <2>1, FS_AddElement
  <2> QED BY <1>5, <1>7, <2>2 DEF t
<1>8. CASE Head(s).type # "attach"
  <2>1. 1 \notin Awaited(s)
    BY <1>0, <1>1, <1>8
  <2>2. Awaited(s) = U
    <3> DEFINE A == Awaited(s)
    <3>1. 1 \notin A
      BY <2>1
    <3> HIDE DEF A
    <3>2. A \ {1} = A
      BY <3>1
    <3> QED BY <1>u, <3>2 DEF A
  <2> QED BY <1>5, <1>6, <1>8, <2>2 DEF t
<1> QED BY <1>7, <1>8

(* What was on the socket before another message is still there, before it. *)
LEMMA OntoSent ==
  ASSUME NEW m, Onto(m), Len(toLane) \in Nat
  PROVE  /\ \A n : Sent(n) => Sent(n)'
         /\ \A n, k : k \in DOMAIN toLane /\ Before(n, k) => Before(n, k)'
         /\ \A n, k : k = Len(toLane) + 1 /\ Sent(n) => Before(n, k)'
<1>1. ASSUME NEW n, Sent(n) PROVE Sent(n)'
  <2>1. PICK j \in DOMAIN toLane : IsEvent(toLane[j]) /\ toLane[j].n = n
    BY <1>1 DEF Sent
  <2>2. j \in DOMAIN toLane' /\ toLane'[j] = toLane[j]
    BY DEF Onto
  <2> QED BY <2>1, <2>2 DEF Sent, IsEvent
<1>2. ASSUME NEW n, NEW k, k \in DOMAIN toLane, Before(n, k) PROVE Before(n, k)'
  <2>1. PICK j \in DOMAIN toLane : j < k /\ IsEvent(toLane[j]) /\ toLane[j].n = n
    BY <1>2 DEF Before
  <2>2. j \in DOMAIN toLane' /\ toLane'[j] = toLane[j]
    BY DEF Onto
  <2> QED BY <2>1, <2>2 DEF Before, IsEvent
<1>3. ASSUME NEW n, NEW k, k = Len(toLane) + 1, Sent(n) PROVE Before(n, k)'
  <2>1. PICK j \in DOMAIN toLane : IsEvent(toLane[j]) /\ toLane[j].n = n
    BY <1>3 DEF Sent
  <2>2. j \in DOMAIN toLane' /\ toLane'[j] = toLane[j] /\ j \in Nat /\ j <= Len(toLane)
    BY DEF Onto
  <2>3. j < k
    BY <1>3, <2>2
  <2> QED BY <2>1, <2>2, <2>3 DEF Before, IsEvent
<1> QED BY <1>1, <1>2, <1>3

(* The snapshots that are known part the events as they did, if no step      *)
(* comes between the events and a cursor. *)
LEMMA SnapsKept ==
  ASSUME Typed, Bounded, Snaps,
         \A k \in Nat : \A at : k <= Len(events) /\ Parts(k, at) => Parts(k, at)',
         \A j \in DOMAIN toLane' : IsAnswer(toLane'[j]) =>
           \/ \E i \in DOMAIN toLane : toLane'[j] = toLane[i]
           \/ /\ serving.phase = "taken"
              /\ toLane'[j].n = serving.upTo /\ toLane'[j].at = serving.at,
         \A j \in DOMAIN armed' : IsAnswer(armed'[j]) =>
           \/ \E i \in DOMAIN armed : armed'[j] = armed[i]
           \/ \E i \in DOMAIN toLane : armed'[j] = toLane[i],
         serving'.phase = "taken" => UNCHANGED serving \/ Parts(serving.upTo, serving.at)'
  PROVE  Snaps'
<1>1. \A i \in DOMAIN toLane : IsAnswer(toLane[i]) =>
         toLane[i].n \in Nat /\ toLane[i].n <= Len(events) /\ Parts(toLane[i].n, toLane[i].at)
  BY Records DEF Bounded, Snaps
<1>2. ASSUME NEW j \in DOMAIN toLane', IsAnswer(toLane'[j])
      PROVE  Parts(toLane[j].n, toLane[j].at)'
  <2>1. PICK k, at : k = toLane'[j].n /\ at = toLane'[j].at
    OBVIOUS
  <2>2. k \in Nat /\ k <= Len(events) /\ Parts(k, at)
    BY <1>1, <1>2, <2>1, Records DEF Bounded, Snaps
  <2>3. Parts(k, at)'
    BY <2>2
  <2> QED BY <2>1, <2>3 DEF Parts
<1>3. ASSUME NEW j \in DOMAIN armed', IsAnswer(armed'[j])
      PROVE  Parts(armed[j].n, armed[j].at)'
  <2>1. PICK k, at : k = armed'[j].n /\ at = armed'[j].at
    OBVIOUS
  <2>2. k \in Nat /\ k <= Len(events) /\ Parts(k, at)
    BY <1>1, <1>3, <2>1, Records DEF Bounded, Snaps
  <2>3. Parts(k, at)'
    BY <2>2
  <2> QED BY <2>1, <2>3 DEF Parts
<1>4. ASSUME serving'.phase = "taken" PROVE Parts(serving.upTo, serving.at)'
  <2>1. SUFFICES ASSUME UNCHANGED serving PROVE Parts(serving.upTo, serving.at)'
    BY <1>4
  <2>2. PICK k, at : k = serving'.upTo /\ at = serving'.at
    OBVIOUS
  <2>3. k \in Nat /\ k <= Len(events) /\ Parts(k, at)
    BY <1>4, <2>1, <2>2, Records DEF Bounded, Snaps
  <2>4. Parts(k, at)'
    BY <2>3
  <2> QED BY <2>2, <2>4 DEF Parts
<1> QED BY <1>2, <1>3, <1>4 DEF Snaps, IsAnswer
-----------------------------------------------------------------------------
(* The invariant holds at the start. *)
LEMMA StreamStarts == Init => IInv
<1> SUFFICES ASSUME Init PROVE IInv
  OBVIOUS
<1> USE DEF Init, NewLane, NotServing
<1>1. PICK n \in 0..1 : /\ events = [i \in 1..n |-> [generation |-> 1, sequence |-> i]]
                        /\ now = [generation |-> 1, sequence |-> n]
  OBVIOUS
<1>2. n \in Nat /\ n <= MaxEvents /\ 1 \in 1..MaxGens /\ n \in 0..MaxEvents
      /\ \A i \in 1..n : i \in 0..MaxEvents
  BY BoundsAssumption
<1>3. events \in Seq(Cursors) /\ Len(events) = n /\ now \in Cursors
  <2>1. events \in [1..n -> Cursors] /\ now \in Cursors
    BY <1>1, <1>2 DEF Cursors
  <2> QED BY <1>2, <2>1, SequenceOf
<1>4. Events = 1..n /\ \A i \in Events : i \in Nat /\ Gen(i) = 1 /\ Num(i) = i
  BY <1>1, <1>2, <1>3 DEF Events, Gen, Num
<1>5. /\ toLane = <<>> /\ armed = <<>> /\ shown = <<>> /\ lane.buffered = <<>>
      /\ ~lane.attached /\ ~seated /\ wire = "up" /\ serving.phase = "none"
      /\ lane.boundary = NoCursor /\ lane.last = -1 /\ rendered = 0 /\ base = 0
      /\ counts = [drops |-> 0, replays |-> 0, refusals |-> 0, restarts |-> 0, early |-> 0,
                   rewound |-> FALSE]
  OBVIOUS
<1>6. DOMAIN toLane = {} /\ DOMAIN armed = {} /\ DOMAIN shown = {} /\ DOMAIN lane.buffered = {}
  BY <1>5, EmptyPositions
<1>7. Typed
  <2>1. toDaemon \in Seq(Reasons) /\ asks \in Seq(Reasons)
    BY DEF Reasons
  <2>4. clock \in Clocks /\ seated \in BOOLEAN /\ wire \in {"up", "down"}
        /\ rendered \in Nat /\ base \in Nat
    OBVIOUS
  <2>2. toLane \in Seq(Messages) /\ armed \in Seq(Messages) /\ shown \in Seq(Nat) /\ <<>> \in Seq(Nat)
    BY <1>5, EmptyPositions
  <2>3. serving \in Servings /\ lane \in Lanes /\ counts \in Tallies
    <3>1. -1 \in -1..MaxEvents
      BY BoundsAssumption
    <3>2. NoCursor \in Points /\ "start" \in Reasons
      BY DEF Points, Reasons
    <3>3. lane \in Lanes
      BY <2>2, <3>1, <3>2 DEF Lanes
    <3>4. serving \in Servings
      BY <3>2 DEF Servings
    <3> QED BY <1>5, <3>3, <3>4 DEF Tallies
  <2> HIDE DEF Init
  <2> QED BY <1>3, <2>1, <2>2, <2>3, <2>4 DEF Typed
<1>8. Bounded
  BY <1>1, <1>2, <1>3, <1>5, <1>6 DEF Bounded
<1>9. Counted
  <2>1. Len(asks) = 1 /\ Len(toDaemon) = 1
    OBVIOUS
  <2> QED BY <1>5, <2>1, AwaitedNone DEF Counted, Working
<1>10. Phased
  BY <1>5, <1>6 DEF Phased
<1>11. Numbered
  BY <1>1, <1>2, <1>3, <1>4, <1>5 DEF Numbered
<1>12. Snaps /\ Pushed /\ Answered /\ ByOrder
  BY <1>5, <1>6 DEF Snaps, Pushed, Answered, ByOrder, Increasing
<1>13. Ascending /\ BySequence /\ Filters /\ Streams
  BY <1>5 DEF Ascending, BySequence, Filters, Streams
<1> QED BY <1>7, <1>8, <1>9, <1>10, <1>11, <1>12, <1>13 DEF IInv

-----------------------------------------------------------------------------
(* The daemon has one more event, and pushes it if the client is seated. *)
LEMMA EmitsFrame ==
  ASSUME IInv, Emits
  PROVE  \E l \in Nat :
         /\ l = Len(events) + 1 /\ Len(events') = l /\ Events' = Events \cup {l}
         /\ \A n \in Events : n \in Nat /\ n < l /\ Gen(n)' = Gen(n) /\ Num(n)' = Num(n)
         /\ Gen(l)' = now.generation /\ Num(l)' = now.sequence + 1
         /\ now'.generation = now.generation /\ now'.sequence = now.sequence + 1
         /\ now' \in Cursors /\ events' \in Seq(Cursors)
         /\ Event(l) \in Messages /\ Onto(Event(l)) /\ (seated => Lands(Event(l)))
         /\ (~seated => toLane' = toLane) /\ Len(toLane) \in Nat
         /\ l <= MaxEvents /\ Push(Event(l))
         /\ events'[l].generation = now.generation /\ \A n \in Events : events'[n] = events[n]
<1>1. Typed /\ Bounded
  BY DEF IInv
<1>2. events \in Seq(Cursors) /\ now \in Cursors /\ Len(events) \in Nat /\ now.sequence <= Len(events)
      /\ DOMAIN events = 1..Len(events)
  BY <1>1, Positions DEF Typed, Bounded
<1>0. PICK l \in Nat : l = Len(events) + 1
  BY <1>2
<1>3. Len(events) < MaxEvents /\ now' = [now EXCEPT !.sequence = @ + 1]
      /\ events' = Append(events, now') /\ Push(Event(l))
  BY <1>0 DEF Emits
<1>4. now' \in Cursors /\ now'.generation = now.generation /\ now'.sequence = now.sequence + 1
  <2>1. now.sequence \in 0..MaxEvents /\ now.sequence + 1 \in 0..MaxEvents
    BY <1>2, <1>3, BoundsAssumption DEF Cursors
  <2> QED BY <1>2, <1>3, <2>1 DEF Cursors
<1>5. /\ events' \in Seq(Cursors) /\ Len(events') = l
      /\ events'[l] = now'
      /\ \A k \in DOMAIN events : k < l /\ events'[k] = events[k]
  BY <1>0, <1>2, <1>3, <1>4, AppendPositions
<1>6. Events' = Events \cup {l}
  BY <1>0, <1>2, <1>5 DEF Events
<1>7. Event(l) \in Messages
  BY <1>0 DEF Event, Messages, MessageTypes, Points
<1>8. /\ Onto(Event(l)) /\ (seated => Lands(Event(l)))
      /\ (~seated => toLane' = toLane) /\ Len(toLane) \in Nat
  BY <1>1, <1>3, <1>7, PushLands
<1>9. \A n \in Events : n \in Nat /\ n < l /\ Gen(n)' = Gen(n) /\ Num(n)' = Num(n)
  BY <1>2, <1>5 DEF Events, Gen, Num
<1>10. Gen(l)' = now.generation /\ Num(l)' = now.sequence + 1
  BY <1>4, <1>5 DEF Gen, Num
<1>11. l <= MaxEvents /\ events'[l].generation = now.generation
       /\ \A n \in Events : events'[n] = events[n]
  BY <1>0, <1>2, <1>3, <1>4, <1>5, BoundsAssumption DEF Events
<1> QED BY <1>0, <1>3, <1>4, <1>5, <1>6, <1>7, <1>8, <1>9, <1>10, <1>11

LEMMA EmitsStep == ASSUME IInv, Emits PROVE IInv'
<1>0. /\ UNCHANGED <<asks, armed, lane, shown, rendered, base, clock, seated, serving, wire, toDaemon, counts>>
      /\ armed = <<>>
  BY DEF Emits, LaneRests
<1>1. PICK l \in Nat :
         /\ l = Len(events) + 1 /\ Len(events') = l /\ Events' = Events \cup {l}
         /\ \A n \in Events : n \in Nat /\ n < l /\ Gen(n)' = Gen(n) /\ Num(n)' = Num(n)
         /\ Gen(l)' = now.generation /\ Num(l)' = now.sequence + 1
         /\ now'.generation = now.generation /\ now'.sequence = now.sequence + 1
         /\ now' \in Cursors /\ events' \in Seq(Cursors)
         /\ Event(l) \in Messages /\ Onto(Event(l)) /\ (seated => Lands(Event(l)))
         /\ (~seated => toLane' = toLane) /\ Len(toLane) \in Nat
         /\ l <= MaxEvents /\ Push(Event(l))
         /\ events'[l].generation = now.generation /\ \A n \in Events : events'[n] = events[n]
  BY EmitsFrame
<1>2. Typed /\ Bounded /\ Numbered
  BY DEF IInv
<1>3. /\ Len(events) \in Nat /\ now \in Cursors /\ now.generation \in Nat /\ now.sequence \in Nat
      /\ \A n \in Events : n \in Nat /\ Gen(n) \in Nat /\ Num(n) \in Nat
      /\ \A c \in Cursors : c.generation \in Nat /\ c.sequence \in Nat
  BY <1>2, EventTypes
<1>4. Event(l).type = "session_event" /\ Event(l).n = l
  BY DEF Event
<1>5. Typed'
  BY <1>0, <1>1, <1>2 DEF Typed, Onto
<1>6. Bounded'
  <2>1. Len(events)' <= MaxEvents /\ now'.sequence <= Len(events)' /\ serving'.upTo <= Len(events)'
        /\ rendered' <= base' /\ base' <= Len(events)'
    BY <1>0, <1>1, <1>2, <1>3 DEF Bounded, Typed, Servings
  <2>2. \A k \in DOMAIN toLane' :
          toLane'[k].n <= Len(events)' /\ (IsEvent(toLane'[k]) => toLane'[k].n # 0)
    <3> SUFFICES ASSUME NEW k \in DOMAIN toLane'
                 PROVE  toLane'[k].n <= Len(events)' /\ (IsEvent(toLane'[k]) => toLane'[k].n # 0)
      OBVIOUS
    <3>1. CASE k \in DOMAIN toLane /\ toLane'[k] = toLane[k]
      <4>1. toLane[k].n \in Nat /\ toLane[k].n <= Len(events) /\ (IsEvent(toLane[k]) => toLane[k].n # 0)
        BY <1>2, <3>1, Records DEF Bounded
      <4> QED BY <1>1, <1>3, <3>1, <4>1
    <3>2. CASE toLane'[k] = Event(l)
      BY <1>1, <1>3, <1>4, <3>2
    <3> QED BY <1>1, <3>1, <3>2 DEF Onto
  <2>3. \A k \in DOMAIN armed' : IsAnswer(armed'[k]) /\ armed'[k].n <= Len(events)'
    BY <1>0, EmptyPositions
  <2>4. /\ \A k \in DOMAIN lane'.buffered : lane'.buffered[k] \in Events'
        /\ \A k \in DOMAIN shown' : shown'[k] \in Events'
    BY <1>0, <1>1, <1>2 DEF Bounded
  <2> QED BY <2>1, <2>2, <2>3, <2>4 DEF Bounded, IsEvent, IsAnswer
<1>7. Counted'
  <2>1. toLane \in Seq(Messages)
    BY <1>2 DEF Typed
  <2>2. Cardinality(Awaited(toLane')) = Cardinality(Awaited(toLane))
    BY <1>1, <1>4, <2>1, AwaitedMore, AwaitedNumber DEF Push
  <2> QED BY <1>0, <2>2 DEF IInv, Counted, Working, Awaited
<1>8. Phased'
  BY <1>0, <1>1, <1>4 DEF IInv, Phased, Onto, IsEvent, IsAnswer
<1>9. Numbered'
  <2>1. \A m, n \in Events' : m < n => Gen(m)' <= Gen(n)' /\ (Gen(m)' = Gen(n)' => Num(m)' < Num(n)')
    BY <1>1, <1>2, <1>3 DEF Numbered
  <2>2. \A n \in Events' : Gen(n)' <= now'.generation
                            /\ (Gen(n)' = now'.generation => Num(n)' <= now'.sequence)
    BY <1>1, <1>2, <1>3 DEF Numbered
  <2>3. counts'.restarts = 0 => /\ \A m, n \in Events' : m < n => Num(m)' < Num(n)'
                                /\ \A n \in Events' : Num(n)' <= now'.sequence
    BY <1>0, <1>1, <1>2, <1>3 DEF Numbered
  <2>4. now'.generation = 1 => now'.sequence = Len(events)' /\ \A n \in Events' : Num(n)' = n
    BY <1>1, <1>2, <1>3 DEF Numbered
  <2>5. counts'.early = 0 /\ ~lane'.attached => now'.generation = 1
    BY <1>0, <1>1, <1>2 DEF Numbered
  <2> QED BY <2>1, <2>2, <2>3, <2>4, <2>5 DEF Numbered
<1>10. ASSUME NEW k \in Nat, k <= Len(events), NEW at, Parts(k, at) PROVE Parts(k, at)'
  <2>1. at \in Cursors /\ at.generation \in Nat /\ at.sequence \in Nat
    BY <1>3, <1>10 DEF Parts
  <2>2. /\ at.generation <= now'.generation
        /\ at.generation = now'.generation => at.sequence <= now'.sequence
        /\ counts'.restarts = 0 => at.sequence <= now'.sequence
    BY <1>0, <1>1, <1>3, <1>10, <2>1 DEF Parts
  <2>3. ASSUME NEW n \in Events
        PROVE  /\ n <= k => Gen(n)' <= at.generation /\ (Gen(n)' = at.generation => Num(n)' <= at.sequence)
               /\ n > k => Gen(n)' >= at.generation /\ (Gen(n)' = at.generation => Num(n)' > at.sequence)
               /\ counts'.restarts = 0 /\ n > k => Num(n)' > at.sequence
    BY <1>0, <1>1, <1>10 DEF Parts
  <2>4. /\ ~(l <= k)
        /\ l > k => Gen(l)' >= at.generation /\ (Gen(l)' = at.generation => Num(l)' > at.sequence)
        /\ counts'.restarts = 0 /\ l > k => Num(l)' > at.sequence
    BY <1>0, <1>1, <1>3, <1>10, <2>1 DEF Parts
  <2> QED BY <1>1, <2>1, <2>2, <2>3, <2>4 DEF Parts
<1>11. Snaps'
  <2>1. \A j \in DOMAIN toLane' : IsAnswer(toLane'[j]) => \E i \in DOMAIN toLane : toLane'[j] = toLane[i]
    BY <1>1, <1>4 DEF Onto, IsAnswer
  <2>2. DOMAIN armed' = {}
    BY <1>0, EmptyPositions
  <2>3. UNCHANGED serving
    BY <1>0
  <2> QED BY <1>2, <1>10, <2>1, <2>2, <2>3, SnapsKept DEF IInv
<1>12. \A j \in DOMAIN toLane' :
         \/ /\ j \in DOMAIN toLane /\ j \in Nat /\ j <= Len(toLane) /\ toLane'[j] = toLane[j]
            /\ (IsEvent(toLane[j]) => toLane[j].n \in Events)
         \/ j = Len(toLane) + 1 /\ toLane'[j] = Event(l)
  BY <1>1, <1>2, Records DEF Onto
<1>13. Pushed'
  <2>1. ASSUME NEW j \in DOMAIN toLane', NEW k \in DOMAIN toLane', j < k,
               IsEvent(toLane'[j]), IsEvent(toLane'[k])
        PROVE  events'[toLane'[j].n].generation <= events'[toLane'[k].n].generation
    <3>1. j \in DOMAIN toLane /\ toLane'[j] = toLane[j] /\ toLane[j].n \in Events
      BY <1>1, <1>12, <2>1
    <3>2. events[toLane[j].n].generation <= now.generation
      BY <1>2, <3>1 DEF Numbered, Gen
    <3>3. CASE k \in DOMAIN toLane /\ toLane'[k] = toLane[k] /\ toLane[k].n \in Events
      <4>1. events[toLane[j].n].generation <= events[toLane[k].n].generation
        BY <2>1, <3>1, <3>3 DEF IInv, Pushed, Gen
      <4> QED BY <1>1, <3>1, <3>3, <4>1
    <3>4. CASE toLane'[k] = Event(l)
      BY <1>1, <1>4, <3>1, <3>2, <3>4
    <3> QED BY <1>12, <2>1, <3>3, <3>4
  <2>2. ASSUME NEW j \in DOMAIN toLane', NEW k \in DOMAIN toLane', j < k,
               IsAnswer(toLane'[j]), IsEvent(toLane'[k])
        PROVE  toLane'[j].at.generation <= events'[toLane'[k].n].generation
    <3>1. j \in DOMAIN toLane /\ toLane'[j] = toLane[j]
      BY <1>1, <1>12, <2>2
    <3>2. toLane[j].at.generation <= now.generation
      BY <2>2, <3>1 DEF IInv, Snaps, Parts
    <3>3. CASE k \in DOMAIN toLane /\ toLane'[k] = toLane[k] /\ toLane[k].n \in Events
      <4>1. toLane[j].at.generation <= events[toLane[k].n].generation
        BY <2>2, <3>1, <3>3 DEF IInv, Pushed, Gen
      <4> QED BY <1>1, <3>1, <3>3, <4>1
    <3>4. CASE toLane'[k] = Event(l)
      BY <1>1, <1>4, <3>1, <3>2, <3>4
    <3> QED BY <1>12, <2>2, <3>3, <3>4
  <2>3. DOMAIN armed' = {}
    BY <1>0, EmptyPositions
  <2> QED BY <2>1, <2>2, <2>3 DEF Pushed, Gen, IsEvent, IsAnswer
<1>14. Answered'
  <2>1. \A j \in DOMAIN toLane' : IsAnswer(toLane'[j]) => j \in DOMAIN toLane /\ toLane'[j] = toLane[j]
    BY <1>4, <1>12 DEF IsAnswer
  <2>2. DOMAIN armed' = {}
    BY <1>0, EmptyPositions
  <2> QED BY <1>0, <2>1, <2>2 DEF IInv, Answered, IsAnswer
<1>15. Ascending'
  BY <1>0 DEF IInv, Ascending, Filtered, HasSequence, Increasing
<1>16. BySequence'
  <2>1. SUFFICES ASSUME HasSequence, ~counts.rewound, counts.early = 0, lane.attached
                 PROVE  /\ lane.last >= 0
                        /\ \A n \in Events' : Coming(n)' /\ Passed(n, shown, rendered) => Num(n)' <= lane.last
    BY <1>0 DEF BySequence, HasSequence, Passed
  <2>2. \A n \in Events : Coming(n) /\ Passed(n, shown, rendered) => Num(n) <= lane.last
    BY <2>1 DEF IInv, BySequence
  <2>3. ~Passed(l, shown, rendered)
    <3>1. \A i \in DOMAIN shown : shown[i] \in Nat /\ shown[i] \in Events
      BY <1>2, Records
    <3>2. rendered \in Nat /\ rendered <= Len(events)
      BY <1>2, <1>3, Records DEF Bounded
    <3> QED BY <1>1, <1>3, <3>1, <3>2 DEF Passed
  <2>4. ASSUME NEW n \in Events, Coming(n)' PROVE Coming(n)
    <3>1. CASE events'[n].generation = now'.generation
      BY <1>1, <3>1 DEF Coming, Gen
    <3>2. CASE \E k \in DOMAIN toLane' : IsEvent(toLane'[k]) /\ toLane'[k].n = n
      <4>1. n # l
        BY <1>1
      <4> QED BY <1>4, <1>12, <3>2, <4>1 DEF Coming
    <3> QED BY <2>4, <3>1, <3>2 DEF Coming, Gen, IsEvent
  <2> QED BY <1>1, <2>1, <2>2, <2>3, <2>4 DEF IInv, BySequence
<1>17. ByOrder'
  <2> SUFFICES ASSUME counts.replays = 0 PROVE ByOrder'
    BY <1>0 DEF ByOrder
  <2>0. ByOrder
    BY DEF IInv
  <2>1. ASSUME NEW k \in DOMAIN toLane', IsEvent(toLane'[k])
        PROVE  \/ k \in DOMAIN toLane /\ toLane'[k] = toLane[k] /\ IsEvent(toLane[k])
               \/ k = Len(toLane) + 1 /\ toLane'[k].n = l
    BY <1>4, <1>12, <2>1
  <2>2. ASSUME NEW j \in DOMAIN toLane', NEW k \in DOMAIN toLane', j < k,
               IsEvent(toLane'[j]) \/ IsAnswer(toLane'[j]), IsEvent(toLane'[k])
        PROVE  toLane'[j].n < toLane'[k].n
    <3>1. j \in DOMAIN toLane /\ toLane'[j] = toLane[j] /\ toLane[j].n \in Nat /\ toLane[j].n < l
      BY <1>1, <1>2, <1>3, <1>12, <2>2, Records DEF Bounded
    <3> QED BY <2>0, <2>1, <2>2, <3>1 DEF ByOrder
  <2>3. /\ \A i \in DOMAIN shown : shown[i] < l
        /\ \A i \in DOMAIN lane.buffered : lane.buffered[i] < l
        /\ rendered < l
    BY <1>1, <1>2, <1>3, Records DEF Bounded
  <2>4. DOMAIN armed' = {}
    BY <1>0, EmptyPositions
  <2> QED BY <1>0, <2>0, <2>1, <2>2, <2>3, <2>4 DEF ByOrder, Increasing, IsEvent, IsAnswer
<1>18. Filters'
  <2> SUFFICES ASSUME lane.attached, counts.restarts = 0 PROVE Filters'
    BY <1>0 DEF Filters
  <2>1. Knows(lane, shown, base)
    BY DEF IInv, Filters
  <2> USE DEF Passed
  <2>2. HasSequence => lane.last <= now'.sequence
                       /\ \A n \in Events' : Num(n)' <= lane.last => Passed(n, shown, base)
    <3>1. lane.last \in Int
      BY <1>2, Records
    <3> QED BY <1>1, <1>3, <2>1, <3>1 DEF Knows
  <2>3. ASSUME lane.boundary # NoCursor
        PROVE  /\ lane.boundary.generation <= now'.generation
               /\ lane.boundary.generation = now'.generation => lane.boundary.sequence <= now'.sequence
               /\ \A n \in Events' :
                    Gen(n)' = lane.boundary.generation /\ Num(n)' <= lane.boundary.sequence
                    => Passed(n, shown, base)
    <3>1. lane.boundary \in Cursors
      BY <1>2, <2>3, Records DEF Points
    <3> QED BY <1>1, <1>3, <2>1, <2>3, <3>1 DEF Knows
  <2> QED BY <1>0, <2>2, <2>3 DEF Filters, Knows, HasSequence
<1>19. Streams'
  <2> SUFFICES ASSUME counts.restarts = 0, ~lane.closed, seated PROVE \E s \in 0..Len(events)' : Since(s)'
    BY <1>0 DEF Streams
  <2>1. PICK s \in 0..Len(events) : Since(s)
    BY DEF IInv, Streams
  <2>2. s \in 0..Len(events)' /\ s \in Nat
    BY <1>1, <1>3
  <2>3. /\ \A n : Sent(n) => Sent(n)'
        /\ \A n, k : k \in DOMAIN toLane /\ Before(n, k) => Before(n, k)'
        /\ \A n, k : k = Len(toLane) + 1 /\ Sent(n) => Before(n, k)'
    BY <1>1, OntoSent
  <2>4. \A n : Seen(n)' <=> Seen(n)
    BY <1>0 DEF Seen
  <2>5. /\ \A n \in Events' : n > s => Seen(n)' \/ Sent(n)'
        /\ Sent(l)'
    <3>1. Sent(l)'
      BY <1>1, <1>4 DEF Lands, Sent, IsEvent
    <3> QED BY <1>1, <2>1, <2>3, <2>4, <3>1 DEF Since
  <2>6. ASSUME NEW k \in DOMAIN toLane', NEW n \in Events',
               IsEvent(toLane'[k]), s < n, n < toLane'[k].n
        PROVE  Seen(n)' \/ Before(n, k)'
    <3>1. CASE k \in DOMAIN toLane /\ toLane'[k] = toLane[k] /\ toLane[k].n \in Events
      <4>1. n \in Events
        BY <1>1, <1>3, <2>6, <3>1
      <4> QED BY <2>1, <2>3, <2>4, <2>6, <3>1, <4>1 DEF Since
    <3>2. CASE k = Len(toLane) + 1 /\ toLane'[k] = Event(l)
      <4>1. n \in Events
        BY <1>1, <1>3, <1>4, <2>6, <3>2
      <4> QED BY <2>1, <2>3, <2>4, <2>6, <3>2, <4>1 DEF Since
    <3> QED BY <1>12, <2>6, <3>1, <3>2
  <2>7. ASSUME NEW k \in DOMAIN toLane', IsAnswer(toLane'[k])
        PROVE  s <= toLane'[k].n /\ \A n \in Events' : s < n /\ n <= toLane'[k].n => Seen(n)' \/ Before(n, k)'
    <3>1. k \in DOMAIN toLane /\ toLane'[k] = toLane[k] /\ toLane[k].n <= Len(events) /\ toLane[k].n \in Nat
      BY <1>2, <1>4, <1>12, <2>7, Records DEF IsAnswer, Bounded
    <3>2. \A n \in Events' : n <= toLane[k].n => n \in Events
      BY <1>1, <1>3, <3>1
    <3> QED BY <2>1, <2>3, <2>4, <2>7, <3>1, <3>2 DEF Since
  <2>8. ASSUME NEW n \in Events', n # l PROVE n \in Events
    BY <1>1, <2>8
  <2>9. /\ \A n \in Events' : n <= base => n # l
        /\ \A i \in DOMAIN shown, n \in Events' : n < shown[i] => n # l
        /\ \A i \in DOMAIN lane.buffered, n \in Events' : n < lane.buffered[i] => n # l
    BY <1>1, <1>2, <1>3, Records DEF Bounded
  <2>10. /\ \A n \in Events' : s < n /\ n <= base => In(n, shown)
         /\ \A i \in DOMAIN shown, n \in Events' : s < n /\ n < shown[i] => In(n, shown)
         /\ \A i \in DOMAIN lane.buffered, n \in Events' : s < n /\ n < lane.buffered[i]
              => \E j \in DOMAIN lane.buffered : j < i /\ lane.buffered[j] = n
    BY <2>1, <2>8, <2>9 DEF Since
  <2>11. serving.phase = "taken" => s <= serving.upTo
    BY <2>1 DEF Since
  <2>12. lane.attached /\ Settled' => s <= base
    <3> SUFFICES ASSUME lane.attached, Settled' PROVE s <= base
      OBVIOUS
    <3>1. \A k \in DOMAIN toLane : ~IsAnswer(toLane[k])
      BY <1>1 DEF Settled, Onto, IsAnswer
    <3>2. Settled
      BY <1>0, <3>1 DEF Settled
    <3> QED BY <2>1, <3>2 DEF Since
  <2>13. lane.attached /\ counts.drops = 0 => s <= rendered
    BY <2>1 DEF Since
  <2>14. DOMAIN armed' = {}
    BY <1>0, EmptyPositions
  <2>15. Since(s)'
    BY <1>0, <2>5, <2>6, <2>7, <2>10, <2>11, <2>12, <2>13, <2>14 DEF Since, IsEvent, IsAnswer, In
  <2> QED BY <2>2, <2>15
<1> QED BY <1>5, <1>6, <1>7, <1>8, <1>9, <1>11, <1>13, <1>14, <1>15, <1>16, <1>17, <1>18, <1>19 DEF IInv

-----------------------------------------------------------------------------
(* The daemon pushes an event of its generation once more. *)
LEMMA ReplaysStep == ASSUME IInv, Replays PROVE IInv'
<1>0. /\ UNCHANGED <<asks, armed, lane, shown, rendered, base, clock, events, now, seated, serving, wire, toDaemon>>
      /\ armed = <<>> /\ seated /\ counts' = [counts EXCEPT !.replays = @ + 1]
  BY DEF Replays, LaneRests, DaemonActs, daemon
<1>2. Typed /\ Bounded /\ Numbered
  BY DEF IInv
<1>3. /\ Len(events) \in Nat /\ now \in Cursors /\ now.generation \in Nat /\ now.sequence \in Nat
      /\ \A n \in Events : n \in Nat /\ Gen(n) \in Nat /\ Num(n) \in Nat
      /\ \A c \in Cursors : c.generation \in Nat /\ c.sequence \in Nat
  BY <1>2, EventTypes
<1>1. PICK l \in Events : Gen(l) = now.generation /\ Push(Event(l))
  BY DEF Replays, Gen
<1>4. Event(l) \in Messages /\ Event(l).type = "session_event" /\ Event(l).n = l
  BY <1>3 DEF Event, Messages, MessageTypes, Points
<1>5. Onto(Event(l)) /\ Lands(Event(l)) /\ Len(toLane) \in Nat /\ toLane' = Append(toLane, Event(l))
  BY <1>0, <1>1, <1>2, <1>4, PushLands DEF Push
<1>6. /\ counts' \in Tallies /\ counts'.replays # 0 /\ counts'.drops = counts.drops
      /\ counts'.restarts = counts.restarts /\ counts'.early = counts.early
      /\ counts'.rewound = counts.rewound
  <2>1. counts \in Tallies
    BY <1>2 DEF Typed
  <2> QED BY <1>0, <2>1 DEF Tallies
<1>7. \A j \in DOMAIN toLane' :
        \/ /\ j \in DOMAIN toLane /\ j \in Nat /\ j <= Len(toLane) /\ toLane'[j] = toLane[j]
           /\ (IsEvent(toLane[j]) => toLane[j].n \in Events)
        \/ j = Len(toLane) + 1 /\ toLane'[j] = Event(l)
  BY <1>5, <1>2, Records DEF Onto
<1>8. Typed'
  BY <1>0, <1>2, <1>5, <1>6 DEF Typed, Onto
<1>9. Bounded'
  <2>1. l <= Len(events) /\ l # 0
    BY <1>2, EventTypes DEF Events
  <2>2. \A k \in DOMAIN toLane' :
          toLane'[k].n <= Len(events) /\ (IsEvent(toLane'[k]) => toLane'[k].n # 0)
    BY <1>2, <1>4, <1>7, <2>1 DEF Bounded
  <2> QED BY <1>0, <1>2, <2>2 DEF Bounded, Events, IsEvent, IsAnswer
<1>10. Counted'
  <2>1. toLane \in Seq(Messages)
    BY <1>2 DEF Typed
  <2>2. Cardinality(Awaited(toLane')) = Cardinality(Awaited(toLane))
    BY <1>4, <1>5, <2>1, AwaitedMore, AwaitedNumber
  <2> QED BY <1>0, <2>2 DEF IInv, Counted, Working, Awaited
<1>11. Phased'
  BY <1>0 DEF IInv, Phased
<1>12. Numbered'
  BY <1>0, <1>2, <1>6 DEF Numbered, Events, Gen, Num
<1>13. Snaps'
  <2>1. ASSUME NEW k \in Nat, NEW at, Parts(k, at) PROVE Parts(k, at)'
    BY <1>0, <1>6, <2>1 DEF Parts, Events, Gen, Num
  <2>2. \A j \in DOMAIN toLane' : IsAnswer(toLane'[j]) => \E i \in DOMAIN toLane : toLane'[j] = toLane[i]
    BY <1>4, <1>7 DEF IsAnswer
  <2>3. DOMAIN armed' = {}
    BY <1>0, EmptyPositions
  <2> QED BY <1>0, <1>2, <2>1, <2>2, <2>3, SnapsKept DEF IInv
<1>14. Pushed'
  <2>1. ASSUME NEW j \in DOMAIN toLane', NEW k \in DOMAIN toLane', j < k,
               IsEvent(toLane'[j]), IsEvent(toLane'[k])
        PROVE  events[toLane'[j].n].generation <= events[toLane'[k].n].generation
    <3>1. j \in DOMAIN toLane /\ toLane'[j] = toLane[j] /\ toLane[j].n \in Events
      BY <1>5, <1>7, <2>1
    <3>2. events[toLane[j].n].generation <= now.generation
      BY <1>2, <3>1 DEF Numbered, Gen
    <3>3. CASE k \in DOMAIN toLane /\ toLane'[k] = toLane[k]
      BY <2>1, <3>1, <3>3 DEF IInv, Pushed, Gen
    <3>4. CASE toLane'[k] = Event(l)
      BY <1>1, <1>4, <3>1, <3>2, <3>4 DEF Gen
    <3> QED BY <1>7, <2>1, <3>3, <3>4
  <2>2. ASSUME NEW j \in DOMAIN toLane', NEW k \in DOMAIN toLane', j < k,
               IsAnswer(toLane'[j]), IsEvent(toLane'[k])
        PROVE  toLane'[j].at.generation <= events[toLane'[k].n].generation
    <3>1. j \in DOMAIN toLane /\ toLane'[j] = toLane[j]
      BY <1>5, <1>7, <2>2
    <3>2. toLane[j].at.generation <= now.generation
      BY <2>2, <3>1 DEF IInv, Snaps, Parts
    <3>3. CASE k \in DOMAIN toLane /\ toLane'[k] = toLane[k]
      BY <2>2, <3>1, <3>3 DEF IInv, Pushed, Gen
    <3>4. CASE toLane'[k] = Event(l)
      BY <1>1, <1>4, <3>1, <3>2, <3>4 DEF Gen
    <3> QED BY <1>7, <2>2, <3>3, <3>4
  <2>3. DOMAIN armed' = {}
    BY <1>0, EmptyPositions
  <2> QED BY <1>0, <2>1, <2>2, <2>3 DEF Pushed, Gen, IsEvent, IsAnswer
<1>15. Answered'
  <2>1. \A j \in DOMAIN toLane' : IsAnswer(toLane'[j]) => j \in DOMAIN toLane /\ toLane'[j] = toLane[j]
    BY <1>4, <1>7 DEF IsAnswer
  <2>2. DOMAIN armed' = {}
    BY <1>0, EmptyPositions
  <2> QED BY <1>0, <2>1, <2>2 DEF IInv, Answered, IsAnswer
<1>16. Ascending' /\ ByOrder' /\ Filters'
  <2>1. Ascending'
    BY <1>0, <1>6 DEF IInv, Ascending, Filtered, HasSequence, Increasing
  <2>2. ByOrder'
    BY <1>6 DEF ByOrder
  <2>3. Filters'
    BY <1>0, <1>6 DEF IInv, Filters, Knows, HasSequence, Passed, Events, Gen, Num
  <2> QED BY <2>1, <2>2, <2>3
<1>17. BySequence'
  <2>1. SUFFICES ASSUME HasSequence, ~counts.rewound, counts.early = 0, lane.attached
                 PROVE  /\ lane.last >= 0
                        /\ \A n \in Events : Coming(n)' /\ Passed(n, shown, rendered) => Num(n) <= lane.last
    BY <1>0, <1>6 DEF BySequence, HasSequence, Passed, Events, Num
  <2>2. ASSUME NEW n \in Events, Coming(n)' PROVE Coming(n)
    <3>1. CASE Gen(n) = now.generation
      BY <3>1 DEF Coming
    <3>2. CASE \E k \in DOMAIN toLane' : IsEvent(toLane'[k]) /\ toLane'[k].n = n
      BY <1>1, <1>4, <1>7, <3>2 DEF Coming
    <3> QED BY <1>0, <2>2, <3>1, <3>2 DEF Coming, Gen, IsEvent
  <2> QED BY <2>1, <2>2 DEF IInv, BySequence
<1>18. Streams'
  <2> SUFFICES ASSUME counts.restarts = 0, ~lane.closed PROVE \E s \in 0..Len(events)' : Since(s)'
    BY <1>0, <1>6 DEF Streams
  <2>1. PICK s \in 0..Len(events) : Since(s)
    BY <1>0 DEF IInv, Streams
  <2>2. s \in 0..Len(events)' /\ s \in Nat /\ Events' = Events
    BY <1>0, <1>3 DEF Events
  <2>3. /\ \A n : Sent(n) => Sent(n)'
        /\ \A n, k : k \in DOMAIN toLane /\ Before(n, k) => Before(n, k)'
        /\ \A n, k : k = Len(toLane) + 1 /\ Sent(n) => Before(n, k)'
    BY <1>5, OntoSent
  <2>4. \A n : Seen(n)' <=> Seen(n)
    BY <1>0 DEF Seen
  <2>5. \A n \in Events : n > s => Seen(n)' \/ Sent(n)'
    BY <2>1, <2>3, <2>4 DEF Since
  <2>6. ASSUME NEW k \in DOMAIN toLane', NEW n \in Events,
               IsEvent(toLane'[k]), s < n, n < toLane'[k].n
        PROVE  Seen(n)' \/ Before(n, k)'
    <3>1. CASE k \in DOMAIN toLane /\ toLane'[k] = toLane[k]
      BY <2>1, <2>3, <2>4, <2>6, <3>1 DEF Since
    <3>2. CASE k = Len(toLane) + 1
      BY <2>1, <2>2, <1>3, <2>3, <2>4, <2>6, <3>2 DEF Since
    <3> QED BY <1>7, <2>6, <3>1, <3>2
  <2>7. ASSUME NEW k \in DOMAIN toLane', IsAnswer(toLane'[k])
        PROVE  s <= toLane'[k].n /\ \A n \in Events : s < n /\ n <= toLane'[k].n => Seen(n)' \/ Before(n, k)'
    <3>1. k \in DOMAIN toLane /\ toLane'[k] = toLane[k]
      BY <1>4, <1>7, <2>7 DEF IsAnswer
    <3> QED BY <2>1, <2>3, <2>4, <2>7, <3>1 DEF Since
  <2>8. lane.attached /\ Settled' => s <= base
    <3> SUFFICES ASSUME lane.attached, Settled' PROVE s <= base
      OBVIOUS
    <3>1. \A k \in DOMAIN toLane : ~IsAnswer(toLane[k])
      BY <1>5 DEF Settled, Onto, IsAnswer
    <3>2. Settled
      BY <1>0, <3>1 DEF Settled
    <3> QED BY <2>1, <3>2 DEF Since
  <2>9. DOMAIN armed' = {}
    BY <1>0, EmptyPositions
  <2>10. Since(s)'
    BY <1>0, <1>6, <2>1, <2>2, <2>5, <2>6, <2>7, <2>8, <2>9 DEF Since, IsEvent, IsAnswer, In
  <2> QED BY <2>2, <2>10
<1> QED BY <1>8, <1>9, <1>10, <1>11, <1>12, <1>13, <1>14, <1>15, <1>16, <1>17, <1>18 DEF IInv

-----------------------------------------------------------------------------
(* Steps that put no event and no answer on the socket, and leave the lane   *)
(* alone.                                                                    *)
Quiet ==
  /\ \A k \in DOMAIN toLane : k \in DOMAIN toLane' /\ toLane'[k] = toLane[k]
  /\ \A k \in DOMAIN toLane' : IsEvent(toLane'[k]) \/ IsAnswer(toLane'[k])
                               => k \in DOMAIN toLane /\ toLane'[k] = toLane[k]
  /\ UNCHANGED <<clock, events, armed, lane, shown, rendered, base>>

LEMMA QuietOrder ==
  ASSUME IInv, Quiet, counts'.replays = counts.replays, counts'.rewound = counts.rewound,
         counts'.early = 0 => counts.early = 0,
         \A n \in Events : Gen(n) = now'.generation => Gen(n) = now.generation,
         serving'.phase = "taken" => UNCHANGED serving \/ serving'.upTo = Len(events)
  PROVE  Pushed' /\ Answered' /\ Ascending' /\ BySequence' /\ ByOrder'
<1>1. UNCHANGED <<clock, events, armed, lane, shown, rendered, base>>
  BY DEF Quiet
<1>2. \A k \in DOMAIN toLane' : IsEvent(toLane'[k]) \/ IsAnswer(toLane'[k])
                                => k \in DOMAIN toLane /\ toLane'[k] = toLane[k]
  BY DEF Quiet
<1>3. Pushed'
  BY <1>1, <1>2 DEF IInv, Pushed, Gen, IsEvent, IsAnswer
<1>4. Answered'
  <2>1. serving'.phase = "taken" =>
          /\ base <= serving'.upTo
          /\ \A j \in DOMAIN armed : IsAnswer(armed[j]) => armed[j].n <= serving'.upTo
          /\ \A j \in DOMAIN toLane : IsAnswer(toLane[j]) => toLane[j].n <= serving'.upTo
    BY DEF IInv, Answered, Bounded
  <2> QED BY <1>1, <1>2, <2>1 DEF IInv, Answered, IsAnswer
<1>5. Ascending'
  BY <1>1 DEF IInv, Ascending, Filtered, HasSequence, Increasing
<1>6. BySequence'
  <2>1. SUFFICES ASSUME HasSequence, ~counts.rewound, counts.early = 0, lane.attached
                 PROVE  /\ lane.last >= 0
                        /\ \A n \in Events : Coming(n)' /\ Passed(n, shown, rendered) => Num(n) <= lane.last
    BY <1>1 DEF BySequence, HasSequence, Passed, Events, Num
  <2>2. ASSUME NEW n \in Events, Coming(n)' PROVE Coming(n)
    <3>1. CASE \E k \in DOMAIN toLane' : IsEvent(toLane'[k]) /\ toLane'[k].n = n
      BY <1>2, <3>1 DEF Coming
    <3>2. CASE Gen(n) = now'.generation
      BY <3>2 DEF Coming
    <3> QED BY <1>1, <2>2, <3>1, <3>2 DEF Coming, Gen, IsEvent
  <2> QED BY <2>1, <2>2 DEF IInv, BySequence
<1>7. ByOrder'
  BY <1>1, <1>2 DEF IInv, ByOrder, Increasing, IsEvent, IsAnswer
<1> QED BY <1>3, <1>4, <1>5, <1>6, <1>7

LEMMA QuietSince ==
  ASSUME Quiet, counts'.drops = counts.drops, NEW s, Since(s),
         serving'.phase = "taken" => s <= serving'.upTo,
         lane.attached /\ Settled' => s <= base
  PROVE  Since(s)'
<1>1. UNCHANGED <<clock, events, armed, lane, shown, rendered, base>>
  BY DEF Quiet
<1>2. /\ \A k \in DOMAIN toLane' : IsEvent(toLane'[k]) \/ IsAnswer(toLane'[k])
                                   => k \in DOMAIN toLane /\ toLane'[k] = toLane[k]
      /\ \A k \in DOMAIN toLane : k \in DOMAIN toLane' /\ toLane'[k] = toLane[k]
  BY DEF Quiet
<1>3. Events' = Events /\ \A n : Seen(n)' <=> Seen(n)
  BY <1>1 DEF Events, Seen
<1>4. /\ \A n : Sent(n)' <=> Sent(n)
      /\ \A n, k : Before(n, k)' <=> Before(n, k)
  BY <1>2 DEF Sent, Before, IsEvent
<1>5. /\ \A n \in Events : n > s => Seen(n)' \/ Sent(n)'
      /\ \A k \in DOMAIN toLane', n \in Events :
           IsEvent(toLane'[k]) /\ s < n /\ n < toLane'[k].n => Seen(n)' \/ Before(n, k)'
      /\ \A k \in DOMAIN toLane' : IsAnswer(toLane'[k]) => s <= toLane'[k].n
      /\ \A k \in DOMAIN toLane', n \in Events :
           IsAnswer(toLane'[k]) /\ s < n /\ n <= toLane'[k].n => Seen(n)' \/ Before(n, k)'
  BY <1>2, <1>3, <1>4 DEF Since
<1>6. /\ \A k \in DOMAIN armed :
           IsAnswer(armed[k]) => s <= armed[k].n /\ \A n \in Events : s < n /\ n <= armed[k].n => Seen(n)'
      /\ \A n \in Events : s < n /\ n <= base => In(n, shown)
      /\ \A i \in DOMAIN shown, n \in Events : s < n /\ n < shown[i] => In(n, shown)
      /\ \A i \in DOMAIN lane.buffered, n \in Events :
           s < n /\ n < lane.buffered[i] => \E j \in DOMAIN lane.buffered : j < i /\ lane.buffered[j] = n
      /\ lane.attached /\ counts'.drops = 0 => s <= rendered
  BY <1>3 DEF Since
<1> QED BY <1>1, <1>3, <1>5, <1>6 DEF Since, IsEvent, IsAnswer, In

LEMMA QuietSnaps ==
  ASSUME IInv, Quiet, \A k \in Nat : \A at : k <= Len(events) /\ Parts(k, at) => Parts(k, at)',
         serving'.phase = "taken" => UNCHANGED serving \/ Parts(serving.upTo, serving.at)'
  PROVE  Snaps'
<1>1. Typed /\ Bounded /\ Snaps
  BY DEF IInv
<1>2. \A j \in DOMAIN toLane' : IsAnswer(toLane'[j]) => \E i \in DOMAIN toLane : toLane'[j] = toLane[i]
  BY DEF Quiet
<1>3. \A j \in DOMAIN armed' : \E i \in DOMAIN armed : armed'[j] = armed[i]
  BY DEF Quiet
<1> QED BY <1>1, <1>2, <1>3, SnapsKept

(* A replaced worker: a new generation, whose sequence goes on or starts over. *)
LEMMA ReplacesStep == ASSUME IInv, Replaces PROVE IInv'
<1>0. /\ UNCHANGED <<asks, armed, lane, shown, rendered, base, clock, events, seated, serving, wire, toDaemon>>
      /\ armed = <<>> /\ now.generation < MaxGens /\ Push(Replaced)
  BY DEF Replaces, LaneRests
<1>1. PICK s \in {0, now.sequence} :
        /\ now' = [generation |-> now.generation + 1, sequence |-> s]
        /\ counts' = [counts EXCEPT !.restarts = @ + (IF s < now.sequence THEN 1 ELSE 0),
                                    !.early = @ + (IF lane.attached THEN 0 ELSE 1)]
  BY DEF Replaces
<1>2. Typed /\ Bounded /\ Numbered
  BY DEF IInv
<1>3. /\ Len(events) \in Nat /\ now \in Cursors /\ now.generation \in 1..MaxGens
      /\ now.generation \in Nat /\ now.sequence \in Nat /\ now.sequence \in 0..MaxEvents
      /\ \A n \in Events : n \in Nat /\ Gen(n) \in Nat /\ Num(n) \in Nat
      /\ \A c \in Cursors : c.generation \in Nat /\ c.sequence \in Nat
  BY <1>2, EventTypes
<1>4. Replaced \in Messages /\ ~IsEvent(Replaced) /\ ~IsAnswer(Replaced) /\ Replaced.type # "attach"
      /\ Replaced.n = 0
  BY DEF Replaced, Messages, MessageTypes, Points, IsEvent, IsAnswer
<1>5. Onto(Replaced) /\ (~seated => toLane' = toLane)
  BY <1>0, <1>2, <1>4, PushLands
<1> DEFINE r == IF s < now.sequence THEN 1 ELSE 0
           e == IF lane.attached THEN 0 ELSE 1
<1>c. counts' = [counts EXCEPT !.restarts = @ + r, !.early = @ + e]
  BY <1>1
<1>p. /\ r \in {0, 1} /\ (r = 0 => ~(s < now.sequence))
      /\ e \in {0, 1} /\ (e = 0 => lane.attached)
  OBVIOUS
<1> HIDE DEF r, e
<1>6. /\ counts' \in Tallies /\ counts'.drops = counts.drops /\ counts'.replays = counts.replays
      /\ counts'.rewound = counts.rewound
      /\ counts'.restarts = counts.restarts + r /\ counts'.early = counts.early + e
      /\ counts.restarts \in Nat /\ counts.early \in Nat
  <2>1. counts \in Tallies
    BY <1>2 DEF Typed
  <2>2. counts.restarts \in Nat /\ counts.early \in Nat /\ r \in Nat /\ e \in Nat
    BY <1>p, <2>1 DEF Tallies
  <2>3. counts.restarts + r \in Nat /\ counts.early + e \in Nat
    BY <2>2
  <2>4. /\ counts'.drops = counts.drops /\ counts'.replays = counts.replays
        /\ counts'.rewound = counts.rewound
        /\ counts'.restarts = counts.restarts + r /\ counts'.early = counts.early + e
    BY <1>c, <2>1 DEF Tallies
  <2>5. counts' \in Tallies
    BY <1>c, <2>1, <2>3 DEF Tallies
  <2> QED BY <2>2, <2>4, <2>5
<1>7. /\ now' \in Cursors /\ now'.generation = now.generation + 1 /\ now'.sequence = s
      /\ s \in Nat /\ s <= now.sequence /\ now'.generation # 1
  <2>1. s \in 0..MaxEvents /\ now.generation + 1 \in 1..MaxGens
    BY <1>0, <1>3, BoundsAssumption
  <2> QED BY <1>1, <1>3, <2>1 DEF Cursors
<1>8. Quiet
  BY <1>0, <1>4, <1>5 DEF Quiet, Onto
<1>9. counts'.restarts = 0 => counts.restarts = 0 /\ s = now.sequence
  <2> SUFFICES ASSUME counts'.restarts = 0 PROVE counts.restarts = 0 /\ s = now.sequence
    OBVIOUS
  <2>1. counts.restarts = 0 /\ r = 0
    BY <1>6, <1>p
  <2>2. ~(s < now.sequence)
    BY <1>p, <2>1
  <2> QED BY <1>3, <1>7, <2>1, <2>2
<1>10. counts'.early = 0 => counts.early = 0 /\ lane.attached
  <2> SUFFICES ASSUME counts'.early = 0 PROVE counts.early = 0 /\ lane.attached
    OBVIOUS
  <2>1. counts.early = 0 /\ e = 0
    BY <1>6, <1>p
  <2> QED BY <1>p, <2>1
<1>11. \A n \in Events : Gen(n) <= now.generation /\ Gen(n) # now'.generation
  BY <1>2, <1>3, <1>7 DEF Numbered
<1>12. Typed'
  BY <1>0, <1>2, <1>5, <1>6, <1>7 DEF Typed, Onto
<1>13. Bounded'
  <2>1. \A k \in DOMAIN toLane' :
          toLane'[k].n <= Len(events) /\ (IsEvent(toLane'[k]) => toLane'[k].n # 0)
    BY <1>2, <1>3, <1>4, <1>5 DEF Bounded, Onto
  <2>2. now'.sequence <= Len(events)
    BY <1>2, <1>3, <1>7 DEF Bounded
  <2> QED BY <1>0, <1>2, <2>1, <2>2 DEF Bounded, Events, IsEvent, IsAnswer
<1>14. Counted'
  <2>1. toLane \in Seq(Messages)
    BY <1>2 DEF Typed
  <2>2. Cardinality(Awaited(toLane')) = Cardinality(Awaited(toLane))
    BY <1>0, <1>4, <2>1, AwaitedMore, AwaitedNumber DEF Push
  <2> QED BY <1>0, <2>2 DEF IInv, Counted, Working, Awaited
<1>15. Phased'
  BY <1>0, <1>4, <1>5, <1>6 DEF IInv, Phased, Onto, IsEvent, IsAnswer
<1>16. Numbered'
  <2>1. \A m, n \in Events : m < n => Gen(m) <= Gen(n) /\ (Gen(m) = Gen(n) => Num(m) < Num(n))
    BY <1>2 DEF Numbered
  <2>2. counts'.restarts = 0 => /\ \A m, n \in Events : m < n => Num(m) < Num(n)
                                /\ \A n \in Events : Num(n) <= now'.sequence
    BY <1>2, <1>7, <1>9 DEF Numbered
  <2>3. \A n \in Events : Gen(n) <= now'.generation
    BY <1>3, <1>7, <1>11
  <2> QED BY <1>0, <1>7, <1>10, <1>11, <2>1, <2>2, <2>3 DEF Numbered, Events, Gen, Num
<1>17. Snaps'
  <2>1. ASSUME NEW k \in Nat, NEW at, Parts(k, at) PROVE Parts(k, at)'
    <3>1. at \in Cursors /\ at.generation \in Nat /\ at.generation <= now.generation
      BY <1>3, <2>1 DEF Parts
    <3>2. at.generation <= now'.generation /\ at.generation # now'.generation
      BY <1>3, <1>7, <3>1
    <3>3. counts'.restarts = 0 => at.sequence <= now'.sequence
      BY <1>7, <1>9, <2>1 DEF Parts
    <3>4. \A n \in Events :
            /\ n <= k => Gen(n) <= at.generation /\ (Gen(n) = at.generation => Num(n) <= at.sequence)
            /\ n > k => Gen(n) >= at.generation /\ (Gen(n) = at.generation => Num(n) > at.sequence)
            /\ counts'.restarts = 0 /\ n > k => Num(n) > at.sequence
      BY <1>9, <2>1 DEF Parts
    <3> QED BY <1>0, <3>1, <3>2, <3>3, <3>4 DEF Parts, Events, Gen, Num
  <2> QED BY <1>0, <1>8, <2>1, QuietSnaps
<1>18. Pushed' /\ Answered' /\ Ascending' /\ BySequence' /\ ByOrder'
  BY <1>0, <1>6, <1>8, <1>10, <1>11, QuietOrder
<1>19. Filters'
  <2> SUFFICES ASSUME lane.attached, counts'.restarts = 0 PROVE Knows(lane, shown, base)'
    BY <1>0 DEF Filters
  <2>1. Knows(lane, shown, base)
    BY <1>9 DEF IInv, Filters
  <2>2. now'.sequence = now.sequence
    BY <1>7, <1>9
  <2>3. lane.boundary # NoCursor =>
          lane.boundary.generation <= now'.generation /\ lane.boundary.generation # now'.generation
    <3>1. SUFFICES ASSUME lane.boundary # NoCursor
                   PROVE  lane.boundary.generation <= now'.generation
                          /\ lane.boundary.generation # now'.generation
      OBVIOUS
    <3>2. lane.boundary \in Cursors /\ lane.boundary.generation <= now.generation
      BY <1>2, <2>1, <3>1, Records DEF Points, Knows
    <3> QED BY <1>3, <1>7, <3>2
  <2> QED BY <1>0, <2>1, <2>2, <2>3 DEF Knows, HasSequence, Passed, Events, Gen, Num
<1>20. Streams'
  <2> SUFFICES ASSUME counts'.restarts = 0, ~lane.closed, seated PROVE \E b \in 0..Len(events)' : Since(b)'
    BY <1>0 DEF Streams
  <2>1. PICK b \in 0..Len(events) : Since(b)
    BY <1>9 DEF IInv, Streams
  <2>2. lane.attached /\ Settled' => b <= base
    <3> SUFFICES ASSUME lane.attached, Settled' PROVE b <= base
      OBVIOUS
    <3>1. Settled
      BY <1>0, <1>8 DEF Settled, Quiet, IsAnswer
    <3> QED BY <2>1, <3>1 DEF Since
  <2>3. Since(b)'
    <3>1. serving'.phase = "taken" => b <= serving'.upTo
      BY <1>0, <2>1 DEF Since
    <3> QED BY <1>6, <1>8, <2>1, <2>2, <3>1, QuietSince
  <2> QED BY <1>0, <2>3
<1> QED BY <1>12, <1>13, <1>14, <1>15, <1>16, <1>17, <1>18, <1>19, <1>20 DEF IInv

-----------------------------------------------------------------------------
(* The daemon seats the client, takes the snapshot, answers, or refuses. *)
LEMMA SeatsStep == ASSUME IInv, Seats PROVE IInv'
<1>0. /\ UNCHANGED <<asks, armed, lane, shown, rendered, base, clock, events, now, wire, toLane, counts>>
      /\ armed = <<>> /\ wire = "up" /\ serving.phase = "none" /\ toDaemon # <<>>
      /\ serving' = [phase |-> "seated", reason |-> Head(toDaemon), upTo |-> 0, at |-> NoCursor]
      /\ toDaemon' = Tail(toDaemon) /\ seated' = TRUE
  BY DEF Seats, LaneRests, DaemonActs
<1>2. Typed /\ Bounded /\ Numbered /\ Phased
  BY DEF IInv
<1>3. toDaemon \in Seq(Reasons) /\ Head(toDaemon) \in Reasons /\ toDaemon' \in Seq(Reasons)
      /\ Len(toDaemon') = Len(toDaemon) - 1 /\ Len(toDaemon) \in Nat
  BY <1>0, <1>2, HeadTailProperties, LenProperties DEF Typed
<1>4. serving'.phase = "seated" /\ serving'.upTo = 0 /\ serving' \in Servings
  BY <1>0, <1>3 DEF Servings, Points
<1>5. Quiet
  BY <1>0 DEF Quiet
<1>6. Events' = Events /\ Len(events) \in Nat
  BY <1>0, <1>2, EventTypes DEF Events
<1>7. Typed'
  BY <1>0, <1>2, <1>3, <1>4 DEF Typed
<1>8. Bounded'
  BY <1>0, <1>2, <1>4, <1>6 DEF Bounded, IsEvent, IsAnswer
<1>9. Counted'
  <2>1. toLane \in Seq(Messages)
    BY <1>2 DEF Typed
  <2>2. Cardinality(Awaited(toLane)) \in Nat /\ Awaited(toLane)' = Awaited(toLane)
    BY <1>0, <2>1, AwaitedNumber DEF Awaited
  <2>3. Working = 0 /\ Working' = 1
    BY <1>0, <1>4 DEF Working
  <2>4. Len(asks) = Len(toDaemon) + 0 + Cardinality(Awaited(toLane)) /\ Len(armed') = 0
    BY <1>0, <1>3, <2>3, EmptySeq DEF IInv, Counted
  <2> QED BY <1>0, <1>3, <2>2, <2>3, <2>4 DEF Counted
<1>10. Phased'
  BY <1>0, <1>2 DEF Phased
<1>11. Numbered'
  BY <1>0, <1>2 DEF Numbered, Events, Gen, Num
<1>12. Snaps'
  <2>1. ASSUME NEW k \in Nat, NEW at, Parts(k, at) PROVE Parts(k, at)'
    BY <1>0, <2>1 DEF Parts, Events, Gen, Num
  <2> QED BY <1>4, <1>5, <2>1, QuietSnaps
<1>13. Pushed' /\ Answered' /\ Ascending' /\ BySequence' /\ ByOrder'
  BY <1>0, <1>4, <1>5, QuietOrder
<1>14. Filters'
  BY <1>0 DEF IInv, Filters, Knows, HasSequence, Passed, Events, Gen, Num
<1>15. Streams'
  <2> SUFFICES ASSUME counts.restarts = 0, ~lane.closed PROVE \E s \in 0..Len(events) : Since(s)'
    BY <1>0 DEF Streams
  <2>0. ~Settled'
    BY <1>4 DEF Settled
  <2>1. CASE seated
    <3>1. PICK s \in 0..Len(events) : Since(s)
      BY <2>1 DEF IInv, Streams
    <3>2. Since(s)'
      BY <1>0, <1>4, <1>5, <2>0, <3>1, QuietSince
    <3> QED BY <3>2
  <2>2. CASE ~seated
    <3>1. PICK s \in 0..Len(events) : s = Len(events)
      BY <1>6
    <3>2. /\ \A n \in Events' : ~(n > s) /\ n \in Nat
          /\ \A k \in DOMAIN toLane' : ~IsEvent(toLane'[k]) /\ ~IsAnswer(toLane'[k])
          /\ lane'.attached => counts'.drops # 0
      <4>1. counts.drops \in Nat
        BY <1>2 DEF Typed, Tallies
      <4>2. \A n \in Events : n \in Nat /\ ~(n > s)
        BY <1>6, <3>1 DEF Events
      <4> QED BY <1>0, <1>2, <1>6, <2>2, <4>1, <4>2 DEF Phased
    <3>3. DOMAIN armed' = {}
      BY <1>0, EmptyPositions
    <3>4. \A n \in Events' : ~(s < n)
      BY <3>1, <3>2, <1>6
    <3>5. Since(s)'
      BY <1>4, <2>0, <3>2, <3>3, <3>4 DEF Since, IsEvent, IsAnswer
    <3> QED BY <3>5
  <2> QED BY <2>1, <2>2
<1> QED BY <1>7, <1>8, <1>9, <1>10, <1>11, <1>12, <1>13, <1>14, <1>15 DEF IInv

LEMMA SnapshotsStep == ASSUME IInv, Snapshots PROVE IInv'
<1>0. /\ UNCHANGED <<asks, armed, lane, shown, rendered, base, clock, events, now, seated, wire, toDaemon, toLane, counts>>
      /\ armed = <<>> /\ wire = "up" /\ serving.phase = "seated"
      /\ serving' = [serving EXCEPT !.phase = "taken", !.upTo = Len(events), !.at = now]
  BY DEF Snapshots, LaneRests, DaemonActs, net
<1>2. Typed /\ Bounded /\ Numbered /\ Phased
  BY DEF IInv
<1>3. /\ Len(events) \in Nat /\ now \in Cursors /\ now \in Points
      /\ \A n \in Events : n \in Nat /\ n <= Len(events)
      /\ now.generation \in Nat /\ now.sequence \in Nat
  <2>1. \A n \in Events : n \in Nat /\ n <= Len(events)
    BY <1>2, EventTypes DEF Events
  <2> QED BY <1>2, <2>1, EventTypes DEF Points
<1>4. serving'.phase = "taken" /\ serving'.upTo = Len(events) /\ serving'.at = now /\ serving' \in Servings
  BY <1>0, <1>2, <1>3 DEF Typed, Servings
<1>5. Quiet
  BY <1>0 DEF Quiet
<1>7. Typed'
  BY <1>0, <1>2, <1>4 DEF Typed
<1>8. Bounded'
  BY <1>0, <1>2, <1>3, <1>4 DEF Bounded, IsEvent, IsAnswer, Events
<1>9. Counted'
  <2>1. Working = 1 /\ Working' = 1
    BY <1>0, <1>4 DEF Working
  <2> QED BY <1>0, <2>1 DEF IInv, Counted, Awaited
<1>10. Phased'
  BY <1>0, <1>2 DEF Phased
<1>11. Numbered'
  BY <1>0, <1>2 DEF Numbered, Events, Gen, Num
<1>12. Snaps'
  <2>1. ASSUME NEW k \in Nat, NEW at, Parts(k, at) PROVE Parts(k, at)'
    BY <1>0, <2>1 DEF Parts, Events, Gen, Num
  <2>2. Parts(Len(events), now)
    <3>1. \A n \in Events : ~(n > Len(events))
      BY <1>3
    <3> QED BY <1>2, <1>3, <3>1 DEF Parts, Numbered
  <2>3. PICK k, at : k \in Nat /\ k = Len(events) /\ at = now
    BY <1>3
  <2>4. Parts(k, at)'
    BY <2>1, <2>2, <2>3
  <2>5. Parts(serving.upTo, serving.at)'
    BY <1>4, <2>3, <2>4 DEF Parts
  <2> QED BY <1>5, <2>1, <2>5, QuietSnaps
<1>13. Pushed' /\ Answered' /\ Ascending' /\ BySequence' /\ ByOrder'
  BY <1>0, <1>4, <1>5, QuietOrder
<1>14. Filters'
  BY <1>0 DEF IInv, Filters, Knows, HasSequence, Passed, Events, Gen, Num
<1>15. Streams'
  <2> SUFFICES ASSUME counts.restarts = 0, ~lane.closed, seated PROVE \E s \in 0..Len(events) : Since(s)'
    BY <1>0 DEF Streams
  <2>1. PICK s \in 0..Len(events) : Since(s)
    BY DEF IInv, Streams
  <2>2. ~Settled'
    BY <1>4 DEF Settled
  <2>3. s <= serving'.upTo
    BY <1>3, <1>4
  <2>4. Since(s)'
    BY <1>0, <1>5, <2>1, <2>2, <2>3, QuietSince
  <2> QED BY <2>4
<1> QED BY <1>7, <1>8, <1>9, <1>10, <1>11, <1>12, <1>13, <1>14, <1>15 DEF IInv

LEMMA RefusesStep == ASSUME IInv, Refuses PROVE IInv'
<1>0. /\ UNCHANGED <<asks, armed, lane, shown, rendered, base, clock, events, now, seated, serving, wire>>
      /\ armed = <<>> /\ wire = "up" /\ serving.phase = "none" /\ toDaemon # <<>>
      /\ counts' = [counts EXCEPT !.refusals = @ + 1] /\ toDaemon' = Tail(toDaemon)
      /\ toLane' = Append(toLane, Attached(0, FALSE, NoCursor))
  BY DEF Refuses, LaneRests, DaemonActs, daemon
<1> DEFINE m == Attached(0, FALSE, NoCursor)
<1>2. Typed /\ Bounded /\ Numbered /\ Phased
  BY DEF IInv
<1>3. toDaemon \in Seq(Reasons) /\ toDaemon' \in Seq(Reasons)
      /\ Len(toDaemon') = Len(toDaemon) - 1 /\ Len(toDaemon) \in Nat
  BY <1>0, <1>2, HeadTailProperties, LenProperties DEF Typed
<1>4. m \in Messages /\ ~IsEvent(m) /\ ~IsAnswer(m) /\ m.type = "attach" /\ m.n = 0
  BY DEF Attached, Messages, MessageTypes, Points, IsEvent, IsAnswer
<1>5. Onto(m) /\ toLane' = Append(toLane, m)
  BY <1>0, <1>2, <1>4, AppendLands DEF Lands
<1> HIDE DEF m
<1>6. /\ counts' \in Tallies /\ counts'.drops = counts.drops /\ counts'.replays = counts.replays
      /\ counts'.rewound = counts.rewound /\ counts'.restarts = counts.restarts
      /\ counts'.early = counts.early
  <2>1. counts \in Tallies
    BY <1>2 DEF Typed
  <2> QED BY <1>0, <2>1 DEF Tallies
<1>7. Quiet
  BY <1>0, <1>4, <1>5 DEF Quiet, Onto
<1>8. Typed'
  BY <1>0, <1>2, <1>3, <1>5, <1>6 DEF Typed, Onto
<1>9. Bounded'
  <2>1. Len(events) \in Nat
    BY <1>2, EventTypes
  <2>2. \A k \in DOMAIN toLane' :
          toLane'[k].n <= Len(events) /\ (IsEvent(toLane'[k]) => toLane'[k].n # 0)
    BY <1>2, <1>4, <1>5, <2>1 DEF Bounded, Onto
  <2> QED BY <1>0, <1>2, <2>2 DEF Bounded, Events, IsEvent, IsAnswer
<1>10. Counted'
  <2>1. toLane \in Seq(Messages)
    BY <1>2 DEF Typed
  <2>2. Cardinality(Awaited(toLane')) = Cardinality(Awaited(toLane)) + 1
        /\ Cardinality(Awaited(toLane)) \in Nat
    BY <1>4, <1>5, <2>1, AwaitedMore, AwaitedNumber
  <2>3. Working = 0 /\ Working' = 0
    BY <1>0 DEF Working
  <2>4. Len(asks) = Len(toDaemon) + 0 + Cardinality(Awaited(toLane)) /\ Len(armed') = 0
    BY <1>0, <1>3, <2>3, EmptySeq DEF IInv, Counted
  <2>5. asks' = asks
    BY <1>0
  <2> QED BY <1>3, <2>2, <2>3, <2>4, <2>5 DEF Counted, Awaited
<1>11. Phased'
  BY <1>0, <1>2, <1>4, <1>5, <1>6 DEF Phased, Onto, IsEvent, IsAnswer
<1>12. Numbered'
  BY <1>0, <1>2, <1>6 DEF Numbered, Events, Gen, Num
<1>13. Snaps'
  <2>1. ASSUME NEW k \in Nat, NEW at, Parts(k, at) PROVE Parts(k, at)'
    BY <1>0, <1>6, <2>1 DEF Parts, Events, Gen, Num
  <2> QED BY <1>0, <1>7, <2>1, QuietSnaps
<1>14. Pushed' /\ Answered' /\ Ascending' /\ BySequence' /\ ByOrder'
  BY <1>0, <1>6, <1>7, QuietOrder
<1>15. Filters'
  BY <1>0, <1>6 DEF IInv, Filters, Knows, HasSequence, Passed, Events, Gen, Num
<1>16. Streams'
  <2> SUFFICES ASSUME counts.restarts = 0, ~lane.closed, seated PROVE \E s \in 0..Len(events) : Since(s)'
    BY <1>0, <1>6 DEF Streams
  <2>1. PICK s \in 0..Len(events) : Since(s)
    BY DEF IInv, Streams
  <2>2. lane.attached /\ Settled' => s <= base
    <3> SUFFICES ASSUME lane.attached, Settled' PROVE s <= base
      OBVIOUS
    <3>1. Settled
      BY <1>0, <1>7 DEF Settled, Quiet, IsAnswer
    <3> QED BY <2>1, <3>1 DEF Since
  <2>3. serving'.phase = "taken" => s <= serving'.upTo
    BY <1>0, <2>1 DEF Since
  <2>4. Since(s)'
    BY <1>6, <1>7, <2>1, <2>2, <2>3, QuietSince
  <2> QED BY <2>4
<1> QED BY <1>8, <1>9, <1>10, <1>11, <1>12, <1>13, <1>14, <1>15, <1>16 DEF IInv

LEMMA AnswersStep == ASSUME IInv, Answers PROVE IInv'
<1>0. /\ UNCHANGED <<asks, armed, lane, shown, rendered, base, clock, events, now, seated, wire, toDaemon, counts>>
      /\ armed = <<>> /\ wire = "up" /\ serving.phase = "taken"
      /\ serving' = [serving EXCEPT !.phase = "none"]
      /\ toLane' = Append(toLane, Attached(serving.upTo, TRUE, serving.at))
  BY DEF Answers, LaneRests, DaemonActs
<1>2. Typed /\ Bounded /\ Numbered /\ Phased
  BY DEF IInv
<1>1. PICK m : m = Attached(serving.upTo, TRUE, serving.at)
  OBVIOUS
<1>3. serving'.phase = "none" /\ serving'.upTo = serving.upTo /\ serving' \in Servings
      /\ serving.upTo \in Nat /\ serving.at \in Points /\ serving.upTo <= Len(events)
  BY <1>0, <1>2 DEF Typed, Servings, Bounded
<1>4. m \in Messages /\ ~IsEvent(m) /\ IsAnswer(m) /\ m.type = "attach" /\ m.n = serving.upTo
      /\ m.at = serving.at
  BY <1>1, <1>3 DEF Attached, Messages, MessageTypes, IsEvent, IsAnswer
<1>5. Onto(m) /\ Lands(m) /\ toLane' = Append(toLane, m) /\ Len(toLane) \in Nat
  BY <1>0, <1>1, <1>2, <1>4, AppendLands DEF Lands
<1>6. \A j \in DOMAIN toLane' :
        \/ j \in DOMAIN toLane /\ j \in Nat /\ j <= Len(toLane) /\ toLane'[j] = toLane[j]
        \/ j = Len(toLane) + 1 /\ toLane'[j] = m
  BY <1>5 DEF Onto
<1>7. \A j \in DOMAIN toLane' : IsEvent(toLane'[j]) => j \in DOMAIN toLane /\ toLane'[j] = toLane[j]
  BY <1>4, <1>6
<1>8. Typed'
  BY <1>0, <1>2, <1>3, <1>5 DEF Typed, Onto
<1>9. Bounded'
  <2>1. \A k \in DOMAIN toLane' :
          toLane'[k].n <= Len(events) /\ (IsEvent(toLane'[k]) => toLane'[k].n # 0)
    BY <1>2, <1>3, <1>4, <1>6 DEF Bounded
  <2> QED BY <1>0, <1>2, <1>3, <2>1 DEF Bounded, Events, IsEvent, IsAnswer
<1>10. Counted'
  <2>1. toLane \in Seq(Messages)
    BY <1>2 DEF Typed
  <2>2. Cardinality(Awaited(toLane')) = Cardinality(Awaited(toLane)) + 1
        /\ Cardinality(Awaited(toLane)) \in Nat
    BY <1>4, <1>5, <2>1, AwaitedMore, AwaitedNumber
  <2>3. Working = 1 /\ Working' = 0
    BY <1>0, <1>3 DEF Working
  <2>4. Len(toDaemon) \in Nat
    BY <1>2, LenProperties DEF Typed
  <2>5. Len(asks) = Len(toDaemon) + 1 + Cardinality(Awaited(toLane)) /\ Len(armed') = 0
    BY <1>0, <2>3, <2>4, EmptySeq DEF IInv, Counted
  <2>6. asks' = asks /\ toDaemon' = toDaemon
    BY <1>0
  <2> QED BY <2>2, <2>3, <2>4, <2>5, <2>6 DEF Counted, Awaited
<1>11. Phased'
  BY <1>0, <1>2, <1>3 DEF Phased
<1>12. Numbered'
  BY <1>0, <1>2 DEF Numbered, Events, Gen, Num
<1>13. Snaps'
  <2>1. ASSUME NEW k \in Nat, NEW at, Parts(k, at) PROVE Parts(k, at)'
    BY <1>0, <2>1 DEF Parts, Events, Gen, Num
  <2>2. \A j \in DOMAIN toLane' : IsAnswer(toLane'[j]) =>
          \/ \E i \in DOMAIN toLane : toLane'[j] = toLane[i]
          \/ serving.phase = "taken" /\ toLane'[j].n = serving.upTo /\ toLane'[j].at = serving.at
    BY <1>0, <1>4, <1>6
  <2>3. DOMAIN armed' = {}
    BY <1>0, EmptyPositions
  <2> QED BY <1>2, <1>3, <2>1, <2>2, <2>3, SnapsKept DEF IInv
<1>14. Pushed'
  <2>1. ASSUME NEW j \in DOMAIN toLane', NEW k \in DOMAIN toLane', j < k, IsEvent(toLane'[k])
        PROVE  /\ j \in DOMAIN toLane /\ toLane'[j] = toLane[j]
               /\ k \in DOMAIN toLane /\ toLane'[k] = toLane[k]
    BY <1>5, <1>6, <1>7, <2>1
  <2>2. DOMAIN armed' = {}
    BY <1>0, EmptyPositions
  <2>3. /\ \A j, k \in DOMAIN toLane' :
             j < k /\ IsEvent(toLane'[j]) /\ IsEvent(toLane'[k]) => Gen(toLane'[j].n) <= Gen(toLane'[k].n)
        /\ \A j, k \in DOMAIN toLane' :
             j < k /\ IsAnswer(toLane'[j]) /\ IsEvent(toLane'[k])
             => toLane'[j].at.generation <= Gen(toLane'[k].n)
    BY <2>1 DEF IInv, Pushed
  <2> QED BY <1>0, <2>2, <2>3 DEF Pushed, Gen, IsEvent, IsAnswer
<1>15. Answered'
  <2>1. /\ base <= serving.upTo
        /\ \A j \in DOMAIN toLane : IsAnswer(toLane[j]) => toLane[j].n <= serving.upTo
    BY <1>0 DEF IInv, Answered
  <2>2. \A i, j \in DOMAIN toLane' :
          i < j /\ IsAnswer(toLane'[i]) /\ IsAnswer(toLane'[j]) => toLane'[i].n <= toLane'[j].n
    <3> SUFFICES ASSUME NEW i \in DOMAIN toLane', NEW j \in DOMAIN toLane', i < j,
                        IsAnswer(toLane'[i]), IsAnswer(toLane'[j])
                 PROVE  toLane'[i].n <= toLane'[j].n
      OBVIOUS
    <3>1. i \in DOMAIN toLane /\ toLane'[i] = toLane[i]
      BY <1>5, <1>6
    <3> QED BY <1>4, <1>6, <2>1, <3>1 DEF IInv, Answered
  <2>3. \A j \in DOMAIN toLane' : IsAnswer(toLane'[j]) => base <= toLane'[j].n
    BY <1>4, <1>6, <2>1 DEF IInv, Answered
  <2>4. DOMAIN armed' = {}
    BY <1>0, EmptyPositions
  <2> QED BY <1>0, <1>3, <2>2, <2>3, <2>4 DEF Answered, IsAnswer
<1>16. Ascending' /\ Filters'
  <2>1. Ascending'
    BY <1>0 DEF IInv, Ascending, Filtered, HasSequence, Increasing
  <2>2. Filters'
    BY <1>0 DEF IInv, Filters, Knows, HasSequence, Passed, Events, Gen, Num
  <2> QED BY <2>1, <2>2
<1>17. BySequence'
  <2>1. SUFFICES ASSUME HasSequence, ~counts.rewound, counts.early = 0, lane.attached
                 PROVE  /\ lane.last >= 0
                        /\ \A n \in Events : Coming(n)' /\ Passed(n, shown, rendered) => Num(n) <= lane.last
    BY <1>0 DEF BySequence, HasSequence, Passed, Events, Num
  <2>2. ASSUME NEW n \in Events, Coming(n)' PROVE Coming(n)
    BY <1>0, <1>7, <2>2 DEF Coming, Gen, IsEvent
  <2> QED BY <2>1, <2>2 DEF IInv, BySequence
<1>18. ByOrder'
  <2> SUFFICES ASSUME counts.replays = 0 PROVE ByOrder'
    BY <1>0 DEF ByOrder
  <2>0. ByOrder
    BY DEF IInv
  <2>1. ASSUME NEW j \in DOMAIN toLane', NEW k \in DOMAIN toLane', j < k, IsEvent(toLane'[k])
        PROVE  /\ j \in DOMAIN toLane /\ toLane'[j] = toLane[j]
               /\ k \in DOMAIN toLane /\ toLane'[k] = toLane[k]
    BY <1>5, <1>6, <1>7, <2>1
  <2>2. DOMAIN armed' = {}
    BY <1>0, EmptyPositions
  <2>3. /\ \A j, k \in DOMAIN toLane' :
             j < k /\ IsEvent(toLane'[j]) /\ IsEvent(toLane'[k]) => toLane'[j].n < toLane'[k].n
        /\ \A j, k \in DOMAIN toLane' :
             j < k /\ IsAnswer(toLane'[j]) /\ IsEvent(toLane'[k]) => toLane'[j].n < toLane'[k].n
    BY <2>0, <2>1 DEF ByOrder
  <2>4. /\ \A i \in DOMAIN shown, k \in DOMAIN toLane' : IsEvent(toLane'[k]) => shown[i] < toLane'[k].n
        /\ \A i \in DOMAIN lane.buffered, k \in DOMAIN toLane' :
             IsEvent(toLane'[k]) => lane.buffered[i] < toLane'[k].n
        /\ lane.attached => \A k \in DOMAIN toLane' : IsEvent(toLane'[k]) => rendered < toLane'[k].n
        /\ Increasing(lane.buffered)
    BY <1>7, <2>0 DEF ByOrder
  <2> QED BY <1>0, <2>2, <2>3, <2>4 DEF ByOrder, Increasing, IsEvent, IsAnswer
<1>19. Streams'
  <2> SUFFICES ASSUME counts.restarts = 0, ~lane.closed, seated PROVE \E s \in 0..Len(events) : Since(s)'
    BY <1>0 DEF Streams
  <2>1. PICK s \in 0..Len(events) : Since(s)
    BY DEF IInv, Streams
  <2>2. Events' = Events
    BY <1>0 DEF Events
  <2>3. /\ \A n : Sent(n) => Sent(n)'
        /\ \A n, k : k \in DOMAIN toLane /\ Before(n, k) => Before(n, k)'
        /\ \A n, k : k = Len(toLane) + 1 /\ Sent(n) => Before(n, k)'
    BY <1>5, OntoSent
  <2>4. \A n : Seen(n)' <=> Seen(n)
    BY <1>0 DEF Seen
  <2>5. \A n \in Events : n > s => Seen(n)' \/ Sent(n)'
    BY <2>1, <2>3, <2>4 DEF Since
  <2>6. \A k \in DOMAIN toLane', n \in Events :
          IsEvent(toLane'[k]) /\ s < n /\ n < toLane'[k].n => Seen(n)' \/ Before(n, k)'
    BY <1>7, <2>1, <2>3, <2>4 DEF Since
  <2>7. ASSUME NEW k \in DOMAIN toLane', IsAnswer(toLane'[k])
        PROVE  s <= toLane'[k].n /\ \A n \in Events : s < n /\ n <= toLane'[k].n => Seen(n)' \/ Before(n, k)'
    <3>1. CASE k \in DOMAIN toLane /\ toLane'[k] = toLane[k]
      BY <2>1, <2>3, <2>4, <2>7, <3>1 DEF Since
    <3>2. CASE k = Len(toLane) + 1 /\ toLane'[k] = m
      <4>1. s <= serving.upTo
        BY <1>0, <2>1 DEF Since
      <4>2. \A n \in Events : s < n => Seen(n)' \/ Before(n, k)'
        <5>1. \A n \in Events : n \in Nat
          BY <1>2, EventTypes
        <5> QED BY <2>1, <2>3, <2>4, <3>2, <5>1 DEF Since
      <4> QED BY <1>4, <3>2, <4>1, <4>2
    <3> QED BY <1>6, <3>1, <3>2
  <2>8. ~Settled'
    BY <1>4, <1>5 DEF Settled, Lands, IsAnswer
  <2>9. DOMAIN armed' = {}
    BY <1>0, EmptyPositions
  <2>11. /\ \A n \in Events : s < n /\ n <= base => In(n, shown)
         /\ \A i \in DOMAIN shown, n \in Events : s < n /\ n < shown[i] => In(n, shown)
         /\ \A i \in DOMAIN lane.buffered, n \in Events :
              s < n /\ n < lane.buffered[i] => \E j \in DOMAIN lane.buffered : j < i /\ lane.buffered[j] = n
         /\ lane.attached /\ counts.drops = 0 => s <= rendered
    BY <2>1 DEF Since
  <2>12. UNCHANGED <<armed, lane, shown, rendered, base, counts>> /\ serving'.phase # "taken"
    BY <1>0, <1>3
  <2>10. Since(s)'
    BY <2>2, <2>12, <2>5, <2>6, <2>7, <2>8, <2>9, <2>11 DEF Since, IsEvent, IsAnswer, In
  <2> QED BY <2>10
<1> QED BY <1>8, <1>9, <1>10, <1>11, <1>12, <1>13, <1>14, <1>15, <1>16, <1>17, <1>18, <1>19 DEF IInv

-----------------------------------------------------------------------------
(* The wire is lost: nothing of the connection survives.  It comes back. *)
LEMMA LostStep == ASSUME IInv, Lost PROVE IInv'
<1>0. /\ UNCHANGED <<clock, events, now, armed, shown, rendered, base>>
      /\ wire' = "down" /\ toDaemon' = <<>> /\ toLane' = <<>> /\ seated' = FALSE
      /\ serving' = NotServing /\ asks' = <<>> /\ armed = <<>>
      /\ counts' = [counts EXCEPT !.drops = @ + 1]
      /\ lane' = [lane EXCEPT !.closed = @ \/ ClosesLane(ToSet(asks))]
  BY DEF Lost
<1>2. Typed /\ Bounded /\ Numbered /\ Phased
  BY DEF IInv
<1>3. DOMAIN toLane' = {} /\ DOMAIN armed' = {}
  BY <1>0, EmptyPositions
<1>4. /\ lane' \in Lanes /\ lane'.attached = lane.attached /\ lane'.boundary = lane.boundary
      /\ lane'.last = lane.last /\ lane'.buffered = lane.buffered
  <2>1. lane \in Lanes /\ ClosesLane(ToSet(asks)) \in BOOLEAN
    BY <1>2 DEF Typed, ClosesLane
  <2> QED BY <1>0, <2>1 DEF Lanes
<1>5. /\ counts' \in Tallies /\ counts'.drops > 0 /\ counts'.replays = counts.replays
      /\ counts'.rewound = counts.rewound /\ counts'.restarts = counts.restarts
      /\ counts'.early = counts.early
  <2>1. counts \in Tallies
    BY <1>2 DEF Typed
  <2> QED BY <1>0, <2>1 DEF Tallies
<1>6. serving' \in Servings /\ serving'.phase = "none" /\ serving'.upTo = 0
  BY <1>0 DEF NotServing, Servings, Reasons, Points
<1>7. Typed'
  <2>1. toDaemon' \in Seq(Reasons) /\ asks' \in Seq(Reasons) /\ toLane' \in Seq(Messages)
    BY <1>0, EmptyPositions
  <2> QED BY <1>0, <1>2, <1>4, <1>5, <1>6, <2>1 DEF Typed
<1>8. Bounded'
  <2>1. Len(events) \in Nat
    BY <1>2, EventTypes
  <2> QED BY <1>0, <1>2, <1>3, <1>4, <1>6, <2>1 DEF Bounded, Events
<1>9. Counted'
  <2>1. Len(asks') = 0 /\ Len(toDaemon') = 0 /\ Working' = 0 /\ Len(armed') = 0
    BY <1>0, <1>6, EmptySeq DEF Working
  <2>2. Cardinality(Awaited(toLane)') = 0
    BY <1>0, AwaitedNone DEF Awaited
  <2> QED BY <2>1, <2>2 DEF Counted
<1>10. Phased'
  BY <1>0, <1>2, <1>3, <1>4, <1>5, <1>6 DEF Phased
<1>11. Numbered'
  BY <1>0, <1>2, <1>4, <1>5 DEF Numbered, Events, Gen, Num
<1>12. Snaps' /\ Pushed' /\ Answered'
  BY <1>3, <1>6 DEF Snaps, Pushed, Answered
<1>13. Ascending' /\ Filters'
  <2>1. Ascending'
    BY <1>0, <1>4, <1>5 DEF IInv, Ascending, Filtered, HasSequence, Increasing
  <2>2. Filters'
    BY <1>0, <1>4, <1>5 DEF IInv, Filters, Knows, HasSequence, Passed, Events, Gen, Num
  <2> QED BY <2>1, <2>2
<1>14. BySequence'
  <2>1. SUFFICES ASSUME HasSequence, ~counts.rewound, counts.early = 0, lane.attached
                 PROVE  /\ lane.last >= 0
                        /\ \A n \in Events : Coming(n)' /\ Passed(n, shown, rendered) => Num(n) <= lane.last
    BY <1>0, <1>4, <1>5 DEF BySequence, HasSequence, Passed, Events, Num
  <2>2. ASSUME NEW n \in Events, Coming(n)' PROVE Coming(n)
    BY <1>0, <1>3, <2>2 DEF Coming, Gen
  <2> QED BY <2>1, <2>2 DEF IInv, BySequence
<1>15. ByOrder'
  BY <1>0, <1>3, <1>4, <1>5 DEF IInv, ByOrder, Increasing
<1>16. Streams'
  BY <1>0 DEF Streams
<1> QED BY <1>7, <1>8, <1>9, <1>10, <1>11, <1>12, <1>13, <1>14, <1>15, <1>16 DEF IInv

LEMMA RestoredStep == ASSUME IInv, Restored PROVE IInv'
<1>0. /\ UNCHANGED <<clock, events, now, seated, serving, toLane, armed, lane, shown, rendered, base, counts>>
      /\ wire = "down" /\ wire' = "up"
      /\ \/ UNCHANGED <<asks, toDaemon>>
         \/ asks' = Append(asks, "restored") /\ toDaemon' = Append(toDaemon, "restored")
  BY DEF Restored, Rejoins, AttachTo, daemon
<1>2. Typed /\ Bounded /\ Numbered /\ Phased
  BY DEF IInv
<1>3. ~seated /\ asks = <<>> /\ toDaemon = <<>>
  BY <1>0, <1>2 DEF Phased
<1>4. asks' \in Seq(Reasons) /\ toDaemon' \in Seq(Reasons) /\ Len(asks') = Len(toDaemon')
      /\ Len(asks) = Len(toDaemon) /\ Len(asks') \in Nat /\ Len(asks) \in Nat
  <2>1. asks \in Seq(Reasons) /\ toDaemon \in Seq(Reasons) /\ "restored" \in Reasons
    BY <1>2 DEF Typed, Reasons
  <2>2. Append(asks, "restored") \in Seq(Reasons) /\ Append(toDaemon, "restored") \in Seq(Reasons)
        /\ asks = toDaemon
    BY <1>3, <2>1, AppendProperties
  <2>3. asks' = toDaemon' /\ asks' \in Seq(Reasons)
    BY <1>0, <2>1, <2>2
  <2> QED BY <2>1, <2>2, <2>3, LenProperties
<1>5. Quiet
  BY <1>0 DEF Quiet
<1>7. Typed'
  BY <1>0, <1>2, <1>4 DEF Typed
<1>8. Bounded'
  BY <1>0, <1>2 DEF Bounded, Events, IsEvent, IsAnswer
<1>9. Counted'
  <2>1. Working' = Working /\ Awaited(toLane)' = Awaited(toLane)
    BY <1>0 DEF Working, Awaited
  <2>2. Working \in Nat /\ Cardinality(Awaited(toLane)) \in Nat
    <3>1. toLane \in Seq(Messages)
      BY <1>2 DEF Typed
    <3> QED BY <3>1, AwaitedNumber DEF Working
  <2>3. /\ Len(asks) = Len(toDaemon) + Working + Cardinality(Awaited(toLane))
        /\ Len(armed) = 0 /\ armed' = armed
    BY <1>0, <1>2, <1>4, <2>2, EmptySeq DEF IInv, Counted, Phased
  <2>4. Working = 0 /\ Cardinality(Awaited(toLane)) = 0
    BY <1>4, <2>2, <2>3
  <2>5. Len(asks') = Len(armed') + Len(toDaemon') + Working' + Cardinality(Awaited(toLane))
    BY <1>4, <2>1, <2>3, <2>4
  <2> QED BY <2>1, <2>5 DEF Counted
<1>10. Phased'
  BY <1>0, <1>2 DEF Phased
<1>11. Numbered'
  BY <1>0, <1>2 DEF Numbered, Events, Gen, Num
<1>12. Snaps'
  <2>1. ASSUME NEW k \in Nat, NEW at, Parts(k, at) PROVE Parts(k, at)'
    BY <1>0, <2>1 DEF Parts, Events, Gen, Num
  <2> QED BY <1>0, <1>5, <2>1, QuietSnaps
<1>13. Pushed' /\ Answered' /\ Ascending' /\ BySequence' /\ ByOrder'
  BY <1>0, <1>5, QuietOrder
<1>14. Filters'
  BY <1>0 DEF IInv, Filters, Knows, HasSequence, Passed, Events, Gen, Num
<1>15. Streams'
  BY <1>0, <1>3 DEF Streams
<1> QED BY <1>7, <1>8, <1>9, <1>10, <1>11, <1>12, <1>13, <1>14, <1>15 DEF IInv

-----------------------------------------------------------------------------
(* The lane reads one message: what every case of it has in common. *)
ArmsMore ==
  \A j \in DOMAIN armed' :
    \/ j \in DOMAIN armed /\ armed'[j] = armed[j]
    \/ /\ toLane[1].type = "attach" /\ armed'[j] = toLane[1]
       /\ \A i \in DOMAIN armed' : ~(j < i) /\ (i < j => i \in DOMAIN armed /\ armed'[i] = armed[i])
Reads ==
  /\ Advances /\ ArmsMore
  /\ UNCHANGED <<clock, events, now, seated, serving, wire, rendered, base, counts>>
  /\ lane'.attached = lane.attached
  /\ \A i \in DOMAIN shown' : In(shown'[i], shown) \/ (IsEvent(toLane[1]) /\ shown'[i] = toLane[1].n)
  /\ \A i \in DOMAIN lane'.buffered : \/ In(lane'.buffered[i], lane.buffered)
                                      \/ IsEvent(toLane[1]) /\ lane'.buffered[i] = toLane[1].n
  /\ /\ Increasing(lane.buffered)
     /\ IsEvent(toLane[1]) => \A i \in DOMAIN lane.buffered : lane.buffered[i] < toLane[1].n
     => Increasing(lane'.buffered)

LEMMA ReadsOrder ==
  ASSUME IInv, Reads
  PROVE  Bounded' /\ Numbered' /\ Snaps' /\ Pushed' /\ Answered' /\ ByOrder'
<1>1. Typed /\ Bounded /\ Numbered /\ Snaps /\ Pushed /\ Answered /\ ByOrder
  BY DEF IInv
<1>2. /\ UNCHANGED <<clock, events, now, seated, serving, wire, rendered, base, counts>>
      /\ Advances /\ ArmsMore /\ lane'.attached = lane.attached
  BY DEF Reads
<1>3. /\ 1 \in DOMAIN toLane
      /\ \A k \in DOMAIN toLane' :
           k \in Nat /\ k + 1 \in DOMAIN toLane /\ 1 < k + 1 /\ toLane'[k] = toLane[k + 1]
  BY <1>2 DEF Advances
<1>4. \A j, k \in DOMAIN toLane' : j < k => j + 1 < k + 1
  BY <1>3
<1>5. \A j \in DOMAIN armed' : \/ j \in DOMAIN armed /\ armed'[j] = armed[j]
                               \/ toLane[1].type = "attach" /\ armed'[j] = toLane[1]
  BY <1>2 DEF ArmsMore
<1>6. Events' = Events /\ Len(events)' = Len(events)
  BY <1>2 DEF Events
<1>7. Bounded'
  <2>1. \A k \in DOMAIN toLane' :
          toLane'[k].n <= Len(events) /\ (IsEvent(toLane'[k]) => toLane'[k].n # 0)
    BY <1>1, <1>3 DEF Bounded
  <2>2. \A k \in DOMAIN armed' : armed'[k].type = "attach" /\ armed'[k].n <= Len(events)
    BY <1>1, <1>3, <1>5 DEF Bounded
  <2>3. IsEvent(toLane[1]) => toLane[1].n \in Events
    BY <1>1, <1>3, Records
  <2>4. \A i \in DOMAIN lane'.buffered : lane'.buffered[i] \in Events
    BY <1>1, <2>3 DEF Bounded, Reads, In
  <2>5. \A i \in DOMAIN shown' : shown'[i] \in Events
    BY <1>1, <2>3 DEF Bounded, Reads, In
  <2> QED BY <1>1, <1>2, <1>6, <2>1, <2>2, <2>4, <2>5 DEF Bounded, IsEvent, IsAnswer
<1>8. Numbered'
  BY <1>1, <1>2 DEF Numbered, Events, Gen, Num
<1>9. Snaps'
  <2>1. ASSUME NEW k \in Nat, NEW at, Parts(k, at) PROVE Parts(k, at)'
    BY <1>2, <2>1 DEF Parts, Events, Gen, Num
  <2>2. \A j \in DOMAIN toLane' : IsAnswer(toLane'[j]) => \E i \in DOMAIN toLane : toLane'[j] = toLane[i]
    BY <1>3
  <2>3. \A j \in DOMAIN armed' :
           \/ \E i \in DOMAIN armed : armed'[j] = armed[i]
           \/ \E i \in DOMAIN toLane : armed'[j] = toLane[i]
    BY <1>3, <1>5
  <2> QED BY <1>1, <1>2, <2>1, <2>2, <2>3, SnapsKept
<1>10. Pushed'
  <2>1. \A j, k \in DOMAIN toLane' :
          j < k /\ IsEvent(toLane'[j]) /\ IsEvent(toLane'[k]) => Gen(toLane'[j].n) <= Gen(toLane'[k].n)
    BY <1>1, <1>3, <1>4 DEF Pushed
  <2>2. \A j, k \in DOMAIN toLane' :
          j < k /\ IsAnswer(toLane'[j]) /\ IsEvent(toLane'[k])
          => toLane'[j].at.generation <= Gen(toLane'[k].n)
    BY <1>1, <1>3, <1>4 DEF Pushed
  <2>3. \A j \in DOMAIN armed', k \in DOMAIN toLane' :
          IsAnswer(armed'[j]) /\ IsEvent(toLane'[k]) => armed'[j].at.generation <= Gen(toLane'[k].n)
    BY <1>1, <1>3, <1>5 DEF Pushed
  <2>4. events' = events
    BY <1>2
  <2> QED BY <2>1, <2>2, <2>3, <2>4 DEF Pushed, Gen, IsEvent, IsAnswer
<1>11. Answered'
  <2>1. \A j \in DOMAIN armed' : IsAnswer(armed'[j]) => base <= armed'[j].n
    BY <1>1, <1>3, <1>5 DEF Answered
  <2>2. ASSUME NEW i \in DOMAIN armed', NEW j \in DOMAIN armed', i < j, IsAnswer(armed'[i]),
               IsAnswer(armed'[j])
        PROVE  armed'[i].n <= armed'[j].n
    <3>1. CASE j \in DOMAIN armed /\ armed'[j] = armed[j]
      <4>1. i \in DOMAIN armed /\ armed'[i] = armed[i]
        BY <1>2, <2>2 DEF ArmsMore
      <4> QED BY <1>1, <2>2, <3>1, <4>1 DEF Answered
    <3>2. CASE toLane[1].type = "attach" /\ armed'[j] = toLane[1]
      <4>1. i \in DOMAIN armed /\ armed'[i] = armed[i]
        BY <1>2, <2>2 DEF ArmsMore
      <4> QED BY <1>1, <1>3, <2>2, <3>2, <4>1 DEF Answered
    <3> QED BY <1>5, <3>1, <3>2
  <2>3. \A j \in DOMAIN toLane' : IsAnswer(toLane'[j]) => base <= toLane'[j].n
    BY <1>1, <1>3 DEF Answered
  <2>4. \A i \in DOMAIN armed', j \in DOMAIN toLane' :
          IsAnswer(armed'[i]) /\ IsAnswer(toLane'[j]) => armed'[i].n <= toLane'[j].n
    BY <1>1, <1>3, <1>5 DEF Answered
  <2>5. \A i, j \in DOMAIN toLane' :
          i < j /\ IsAnswer(toLane'[i]) /\ IsAnswer(toLane'[j]) => toLane'[i].n <= toLane'[j].n
    BY <1>1, <1>3, <1>4 DEF Answered
  <2>6. serving.phase = "taken" =>
          /\ base <= serving.upTo
          /\ \A j \in DOMAIN armed' : IsAnswer(armed'[j]) => armed'[j].n <= serving.upTo
          /\ \A j \in DOMAIN toLane' : IsAnswer(toLane'[j]) => toLane'[j].n <= serving.upTo
    BY <1>1, <1>3, <1>5 DEF Answered
  <2>7. base' = base /\ serving' = serving
    BY <1>2
  <2> QED BY <2>1, <2>2, <2>3, <2>4, <2>5, <2>6, <2>7 DEF Answered, IsAnswer
<1>12. ByOrder'
  <2>0. SUFFICES ASSUME counts.replays = 0 PROVE ByOrder'
    BY <1>2 DEF ByOrder
  <2>1. \A j, k \in DOMAIN toLane' :
          j < k /\ IsEvent(toLane'[j]) /\ IsEvent(toLane'[k]) => toLane'[j].n < toLane'[k].n
    BY <1>1, <1>3, <1>4, <2>0 DEF ByOrder
  <2>2. \A j, k \in DOMAIN toLane' :
          j < k /\ IsAnswer(toLane'[j]) /\ IsEvent(toLane'[k]) => toLane'[j].n < toLane'[k].n
    BY <1>1, <1>3, <1>4, <2>0 DEF ByOrder
  <2>3. \A i \in DOMAIN shown', k \in DOMAIN toLane' : IsEvent(toLane'[k]) => shown'[i] < toLane'[k].n
    <3> SUFFICES ASSUME NEW i \in DOMAIN shown', NEW k \in DOMAIN toLane', IsEvent(toLane'[k])
                 PROVE  shown'[i] < toLane'[k].n
      OBVIOUS
    <3>1. In(shown'[i], shown) \/ (IsEvent(toLane[1]) /\ shown'[i] = toLane[1].n)
      BY DEF Reads
    <3> QED BY <1>1, <1>3, <2>0, <3>1 DEF ByOrder, In
  <2>4. \A i \in DOMAIN lane'.buffered, k \in DOMAIN toLane' :
          IsEvent(toLane'[k]) => lane'.buffered[i] < toLane'[k].n
    <3> SUFFICES ASSUME NEW i \in DOMAIN lane'.buffered, NEW k \in DOMAIN toLane', IsEvent(toLane'[k])
                 PROVE  lane'.buffered[i] < toLane'[k].n
      OBVIOUS
    <3>1. \/ In(lane'.buffered[i], lane.buffered)
          \/ IsEvent(toLane[1]) /\ lane'.buffered[i] = toLane[1].n
      BY DEF Reads
    <3> QED BY <1>1, <1>3, <2>0, <3>1 DEF ByOrder, In
  <2>5. Increasing(lane'.buffered)
    BY <1>1, <1>3, <2>0 DEF ByOrder, Reads
  <2>6. \A j \in DOMAIN armed', k \in DOMAIN toLane' :
          IsAnswer(armed'[j]) /\ IsEvent(toLane'[k]) => armed'[j].n < toLane'[k].n
    BY <1>1, <1>3, <1>5, <2>0 DEF ByOrder
  <2>7. lane'.attached => \A k \in DOMAIN toLane' : IsEvent(toLane'[k]) => rendered < toLane'[k].n
    BY <1>1, <1>2, <1>3, <2>0 DEF ByOrder
  <2>8. rendered' = rendered
    BY <1>2
  <2> QED BY <2>1, <2>2, <2>3, <2>4, <2>5, <2>6, <2>7, <2>8 DEF ByOrder, Increasing, IsEvent, IsAnswer
<1> QED BY <1>7, <1>8, <1>9, <1>10, <1>11, <1>12

(* ... what was on the socket is still there, but for what was read ... *)
LEMMA AdvancesSent ==
  ASSUME Advances, NEW e, e = toLane[1].n
  PROVE  /\ \A n : Sent(n) => Sent(n)' \/ (IsEvent(toLane[1]) /\ n = e)
         /\ \A n : \A k \in DOMAIN toLane' :
              Before(n, k + 1) => Before(n, k)' \/ (IsEvent(toLane[1]) /\ n = e)
         /\ \A n : ~Before(n, 1)
<1>1. ASSUME NEW n, Sent(n), ~(IsEvent(toLane[1]) /\ n = e) PROVE Sent(n)'
  <2>1. PICK k \in DOMAIN toLane : IsEvent(toLane[k]) /\ toLane[k].n = n
    BY <1>1 DEF Sent
  <2>2. k - 1 \in DOMAIN toLane' /\ toLane'[k - 1] = toLane[k]
    BY <1>1, <2>1 DEF Advances
  <2> QED BY <2>1, <2>2 DEF Sent, IsEvent
<1>2. ASSUME NEW n, NEW k \in DOMAIN toLane', Before(n, k + 1), ~(IsEvent(toLane[1]) /\ n = e)
      PROVE  Before(n, k)'
  <2>1. PICK j \in DOMAIN toLane : j < k + 1 /\ IsEvent(toLane[j]) /\ toLane[j].n = n
    BY <1>2 DEF Before
  <2>2. j - 1 \in DOMAIN toLane' /\ toLane'[j - 1] = toLane[j] /\ j \in Nat /\ k \in Nat
    BY <1>2, <2>1 DEF Advances
  <2>3. j - 1 < k
    BY <2>1, <2>2
  <2> QED BY <2>1, <2>2, <2>3 DEF Before, IsEvent
<1>3. \A n : ~Before(n, 1)
  BY DEF Before, Advances
<1> QED BY <1>1, <1>2, <1>3

(* ... and the stream keeps what it holds. *)
LEMMA ReadsSince ==
  ASSUME Advances, UNCHANGED <<events, serving, rendered, base, counts>>,
         lane'.attached = lane.attached, NEW s, Since(s), NEW e, e = toLane[1].n,
         \A n : Seen(n) => Seen(n)', IsEvent(toLane[1]) /\ e > s => Seen(e)',
         \A k \in DOMAIN armed' :
           IsAnswer(armed'[k])
           => s <= armed'[k].n /\ \A n \in Events : s < n /\ n <= armed'[k].n => Seen(n)',
         \A n \in Events : s < n /\ n <= base => In(n, shown'),
         \A i \in DOMAIN shown', n \in Events : s < n /\ n < shown'[i] => In(n, shown'),
         \A i \in DOMAIN lane'.buffered, n \in Events :
           s < n /\ n < lane'.buffered[i]
           => \E j \in DOMAIN lane'.buffered : j < i /\ lane'.buffered[j] = n,
         Settled' => Settled
  PROVE  Since(s)'
<1>1. /\ \A n : Sent(n) => Sent(n)' \/ (IsEvent(toLane[1]) /\ n = e)
      /\ \A n : \A k \in DOMAIN toLane' :
           Before(n, k + 1) => Before(n, k)' \/ (IsEvent(toLane[1]) /\ n = e)
  BY AdvancesSent
<1>2. \A k \in DOMAIN toLane' : k + 1 \in DOMAIN toLane /\ toLane'[k] = toLane[k + 1]
  BY DEF Advances
<1>3. \A n \in Events : n > s => Seen(n)' \/ Sent(n)'
  BY <1>1 DEF Since
<1>4. \A k \in DOMAIN toLane', n \in Events :
        IsEvent(toLane'[k]) /\ s < n /\ n < toLane'[k].n => Seen(n)' \/ Before(n, k)'
  <2> SUFFICES ASSUME NEW k \in DOMAIN toLane', NEW n \in Events, IsEvent(toLane'[k]), s < n,
                      n < toLane'[k].n
               PROVE  Seen(n)' \/ Before(n, k)'
    OBVIOUS
  <2>1. Seen(n) \/ Before(n, k + 1)
    BY <1>2 DEF Since
  <2>2. n > s
    OBVIOUS
  <2> QED BY <1>1, <2>1, <2>2
<1>5. \A k \in DOMAIN toLane' : IsAnswer(toLane'[k]) => s <= toLane'[k].n
  BY <1>2 DEF Since
<1>6. \A k \in DOMAIN toLane', n \in Events :
        IsAnswer(toLane'[k]) /\ s < n /\ n <= toLane'[k].n => Seen(n)' \/ Before(n, k)'
  <2> SUFFICES ASSUME NEW k \in DOMAIN toLane', NEW n \in Events, IsAnswer(toLane'[k]), s < n,
                      n <= toLane'[k].n
               PROVE  Seen(n)' \/ Before(n, k)'
    OBVIOUS
  <2>1. Seen(n) \/ Before(n, k + 1)
    BY <1>2 DEF Since
  <2> QED BY <1>1, <2>1
<1>7. /\ serving.phase = "taken" => s <= serving.upTo
      /\ lane.attached /\ Settled' => s <= base
      /\ lane.attached /\ counts.drops = 0 => s <= rendered
  BY DEF Since
<1>8. Events' = Events
  BY DEF Events
<1>9. UNCHANGED <<serving, rendered, base, counts>> /\ lane'.attached = lane.attached
  OBVIOUS
<1>10. \A i \in DOMAIN shown', n \in Events' : s < n /\ n < shown'[i] => In(n, shown')
  BY <1>8
<1> QED BY <1>3, <1>4, <1>5, <1>6, <1>7, <1>8, <1>9 DEF Since, IsEvent, IsAnswer, In

(* What the lane has shown is as it was, if it shows nothing. *)
LEMMA ReadsSilent ==
  ASSUME IInv, Advances, UNCHANGED <<clock, events, now, shown, rendered, base, counts>>,
         lane'.attached = lane.attached, lane'.last = lane.last, lane'.boundary = lane.boundary
  PROVE  Ascending' /\ BySequence' /\ Filters'
<1>1. Ascending'
  BY DEF IInv, Ascending, Filtered, HasSequence, Increasing
<1>2. Filters'
  BY DEF IInv, Filters, Knows, HasSequence, Passed, Events, Gen, Num
<1>3. BySequence'
  <2>1. SUFFICES ASSUME HasSequence, ~counts.rewound, counts.early = 0, lane.attached
                 PROVE  /\ lane.last >= 0
                        /\ \A n \in Events : Coming(n)' /\ Passed(n, shown, rendered) => Num(n) <= lane.last
    BY DEF BySequence, HasSequence, Passed, Events, Num
  <2>2. ASSUME NEW n \in Events, Coming(n)' PROVE Coming(n)
    BY <2>2 DEF Coming, Gen, IsEvent, Advances
  <2> QED BY <2>1, <2>2 DEF IInv, BySequence
<1> QED BY <1>1, <1>2, <1>3

LEMMA ReadsAnswerStep ==
  ASSUME IInv, LaneReads, toLane[1].type = "attach", ReadsAnswer(toLane[1]), Advances
  PROVE  IInv'
<1>0. /\ UNCHANGED <<clock, events, now, seated, serving, wire, rendered, base, counts, shown, toDaemon>>
      /\ wire = "up" /\ asks' = asks /\ lane' = lane /\ toLane' = Tail(toLane) /\ toLane # <<>>
      /\ armed' = Append(armed, toLane[1])
  BY DEF LaneReads, ReadsAnswer, daemon
<1>1. /\ UNCHANGED <<clock, events, now, seated, serving, wire, rendered, base, counts, shown>>
      /\ UNCHANGED <<toDaemon, asks, lane>>
  BY <1>0
<1>2. Typed /\ Bounded /\ Phased
  BY DEF IInv
<1>3. /\ toLane \in Seq(Messages) /\ toLane[1] = Head(toLane) /\ 1 \in DOMAIN toLane
      /\ toLane[1] \in Messages
  BY <1>2 DEF Typed, Advances
<1>4. /\ lane' \in Lanes /\ lane'.attached = lane.attached /\ lane'.boundary = lane.boundary
      /\ lane'.last = lane.last /\ lane'.buffered = lane.buffered
  BY <1>1, <1>2 DEF Typed
<1>5. /\ armed' \in Seq(Messages) /\ ArmsMore /\ Len(armed') = Len(armed) + 1 /\ Len(armed) \in Nat
      /\ \A j \in DOMAIN armed' : \/ j \in DOMAIN armed /\ armed'[j] = armed[j]
                                  \/ armed'[j] = toLane[1]
      /\ \A j \in DOMAIN armed : j \in DOMAIN armed' /\ armed'[j] = armed[j]
      /\ \E j \in DOMAIN armed' : armed'[j] = toLane[1]
  <2>1. armed \in Seq(Messages)
    BY <1>2 DEF Typed
  <2>2. /\ armed' \in Seq(Messages) /\ DOMAIN armed' = DOMAIN armed \cup {Len(armed) + 1}
        /\ armed'[Len(armed) + 1] = toLane[1] /\ Len(armed) \in Nat
        /\ Len(armed') = Len(armed) + 1
        /\ \A k \in DOMAIN armed : k \in Nat \ {0} /\ k < Len(armed) + 1 /\ armed'[k] = armed[k]
    BY <1>0, <1>3, <2>1, AppendPositions, Positions
  <2> QED BY <2>2 DEF ArmsMore
<1>6. ~IsEvent(toLane[1])
  BY DEF IsEvent
<1>7. Reads
  BY <1>1, <1>4, <1>5, <1>6 DEF Reads, In
<1>8. Bounded' /\ Numbered' /\ Snaps' /\ Pushed' /\ Answered' /\ ByOrder'
  BY <1>7, ReadsOrder
<1>9. Ascending' /\ BySequence' /\ Filters'
  BY <1>1, <1>4, ReadsSilent
<1>10. /\ Cardinality(Awaited(toLane)) = Cardinality(Awaited(toLane')) + 1
       /\ Cardinality(Awaited(toLane')) \in Nat
  <2>1. Cardinality(Awaited(toLane)) = Cardinality(Awaited(Tail(toLane))) + 1
    BY <1>0, <1>3, AwaitedLess
  <2>2. Tail(toLane) \in Seq(Messages)
    BY <1>0 DEF Advances
  <2> QED BY <1>0, <2>1, <2>2, AwaitedNumber
<1>11. Len(asks) = Len(armed) + Len(toDaemon) + Working + Cardinality(Awaited(toLane))
       /\ Len(toDaemon) \in Nat /\ Working \in Nat
  BY <1>2, LenProperties DEF IInv, Counted, Typed, Working
<1>14. Typed'
  <2>1. toLane' \in Seq(Messages)
    BY DEF Advances
  <2> QED BY <1>1, <1>2, <1>5, <2>1 DEF Typed
<1>15. Counted'
  <2>1. Working' = Working /\ toDaemon' = toDaemon
    BY <1>1 DEF Working
  <2>2. Len(asks) = Len(armed') + Len(toDaemon) + Working + Cardinality(Awaited(toLane'))
    BY <1>5, <1>10, <1>11
  <2>3. asks' = asks
    BY <1>1
  <2> QED BY <2>1, <2>2, <2>3 DEF Counted, Awaited
<1>16. Phased'
  <2>1. ~seated => ~IsAnswer(toLane[1]) /\ \A k \in DOMAIN toLane' : ~IsEvent(toLane'[k]) /\ ~IsAnswer(toLane'[k])
    BY <1>2, <1>3 DEF Phased, Advances
  <2>2. wire # "down"
    BY <1>0
  <2> QED BY <1>1, <1>2, <1>4, <1>5, <2>1, <2>2 DEF Phased, IsEvent, IsAnswer
<1>17. Streams'
  <2> SUFFICES ASSUME counts.restarts = 0, ~lane.closed, seated PROVE \E s \in 0..Len(events) : Since(s)'
    BY <1>1, <1>4 DEF Streams
  <2>1. PICK s \in 0..Len(events) : Since(s)
    BY DEF IInv, Streams
  <2>2. PICK e : e = toLane[1].n
    OBVIOUS
  <2>3. \A n : Seen(n)' <=> Seen(n)
    BY <1>1, <1>4 DEF Seen
  <2>4. \A n : ~Before(n, 1)
    BY <2>2, AdvancesSent
  <2>5. \A k \in DOMAIN armed' :
          IsAnswer(armed'[k])
          => s <= armed'[k].n /\ \A n \in Events : s < n /\ n <= armed'[k].n => Seen(n)'
    <3> SUFFICES ASSUME NEW k \in DOMAIN armed', IsAnswer(armed'[k])
                 PROVE  s <= armed'[k].n /\ \A n \in Events : s < n /\ n <= armed'[k].n => Seen(n)
      BY <2>3
    <3>1. CASE k \in DOMAIN armed /\ armed'[k] = armed[k]
      BY <2>1, <3>1 DEF Since
    <3>2. CASE armed'[k] = toLane[1]
      BY <1>3, <2>1, <2>4, <3>2 DEF Since
    <3> QED BY <1>5, <3>1, <3>2
  <2>6. Settled' => Settled
    <3> SUFFICES ASSUME Settled' PROVE Settled
      OBVIOUS
    <3>1. /\ serving.phase = "none" /\ \A k \in DOMAIN armed' : ~IsAnswer(armed'[k])
          /\ \A k \in DOMAIN toLane' : ~IsAnswer(toLane'[k])
      BY <1>1 DEF Settled, IsAnswer
    <3>2. ~IsAnswer(toLane[1]) /\ \A k \in DOMAIN armed : ~IsAnswer(armed[k])
      BY <1>5, <3>1
    <3>3. \A k \in DOMAIN toLane : k = 1 \/ (k - 1 \in DOMAIN toLane' /\ toLane'[k - 1] = toLane[k])
      BY DEF Advances
    <3>4. \A k \in DOMAIN toLane : ~IsAnswer(toLane[k])
      BY <3>1, <3>2, <3>3
    <3> QED BY <3>1, <3>2, <3>4 DEF Settled
  <2>7. /\ \A n \in Events : s < n /\ n <= base => In(n, shown')
        /\ \A i \in DOMAIN shown', n \in Events : s < n /\ n < shown'[i] => In(n, shown')
        /\ \A i \in DOMAIN lane'.buffered, n \in Events :
             s < n /\ n < lane'.buffered[i]
             => \E j \in DOMAIN lane'.buffered : j < i /\ lane'.buffered[j] = n
    BY <1>1, <1>4, <2>1 DEF Since
  <2>8. Since(s)'
    BY <1>1, <1>4, <1>6, <2>1, <2>2, <2>3, <2>5, <2>6, <2>7, ReadsSince
  <2> QED BY <2>8
<1> QED BY <1>8, <1>9, <1>14, <1>15, <1>16, <1>17 DEF IInv

LEMMA ReadsReplacedStep ==
  ASSUME IInv, LaneReads, toLane[1].type # "attach", ~IsEvent(toLane[1]) \/ lane.closed,
         Advances, UNCHANGED <<armed, lane, shown>>,
         \/ asks' = asks /\ toDaemon' = toDaemon
         \/ AttachTo("replaced")
  PROVE  IInv'
<1>0. /\ UNCHANGED <<clock, events, now, seated, serving, wire, rendered, base, counts, shown, armed, lane>>
      /\ wire = "up" /\ toLane' = Tail(toLane) /\ toLane # <<>>
  BY DEF LaneReads, daemon
<1>2. Typed /\ Bounded /\ Phased
  BY DEF IInv
<1>3. /\ toLane \in Seq(Messages) /\ toLane[1] = Head(toLane) /\ 1 \in DOMAIN toLane
      /\ ~IsAnswer(toLane[1])
  BY <1>2 DEF Typed, Advances, IsAnswer
<1>4. UNCHANGED <<clock, events, now, seated, serving, wire, rendered, base, counts, shown, armed, lane>>
  BY <1>0
<1>7. Reads
  BY <1>4 DEF Reads, In, ArmsMore
<1>8. Bounded' /\ Numbered' /\ Snaps' /\ Pushed' /\ Answered' /\ ByOrder'
  BY <1>7, ReadsOrder
<1>9. Ascending' /\ BySequence' /\ Filters'
  BY <1>4, ReadsSilent
<1>10. Cardinality(Awaited(toLane)) = Cardinality(Awaited(toLane'))
       /\ Cardinality(Awaited(toLane')) \in Nat
  <2>1. Tail(toLane) \in Seq(Messages)
    BY <1>0 DEF Advances
  <2>2. Cardinality(Awaited(Tail(toLane))) \in Nat
    BY <2>1, AwaitedNumber
  <2>3. Head(toLane).type # "attach"
    BY <1>3
  <2>4. Cardinality(Awaited(toLane))
          = Cardinality(Awaited(Tail(toLane))) + IF Head(toLane).type = "attach" THEN 1 ELSE 0
    BY <1>0, <1>3, AwaitedLess
  <2>5. Cardinality(Awaited(toLane)) = Cardinality(Awaited(Tail(toLane)))
    BY <2>2, <2>3, <2>4
  <2> QED BY <1>0, <2>2, <2>5
<1>11. /\ asks' \in Seq(Reasons) /\ toDaemon' \in Seq(Reasons)
       /\ Len(asks') - Len(toDaemon') = Len(asks) - Len(toDaemon)
       /\ Len(asks') \in Nat /\ Len(toDaemon') \in Nat /\ Len(asks) \in Nat /\ Len(toDaemon) \in Nat
  <2>1. asks \in Seq(Reasons) /\ toDaemon \in Seq(Reasons) /\ "replaced" \in Reasons
    BY <1>2 DEF Typed, Reasons
  <2>2. /\ Append(asks, "replaced") \in Seq(Reasons)
        /\ Append(toDaemon, "replaced") \in Seq(Reasons)
        /\ Len(Append(asks, "replaced")) = Len(asks) + 1
        /\ Len(Append(toDaemon, "replaced")) = Len(toDaemon) + 1
        /\ Len(asks) \in Nat /\ Len(toDaemon) \in Nat
    BY <2>1, AppendProperties, LenProperties
  <2>3. CASE asks' = asks /\ toDaemon' = toDaemon
    BY <2>1, <2>2, <2>3
  <2>4. CASE AttachTo("replaced")
    <3>1. asks' = Append(asks, "replaced") /\ toDaemon' = Append(toDaemon, "replaced")
      BY <2>4 DEF AttachTo
    <3>2. Len(asks') = Len(asks) + 1 /\ Len(toDaemon') = Len(toDaemon) + 1
          /\ asks' \in Seq(Reasons) /\ toDaemon' \in Seq(Reasons)
      BY <2>2, <3>1
    <3> QED BY <2>2, <3>2
  <2> QED BY <2>3, <2>4
<1>12. Counted'
  <2>1. Working' = Working /\ Working \in Nat
    BY <1>4 DEF Working
  <2>2. /\ Len(asks) = Len(armed) + Len(toDaemon) + Working + Cardinality(Awaited(toLane))
        /\ Len(armed) \in Nat
    BY <1>2, LenProperties DEF IInv, Counted, Typed
  <2>3. Len(asks') = Len(armed) + Len(toDaemon') + Working + Cardinality(Awaited(toLane'))
    BY <1>10, <1>11, <2>1, <2>2
  <2>4. armed' = armed
    BY <1>4
  <2> QED BY <2>1, <2>3, <2>4 DEF Counted, Awaited
<1>14. Typed'
  <2>1. toLane' \in Seq(Messages)
    BY DEF Advances
  <2> QED BY <1>2, <1>4, <1>11, <2>1 DEF Typed
<1>16. Phased'
  <2>1. ~seated => \A k \in DOMAIN toLane' : ~IsEvent(toLane'[k]) /\ ~IsAnswer(toLane'[k])
    BY <1>2, <1>3 DEF Phased, Advances
  <2>2. wire # "down"
    BY <1>0
  <2> QED BY <1>2, <1>4, <2>1, <2>2 DEF Phased, IsEvent, IsAnswer
<1>17. Streams'
  <2> SUFFICES ASSUME counts.restarts = 0, ~lane.closed, seated PROVE \E s \in 0..Len(events) : Since(s)'
    BY <1>4 DEF Streams
  <2>1. PICK s \in 0..Len(events) : Since(s)
    BY DEF IInv, Streams
  <2>2. PICK e : e = toLane[1].n
    OBVIOUS
  <2>3. \A n : Seen(n)' <=> Seen(n)
    BY <1>4 DEF Seen
  <2>5. \A k \in DOMAIN armed' :
          IsAnswer(armed'[k])
          => s <= armed'[k].n /\ \A n \in Events : s < n /\ n <= armed'[k].n => Seen(n)'
    BY <1>4, <2>1, <2>3 DEF Since
  <2>6. Settled' => Settled
    <3> SUFFICES ASSUME Settled' PROVE Settled
      OBVIOUS
    <3>1. /\ serving.phase = "none" /\ \A k \in DOMAIN armed : ~IsAnswer(armed[k])
          /\ \A k \in DOMAIN toLane' : ~IsAnswer(toLane'[k])
      BY <1>4 DEF Settled, IsAnswer
    <3>3. \A k \in DOMAIN toLane : k = 1 \/ (k - 1 \in DOMAIN toLane' /\ toLane'[k - 1] = toLane[k])
      BY DEF Advances
    <3>4. \A k \in DOMAIN toLane : ~IsAnswer(toLane[k])
      BY <1>3, <3>1, <3>3
    <3> QED BY <3>1, <3>4 DEF Settled
  <2>7. /\ \A n \in Events : s < n /\ n <= base => In(n, shown')
        /\ \A i \in DOMAIN shown', n \in Events : s < n /\ n < shown'[i] => In(n, shown')
        /\ \A i \in DOMAIN lane'.buffered, n \in Events :
             s < n /\ n < lane'.buffered[i]
             => \E j \in DOMAIN lane'.buffered : j < i /\ lane'.buffered[j] = n
    BY <1>4, <2>1 DEF Since
  <2>8. Since(s)'
    BY <1>4, <2>1, <2>2, <2>3, <2>5, <2>6, <2>7, ReadsSince
  <2> QED BY <2>8
<1> QED BY <1>8, <1>9, <1>12, <1>14, <1>16, <1>17 DEF IInv

(* An event, to a lane that has not attached, is buffered ... *)
EventRead ==
  /\ UNCHANGED <<clock, events, now, seated, serving, wire, rendered, base, counts, armed>>
  /\ UNCHANGED <<asks, toDaemon>>
  /\ wire = "up" /\ toLane' = Tail(toLane) /\ toLane # <<>>
  /\ Advances /\ IsEvent(toLane[1]) /\ ~lane.closed

LEMMA EventReadStep ==
  ASSUME IInv, EventRead, Reads, lane' \in Lanes, lane'.closed = lane.closed, shown' \in Seq(Nat),
         lane'.attached => lane'.buffered = <<>>, ~lane'.attached => shown' = <<>>,
         Ascending', BySequence', Filters',
         seated => \A s \in 0..Len(events) : counts.restarts = 0 /\ Since(s) => Since(s)'
  PROVE  IInv'
<1>0. /\ UNCHANGED <<clock, events, now, seated, serving, wire, rendered, base, counts, armed>>
      /\ UNCHANGED <<asks, toDaemon>> /\ Advances /\ lane'.attached = lane.attached
  BY DEF EventRead, Reads
<1>2. Typed /\ Bounded /\ Phased
  BY DEF IInv
<1>3. Bounded' /\ Numbered' /\ Snaps' /\ Pushed' /\ Answered' /\ ByOrder'
  BY ReadsOrder
<1>4. Typed'
  <2>1. toLane' \in Seq(Messages)
    BY DEF EventRead, Advances
  <2> QED BY <1>0, <1>2, <2>1 DEF Typed
<1>5. Counted'
  <2>1. Cardinality(Awaited(toLane)) = Cardinality(Awaited(toLane'))
    <3>1. toLane \in Seq(Messages) /\ toLane # <<>> /\ toLane' = Tail(toLane)
      BY <1>2 DEF Typed, EventRead
    <3>2. Tail(toLane) \in Seq(Messages) /\ Head(toLane).type # "attach"
      BY <3>1 DEF EventRead, Advances, IsEvent
    <3>3. Cardinality(Awaited(Tail(toLane))) \in Nat
      BY <3>2, AwaitedNumber
    <3>4. Cardinality(Awaited(toLane))
            = Cardinality(Awaited(Tail(toLane))) + IF Head(toLane).type = "attach" THEN 1 ELSE 0
      BY <3>1, AwaitedLess
    <3> QED BY <3>1, <3>2, <3>3, <3>4
  <2>2. Working' = Working /\ asks' = asks /\ toDaemon' = toDaemon
    BY <1>0 DEF Working
  <2>3. Len(asks) = Len(armed) + Len(toDaemon) + Working + Cardinality(Awaited(toLane))
    BY DEF IInv, Counted
  <2>4. armed' = armed
    BY <1>0
  <2> QED BY <2>1, <2>2, <2>3, <2>4 DEF Counted, Awaited
<1>6. Phased'
  <2>1. ~seated => \A k \in DOMAIN toLane' : ~IsEvent(toLane'[k]) /\ ~IsAnswer(toLane'[k])
    BY <1>0, <1>2 DEF Phased, Advances
  <2>2. wire # "down"
    BY DEF EventRead
  <2> QED BY <1>0, <1>2, <2>1, <2>2 DEF Phased, IsEvent, IsAnswer
<1>7. Streams'
  <2> SUFFICES ASSUME counts.restarts = 0, ~lane.closed, seated PROVE \E s \in 0..Len(events) : Since(s)'
    BY <1>0 DEF Streams
  <2>1. PICK s \in 0..Len(events) : Since(s)
    BY DEF IInv, Streams
  <2> QED BY <2>1
<1> QED BY <1>3, <1>4, <1>5, <1>6, <1>7 DEF IInv

LEMMA ReadsBufferedStep ==
  ASSUME IInv, EventRead, ~lane.attached, shown' = shown,
         lane' = [lane EXCEPT !.buffered = Append(@, toLane[1].n)]
  PROVE  IInv'
<1>0. /\ UNCHANGED <<clock, events, now, seated, serving, wire, rendered, base, counts, armed, shown>>
      /\ Advances /\ IsEvent(toLane[1])
  BY DEF EventRead
<1>2. Typed /\ Bounded /\ Phased
  BY DEF IInv
<1>3. PICK e : e = toLane[1].n
  OBVIOUS
<1>4. e \in Events /\ e \in Nat /\ 1 \in DOMAIN toLane
  BY <1>0, <1>2, <1>3, Records DEF Advances
<1>5. /\ lane' \in Lanes /\ lane'.buffered = Append(lane.buffered, e)
      /\ lane'.attached = lane.attached /\ lane'.closed = lane.closed
      /\ lane'.last = lane.last /\ lane'.boundary = lane.boundary
      /\ lane.buffered \in Seq(Nat)
  <2>1. lane \in Lanes /\ lane.buffered \in Seq(Nat)
    BY <1>2 DEF Typed, Lanes
  <2>2. Append(lane.buffered, e) \in Seq(Nat)
    BY <1>4, <2>1, AppendProperties
  <2> QED BY <1>3, <2>1, <2>2 DEF Lanes
<1>6. /\ \A n : In(n, lane'.buffered) <=> In(n, lane.buffered) \/ n = e
      /\ \A i \in DOMAIN lane'.buffered : lane'.buffered[i] = e \/ In(lane'.buffered[i], lane.buffered)
      /\ Increasing(lane.buffered) /\ (\A i \in DOMAIN lane.buffered : lane.buffered[i] < e)
         => Increasing(lane'.buffered)
  <2>1. PICK b \in Nat : b = 0
    OBVIOUS
  <2> QED BY <1>4, <1>5, <2>1, ShowsOneMore
<1>7. Reads
  <2>1. \A i \in DOMAIN shown' : In(shown'[i], shown)
    BY <1>0 DEF In
  <2>2. ArmsMore
    BY <1>0 DEF ArmsMore
  <2> QED BY <1>0, <1>3, <1>5, <1>6, <2>1, <2>2 DEF Reads
<1>8. Ascending' /\ BySequence' /\ Filters'
  BY <1>5 DEF Ascending, BySequence, Filters
<1>9. ASSUME NEW s \in 0..Len(events), Since(s) PROVE Since(s)'
  <2>1. shown = <<>> /\ DOMAIN shown = {}
    BY <1>2, EmptyPositions DEF Phased
  <2>2. \A n : Seen(n)' <=> Seen(n) \/ n = e
    BY <1>0, <1>6 DEF Seen
  <2>3. \A k \in DOMAIN armed' :
          IsAnswer(armed'[k])
          => s <= armed'[k].n /\ \A n \in Events : s < n /\ n <= armed'[k].n => Seen(n)'
    BY <1>0, <1>9, <2>2 DEF Since
  <2>4. \A n : ~Before(n, 1)
    BY <1>0, <1>3, AdvancesSent
  <2>5. \A n \in Events : s < n /\ n < e => In(n, lane.buffered)
    BY <1>0, <1>3, <1>4, <1>9, <2>1, <2>4 DEF Since, Seen, In
  <2>6. ASSUME NEW i \in DOMAIN lane'.buffered, NEW n \in Events, s < n, n < lane'.buffered[i]
        PROVE  \E j \in DOMAIN lane'.buffered : j < i /\ lane'.buffered[j] = n
    <3>1. /\ DOMAIN lane'.buffered = DOMAIN lane.buffered \cup {Len(lane.buffered) + 1}
          /\ lane'.buffered[Len(lane.buffered) + 1] = e
          /\ \A k \in DOMAIN lane.buffered : /\ k \in Nat \ {0} /\ k < Len(lane.buffered) + 1
                                             /\ lane'.buffered[k] = lane.buffered[k]
      BY <1>4, <1>5, AppendPositions
    <3>2. CASE i \in DOMAIN lane.buffered
      <4>1. PICK j \in DOMAIN lane.buffered : j < i /\ lane.buffered[j] = n
        BY <1>9, <2>6, <3>1, <3>2 DEF Since
      <4> QED BY <3>1, <4>1
    <3>3. CASE i = Len(lane.buffered) + 1
      <4>1. PICK j \in DOMAIN lane.buffered : lane.buffered[j] = n
        BY <2>5, <2>6, <3>1, <3>3 DEF In
      <4> QED BY <3>1, <3>3, <4>1
    <3> QED BY <3>1, <3>2, <3>3
  <2>7. Settled' => Settled
    <3> SUFFICES ASSUME Settled' PROVE Settled
      OBVIOUS
    <3>1. /\ serving.phase = "none" /\ \A k \in DOMAIN armed : ~IsAnswer(armed[k])
          /\ \A k \in DOMAIN toLane' : ~IsAnswer(toLane'[k])
      BY <1>0 DEF Settled, IsAnswer
    <3>3. \A k \in DOMAIN toLane : k = 1 \/ (k - 1 \in DOMAIN toLane' /\ toLane'[k - 1] = toLane[k])
      BY <1>0 DEF Advances
    <3>4. \A k \in DOMAIN toLane : ~IsAnswer(toLane[k])
      BY <1>0, <3>1, <3>3 DEF IsEvent, IsAnswer
    <3> QED BY <3>1, <3>4 DEF Settled
  <2>8. /\ \A n \in Events : s < n /\ n <= base => In(n, shown')
        /\ \A i \in DOMAIN shown', n \in Events : s < n /\ n < shown'[i] => In(n, shown')
    BY <1>0, <1>9 DEF Since
  <2> QED BY <1>0, <1>3, <1>5, <1>9, <2>2, <2>3, <2>6, <2>7, <2>8, ReadsSince
<1>10. shown' = <<>> /\ shown' \in Seq(Nat) /\ ~lane'.attached
  BY <1>0, <1>2, <1>5, EmptyPositions DEF Phased
<1> QED BY <1>5, <1>7, <1>8, <1>9, <1>10, EventReadStep

(* ... and to one that has, goes through the filters. *)
LEMMA ReadsShownStep ==
  ASSUME IInv, EventRead, lane.attached,
         lane' = Filter([lane |-> lane, shown |-> shown], toLane[1].n).lane,
         shown' = Filter([lane |-> lane, shown |-> shown], toLane[1].n).shown
  PROVE  IInv'
<1>0. /\ UNCHANGED <<clock, events, now, seated, serving, wire, rendered, base, counts, armed>>
      /\ Advances /\ IsEvent(toLane[1])
  BY DEF EventRead
<1>2. Typed /\ Bounded /\ Phased /\ Numbered /\ Pushed
  BY DEF IInv
<1>3. PICK e : e = toLane[1].n
  OBVIOUS
<1>4. e \in Events /\ e \in Nat /\ 1 \in DOMAIN toLane
  BY <1>0, <1>2, <1>3, Records DEF Advances
<1>5. PICK x : x = [lane |-> lane, shown |-> shown]
  OBVIOUS
<1>6. x \in Views /\ x.lane = lane /\ x.shown = shown /\ shown \in Seq(Nat) /\ lane.last \in Int
  <2>1. lane \in Lanes /\ shown \in Seq(Nat)
    BY <1>2 DEF Typed
  <2> QED BY <1>2, <1>5, <2>1, Records DEF Views
<1>7. lane' = Filter(x, e).lane /\ shown' = Filter(x, e).shown
  BY <1>3, <1>5
<1>8. /\ lane' \in Lanes /\ shown' \in Seq(Nat)
      /\ lane'.attached = lane.attached /\ lane'.closed = lane.closed
      /\ lane'.buffered = lane.buffered
      /\ \/ shown' = shown /\ lane'.last = lane.last
         \/ /\ ~Repeats(lane, e) /\ shown' = Append(shown, e)
            /\ lane'.last = IF HasSequence THEN Num(e) ELSE lane.last
  <2>1. Filter(x, e) \in Views
    BY <1>2, <1>4, <1>6, FilterStep
  <2>2. lane' \in Lanes /\ shown' \in Seq(Nat)
    BY <1>7, <2>1 DEF Views
  <2>3. /\ Filter(x, e).lane.attached = x.lane.attached
        /\ Filter(x, e).lane.closed = x.lane.closed
        /\ Filter(x, e).lane.buffered = x.lane.buffered
        /\ \/ Filter(x, e).shown = x.shown /\ Filter(x, e).lane.last = x.lane.last
           \/ /\ ~Repeats(x.lane, e) /\ Filter(x, e).shown = Append(x.shown, e)
              /\ Filter(x, e).lane.last = IF HasSequence THEN Num(e) ELSE x.lane.last
    BY <1>2, <1>4, <1>6, FilterStep
  <2> QED BY <1>6, <1>7, <2>2, <2>3
<1>9. shown' = Append(shown, e) =>
        /\ \A n \in Nat : Passed(n, shown', rendered) <=> Passed(n, shown, rendered) \/ n <= e
        /\ \A i \in DOMAIN shown' : shown'[i] = e \/ In(shown'[i], shown)
        /\ Increasing(shown) /\ (\A i \in DOMAIN shown : shown[i] < e) => Increasing(shown')
  <2>1. rendered \in Nat
    BY <1>2, Records
  <2>2. PICK t : t = Append(shown, e)
    OBVIOUS
  <2>3. /\ \A n \in Nat : Passed(n, t, rendered) <=> Passed(n, shown, rendered) \/ n <= e
        /\ \A i \in DOMAIN t : t[i] = e \/ In(t[i], shown)
        /\ Increasing(shown) /\ (\A i \in DOMAIN shown : shown[i] < e) => Increasing(t)
    BY <1>4, <1>6, <2>1, <2>2, ShowsOneMore
  <2> QED BY <2>2, <2>3
<1>10. lane.buffered = <<>> /\ DOMAIN lane.buffered = {}
  BY <1>2, EmptyPositions DEF Phased
<1>11. Reads
  <2>1. \A i \in DOMAIN shown' : shown'[i] = e \/ In(shown'[i], shown)
    BY <1>8, <1>9 DEF In
  <2>2. ArmsMore
    BY <1>0 DEF ArmsMore
  <2> QED BY <1>0, <1>3, <1>8, <1>10, <2>1, <2>2 DEF Reads
<1>12. ASSUME NEW n \in Events, Coming(n)' PROVE Coming(n)
  BY <1>0, <1>12 DEF Coming, Gen, IsEvent, Advances
<1>13. ~Repeats(lane, e) /\ HasSequence /\ ~counts.rewound /\ counts.early = 0
       => \A n \in Events : Coming(n) /\ Passed(n, shown, rendered) => Num(n) < Num(e)
  <2> SUFFICES ASSUME ~Repeats(lane, e), HasSequence, ~counts.rewound, counts.early = 0,
                      NEW n \in Events, Coming(n), Passed(n, shown, rendered)
               PROVE  Num(n) < Num(e)
    OBVIOUS
  <2>1. lane.last >= 0 /\ Num(n) <= lane.last
    BY DEF IInv, BySequence
  <2>2. ~(Num(e) <= lane.last)
    BY <2>1 DEF Repeats, Num
  <2>3. Num(n) \in Nat /\ Num(e) \in Nat
    BY <1>2, <1>4, EventTypes
  <2> QED BY <1>6, <2>1, <2>2, <2>3
<1>14. Coming(e)
  BY <1>0, <1>3, <1>4 DEF Coming
<1>15. Ascending'
  <2> SUFFICES ASSUME counts.early = 0, Filtered
               PROVE  Increasing(shown') /\ \A i \in DOMAIN shown' : shown'[i] > rendered
    BY <1>0 DEF Ascending, Filtered, HasSequence, Increasing
  <2>1. Increasing(shown) /\ \A i \in DOMAIN shown : shown[i] > rendered
    BY DEF IInv, Ascending
  <2>2. CASE shown' = shown
    BY <2>1, <2>2
  <2>3. CASE ~Repeats(lane, e) /\ shown' = Append(shown, e)
    <3>1. ~Passed(e, shown, rendered)
      <4>1. CASE counts.replays = 0
        <5>1. /\ \A i \in DOMAIN shown : shown[i] < e
              /\ rendered < e
          BY <1>0, <1>3, <1>4, <4>1 DEF IInv, ByOrder
        <5> QED BY <1>2, <1>4, <5>1, Records DEF Passed
      <4>2. CASE HasSequence /\ ~counts.rewound
        <5>1. Num(e) \in Nat
          BY <1>2, <1>4, EventTypes
        <5> QED BY <1>4, <1>13, <1>14, <2>3, <4>2, <5>1
      <4> QED BY <4>1, <4>2 DEF Filtered
    <3>2. e > rendered /\ \A i \in DOMAIN shown : shown[i] < e
      BY <1>2, <1>4, <3>1, Records DEF Passed
    <3> QED BY <1>9, <2>1, <2>3, <3>2 DEF In
  <2> QED BY <1>8, <2>2, <2>3
<1>16. BySequence'
  <2> SUFFICES ASSUME HasSequence, ~counts.rewound, counts.early = 0
               PROVE  /\ lane'.last >= 0
                      /\ \A n \in Events : Coming(n)' /\ Passed(n, shown', rendered) => Num(n) <= lane'.last
    BY <1>0, <1>8 DEF BySequence, HasSequence, Passed, Events, Num
  <2>1. CASE shown' = shown /\ lane'.last = lane.last
    BY <1>12, <2>1 DEF IInv, BySequence
  <2>2. CASE ~Repeats(lane, e) /\ shown' = Append(shown, e) /\ lane'.last = Num(e)
    <3>1. Num(e) \in Nat /\ Gen(e) \in Nat /\ Gen(e) <= now.generation /\ now.generation \in Nat
      BY <1>2, <1>4, EventTypes DEF Numbered
    <3>2. ASSUME NEW n \in Events, Coming(n)', Passed(n, shown', rendered) PROVE Num(n) <= Num(e)
      <4>1. n \in Nat /\ Num(n) \in Nat /\ Gen(n) \in Nat
        BY <1>2, EventTypes
      <4>2. CASE Passed(n, shown, rendered)
        BY <1>12, <1>13, <2>2, <3>1, <3>2, <4>1, <4>2
      <4>3. CASE n = e
        BY <3>1, <4>3
      <4>4. CASE n < e
        <5>1. Gen(n) <= Gen(e) /\ (Gen(n) = Gen(e) => Num(n) < Num(e))
          BY <1>2, <1>4, <4>4 DEF Numbered
        <5>2. Gen(n) = now.generation \/ Gen(e) <= Gen(n)
          <6>1. Gen(n) = now.generation
                \/ \E k \in DOMAIN toLane' : IsEvent(toLane'[k]) /\ toLane'[k].n = n
            BY <1>0, <3>2 DEF Coming, Gen, IsEvent
          <6>2. ASSUME NEW k \in DOMAIN toLane', IsEvent(toLane'[k]), toLane'[k].n = n
                PROVE  Gen(e) <= Gen(n)
            <7>1. k + 1 \in DOMAIN toLane /\ 1 < k + 1 /\ toLane'[k] = toLane[k + 1]
              BY <1>0 DEF Advances
            <7> QED BY <1>0, <1>2, <1>3, <1>4, <6>2, <7>1 DEF Pushed
          <6> QED BY <6>1, <6>2
        <5> QED BY <3>1, <4>1, <5>1, <5>2
      <4>5. Passed(n, shown, rendered) \/ n <= e
        BY <1>9, <2>2, <3>2, <4>1
      <4> QED BY <1>4, <4>1, <4>2, <4>3, <4>4, <4>5
    <3> QED BY <2>2, <3>1, <3>2
  <2> QED BY <1>8, <2>1, <2>2
<1>17. Filters'
  <2> SUFFICES ASSUME counts.restarts = 0 PROVE Knows(lane', shown', base)
    BY <1>0 DEF Filters, Knows, HasSequence, Passed, Events, Gen, Num
  <2>1. Knows(x.lane, x.shown, base) /\ base \in Nat
    BY <1>2, <1>6, Records DEF IInv, Filters
  <2> QED BY <1>2, <1>4, <1>6, <1>7, <2>1, FilterKnows
<1>18. ASSUME NEW s \in 0..Len(events), counts.restarts = 0, Since(s) PROVE Since(s)'
  <2>1. Knows(x.lane, x.shown, base) /\ base \in Nat
    BY <1>2, <1>6, <1>18, Records DEF IInv, Filters
  <2>2. /\ \A n \in Events : s < n /\ n <= base => In(n, x.shown)
        /\ Gapless(x.shown, s)
    BY <1>6, <1>18 DEF Since, Gapless
  <2>3. \A n : ~Before(n, 1)
    BY <1>0, <1>3, AdvancesSent
  <2>4. \A n \in Events : s < n /\ n < e => In(n, x.shown)
    BY <1>0, <1>3, <1>4, <1>6, <1>10, <1>18, <2>3 DEF Since, Seen, In
  <2>5. /\ Gapless(shown', s) /\ (s < e => In(e, shown'))
        /\ \A n : In(n, shown) => In(n, shown')
    <3>1. s \in Nat
      BY <1>2, EventTypes
    <3> QED BY <1>2, <1>4, <1>6, <1>7, <1>18, <2>1, <2>2, <2>4, <3>1, FilterGapless
  <2>6. \A n : Seen(n) => Seen(n)'
    <3>1. lane'.buffered = lane.buffered
      BY <1>8
    <3> QED BY <2>5, <3>1 DEF Seen, In
  <2>7. e > s => Seen(e)'
    <3> SUFFICES ASSUME e > s PROVE Seen(e)'
      OBVIOUS
    <3>1. In(e, shown')
      BY <1>2, <1>4, <2>5, EventTypes
    <3> QED BY <3>1 DEF Seen, In
  <2>8. \A k \in DOMAIN armed' :
          IsAnswer(armed'[k])
          => s <= armed'[k].n /\ \A n \in Events : s < n /\ n <= armed'[k].n => Seen(n)'
    BY <1>0, <1>18, <2>6 DEF Since
  <2>9. Settled' => Settled
    <3> SUFFICES ASSUME Settled' PROVE Settled
      OBVIOUS
    <3>1. /\ serving.phase = "none" /\ \A k \in DOMAIN armed : ~IsAnswer(armed[k])
          /\ \A k \in DOMAIN toLane' : ~IsAnswer(toLane'[k])
      BY <1>0 DEF Settled, IsAnswer
    <3>3. \A k \in DOMAIN toLane : k = 1 \/ (k - 1 \in DOMAIN toLane' /\ toLane'[k - 1] = toLane[k])
      BY <1>0 DEF Advances
    <3>4. \A k \in DOMAIN toLane : ~IsAnswer(toLane[k])
      BY <1>0, <3>1, <3>3 DEF IsEvent, IsAnswer
    <3> QED BY <3>1, <3>4 DEF Settled
  <2>10. /\ \A n \in Events : s < n /\ n <= base => In(n, shown')
         /\ \A i \in DOMAIN shown', n \in Events : s < n /\ n < shown'[i] => In(n, shown')
         /\ \A i \in DOMAIN lane'.buffered : FALSE
    BY <1>6, <1>8, <1>10, <2>2, <2>5 DEF Gapless
  <2>11. UNCHANGED <<events, serving, rendered, base, counts>> /\ lane'.attached = lane.attached
    BY <1>0, <1>8
  <2> QED BY <1>0, <1>3, <1>18, <2>6, <2>7, <2>8, <2>9, <2>10, <2>11, ReadsSince
<1>19. lane'.attached => lane'.buffered = <<>>
  BY <1>8, <1>10
<1> QED BY <1>8, <1>11, <1>15, <1>16, <1>17, <1>18, <1>19, EventReadStep

LEMMA LaneReadsStep == ASSUME IInv, LaneReads PROVE IInv'
<1>1. Advances
  BY TailAdvances DEF IInv, LaneReads
<1>2. toLane[1] = Head(toLane)
  BY <1>1 DEF Advances
<1>3. CASE toLane[1].type = "attach" /\ ReadsAnswer(toLane[1])
  BY <1>1, <1>3, ReadsAnswerStep
<1>4. CASE toLane[1].type = "session_replaced" /\ ~lane.closed /\ ReadsReplaced
  BY <1>1, <1>4, ReadsReplacedStep DEF ReadsReplaced, IsEvent
<1>5. CASE toLane[1].type = "session_event" /\ ~lane.closed /\ ReadsEvent(toLane[1].n)
  <2>1. EventRead
    BY <1>1, <1>5 DEF EventRead, LaneReads, ReadsEvent, daemon, IsEvent
  <2>2. CASE lane.attached
    BY <1>5, <2>1, <2>2, ReadsShownStep DEF ReadsEvent
  <2>3. CASE ~lane.attached
    BY <1>5, <2>1, <2>3, ReadsBufferedStep DEF ReadsEvent
  <2> QED BY <2>2, <2>3
<1>6. CASE /\ toLane[1].type # "attach" /\ lane.closed
           /\ UNCHANGED <<asks, armed, lane, shown, toDaemon>>
  BY <1>1, <1>6, ReadsReplacedStep
<1> QED BY <1>2, <1>3, <1>4, <1>5, <1>6 DEF LaneReads

-----------------------------------------------------------------------------
(* attach() goes on.  What is shown afterwards was shown or buffered. *)
LEMMA DeliversThose ==
  ASSUME Typed, Bounded, NEW x \in Views, NEW ns \in Seq(Nat), \A k \in DOMAIN ns : ns[k] \in Events
  PROVE  \A i \in DOMAIN DeliverAll(x, ns).shown :
           In(DeliverAll(x, ns).shown[i], x.shown) \/ In(DeliverAll(x, ns).shown[i], ns)
<1>1. PICK d : /\ d[0] = x /\ DeliverAll(x, ns) = d[Len(ns)]
               /\ \A k \in 1..Len(ns) : d[k] = Filter(d[k - 1], ns[k])
               /\ \A k \in 0..Len(ns) : d[k] \in Views
  BY DeliversOneByOne
<1>2. Len(ns) \in Nat /\ DOMAIN ns = 1..Len(ns)
  BY Positions
<1> DEFINE Those(k) == \A i \in DOMAIN d[k].shown : In(d[k].shown[i], x.shown) \/ In(d[k].shown[i], ns)
           T == {k \in Nat : k <= Len(ns) => Those(k)}
<1>3. 0 \in T
  BY <1>1 DEF In
<1>4. ASSUME NEW k \in Nat, k \in T PROVE k + 1 \in T
  <2> SUFFICES ASSUME k + 1 <= Len(ns) PROVE Those(k + 1)
    OBVIOUS
  <2>1. k + 1 \in 1..Len(ns) /\ (k + 1) - 1 = k /\ k \in 0..Len(ns) /\ k <= Len(ns)
    BY <1>2
  <2>2. d[k + 1] = Filter(d[k], ns[k + 1]) /\ d[k] \in Views /\ ns[k + 1] \in Events /\ Those(k)
    BY <1>1, <1>2, <1>4, <2>1
  <2>3. PICK y, e : y = d[k] /\ e = ns[k + 1]
    OBVIOUS
  <2>4. /\ y \in Views /\ y.shown \in Seq(Nat) /\ e \in Events /\ e \in Nat /\ In(e, ns)
        /\ d[k + 1] = Filter(y, e)
        /\ \A i \in DOMAIN y.shown : In(y.shown[i], x.shown) \/ In(y.shown[i], ns)
    BY <1>2, <2>1, <2>2, <2>3, EventTypes DEF Views, In
  <2>5. PICK z : z = d[k + 1].shown
    OBVIOUS
  <2>6. z = y.shown \/ z = Append(y.shown, e)
    BY <2>4, <2>5, FilterStep
  <2>7. \A i \in DOMAIN z : z[i] = e \/ In(z[i], y.shown)
    <3>1. CASE z = y.shown
      BY <3>1 DEF In
    <3>2. CASE z = Append(y.shown, e)
      <4>1. PICK b \in Nat : b = 0
        OBVIOUS
      <4> QED BY <2>4, <3>2, <4>1, ShowsOneMore
    <3> QED BY <2>6, <3>1, <3>2
  <2>8. \A i \in DOMAIN z : In(z[i], x.shown) \/ In(z[i], ns)
    BY <2>4, <2>7 DEF In
  <2> QED BY <2>5, <2>8
<1> HIDE DEF T
<1>5. \A k \in Nat : k \in T
  BY <1>3, <1>4, Counting
<1>6. Those(Len(ns))
  BY <1>2, <1>5 DEF T
<1> QED BY <1>1, <1>6

(* attach() goes on, for every answer that was read. *)
LEMMA ArmsAlways ==
  ASSUME IInv, Arms
  PROVE  /\ UNCHANGED <<clock, events, now, seated, serving, wire, toDaemon, toLane>>
         /\ armed' = <<>> /\ armed' \in Seq(Messages) /\ DOMAIN armed' = {}
         /\ asks' \in Seq(Reasons) /\ Counted'
         /\ \/ \E k \in DOMAIN armed : IsLast(k) /\ Attaches(armed[k])
            \/ (\A k \in DOMAIN armed : ~armed[k].ok) /\ Fails
         /\ Closing \in Lanes /\ Closing.attached = lane.attached /\ Closing.boundary = lane.boundary
         /\ Closing.last = lane.last /\ Closing.buffered = lane.buffered
         /\ lane.closed => Closing.closed
<1>1. /\ UNCHANGED <<clock, events, now, seated, serving, wire, toDaemon, toLane>>
      /\ armed # <<>> /\ armed' = <<>>
      /\ asks' = SubSeq(asks, Len(armed) + 1, Len(asks))
      /\ \/ \E k \in DOMAIN armed : IsLast(k) /\ Attaches(armed[k])
         \/ (\A k \in DOMAIN armed : ~armed[k].ok) /\ Fails
  BY DEF Arms, daemon, net
<1>2. Typed
  BY DEF IInv
<1>3. /\ Len(asks) = Len(armed) + Len(toDaemon) + Working + Cardinality(Awaited(toLane))
      /\ Len(asks) \in Nat /\ Len(armed) \in Nat /\ Len(toDaemon) \in Nat /\ Working \in Nat
      /\ Cardinality(Awaited(toLane)) \in Nat
  <2>1. toLane \in Seq(Messages) /\ asks \in Seq(Reasons) /\ armed \in Seq(Messages)
        /\ toDaemon \in Seq(Reasons)
    BY <1>2 DEF Typed
  <2> QED BY <2>1, LenProperties, AwaitedNumber DEF IInv, Counted, Working
<1>4. asks' \in Seq(Reasons) /\ Len(asks') = Len(asks) - Len(armed)
  <2> DEFINE a == Len(armed) + 1
             b == Len(asks)
  <2>1. a \in Int /\ b \in Int /\ a >= 1 /\ a <= b + 1
    BY <1>3
  <2>2. \A i \in a..b : asks[i] \in Reasons
    <3>1. asks \in Seq(Reasons)
      BY <1>2 DEF Typed
    <3>2. \A i \in a..b : i \in 1..Len(asks)
      BY <2>1
    <3> QED BY <3>1, <3>2, Positions
  <2> HIDE DEF a, b
  <2>3. /\ SubSeq(asks, a, b) \in Seq(Reasons)
        /\ Len(SubSeq(asks, a, b)) = IF a <= b THEN b - a + 1 ELSE 0
    BY <2>1, <2>2, SubSeqProperties
  <2>4. SubSeq(asks, a, b) \in Seq(Reasons) /\ Len(SubSeq(asks, a, b)) = b - a + 1
    BY <2>1, <2>3
  <2>5. b - a + 1 = Len(asks) - Len(armed)
    BY <1>3 DEF a, b
  <2> QED BY <1>1, <2>4, <2>5 DEF a, b
<1>5. Counted'
  <2>1. Working' = Working /\ toDaemon' = toDaemon /\ toLane' = toLane /\ Len(armed') = 0
    BY <1>1, EmptySeq DEF Working
  <2>2. Len(asks') = 0 + Len(toDaemon) + Working + Cardinality(Awaited(toLane))
    BY <1>3, <1>4
  <2> QED BY <2>1, <2>2 DEF Counted, Awaited
<1>6. armed' \in Seq(Messages) /\ DOMAIN armed' = {}
  BY <1>1, EmptyPositions
<1>7. /\ Closing \in Lanes /\ Closing.attached = lane.attached /\ Closing.boundary = lane.boundary
      /\ Closing.last = lane.last /\ Closing.buffered = lane.buffered
      /\ lane.closed => Closing.closed
  <2>1. lane \in Lanes /\ ClosesLane(Failed) \in BOOLEAN
    BY <1>2 DEF Typed, ClosesLane
  <2> QED BY <2>1 DEF Closing, Lanes
<1> QED BY <1>1, <1>4, <1>5, <1>6, <1>7

(* The lane that the deliveries start from, and what the step does. *)
ArmsTo(m, at, x) ==
  /\ UNCHANGED <<clock, events, now, seated, serving, wire, toDaemon, toLane>>
  /\ seated /\ wire # "down"
  /\ \E j \in DOMAIN armed : IsAnswer(armed[j]) /\ m = armed[j].n /\ at = armed[j].at
  /\ m \in Nat /\ m <= Len(events) /\ Parts(m, at)
  /\ x \in Views /\ Armed(x.lane, at) /\ x.shown = shown
  /\ x.lane.attached /\ (lane.closed => x.lane.closed) /\ x.lane.buffered = <<>>
  /\ lane' = DeliverAll(x, lane.buffered).lane /\ shown' = DeliverAll(x, lane.buffered).shown
  /\ base' = m /\ rendered' = (IF lane.attached THEN rendered ELSE m)
  /\ counts' \in Tallies /\ counts'.drops = counts.drops /\ counts'.replays = counts.replays
  /\ counts'.restarts = counts.restarts /\ counts'.early = counts.early
  /\ ~counts'.rewound => ~counts.rewound /\ \A k \in DOMAIN shown : ~(shown[k] > m)
  /\ armed' = <<>> /\ armed' \in Seq(Messages) /\ DOMAIN armed' = {}
  /\ asks' \in Seq(Reasons) /\ Counted'

LEMMA ArmsFacts ==
  ASSUME IInv, Arms, NEW k \in DOMAIN armed, IsLast(k), Attaches(armed[k])
  PROVE  \E m, at, x : ArmsTo(m, at, x)
<1>1. PICK msg, m, at : msg = armed[k] /\ m = msg.n /\ at = msg.at
  OBVIOUS
<1> DEFINE l == [Closing EXCEPT !.boundary = BoundaryOf(msg), !.last = LastSequenceOf(msg),
                                !.buffered = <<>>, !.attached = TRUE]
           x == [lane |-> l, shown |-> shown]
<1>2. /\ lane' = DeliverAll(x, lane.buffered).lane /\ shown' = DeliverAll(x, lane.buffered).shown
      /\ base' = m /\ rendered' = IF lane.attached THEN rendered ELSE m
      /\ counts' = [counts EXCEPT !.rewound = @ \/ \E i \in DOMAIN shown : shown[i] > m]
  BY <1>1 DEF Attaches
<1>3. Typed /\ Bounded /\ Phased /\ Snaps
  BY DEF IInv
<1>4. /\ lane \in Lanes /\ shown \in Seq(Nat) /\ counts \in Tallies
  BY <1>3 DEF Typed
<1>5. /\ UNCHANGED <<clock, events, now, seated, serving, wire, toDaemon, toLane>>
      /\ armed' = <<>> /\ armed' \in Seq(Messages) /\ DOMAIN armed' = {}
      /\ asks' \in Seq(Reasons) /\ Counted'
      /\ Closing \in Lanes /\ (lane.closed => Closing.closed)
  BY ArmsAlways
<1>6. /\ m \in Nat /\ m <= Len(events) /\ Parts(m, at) /\ at \in Cursors
      /\ at.sequence \in 0..MaxEvents /\ IsAnswer(armed[k])
  <2>1. IsAnswer(armed[k])
    BY <1>3 DEF IsLast, IsAnswer, Bounded
  <2>2. m \in Nat /\ m <= Len(events) /\ Parts(m, at)
    BY <1>1, <1>3, <2>1, Records DEF Bounded, Snaps
  <2> QED BY <2>1, <2>2 DEF Parts, Cursors
<1>7. /\ BoundaryOf(msg) = IF clock = "sequence" THEN NoCursor ELSE at
      /\ LastSequenceOf(msg) = IF clock = "cursor" THEN -1 ELSE at.sequence
  BY <1>1 DEF BoundaryOf, LastSequenceOf
<1>8. /\ BoundaryOf(msg) \in Points /\ LastSequenceOf(msg) \in -1..MaxEvents
      /\ <<>> \in Seq(Nat)
  <2>1. -1 \in -1..MaxEvents /\ 0..MaxEvents \subseteq -1..MaxEvents
    BY BoundsAssumption
  <2> QED BY <1>6, <1>7, <2>1, EmptyPositions DEF Points
<1>9. /\ l \in Lanes /\ l.attached /\ l.closed = Closing.closed /\ l.buffered = <<>>
      /\ l.boundary = BoundaryOf(msg) /\ l.last = LastSequenceOf(msg)
  BY <1>5, <1>8 DEF Lanes
<1> HIDE DEF l
<1>10. x \in Views /\ x.lane = l /\ x.shown = shown
  BY <1>4, <1>9 DEF Views
<1> HIDE DEF x
<1>11. Armed(x.lane, at)
  BY <1>7, <1>9, <1>10 DEF Armed
<1>12. /\ counts' \in Tallies /\ counts'.drops = counts.drops /\ counts'.replays = counts.replays
       /\ counts'.restarts = counts.restarts /\ counts'.early = counts.early
       /\ ~counts'.rewound => ~counts.rewound /\ \A i \in DOMAIN shown : ~(shown[i] > m)
  <2> DEFINE r == \E i \in DOMAIN shown : shown[i] > m
  <2>1. r \in BOOLEAN /\ counts' = [counts EXCEPT !.rewound = @ \/ r]
    BY <1>2
  <2>2. ~r => \A i \in DOMAIN shown : ~(shown[i] > m)
    OBVIOUS
  <2> HIDE DEF r
  <2>3. counts'.rewound = (counts.rewound \/ r)
    BY <1>4, <2>1 DEF Tallies
  <2>4. counts' \in Tallies /\ counts'.drops = counts.drops /\ counts'.replays = counts.replays
        /\ counts'.restarts = counts.restarts /\ counts'.early = counts.early
    BY <1>4, <2>1 DEF Tallies
  <2> QED BY <2>2, <2>3, <2>4
<1>13. seated /\ wire # "down"
  BY <1>3, <1>6 DEF Phased
<1>14. ArmsTo(m, at, x)
  BY <1>1, <1>2, <1>5, <1>6, <1>9, <1>10, <1>11, <1>12, <1>13 DEF ArmsTo
<1> QED BY <1>14

(* What holds whether or not the lane had attached before. *)
LEMMA ArmsKeeps ==
  ASSUME IInv, NEW m, NEW at, NEW x, ArmsTo(m, at, x)
  PROVE  /\ Typed' /\ Bounded' /\ Counted' /\ Phased' /\ Numbered' /\ Snaps' /\ Pushed' /\ Answered'
         /\ ByOrder' /\ Filters'
         /\ lane'.attached /\ (lane.closed => lane'.closed) /\ lane'.buffered = <<>>
         /\ DeliverAll(x, lane.buffered) \in Views
<1>1. /\ UNCHANGED <<clock, events, now, seated, serving, wire, toDaemon, toLane>>
      /\ seated /\ wire # "down" /\ m \in Nat /\ m <= Len(events) /\ Parts(m, at)
      /\ \E j \in DOMAIN armed : IsAnswer(armed[j]) /\ m = armed[j].n /\ at = armed[j].at
      /\ base' = m /\ rendered' = IF lane.attached THEN rendered ELSE m
  BY DEF ArmsTo
<1>2. /\ counts' \in Tallies /\ counts'.drops = counts.drops /\ counts'.replays = counts.replays
      /\ counts'.restarts = counts.restarts /\ counts'.early = counts.early
      /\ armed' \in Seq(Messages) /\ DOMAIN armed' = {} /\ asks' \in Seq(Reasons) /\ Counted'
  BY DEF ArmsTo
<1>3. Typed /\ Bounded /\ Phased /\ Numbered /\ Snaps /\ Pushed /\ Answered /\ ByOrder
  BY DEF IInv
<1>4. /\ lane.buffered \in Seq(Nat) /\ \A k \in DOMAIN lane.buffered : lane.buffered[k] \in Events
      /\ rendered \in Nat /\ base \in Nat
  BY <1>3, Records
<1>5. PICK y : y = DeliverAll(x, lane.buffered)
  OBVIOUS
<1>6. y \in Views /\ y.lane.attached /\ (lane.closed => y.lane.closed) /\ y.lane.buffered = <<>>
  <2>1. x \in Views /\ x.lane.attached /\ (lane.closed => x.lane.closed) /\ x.lane.buffered = <<>>
    BY DEF ArmsTo
  <2>2. PICK d : /\ y = d[Len(lane.buffered)]
                 /\ \A k \in 0..Len(lane.buffered) :
                      /\ d[k] \in Views /\ d[k].lane.attached = x.lane.attached
                      /\ d[k].lane.closed = x.lane.closed /\ d[k].lane.buffered = x.lane.buffered
    BY <1>3, <1>4, <1>5, <2>1, DeliversOneByOne
  <2>3. Len(lane.buffered) \in 0..Len(lane.buffered)
    BY <1>4, Positions
  <2> QED BY <2>1, <2>2, <2>3
<1>7. /\ lane' = y.lane /\ shown' = y.shown /\ lane' \in Lanes /\ shown' \in Seq(Nat)
      /\ lane'.attached /\ (lane.closed => lane'.closed) /\ lane'.buffered = <<>>
  BY <1>5, <1>6 DEF ArmsTo, Views
<1>8. \A i \in DOMAIN shown' : In(shown'[i], shown) \/ In(shown'[i], lane.buffered)
  <2>1. x \in Views /\ x.shown = shown
    BY DEF ArmsTo
  <2>2. \A i \in DOMAIN y.shown : In(y.shown[i], x.shown) \/ In(y.shown[i], lane.buffered)
    BY <1>3, <1>4, <1>5, <2>1, DeliversThose
  <2> QED BY <1>7, <2>1, <2>2
<1>9. Events' = Events /\ Len(events)' = Len(events) /\ DOMAIN lane'.buffered = {}
  BY <1>1, <1>7, EmptyPositions DEF Events
<1>10. Typed'
  <2>1. rendered' \in Nat /\ base' \in Nat
    BY <1>1, <1>4
  <2> QED BY <1>1, <1>2, <1>3, <1>7, <2>1 DEF Typed
<1>11. Bounded'
  <2>1. \A i \in DOMAIN shown' : shown'[i] \in Events
    BY <1>3, <1>8 DEF Bounded, In
  <2>2. rendered' <= base' /\ base' <= Len(events)
    <3>1. rendered <= base /\ base <= m
      BY <1>1, <1>3 DEF Bounded, Answered
    <3>2. CASE lane.attached
      BY <1>1, <1>4, <3>1, <3>2
    <3>3. CASE ~lane.attached
      BY <1>1, <3>3
    <3> QED BY <3>2, <3>3
  <2>4. /\ Len(events) <= MaxEvents /\ now.sequence <= Len(events) /\ serving.upTo <= Len(events)
        /\ \A k \in DOMAIN toLane :
             toLane[k].n <= Len(events) /\ (IsEvent(toLane[k]) => toLane[k].n # 0)
    BY <1>3 DEF Bounded
  <2>5. UNCHANGED <<events, now, serving, toLane>>
    BY <1>1
  <2> QED BY <1>2, <1>9, <2>1, <2>2, <2>4, <2>5 DEF Bounded, IsEvent, IsAnswer
<1>12. Counted'
  BY <1>2
<1>13. Phased'
  BY <1>1, <1>7 DEF Phased
<1>14. Numbered'
  BY <1>1, <1>2, <1>3, <1>7 DEF Numbered, Events, Gen, Num
<1>15. Snaps'
  <2>1. ASSUME NEW k \in Nat, NEW c, Parts(k, c) PROVE Parts(k, c)'
    BY <1>1, <1>2, <2>1 DEF Parts, Events, Gen, Num
  <2>2. \A j \in DOMAIN toLane' : \E i \in DOMAIN toLane : toLane'[j] = toLane[i]
    BY <1>1
  <2> QED BY <1>1, <1>2, <1>3, <2>1, <2>2, SnapsKept
<1>16. Pushed'
  <2>1. UNCHANGED <<events, toLane>>
    BY <1>1
  <2> QED BY <1>2, <1>3, <2>1 DEF Pushed, Gen, IsEvent, IsAnswer
<1>17. Answered'
  <2>3. \A j \in DOMAIN toLane : IsAnswer(toLane[j]) => m <= toLane[j].n
    BY <1>1, <1>3 DEF Answered
  <2>5. \A i, j \in DOMAIN toLane :
          i < j /\ IsAnswer(toLane[i]) /\ IsAnswer(toLane[j]) => toLane[i].n <= toLane[j].n
    BY <1>3 DEF Answered
  <2>6. serving.phase = "taken" =>
          /\ m <= serving.upTo
          /\ \A j \in DOMAIN toLane : IsAnswer(toLane[j]) => toLane[j].n <= serving.upTo
    BY <1>1, <1>2, <1>3 DEF Answered
  <2>7. base' = m /\ UNCHANGED <<toLane, serving>>
    BY <1>1
  <2> QED BY <1>2, <2>3, <2>5, <2>6, <2>7 DEF Answered, IsAnswer
<1>18. ByOrder'
  <2> SUFFICES ASSUME counts.replays = 0 PROVE ByOrder'
    BY <1>2 DEF ByOrder
  <2>1. /\ \A j, k \in DOMAIN toLane :
             j < k /\ IsEvent(toLane[j]) /\ IsEvent(toLane[k]) => toLane[j].n < toLane[k].n
        /\ \A j, k \in DOMAIN toLane :
             j < k /\ IsAnswer(toLane[j]) /\ IsEvent(toLane[k]) => toLane[j].n < toLane[k].n
    BY <1>3 DEF ByOrder
  <2>2. \A i \in DOMAIN shown', k \in DOMAIN toLane : IsEvent(toLane[k]) => shown'[i] < toLane[k].n
    <3> SUFFICES ASSUME NEW i \in DOMAIN shown', NEW k \in DOMAIN toLane, IsEvent(toLane[k])
                 PROVE  shown'[i] < toLane[k].n
      OBVIOUS
    <3>1. In(shown'[i], shown) \/ In(shown'[i], lane.buffered)
      BY <1>8
    <3> QED BY <1>3, <3>1 DEF ByOrder, In
  <2>4. \A k \in DOMAIN toLane : IsEvent(toLane[k]) => rendered' < toLane[k].n
    BY <1>1, <1>3 DEF ByOrder
  <2>5. toLane' = toLane
    BY <1>1
  <2> QED BY <1>2, <1>9, <2>1, <2>2, <2>4, <2>5 DEF ByOrder, Increasing, IsEvent, IsAnswer
<1>19. Filters'
  <2> SUFFICES ASSUME counts.restarts = 0 PROVE Knows(lane', shown', m)
    BY <1>1, <1>2 DEF Filters, Knows, HasSequence, Passed, Events, Gen, Num
  <2>1. Knows(x.lane, x.shown, m) /\ x \in Views
    BY <1>1, <1>3, FreshKnows DEF ArmsTo
  <2> QED BY <1>1, <1>3, <1>4, <1>5, <1>7, <2>1, AllKnow
<1> QED BY <1>5, <1>6, <1>7, <1>10, <1>11, <1>12, <1>13, <1>14, <1>15, <1>16, <1>17, <1>18, <1>19

(* An attach again, to a lane that streams: nothing was buffered. *)
LEMMA DeliversNone ==
  ASSUME NEW x PROVE DeliverAll(x, <<>>) = x
<1>1. Len(<<>>) = 0
  OBVIOUS
<1> DEFINE d == CHOOSE f : f = [k \in 0..0 |-> IF k = 0 THEN x ELSE Filter(f[k - 1], <<>>[k])]
<1>2. \E f : f = [k \in 0..0 |-> IF k = 0 THEN x ELSE Filter(f[k - 1], <<>>[k])]
  <2> DEFINE z == [k \in 0..0 |-> x]
  <2>1. z = [k \in 0..0 |-> IF k = 0 THEN x ELSE Filter(z[k - 1], <<>>[k])]
    OBVIOUS
  <2> QED BY <2>1
<1>3. d = [k \in 0..0 |-> IF k = 0 THEN x ELSE Filter(d[k - 1], <<>>[k])]
  BY <1>2
<1>4. DeliverAll(x, <<>>) = d[0]
  BY <1>1 DEF DeliverAll
<1> HIDE DEF d
<1>5. d[0] = x
  BY <1>3
<1> QED BY <1>4, <1>5

LEMMA ArmsAgain ==
  ASSUME IInv, NEW m, NEW at, NEW x, ArmsTo(m, at, x), lane.attached
  PROVE  Ascending' /\ BySequence' /\ Streams'
<1>1. /\ UNCHANGED <<clock, events, now, seated, serving, wire, toDaemon, toLane>>
      /\ base' = m /\ rendered' = rendered /\ DOMAIN armed' = {}
      /\ \E j \in DOMAIN armed : IsAnswer(armed[j]) /\ m = armed[j].n /\ at = armed[j].at
      /\ m \in Nat /\ Parts(m, at) /\ Armed(x.lane, at)
  BY DEF ArmsTo
<1>2. /\ counts'.drops = counts.drops /\ counts'.replays = counts.replays
      /\ counts'.restarts = counts.restarts /\ counts'.early = counts.early
      /\ ~counts'.rewound => ~counts.rewound /\ \A k \in DOMAIN shown : ~(shown[k] > m)
      /\ counts'.rewound \in BOOLEAN
  BY DEF ArmsTo, Tallies
<1>3. Typed /\ Bounded /\ Phased /\ Numbered /\ Pushed /\ Answered
  BY DEF IInv
<1>4. lane.buffered = <<>> /\ lane' = x.lane /\ shown' = shown
  BY <1>3, DeliversNone DEF ArmsTo, Phased
<1>5. /\ lane'.attached /\ (lane.closed => lane'.closed) /\ lane'.buffered = lane.buffered
      /\ DOMAIN lane.buffered = {}
  BY <1>4, EmptyPositions DEF ArmsTo
<1>6. Ascending'
  <2> SUFFICES ASSUME counts.early = 0, Filtered'
               PROVE  Increasing(shown) /\ \A i \in DOMAIN shown : shown[i] > rendered
    BY <1>1, <1>2, <1>4 DEF Ascending, Increasing
  <2>1. Filtered
    BY <1>1, <1>2 DEF Filtered, HasSequence
  <2> QED BY <2>1 DEF IInv, Ascending
<1>7. BySequence'
  <2> SUFFICES ASSUME HasSequence, ~counts'.rewound
               PROVE  /\ lane'.last >= 0
                      /\ \A n \in Events : Coming(n)' /\ Passed(n, shown, rendered) => Num(n) <= lane'.last
    BY <1>1, <1>2, <1>4 DEF BySequence, HasSequence, Passed, Events, Num
  <2>1. /\ lane'.last = at.sequence /\ at \in Cursors /\ at.sequence \in Nat /\ at.generation \in Nat
        /\ at.generation <= now.generation /\ now.generation \in Nat
    BY <1>1, <1>3, <1>4, EventTypes DEF Armed, HasSequence, Parts
  <2>2. ASSUME NEW n \in Events, Coming(n)', Passed(n, shown, rendered) PROVE Num(n) <= at.sequence
    <3>1. n \in Nat /\ Gen(n) \in Nat /\ Num(n) \in Nat
      BY <1>3, EventTypes
    <3>2. n <= m
      <4>1. CASE n <= rendered
        <5>1. rendered <= base /\ base <= m /\ rendered \in Nat /\ base \in Nat
          BY <1>1, <1>3, Records DEF Bounded, Answered
        <5> QED BY <1>1, <3>1, <4>1, <5>1
      <4>2. CASE \E i \in DOMAIN shown : n <= shown[i]
        <5>1. \A i \in DOMAIN shown : shown[i] \in Nat /\ ~(shown[i] > m)
          BY <1>2, <1>3, Records
        <5> QED BY <1>1, <3>1, <4>2, <5>1
      <4> QED BY <2>2, <4>1, <4>2 DEF Passed
    <3>3. Gen(n) <= at.generation /\ (Gen(n) = at.generation => Num(n) <= at.sequence)
      BY <1>1, <3>2 DEF Parts
    <3>4. Gen(n) = now.generation \/ at.generation <= Gen(n)
      <4>1. Coming(n)
        BY <1>1, <2>2 DEF Coming, Gen, IsEvent
      <4> QED BY <1>1, <1>3, <4>1 DEF Coming, Pushed
    <3> QED BY <2>1, <3>1, <3>3, <3>4
  <2> QED BY <2>1, <2>2
<1>8. Streams'
  <2> SUFFICES ASSUME counts.restarts = 0, ~lane.closed, seated PROVE \E s \in 0..Len(events) : Since(s)'
    BY <1>1, <1>2, <1>5 DEF Streams
  <2>1. PICK s \in 0..Len(events) : Since(s)
    BY DEF IInv, Streams
  <2>2. /\ \A n : Seen(n)' <=> Seen(n)
        /\ \A n : Seen(n) <=> In(n, shown)
        /\ \A n : Sent(n)' <=> Sent(n)
        /\ \A n, k : Before(n, k)' <=> Before(n, k)
        /\ Events' = Events
    BY <1>1, <1>4, <1>5 DEF Seen, In, Sent, Before, IsEvent, Events
  <2>3. s <= m /\ \A n \in Events : s < n /\ n <= m => In(n, shown)
    BY <1>1, <2>1, <2>2 DEF Since
  <2>5. /\ \A n \in Events : n > s => Seen(n)' \/ Sent(n)'
        /\ \A k \in DOMAIN toLane, n \in Events :
             IsEvent(toLane[k]) /\ s < n /\ n < toLane[k].n => Seen(n)' \/ Before(n, k)'
        /\ \A k \in DOMAIN toLane : IsAnswer(toLane[k]) => s <= toLane[k].n
        /\ \A k \in DOMAIN toLane, n \in Events :
             IsAnswer(toLane[k]) /\ s < n /\ n <= toLane[k].n => Seen(n)' \/ Before(n, k)'
    BY <2>1, <2>2 DEF Since
  <2>6. /\ serving.phase = "taken" => s <= serving.upTo
        /\ \A i \in DOMAIN shown, n \in Events : s < n /\ n < shown[i] => In(n, shown)
        /\ counts.drops = 0 => s <= rendered
    BY <2>1 DEF Since
  <2>7. UNCHANGED <<serving, toLane, shown, rendered>> /\ base' = m /\ lane'.attached
        /\ DOMAIN lane'.buffered = {} /\ DOMAIN armed' = {} /\ counts'.drops = counts.drops
    BY <1>1, <1>2, <1>4, <1>5
  <2>9. Since(s)'
    BY <2>2, <2>3, <2>5, <2>6, <2>7 DEF Since, IsEvent, IsAnswer, In
  <2> QED BY <2>9
<1> QED BY <1>6, <1>7, <1>8

(* The first attach: what was buffered is delivered, unless the snapshot     *)
(* holds it.                                                                 *)
LEMMA ArmsFirst ==
  ASSUME IInv, NEW m, NEW at, NEW x, ArmsTo(m, at, x), ~lane.attached
  PROVE  Ascending' /\ BySequence' /\ Streams'
<1>1. /\ UNCHANGED <<clock, events, now, seated, serving, wire, toDaemon, toLane>>
      /\ base' = m /\ rendered' = m /\ DOMAIN armed' = {}
      /\ \E j \in DOMAIN armed : IsAnswer(armed[j]) /\ m = armed[j].n /\ at = armed[j].at
      /\ m \in Nat /\ m <= Len(events) /\ Parts(m, at)
      /\ x \in Views /\ Armed(x.lane, at) /\ x.shown = shown
  BY DEF ArmsTo
<1>2. /\ counts'.drops = counts.drops /\ counts'.replays = counts.replays
      /\ counts'.restarts = counts.restarts /\ counts'.early = counts.early
      /\ ~counts'.rewound => ~counts.rewound
      /\ counts'.rewound \in BOOLEAN
  BY DEF ArmsTo, Tallies
<1>3. Typed /\ Bounded /\ Phased /\ Numbered /\ Answered
  BY DEF IInv
<1>4. shown = <<>> /\ DOMAIN shown = {}
  BY <1>3, EmptyPositions DEF Phased
<1>5. PICK ns, y : ns = lane.buffered /\ y = DeliverAll(x, ns)
  OBVIOUS
<1>6. /\ ns \in Seq(Nat) /\ \A k \in DOMAIN ns : ns[k] \in Events
      /\ Len(ns) \in Nat /\ DOMAIN ns = 1..Len(ns)
  BY <1>3, <1>5, Records, Positions
<1>7. lane' = y.lane /\ shown' = y.shown /\ y \in Views
  BY <1>5, ArmsKeeps DEF ArmsTo
<1>8. lane'.attached /\ (lane.closed => lane'.closed) /\ lane'.buffered = <<>>
  BY ArmsKeeps
<1>9. counts.early = 0 => now.generation = 1 /\ FirstOnes(x, ns, m, y, Len(ns))
  <2> SUFFICES ASSUME counts.early = 0 PROVE now.generation = 1 /\ FirstOnes(x, ns, m, y, Len(ns))
    OBVIOUS
  <2>1. now.generation = 1
    BY <1>3 DEF Numbered
  <2>2. x.shown = <<>>
    BY <1>1, <1>4
  <2> QED BY <1>1, <1>3, <1>5, <1>6, <2>1, <2>2, FirstShown
<1>10. Ascending'
  <2> SUFFICES ASSUME counts.early = 0, Filtered'
               PROVE  Increasing(y.shown) /\ \A i \in DOMAIN y.shown : y.shown[i] > m
    BY <1>1, <1>2, <1>7 DEF Ascending, Increasing
  <2>1. HasSequence \/ counts.replays = 0
    BY <1>1, <1>2 DEF Filtered, HasSequence
  <2>2. counts.replays = 0 => Increasing(ns)
    BY <1>5 DEF IInv, ByOrder
  <2> QED BY <1>9, <2>1, <2>2 DEF FirstOnes
<1>11. BySequence'
  <2> SUFFICES ASSUME HasSequence, counts.early = 0
               PROVE  /\ y.lane.last >= 0
                      /\ \A n \in Events : Passed(n, y.shown, m) => Num(n) <= y.lane.last
    BY <1>1, <1>2, <1>7 DEF BySequence, HasSequence, Passed, Events, Num
  <2>1. x.lane.last = at.sequence /\ at \in Cursors /\ at.sequence \in Nat
    BY <1>1, <1>3, EventTypes DEF Armed, HasSequence, Parts
  <2>2. /\ y.lane.last >= x.lane.last
        /\ \A n \in Events : Passed(n, y.shown, m) => n <= y.lane.last
    BY <1>9 DEF FirstOnes
  <2>3. \A n \in Events : Num(n) = n
    BY <1>3, <1>9 DEF Numbered
  <2>4. y.lane.last \in Int
    <3>1. y.lane.last \in -1..MaxEvents
      BY <1>7 DEF Views, Lanes
    <3> QED BY <3>1, BoundsAssumption
  <2> QED BY <2>1, <2>2, <2>3, <2>4
<1>12. Streams'
  <2> SUFFICES ASSUME counts.restarts = 0, ~lane.closed, seated PROVE \E s \in 0..Len(events) : Since(s)'
    BY <1>1, <1>2, <1>8 DEF Streams
  <2>1. PICK s \in 0..Len(events) : Since(s)
    BY DEF IInv, Streams
  <2>2. s <= m /\ s \in Nat /\ \A n \in Events : n \in Nat /\ (m < n => s < n)
    <3>1. s <= m /\ s \in Nat
      BY <1>1, <1>3, <2>1, EventTypes DEF Since
    <3> QED BY <1>1, <1>3, <3>1, EventTypes
  <2>3. \A n : Seen(n) <=> In(n, ns)
    BY <1>4, <1>5 DEF Seen, In
  <2>4. Ordered(ns, m)
    BY <1>5, <2>1, <2>2 DEF Since, Ordered
  <2>5. WholeOnes(ns, m, y, Len(ns))
    <3>1. Knows(x.lane, x.shown, m) /\ x.shown = <<>>
      BY <1>1, <1>3, <1>4, FreshKnows
    <3> QED BY <1>1, <1>3, <1>5, <1>6, <2>4, <3>1, FirstWhole
  <2>6. \A n \in Events : m < n /\ Seen(n) => In(n, y.shown)
    <3> SUFFICES ASSUME NEW n \in Events, m < n, In(n, ns) PROVE In(n, y.shown)
      BY <2>3
    <3>1. PICK j \in 1..Len(ns) : ns[j] = n
      BY <1>6 DEF In
    <3>2. ns[j] > m
      BY <1>1, <2>2, <3>1
    <3> QED BY <2>5, <3>1, <3>2 DEF WholeOnes
  <2>7. /\ \A n \in Events : m < n /\ Seen(n) => Seen(n)'
        /\ \A n : Sent(n)' <=> Sent(n)
        /\ \A n, k : Before(n, k)' <=> Before(n, k)
        /\ Events' = Events
    <3>1. \A n : In(n, shown') => Seen(n)'
      BY DEF Seen, In
    <3> QED BY <1>1, <1>7, <2>6, <3>1 DEF Sent, Before, IsEvent, Events
  <2>8. /\ \A n \in Events : n > m => Seen(n)' \/ Sent(n)'
        /\ \A k \in DOMAIN toLane, n \in Events :
             IsEvent(toLane[k]) /\ m < n /\ n < toLane[k].n => Seen(n)' \/ Before(n, k)'
        /\ \A k \in DOMAIN toLane, n \in Events :
             IsAnswer(toLane[k]) /\ m < n /\ n <= toLane[k].n => Seen(n)' \/ Before(n, k)'
    <3>1. \A n \in Events : n > m <=> m < n
      BY <1>1, <2>2
    <3>2. \A n \in Events : m < n => n > s /\ s < n
      BY <2>2
    <3> QED BY <2>1, <2>7, <3>1, <3>2 DEF Since
  <2>9. /\ \A k \in DOMAIN toLane : IsAnswer(toLane[k]) => m <= toLane[k].n
        /\ serving.phase = "taken" => m <= serving.upTo
    BY <1>1, <1>3 DEF Answered
  <2>11. /\ \A n \in Events : ~(m < n /\ n <= m)
         /\ \A i \in DOMAIN y.shown, n \in Events : m < n /\ n < y.shown[i] => In(n, y.shown)
    BY <1>1, <2>2, <2>5 DEF WholeOnes, Gapless
  <2>12. /\ UNCHANGED <<serving, toLane>> /\ base' = m /\ rendered' = m /\ shown' = y.shown
         /\ DOMAIN lane'.buffered = {} /\ DOMAIN armed' = {} /\ m <= m
    BY <1>1, <1>7, <1>8, EmptyPositions
  <2>13. Since(m)'
    BY <2>7, <2>8, <2>9, <2>11, <2>12 DEF Since, IsEvent, IsAnswer, In
  <2>14. m \in 0..Len(events)
    BY <1>1, <1>3, EventTypes
  <2> QED BY <2>13, <2>14
<1> QED BY <1>10, <1>11, <1>12

(* Attaches that were refused leave the stream as it is. *)
LEMMA ArmsNone ==
  ASSUME IInv, Arms, \A k \in DOMAIN armed : ~armed[k].ok, Fails
  PROVE  IInv'
<1>1. /\ UNCHANGED <<clock, events, now, seated, serving, wire, toDaemon, toLane>>
      /\ UNCHANGED <<shown, base, rendered, counts>>
      /\ armed' = <<>> /\ armed' \in Seq(Messages) /\ DOMAIN armed' = {}
      /\ asks' \in Seq(Reasons) /\ Counted'
      /\ lane' \in Lanes /\ lane'.attached = lane.attached /\ lane'.boundary = lane.boundary
      /\ lane'.last = lane.last /\ lane'.buffered = lane.buffered /\ (lane.closed => lane'.closed)
  BY ArmsAlways DEF Fails
<1>2. Typed /\ Bounded /\ Phased /\ Numbered /\ Snaps /\ Pushed /\ Answered /\ ByOrder
  BY DEF IInv
<1>3. Typed'
  BY <1>1, <1>2 DEF Typed
<1>4. Bounded'
  BY <1>1, <1>2 DEF Bounded, Events, IsEvent, IsAnswer
<1>5. wire # "down"
  BY <1>2, EmptyPositions DEF Phased, Arms
<1>6. Phased'
  BY <1>1, <1>2, <1>5 DEF Phased, IsEvent, IsAnswer
<1>7. Numbered'
  BY <1>1, <1>2 DEF Numbered, Events, Gen, Num
<1>8. Snaps'
  <2>1. ASSUME NEW k \in Nat, NEW c, Parts(k, c) PROVE Parts(k, c)'
    BY <1>1, <2>1 DEF Parts, Events, Gen, Num
  <2>2. \A j \in DOMAIN toLane' : \E i \in DOMAIN toLane : toLane'[j] = toLane[i]
    BY <1>1
  <2> QED BY <1>1, <1>2, <2>1, <2>2, SnapsKept
<1>9. Pushed'
  BY <1>1, <1>2 DEF Pushed, Gen, IsEvent, IsAnswer
<1>10. Answered'
  BY <1>1, <1>2 DEF Answered, IsAnswer
<1>11. ByOrder'
  BY <1>1, <1>2 DEF ByOrder, Increasing, IsEvent, IsAnswer
<1>12. Ascending'
  BY <1>1 DEF IInv, Ascending, Filtered, HasSequence, Increasing
<1>13. BySequence'
  BY <1>1 DEF IInv, BySequence, HasSequence, Coming, Passed, Events, Gen, Num, IsEvent
<1>14. Filters'
  BY <1>1 DEF IInv, Filters, Knows, HasSequence, Passed, Events, Gen, Num
<1>15. Streams'
  <2> SUFFICES ASSUME counts.restarts = 0, ~lane.closed, seated PROVE \E s \in 0..Len(events) : Since(s)'
    BY <1>1 DEF Streams
  <2>1. PICK s \in 0..Len(events) : Since(s)
    BY DEF IInv, Streams
  <2>2. /\ \A n : Seen(n)' <=> Seen(n)
        /\ \A n : Sent(n)' <=> Sent(n)
        /\ \A n, k : Before(n, k)' <=> Before(n, k)
        /\ Events' = Events
    BY <1>1 DEF Seen, In, Sent, Before, IsEvent, Events
  <2>3. Settled' => Settled
    BY <1>1 DEF Settled, IsAnswer
  <2>4. Since(s)'
    BY <1>1, <2>1, <2>2, <2>3 DEF Since, IsEvent, IsAnswer, In
  <2> QED BY <2>4
<1> QED BY <1>1, <1>3, <1>4, <1>6, <1>7, <1>8, <1>9, <1>10, <1>11, <1>12, <1>13, <1>14, <1>15 DEF IInv

LEMMA ArmsMany ==
  ASSUME IInv, Arms, NEW k \in DOMAIN armed, IsLast(k), Attaches(armed[k])
  PROVE  IInv'
<1>1. PICK m, at, x : ArmsTo(m, at, x)
  BY ArmsFacts
<1>2. Typed' /\ Bounded' /\ Counted' /\ Phased' /\ Numbered' /\ Snaps' /\ Pushed' /\ Answered'
      /\ ByOrder' /\ Filters'
  BY <1>1, ArmsKeeps
<1>3. Ascending' /\ BySequence' /\ Streams'
  BY <1>1, ArmsAgain, ArmsFirst
<1> QED BY <1>2, <1>3 DEF IInv

LEMMA ArmsStep == ASSUME IInv, Arms PROVE IInv'
BY ArmsAlways, ArmsNone, ArmsMany

-----------------------------------------------------------------------------
(* The invariant holds throughout, and what it says of the properties. *)
LEMMA StreamKeeps == ASSUME IInv, [Next]_vars PROVE IInv'
<1>1. CASE Emits
  BY <1>1, EmitsStep
<1>2. CASE Replays
  BY <1>2, ReplaysStep
<1>3. CASE Replaces
  BY <1>3, ReplacesStep
<1>4. CASE Seats
  BY <1>4, SeatsStep
<1>5. CASE Snapshots
  BY <1>5, SnapshotsStep
<1>6. CASE Answers
  BY <1>6, AnswersStep
<1>7. CASE Refuses
  BY <1>7, RefusesStep
<1>8. CASE LaneReads
  BY <1>8, LaneReadsStep
<1>9. CASE Arms
  BY <1>9, ArmsStep
<1>10. CASE Lost
  BY <1>10, LostStep
<1>11. CASE Restored
  BY <1>11, RestoredStep
<1>12. CASE UNCHANGED vars
  <2>0. /\ UNCHANGED <<clock, events, now, seated, serving, wire, toDaemon, toLane>>
        /\ UNCHANGED <<asks, armed, lane, shown, rendered, base, counts>>
    BY <1>12 DEF vars, daemon, net
  <2>1. Quiet
    BY <2>0 DEF Quiet
  <2>2. Typed' /\ Bounded' /\ Phased' /\ Numbered'
    BY <2>0 DEF IInv, Typed, Bounded, Phased, Numbered, Events, Gen, Num, IsEvent, IsAnswer
  <2>3. Counted'
    BY <2>0 DEF IInv, Counted, Working, Awaited
  <2>4. Snaps'
    <3>1. ASSUME NEW k \in Nat, NEW at, Parts(k, at) PROVE Parts(k, at)'
      BY <2>0, <3>1 DEF Parts, Events, Gen, Num
    <3> QED BY <2>0, <2>1, <3>1, QuietSnaps
  <2>5. Pushed' /\ Answered' /\ Ascending' /\ BySequence' /\ ByOrder'
    BY <2>0, <2>1, QuietOrder
  <2>6. Filters'
    BY <2>0 DEF IInv, Filters, Knows, HasSequence, Passed, Events, Gen, Num
  <2>7. Streams'
    <3> SUFFICES ASSUME counts.restarts = 0, ~lane.closed, seated
                 PROVE  \E s \in 0..Len(events) : Since(s)'
      BY <2>0 DEF Streams
    <3>1. PICK s \in 0..Len(events) : Since(s)
      BY DEF IInv, Streams
    <3>2. lane.attached /\ Settled' => s <= base
      BY <2>0, <3>1 DEF Since, Settled, IsAnswer
    <3>3. serving'.phase = "taken" => s <= serving'.upTo
      BY <2>0, <3>1 DEF Since
    <3>4. Since(s)'
      BY <2>0, <2>1, <3>1, <3>2, <3>3, QuietSince
    <3> QED BY <3>4
  <2> QED BY <2>2, <2>3, <2>4, <2>5, <2>6, <2>7 DEF IInv
<1> QED BY <1>1, <1>2, <1>3, <1>4, <1>5, <1>6, <1>7, <1>8, <1>9, <1>10, <1>11, <1>12 DEF Next

LEMMA StreamInvariant == Spec => []IInv
BY StreamStarts, StreamKeeps, PTL DEF Spec

-----------------------------------------------------------------------------
(* Past the snapshot.  What an attach rendered and could still be pushed is  *)
(* of the boundary's generation and at or before it, or has a sequence the   *)
(* lane knows; and the socket holds nothing older than the boundary.         *)
Bars(n) == Stale(lane, n) \/ Repeats(lane, n)
PastTheSnapshot == counts'.early = 0 => \A i \in DOMAIN shown' \ DOMAIN shown : shown'[i] > base'
Barred ==
  lane.attached /\ counts.early = 0 =>
    /\ lane.boundary.generation <= now.generation
    /\ \A k \in DOMAIN toLane :
         IsEvent(toLane[k]) => lane.boundary.generation <= Gen(toLane[k].n)
    /\ \A n \in Events : n <= base /\ Coming(n) => Bars(n)

(* Steps that leave the lane's filters alone and push at most an event of    *)
(* the generation that the daemon is in.                                     *)
LEMMA BarredFrame ==
  ASSUME IInv, Barred, IInv', UNCHANGED <<clock, base>>,
         lane'.attached = lane.attached, lane'.boundary = lane.boundary, lane'.last = lane.last,
         lane.attached /\ counts'.early = 0 => counts.early = 0,
         \A n \in Events : events'[n] = events[n],
         \A n \in Events' : n \in Events \/ ~(n <= base),
         now.generation <= now'.generation,
         \A n \in Events : Gen(n) = now'.generation => Gen(n) = now.generation,
         \A k \in DOMAIN toLane' :
           IsEvent(toLane'[k]) =>
             \/ \E j \in DOMAIN toLane : toLane[j] = toLane'[k]
             \/ /\ events'[toLane'[k].n].generation = now.generation
                /\ now'.generation = now.generation
  PROVE  Barred'
<1> SUFFICES ASSUME lane.attached, counts'.early = 0
             PROVE  /\ lane.boundary.generation <= now'.generation
                    /\ \A k \in DOMAIN toLane' :
                         IsEvent(toLane'[k]) => lane.boundary.generation <= events'[toLane'[k].n].generation
                    /\ \A n \in Events' : n <= base /\ Coming(n)' => Bars(n)'
  BY DEF Barred, Gen, IsEvent
<1>1. Typed /\ Bounded /\ Typed' /\ Bounded' /\ counts.early = 0
  BY DEF IInv
<1>2. /\ lane.boundary.generation <= now.generation
      /\ \A k \in DOMAIN toLane :
           IsEvent(toLane[k]) => lane.boundary.generation <= Gen(toLane[k].n)
      /\ \A n \in Events : n <= base /\ Coming(n) => Bars(n)
  BY <1>1 DEF Barred
<1>3. /\ now.generation \in Nat /\ now'.generation \in Nat /\ lane.boundary.generation \in Nat
  <2>1. now.generation \in Nat /\ lane.boundary \in Points
    BY <1>1, EventTypes, Records
  <2>2. now'.generation \in Nat
    BY <1>1, BoundsAssumption DEF Typed, Cursors
  <2> QED BY <2>1, <2>2 DEF Points, Cursors, NoCursor
<1>4. lane.boundary.generation <= now'.generation
  BY <1>2, <1>3
<1>5. \A k \in DOMAIN toLane : IsEvent(toLane[k]) => toLane[k].n \in Events
  BY <1>1, Records
<1>6. \A k \in DOMAIN toLane' :
        IsEvent(toLane'[k]) => lane.boundary.generation <= events'[toLane'[k].n].generation
  BY <1>2, <1>5 DEF Gen, IsEvent
<1>7. ASSUME NEW n \in Events', n <= base, Coming(n)' PROVE Bars(n)'
  <2>1. n \in Events
    BY <1>7
  <2>2. Coming(n)
    <3>1. CASE Gen(n)' = now'.generation
      BY <2>1, <3>1 DEF Coming, Gen
    <3>2. CASE \E k \in DOMAIN toLane' : IsEvent(toLane'[k]) /\ toLane'[k].n = n
      BY <2>1, <3>2 DEF Coming, Gen, IsEvent
    <3> QED BY <1>7, <3>1, <3>2 DEF Coming, IsEvent
  <2>3. Bars(n)
    BY <1>2, <1>7, <2>1, <2>2
  <2> QED BY <2>1, <2>3 DEF Bars, Stale, Repeats, Cursor, HasSequence
<1> QED BY <1>4, <1>6, <1>7

LEMMA BarredRests ==
  ASSUME IInv, Barred, IInv',
         Emits \/ Replays \/ Replaces \/ Seats \/ Snapshots \/ Answers \/ Refuses \/ Restored
  PROVE  Barred' /\ shown' = shown
<1>1. Typed /\ Bounded /\ Numbered
  BY DEF IInv
<1>2. /\ now.generation \in Nat /\ \A n \in Events : n \in Nat /\ Gen(n) <= now.generation /\ Gen(n) \in Nat
      /\ base \in Nat /\ base <= Len(events) /\ Len(events) \in Nat
  BY <1>1, EventTypes, Records DEF Numbered, Bounded
<1>3. CASE Emits
  <2>1. UNCHANGED <<clock, base, lane, counts, shown>>
    BY <1>3 DEF Emits, LaneRests
  <2>2. PICK l \in Nat :
           /\ l = Len(events) + 1 /\ Events' = Events \cup {l}
           /\ Gen(l)' = now.generation /\ now'.generation = now.generation
           /\ Onto(Event(l)) /\ \A n \in Events : events'[n] = events[n]
    BY <1>3, EmitsFrame
  <2>3. Event(l).n = l
    BY DEF Event
  <2>4. \A k \in DOMAIN toLane' :
           \/ \E j \in DOMAIN toLane : toLane[j] = toLane'[k]
           \/ events'[toLane'[k].n].generation = now.generation
    BY <2>2, <2>3 DEF Onto, Gen
  <2>5. ~(l <= base)
    BY <1>2, <2>2
  <2> QED BY <1>2, <2>1, <2>2, <2>4, <2>5, BarredFrame
<1>4. CASE Replays
  <2>1. UNCHANGED <<clock, base, lane, shown, events, now>>
    BY <1>4 DEF Replays, LaneRests, daemon
  <2>2. counts'.early = counts.early
    <3>1. counts \in Tallies /\ counts' = [counts EXCEPT !.replays = @ + 1]
      BY <1>1, <1>4 DEF Typed, Replays
    <3> QED BY <3>1 DEF Tallies
  <2>3. PICK l \in Events : Gen(l) = now.generation /\ Push(Event(l))
    BY <1>4 DEF Replays, Gen
  <2>4. Event(l) \in Messages /\ Event(l).n = l
    BY <1>2 DEF Event, Messages, MessageTypes, Points
  <2>5. Onto(Event(l))
    BY <1>1, <2>3, <2>4, PushLands
  <2>6. \A k \in DOMAIN toLane' :
           \/ \E j \in DOMAIN toLane : toLane[j] = toLane'[k]
           \/ events'[toLane'[k].n].generation = now.generation
    BY <2>1, <2>3, <2>4, <2>5 DEF Onto, Gen
  <2> QED BY <1>2, <2>1, <2>2, <2>6, BarredFrame DEF Events
<1>5. CASE Replaces
  <2>1. UNCHANGED <<clock, base, lane, shown, events>> /\ Push(Replaced)
    BY <1>5 DEF Replaces, LaneRests
  <2>2. PICK s \in {0, now.sequence} :
           /\ now' = [generation |-> now.generation + 1, sequence |-> s]
           /\ counts' = [counts EXCEPT !.restarts = @ + (IF s < now.sequence THEN 1 ELSE 0),
                                       !.early = @ + (IF lane.attached THEN 0 ELSE 1)]
    BY <1>5 DEF Replaces
  <2>3. lane.attached => counts'.early = counts.early
    <3> DEFINE r == IF s < now.sequence THEN 1 ELSE 0
    <3> SUFFICES ASSUME lane.attached PROVE counts'.early = counts.early
      OBVIOUS
    <3>1. counts \in Tallies /\ counts.early \in Nat
      BY <1>1 DEF Typed, Tallies
    <3>2. counts' = [counts EXCEPT !.restarts = @ + r, !.early = @ + 0]
      BY <2>2
    <3> HIDE DEF r
    <3> QED BY <3>1, <3>2 DEF Tallies
  <2>4. Replaced \in Messages /\ ~IsEvent(Replaced)
    BY DEF Replaced, Messages, MessageTypes, Points, IsEvent
  <2>5. Onto(Replaced)
    BY <1>1, <2>1, <2>4, PushLands
  <2>6. \A k \in DOMAIN toLane' :
           IsEvent(toLane'[k]) => \E j \in DOMAIN toLane : toLane[j] = toLane'[k]
    BY <2>4, <2>5 DEF Onto
  <2>7. now'.generation = now.generation + 1
    BY <2>2
  <2>8. \A n \in Events : Gen(n) # now'.generation
    BY <1>2, <2>7
  <2> QED BY <1>2, <2>1, <2>3, <2>6, <2>7, <2>8, BarredFrame DEF Events
<1>6. CASE Seats \/ Snapshots
  <2>1. UNCHANGED <<clock, base, lane, shown, events, now, counts, toLane>>
    BY <1>6 DEF Seats, Snapshots, LaneRests, net
  <2> QED BY <1>2, <2>1, BarredFrame DEF Events
<1>7. CASE Answers \/ Refuses
  <2>1. UNCHANGED <<clock, base, lane, shown, events, now>>
    BY <1>7 DEF Answers, Refuses, LaneRests, daemon
  <2>2. counts'.early = counts.early
    <3>1. counts \in Tallies /\ (counts' = counts \/ counts' = [counts EXCEPT !.refusals = @ + 1])
      BY <1>1, <1>7 DEF Typed, Answers, Refuses
    <3> QED BY <3>1 DEF Tallies
  <2>3. PICK m : m \in Messages /\ ~IsEvent(m) /\ toLane' = Append(toLane, m)
    <3>1. serving \in Servings /\ NoCursor \in Points
      BY <1>1 DEF Typed, Points
    <3>2. /\ Attached(serving.upTo, TRUE, serving.at) \in Messages
          /\ ~IsEvent(Attached(serving.upTo, TRUE, serving.at))
          /\ Attached(0, FALSE, NoCursor) \in Messages /\ ~IsEvent(Attached(0, FALSE, NoCursor))
      BY <3>1 DEF Attached, Messages, MessageTypes, Servings, IsEvent
    <3> QED BY <1>7, <3>2 DEF Answers, Refuses
  <2>4. Onto(m)
    BY <1>1, <2>3, AppendLands DEF Lands
  <2>5. \A k \in DOMAIN toLane' :
           IsEvent(toLane'[k]) => \E j \in DOMAIN toLane : toLane[j] = toLane'[k]
    BY <2>3, <2>4 DEF Onto
  <2> QED BY <1>2, <2>1, <2>2, <2>5, BarredFrame DEF Events
<1>8. CASE Restored
  <2>1. UNCHANGED <<clock, base, lane, shown, events, now, counts, toLane>>
    BY <1>8 DEF Restored, daemon
  <2> QED BY <1>2, <2>1, BarredFrame DEF Events
<1> QED BY <1>3, <1>4, <1>5, <1>6, <1>7, <1>8

LEMMA BarredLost ==
  ASSUME IInv, Barred, IInv', Lost
  PROVE  Barred' /\ shown' = shown
<1>1. /\ UNCHANGED <<clock, events, now, shown, base>> /\ toLane' = <<>>
      /\ counts' = [counts EXCEPT !.drops = @ + 1]
      /\ lane' = [lane EXCEPT !.closed = @ \/ ClosesLane(ToSet(asks))]
  BY DEF Lost
<1>2. Typed /\ Bounded
  BY DEF IInv
<1>3. lane \in Lanes /\ counts \in Tallies /\ now.generation \in Nat
  BY <1>2, EventTypes DEF Typed
<1>4. lane'.attached = lane.attached /\ lane'.boundary = lane.boundary /\ lane'.last = lane.last
  <2> DEFINE c == ClosesLane(ToSet(asks))
  <2>1. lane' = [lane EXCEPT !.closed = @ \/ c]
    BY <1>1
  <2> HIDE DEF c
  <2> QED BY <1>3, <2>1 DEF Lanes
<1>5. counts'.early = counts.early
  BY <1>1, <1>3 DEF Tallies
<1>6. DOMAIN toLane' = {}
  BY <1>1, EmptyPositions
<1> QED BY <1>1, <1>3, <1>4, <1>5, <1>6, BarredFrame DEF Events

(* What the lane shows of the socket is none that it bars. *)
LEMMA BarredReads ==
  ASSUME IInv, Barred, IInv', LaneReads
  PROVE  Barred' /\ PastTheSnapshot
<1>1. Advances /\ UNCHANGED <<clock, events, now, base, counts>>
  BY TailAdvances DEF IInv, LaneReads, daemon
<1>2. toLane[1] = Head(toLane)
  BY <1>1 DEF Advances
<1>3. Typed /\ Bounded /\ Numbered /\ Pushed
  BY DEF IInv
<1>4. /\ now.generation \in Nat /\ lane \in Lanes /\ base \in Nat
      /\ \A n \in Events : n \in Nat /\ Gen(n) \in Nat /\ Num(n) \in Nat /\ Gen(n) <= now.generation
  BY <1>3, EventTypes, Records DEF Typed, Numbered
<1>5. \A k \in DOMAIN toLane' : \E j \in DOMAIN toLane : j = k + 1 /\ toLane'[k] = toLane[j]
  BY <1>1 DEF Advances
<1>6. CASE /\ lane'.attached = lane.attached /\ lane'.boundary = lane.boundary
           /\ lane'.last = lane.last /\ shown' = shown
  BY <1>1, <1>4, <1>5, <1>6, BarredFrame DEF PastTheSnapshot, Events
<1>7. CASE UNCHANGED <<lane, shown>>
  BY <1>6, <1>7
<1>8. CASE toLane[1].type = "session_event" /\ ReadsEvent(toLane[1].n) /\ ~lane.attached
  <2>1. lane' = [lane EXCEPT !.buffered = Append(@, toLane[1].n)] /\ shown' = shown
    BY <1>8 DEF ReadsEvent
  <2>2. lane'.attached = lane.attached /\ lane'.boundary = lane.boundary /\ lane'.last = lane.last
    <3> DEFINE b == Append(lane.buffered, toLane[1].n)
    <3>1. lane' = [lane EXCEPT !.buffered = b]
      BY <2>1
    <3> HIDE DEF b
    <3> QED BY <1>4, <3>1 DEF Lanes
  <2> QED BY <1>6, <2>1, <2>2
<1>9. CASE toLane[1].type = "session_event" /\ ReadsEvent(toLane[1].n) /\ lane.attached
  <2>1. PICK e : e = toLane[1].n
    OBVIOUS
  <2>2. PICK x : x = [lane |-> lane, shown |-> shown]
    OBVIOUS
  <2>3. IsEvent(toLane[1]) /\ 1 \in DOMAIN toLane /\ e \in Events /\ e \in Nat
    BY <1>1, <1>3, <1>4, <1>9, <2>1, Records DEF IsEvent, Advances
  <2>4. x \in Views /\ x.lane = lane /\ x.shown = shown /\ shown \in Seq(Nat)
    BY <1>3, <1>4, <2>2 DEF Typed, Views
  <2>5. lane' = Filter(x, e).lane /\ shown' = Filter(x, e).shown
    BY <1>9, <2>1, <2>2 DEF ReadsEvent
  <2>6. /\ lane'.attached = lane.attached
        /\ lane'.boundary = IF MovesBoundary(lane, e) THEN Cursor(e) ELSE lane.boundary
        /\ \/ Bars(e) /\ shown' = shown /\ lane'.last = lane.last
           \/ /\ ~Bars(e) /\ shown' = Append(shown, e)
              /\ lane'.last = IF HasSequence THEN Num(e) ELSE lane.last
    BY <1>3, <2>3, <2>4, <2>5, FilterStep DEF Bars
  <2>7. lane.last \in Int /\ lane.boundary.generation \in Nat /\ Num(e) \in Nat
    <3>1. lane.last \in Int /\ lane.boundary \in Points
      BY <1>3, Records
    <3> QED BY <1>4, <2>3, <3>1 DEF Points, Cursors, NoCursor
  <2>8. Coming(e)
    BY <2>1, <2>3 DEF Coming
  <2>9. PastTheSnapshot
    <3> SUFFICES ASSUME counts.early = 0, NEW i \in DOMAIN shown' \ DOMAIN shown PROVE shown'[i] > base
      BY <1>1 DEF PastTheSnapshot
    <3>1. ~Bars(e) /\ shown' = Append(shown, e)
      BY <2>6
    <3>2. ~(e <= base)
      BY <1>9, <2>3, <2>8, <3>1 DEF Barred
    <3>3. shown'[i] = e
      BY <2>3, <2>4, <3>1, AppendPositions
    <3> QED BY <1>4, <2>3, <3>2, <3>3
  <2>10. Barred'
    <3> SUFFICES ASSUME counts.early = 0
                 PROVE  /\ lane'.boundary.generation <= now.generation
                        /\ \A k \in DOMAIN toLane' :
                             IsEvent(toLane'[k]) => lane'.boundary.generation <= Gen(toLane'[k].n)
                        /\ \A n \in Events : n <= base /\ Coming(n)' => Bars(n)'
      BY <1>1 DEF Barred, Gen, IsEvent, Events
    <3>1. /\ lane.boundary.generation <= now.generation
          /\ \A k \in DOMAIN toLane :
               IsEvent(toLane[k]) => lane.boundary.generation <= Gen(toLane[k].n)
          /\ \A n \in Events : n <= base /\ Coming(n) => Bars(n)
      BY <1>9 DEF Barred
    <3>2. \A k \in DOMAIN toLane' : IsEvent(toLane'[k]) => Gen(e) <= Gen(toLane'[k].n)
      <4> SUFFICES ASSUME NEW k \in DOMAIN toLane', IsEvent(toLane'[k]) PROVE Gen(e) <= Gen(toLane'[k].n)
        OBVIOUS
      <4>1. k \in Nat \ {0} /\ k + 1 \in DOMAIN toLane /\ toLane'[k] = toLane[k + 1]
        BY <1>1 DEF Advances
      <4>2. 1 < k + 1
        BY <4>1
      <4> QED BY <1>3, <2>1, <2>3, <4>1, <4>2 DEF Pushed
    <3>3. lane.boundary.generation <= Gen(e)
      BY <2>1, <2>3, <3>1
    <3>4. MovesBoundary(lane, e) => /\ lane'.boundary.generation = Gen(e)
                                    /\ lane.boundary.generation < Gen(e)
      BY <1>4, <2>3, <2>6, <2>7, <3>3 DEF MovesBoundary, Cursor, Gen
    <3>5. lane'.boundary.generation = lane.boundary.generation \/ lane'.boundary.generation = Gen(e)
      BY <2>6, <3>4
    <3>6. lane'.boundary.generation <= now.generation
      BY <1>4, <2>3, <3>1, <3>5
    <3>7. \A k \in DOMAIN toLane' :
            IsEvent(toLane'[k]) => lane'.boundary.generation <= Gen(toLane'[k].n)
      BY <1>5, <3>1, <3>2, <3>5
    <3>8. ASSUME NEW n \in Events, n <= base, Coming(n)' PROVE Bars(n)'
      <4>1. Coming(n)
        BY <1>1, <1>5, <3>8 DEF Coming, Gen, IsEvent
      <4>2. Bars(n) /\ Num(n) \in Nat /\ Gen(n) \in Nat
        BY <1>4, <3>1, <3>8, <4>1
      <4>3. CASE Repeats(lane, n)
        <5>1. HasSequence /\ lane.last >= 0 /\ Num(n) <= lane.last
          BY <4>3 DEF Repeats, Num
        <5>2. lane'.last >= lane.last
          BY <2>6, <2>7, <5>1 DEF Bars, Repeats, Num
        <5>3. lane'.last \in Int
          BY <2>6, <2>7
        <5>4. lane'.last >= 0 /\ Num(n) <= lane'.last
          BY <2>7, <4>2, <5>1, <5>2, <5>3
        <5> QED BY <1>1, <5>1, <5>4 DEF Bars, Repeats, HasSequence, Num
      <4>4. CASE Stale(lane, n)
        <5>1. CASE MovesBoundary(lane, e)
          <6>1. Gen(n) = lane.boundary.generation /\ lane.boundary.generation < Gen(e)
            BY <3>4, <4>4, <5>1 DEF Stale, Cursor, Gen
          <6>2. Gen(e) <= now.generation /\ Gen(e) \in Nat
            BY <1>4, <2>3
          <6>3. Gen(n) # now.generation
            BY <1>4, <4>2, <6>1, <6>2
          <6>4. \A k \in DOMAIN toLane' : IsEvent(toLane'[k]) => toLane'[k].n # n
            BY <2>7, <3>2, <4>2, <6>1, <6>2
          <6> QED BY <1>1, <3>8, <6>3, <6>4 DEF Coming, Gen, IsEvent
        <5>2. CASE ~MovesBoundary(lane, e)
          BY <1>1, <2>6, <4>4, <5>2 DEF Bars, Stale, Cursor
        <5> QED BY <5>1, <5>2
      <4> QED BY <4>2, <4>3, <4>4 DEF Bars
    <3> QED BY <3>6, <3>7, <3>8
  <2> QED BY <2>9, <2>10
<1>10. CASE toLane[1].type = "attach" /\ ReadsAnswer(toLane[1])
  BY <1>7, <1>10 DEF ReadsAnswer
<1>11. CASE ReadsReplaced
  BY <1>7, <1>11 DEF ReadsReplaced
<1> QED BY <1>2, <1>7, <1>8, <1>9, <1>10, <1>11 DEF LaneReads

(* An attach bars what its snapshot holds, and shows none of it.             *)
LEMMA BarredArms ==
  ASSUME IInv, Barred, IInv', Arms
  PROVE  Barred' /\ PastTheSnapshot
<1>1. Typed /\ Bounded /\ Phased /\ Numbered /\ Pushed
  BY DEF IInv
<1>2. CASE (\A k \in DOMAIN armed : ~armed[k].ok) /\ Fails
  <2>1. /\ UNCHANGED <<clock, events, now, toLane, shown, base, counts>>
        /\ lane'.attached = lane.attached /\ lane'.boundary = lane.boundary /\ lane'.last = lane.last
    BY <1>2, ArmsAlways DEF Fails
  <2>2. now.generation \in Nat
    BY <1>1, EventTypes
  <2> QED BY <2>1, <2>2, BarredFrame DEF Events, PastTheSnapshot
<1>3. CASE \E k \in DOMAIN armed : IsLast(k) /\ Attaches(armed[k])
  <2>1. PICK m, at, x : ArmsTo(m, at, x)
    BY <1>3, ArmsFacts
  <2>2. /\ UNCHANGED <<clock, events, now, toLane>> /\ base' = m /\ m \in Nat /\ Parts(m, at)
        /\ \E j \in DOMAIN armed : IsAnswer(armed[j]) /\ m = armed[j].n /\ at = armed[j].at
        /\ x \in Views /\ Armed(x.lane, at) /\ x.shown = shown /\ counts'.early = counts.early
        /\ lane' = DeliverAll(x, lane.buffered).lane /\ shown' = DeliverAll(x, lane.buffered).shown
    BY <2>1 DEF ArmsTo
  <2>3. /\ at \in Cursors /\ at.generation \in Nat /\ at.sequence \in Nat
        /\ at.generation <= now.generation /\ now.generation \in Nat /\ at # NoCursor
        /\ \A n \in Events : n \in Nat /\ Gen(n) \in Nat /\ Num(n) \in Nat
    BY <1>1, <2>2, EventTypes DEF Parts, Cursors, NoCursor
  <2>4. counts.early = 0 =>
           /\ lane'.boundary = x.lane.boundary /\ x.lane.last \in Int /\ lane'.last \in Int
           /\ (HasSequence => lane'.last >= x.lane.last)
           /\ \A i \in DOMAIN shown' \ DOMAIN shown : shown'[i] > m
    <3>0. x.lane.last \in Int /\ DeliverAll(x, lane.buffered).lane.last \in Int
      <4>1. DeliverAll(x, lane.buffered) \in Views /\ -1..MaxEvents \subseteq Int
        BY <2>1, ArmsKeeps, BoundsAssumption
      <4> QED BY <2>2, <4>1 DEF Views, Lanes
    <3>1. CASE lane.attached
      <4>1. lane' = x.lane /\ shown' = shown
        BY <1>1, <2>2, <3>1, DeliversNone DEF Phased
      <4> QED BY <3>0, <4>1
    <3>2. CASE ~lane.attached
      <4> SUFFICES ASSUME counts.early = 0
                   PROVE  /\ lane'.boundary = x.lane.boundary
                          /\ (HasSequence => lane'.last >= x.lane.last)
                          /\ \A i \in DOMAIN shown' \ DOMAIN shown : shown'[i] > m
        BY <2>2, <3>0
      <4>1. now.generation = 1 /\ x.shown = <<>>
        BY <1>1, <2>2, <3>2 DEF Numbered, Phased
      <4>2. /\ lane.buffered \in Seq(Nat)
            /\ \A k \in DOMAIN lane.buffered : lane.buffered[k] \in Events
        BY <1>1, Records
      <4>3. FirstOnes(x, lane.buffered, m, DeliverAll(x, lane.buffered), Len(lane.buffered))
        BY <1>1, <2>2, <4>1, <4>2, FirstShown
      <4> QED BY <2>2, <4>3 DEF FirstOnes
    <3> QED BY <3>1, <3>2
  <2>5. PastTheSnapshot
    BY <2>2, <2>4 DEF PastTheSnapshot
  <2>6. Barred'
    <3> SUFFICES ASSUME counts.early = 0
                 PROVE  /\ lane'.boundary.generation <= now.generation
                        /\ \A k \in DOMAIN toLane :
                             IsEvent(toLane[k]) => lane'.boundary.generation <= Gen(toLane[k].n)
                        /\ \A n \in Events : n <= m /\ Coming(n) => Bars(n)'
      BY <2>2 DEF Barred, Gen, IsEvent, Events, Coming
    <3>1. lane'.boundary = IF clock = "sequence" THEN NoCursor ELSE at
      BY <2>2, <2>4 DEF Armed
    <3>2. NoCursor.generation = 0
      BY DEF NoCursor
    <3>3. lane'.boundary.generation <= at.generation /\ lane'.boundary.generation \in Nat
      BY <2>3, <3>1, <3>2
    <3>4. \A k \in DOMAIN toLane :
            IsEvent(toLane[k]) => at.generation <= Gen(toLane[k].n) /\ toLane[k].n \in Events
      BY <1>1, <2>2, Records DEF Pushed
    <3>5. \A n \in Events : Coming(n) => at.generation <= Gen(n)
      BY <2>3, <3>4 DEF Coming
    <3>6. ASSUME NEW n \in Events, n <= m, Coming(n) PROVE Bars(n)'
      <4>1. Gen(n) <= at.generation /\ (Gen(n) = at.generation => Num(n) <= at.sequence)
        BY <2>2, <3>6 DEF Parts
      <4>2. Gen(n) = at.generation /\ Num(n) <= at.sequence /\ events[n] # NoCursor
        BY <1>1, <2>3, <3>5, <3>6, <4>1, EventTypes
      <4>3. CASE clock = "sequence"
        <5>1. HasSequence /\ x.lane.last = at.sequence
          BY <2>2, <4>3 DEF HasSequence, Armed
        <5>2. lane'.last >= at.sequence /\ lane'.last \in Int
          BY <2>4, <5>1
        <5>3. lane'.last >= 0 /\ Num(n) <= lane'.last
          BY <2>3, <4>2, <5>2
        <5> QED BY <2>2, <5>1, <5>3 DEF Bars, Repeats, HasSequence, Num
      <4>4. CASE clock # "sequence"
        <5>1. lane'.boundary = at /\ Cursor(n) = events[n]
          BY <3>1, <4>4 DEF Cursor
        <5> QED BY <2>2, <2>3, <4>2, <4>4, <5>1 DEF Bars, Stale, Cursor, Gen, Num
      <4> QED BY <4>3, <4>4
    <3> QED BY <2>3, <3>3, <3>4, <3>6
  <2> QED BY <2>5, <2>6
<1> QED BY <1>2, <1>3 DEF Arms

LEMMA BarredStays ==
  ASSUME IInv, Barred, UNCHANGED vars
  PROVE  Barred' /\ shown' = shown
<1>1. UNCHANGED <<clock, events, now, toLane, lane, shown, base, counts>>
  BY DEF vars, daemon, net
<1> QED BY <1>1 DEF Barred, Bars, Stale, Repeats, Cursor, HasSequence, Coming, Events, Gen, IsEvent

LEMMA BarredKeeps ==
  ASSUME IInv, Barred, IInv', [Next]_vars
  PROVE  Barred' /\ [PastTheSnapshot]_vars
<1>1. CASE shown' = shown
  BY <1>1, BarredRests, BarredLost, BarredReads, BarredArms, BarredStays DEF Next, PastTheSnapshot
<1>2. CASE shown' # shown
  BY <1>2, BarredRests, BarredLost, BarredReads, BarredArms, BarredStays DEF Next, PastTheSnapshot
<1> QED BY <1>1, <1>2

(* attach(), handlePush and deliver keep every event number that the lane    *)
(* holds, in its buffer or in what it has shown, one of the daemon's, and    *)
(* the sequence it remembers one that an event or an answer can carry.       *)
THEOREM StreamTypeCorrect == Spec => []TypeOK
<1>1. IInv => TypeOK
  <2> SUFFICES ASSUME IInv PROVE TypeOK
    OBVIOUS
  <2>1. Typed /\ Bounded
    BY DEF IInv
  <2>2. lane.buffered \in Seq(Events) /\ shown \in Seq(Events)
    <3>1. /\ lane.buffered \in Seq(Nat) /\ \A k \in DOMAIN lane.buffered : lane.buffered[k] \in Events
          /\ shown \in Seq(Nat) /\ \A k \in DOMAIN shown : shown[k] \in Events
      BY <2>1, Records DEF Typed
    <3> QED BY <3>1, Widens
  <2>3. lane.boundary \in Cursors \cup {NoCursor} /\ lane.last \in -1..MaxEvents
    BY <2>1 DEF Typed, Lanes, Points
  <2>4. /\ rendered \in Nat /\ base \in Nat /\ rendered <= base /\ base <= Len(events)
        /\ Len(events) \in Nat
    BY <2>1, EventTypes DEF Typed, Bounded
  <2>5. rendered \in 0..Len(events) /\ base \in 0..Len(events)
    BY <2>4
  <2>6. \A k \in DOMAIN toLane : toLane[k].type \in MessageTypes /\ toLane[k].n \in 0..Len(events)
    <3> SUFFICES ASSUME NEW k \in DOMAIN toLane
                 PROVE  toLane[k].type \in MessageTypes /\ toLane[k].n \in 0..Len(events)
      OBVIOUS
    <3>1. toLane[k] \in Messages /\ toLane[k].n \in Nat /\ toLane[k].n <= Len(events)
      BY <2>1, Records DEF Bounded
    <3> QED BY <2>4, <3>1 DEF Messages
  <2> QED BY <2>1, <2>2, <2>3, <2>5, <2>6 DEF Typed, TypeOK
<1> QED BY <1>1, StreamInvariant, PTL

(* However often the lane attaches, whatever clock the events carry and      *)
(* whatever the daemon sends again, attach(), isStale and deliver show       *)
(* nothing that the last snapshot holds; and each event reaches the          *)
(* translator once, in order, and past the first snapshot, if the daemon     *)
(* sends nothing again, or by the sequence, if no snapshot was older than    *)
(* what was shown when it came.  All of it as long as no worker is replaced  *)
(* before the first answer is read.                                          *)
THEOREM ShowsOnceInOrder == Spec => ShownOnceInOrder
<1>1. IInv' /\ PastTheSnapshot => ShowsNew
  <2> SUFFICES ASSUME IInv', counts'.early = 0, Filtered', NEW i \in DOMAIN shown',
                      i \notin DOMAIN shown, NEW j \in DOMAIN shown', j < i
               PROVE  shown'[j] < shown'[i]
    BY DEF PastTheSnapshot, ShowsNew
  <2>1. lane'.attached
    <3>1. Typed' /\ Phased' /\ shown' # <<>>
      BY EmptyPositions DEF IInv
    <3> QED BY <3>1 DEF Phased
  <2> QED BY <2>1 DEF IInv, Ascending, Increasing
<1>2. Init => Barred
  BY DEF Init, Barred, NewLane
<1>3. IInv /\ Barred /\ IInv' /\ [Next]_vars => Barred' /\ [PastTheSnapshot]_vars
  BY BarredKeeps
<1>4. IInv' /\ [PastTheSnapshot]_vars => [ShowsNew]_vars
  BY <1>1
<1> QED BY <1>2, <1>3, <1>4, StreamInvariant, PTL DEF Spec, ShownOnceInOrder

(* A lane that has read all there is to read has shown every event since the *)
(* last snapshot, and, if the wire never dropped, since the first one: what  *)
(* attach() buffers, delivers and drops leaves no gap between a snapshot and *)
(* the stream, as long as no replaced worker starts its sequence over.       *)
THEOREM LosesNothing == Spec => []NothingLost
<1>1. IInv => NothingLost
  <2> SUFFICES ASSUME IInv, counts.restarts = 0, CaughtUp, NEW n \in Events,
                      n > base \/ (n > rendered /\ counts.drops = 0)
               PROVE  n \in ToSet(shown)
    BY DEF NothingLost, NothingSkipped
  <2>1. /\ wire = "up" /\ seated /\ lane.attached /\ ~lane.closed
        /\ toLane = <<>> /\ asks = <<>> /\ armed = <<>>
    BY DEF CaughtUp
  <2>2. DOMAIN toLane = {}
    BY <2>1, EmptyPositions
  <2>3. Settled
    <3>1. /\ Len(asks) = Len(armed) + Len(toDaemon) + Working + Cardinality(Awaited(toLane))
          /\ Len(asks) = 0 /\ Len(armed) = 0
      BY <2>1, EmptySeq DEF IInv, Counted
    <3>2. Len(toDaemon) \in Nat /\ Working \in {0, 1} /\ Cardinality(Awaited(toLane)) = 0
      BY <2>1, AwaitedNone, LenProperties DEF IInv, Typed, Working
    <3>3. Working = 0
      <4>1. PICK d, w, c : d = Len(toDaemon) /\ w = Working /\ c = Cardinality(Awaited(toLane))
        OBVIOUS
      <4>2. d \in Nat /\ (w = 0 \/ w = 1) /\ c = 0 /\ 0 = d + w + c
        BY <3>1, <3>2, <4>1
      <4> QED BY <4>1, <4>2
    <3> QED BY <2>1, <2>2, <3>3, EmptyPositions DEF Settled, Working
  <2>4. PICK s \in 0..Len(events) : Since(s)
    BY <2>1 DEF IInv, Streams
  <2>5. s <= base /\ (counts.drops = 0 => s <= rendered)
    BY <2>1, <2>3, <2>4 DEF Since
  <2>6. n > s
    <3>1. s \in Nat /\ n \in Nat /\ base \in Nat /\ rendered \in Nat
      BY <2>4, EventTypes, Records DEF IInv
    <3> QED BY <2>5, <3>1
  <2>7. Seen(n)
    BY <2>2, <2>4, <2>6 DEF Since, Sent
  <2>8. In(n, shown)
    BY <2>1, <2>7, EmptyPositions DEF IInv, Phased, Seen, In
  <2> QED BY <2>8 DEF In, ToSet
<1> QED BY <1>1, StreamInvariant, PTL
===============================================================================
