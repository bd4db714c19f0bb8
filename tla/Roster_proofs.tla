----------------------------- MODULE Roster_proofs -----------------------------
(***************************************************************************)
(* Proofs about Roster, for every bound on updates, faults and sweeps.     *)
(***************************************************************************)
EXTENDS Roster, SequenceTheorems, FiniteSetTheorems, TLAPS

-----------------------------------------------------------------------------
(* Which elements a sequence holds. *)
In(s, P) == \E k \in DOMAIN s : s[k] \in P
Once(s, P) == \A j, k \in DOMAIN s : s[j] \in P /\ s[k] \in P => j = k
Follows(s, k, P) == \E j \in DOMAIN s : j > k /\ s[j] \in P

LEMMA Positions ==
  ASSUME NEW S, NEW s \in Seq(S)
  PROVE  Len(s) \in Nat /\ DOMAIN s = 1..Len(s) /\ \A k \in DOMAIN s : s[k] \in S
BY LenProperties, ElementOfSeq

LEMMA EmptyHolds ==
  ASSUME NEW P
  PROVE  DOMAIN (<<>>) = {} /\ ~In(<<>>, P) /\ Once(<<>>, P)
BY EmptySeq DEF In, Once

LEMMA TailPositions ==
  ASSUME NEW S, NEW s \in Seq(S), s # <<>>
  PROVE  /\ Head(s) \in S /\ Tail(s) \in Seq(S) /\ 1 \in DOMAIN s /\ s[1] = Head(s)
         /\ \A k \in DOMAIN Tail(s) : k \in Nat /\ k + 1 \in DOMAIN s /\ Tail(s)[k] = s[k + 1]
         /\ \A k \in DOMAIN s : k \in Nat /\ (k > 1 => k - 1 \in DOMAIN Tail(s))
<1>1. Len(s) \in Nat /\ DOMAIN s = 1..Len(s) /\ Len(s) # 0
  BY Positions, EmptySeq
<1>2. /\ Head(s) \in S /\ Tail(s) \in Seq(S) /\ Len(Tail(s)) = Len(s) - 1
      /\ \A k \in 1..Len(Tail(s)) : Tail(s)[k] = s[k + 1]
  BY HeadTailProperties
<1>3. DOMAIN Tail(s) = 1..Len(Tail(s))
  BY <1>2, Positions
<1>4. s[1] = Head(s)
  BY <1>1
<1> QED BY <1>1, <1>2, <1>3, <1>4

LEMMA TailHolds ==
  ASSUME NEW S, NEW s \in Seq(S), s # <<>>, NEW P
  PROVE  /\ In(s, P) <=> Head(s) \in P \/ In(Tail(s), P)
         /\ Once(s, P) => Once(Tail(s), P) /\ ~(Head(s) \in P /\ In(Tail(s), P))
         /\ \A k \in DOMAIN Tail(s) : Follows(s, k + 1, P) => Follows(Tail(s), k, P)
         /\ Follows(s, 1, P) => In(Tail(s), P)
<1>1. /\ 1 \in DOMAIN s /\ s[1] = Head(s)
      /\ \A k \in DOMAIN Tail(s) : k \in Nat /\ k + 1 \in DOMAIN s /\ Tail(s)[k] = s[k + 1]
      /\ \A k \in DOMAIN s : k \in Nat /\ (k > 1 => k - 1 \in DOMAIN Tail(s))
  BY TailPositions
<1>0. DOMAIN Tail(s) \subseteq Nat /\ DOMAIN s \subseteq Nat /\ \A k \in DOMAIN Tail(s) : k # 0
  <2>1. Tail(s) \in Seq(S)
    BY TailPositions
  <2> QED BY <2>1, Positions
<1>2. ASSUME NEW k \in DOMAIN s, k > 1
      PROVE  k - 1 \in DOMAIN Tail(s) /\ Tail(s)[k - 1] = s[k]
  <2>1. k \in Nat /\ k - 1 \in DOMAIN Tail(s)
    BY <1>1, <1>2
  <2>2. Tail(s)[k - 1] = s[(k - 1) + 1] /\ (k - 1) + 1 = k
    BY <1>1, <2>1
  <2> QED BY <2>1, <2>2
<1>3. In(s, P) <=> Head(s) \in P \/ In(Tail(s), P)
  <2>1. ASSUME In(s, P) PROVE Head(s) \in P \/ In(Tail(s), P)
    <3>1. PICK k \in DOMAIN s : s[k] \in P
      BY <2>1 DEF In
    <3>2. CASE k = 1
      BY <1>1, <3>1, <3>2
    <3>3. CASE k # 1
      <4>1. k > 1
        <5>1. k \in 1..Len(s)
          BY Positions
        <5> QED BY <3>3, <5>1
      <4> QED BY <1>2, <3>1, <4>1 DEF In
    <3> QED BY <3>2, <3>3
  <2> QED BY <1>1, <2>1 DEF In
<1>4. Once(s, P) => Once(Tail(s), P) /\ ~(Head(s) \in P /\ In(Tail(s), P))
  <2> SUFFICES ASSUME Once(s, P)
               PROVE  Once(Tail(s), P) /\ ~(Head(s) \in P /\ In(Tail(s), P))
    OBVIOUS
  <2>1. Once(Tail(s), P)
    <3> SUFFICES ASSUME NEW j \in DOMAIN Tail(s), NEW k \in DOMAIN Tail(s),
                        Tail(s)[j] \in P, Tail(s)[k] \in P
                 PROVE  j = k
      BY DEF Once
    <3>1. j + 1 = k + 1
      BY <1>1 DEF Once
    <3> QED BY <1>0, <3>1
  <2>2. ASSUME Head(s) \in P, NEW k \in DOMAIN Tail(s), Tail(s)[k] \in P PROVE FALSE
    <3>1. k + 1 = 1
      BY <1>1, <2>2 DEF Once
    <3> QED BY <1>0, <3>1
  <2> QED BY <2>1, <2>2 DEF In
<1>5. ASSUME NEW k \in DOMAIN Tail(s), Follows(s, k + 1, P) PROVE Follows(Tail(s), k, P)
  <2>1. PICK j \in DOMAIN s : j > k + 1 /\ s[j] \in P
    BY <1>5 DEF Follows
  <2>2. j \in Nat /\ k \in Nat /\ j > 1 /\ j - 1 > k
    BY <1>0, <2>1
  <2> QED BY <1>2, <2>1, <2>2 DEF Follows
<1>6. Follows(s, 1, P) => In(Tail(s), P)
  BY <1>2 DEF Follows, In
<1> QED BY <1>3, <1>4, <1>5, <1>6

LEMMA AppendPositions ==
  ASSUME NEW S, NEW s \in Seq(S), NEW x \in S
  PROVE  /\ Append(s, x) \in Seq(S)
         /\ \A k \in DOMAIN s : k \in DOMAIN Append(s, x) /\ Append(s, x)[k] = s[k]
         /\ Len(s) + 1 \in DOMAIN Append(s, x) /\ Append(s, x)[Len(s) + 1] = x
         /\ \A k \in DOMAIN Append(s, x) : k \in DOMAIN s \/ k = Len(s) + 1
         /\ \A k \in DOMAIN s : k < Len(s) + 1
<1>1. Len(s) \in Nat /\ DOMAIN s = 1..Len(s)
  BY Positions
<1>2. /\ Append(s, x) \in Seq(S) /\ Len(Append(s, x)) = Len(s) + 1
      /\ \A i \in 1..Len(s) : Append(s, x)[i] = s[i]
      /\ Append(s, x)[Len(s) + 1] = x
  BY AppendProperties
<1>3. DOMAIN Append(s, x) = 1..(Len(s) + 1)
  BY <1>2, Positions
<1> QED BY <1>1, <1>2, <1>3

LEMMA AppendHolds ==
  ASSUME NEW S, NEW s \in Seq(S), NEW x \in S, NEW P
  PROVE  /\ In(Append(s, x), P) <=> In(s, P) \/ x \in P
         /\ Once(s, P) /\ ~(In(s, P) /\ x \in P) => Once(Append(s, x), P)
         /\ \A k \in DOMAIN s : Follows(s, k, P) \/ x \in P => Follows(Append(s, x), k, P)
<1>1. /\ \A k \in DOMAIN s : k \in DOMAIN Append(s, x) /\ Append(s, x)[k] = s[k]
      /\ Len(s) + 1 \in DOMAIN Append(s, x) /\ Append(s, x)[Len(s) + 1] = x
      /\ \A k \in DOMAIN Append(s, x) : k \in DOMAIN s \/ k = Len(s) + 1
      /\ \A k \in DOMAIN s : k < Len(s) + 1
  BY AppendPositions
<1>2. In(Append(s, x), P) <=> In(s, P) \/ x \in P
  BY <1>1 DEF In
<1>3. Once(s, P) /\ ~(In(s, P) /\ x \in P) => Once(Append(s, x), P)
  BY <1>1 DEF Once, In
<1>4. ASSUME NEW k \in DOMAIN s, Follows(s, k, P) \/ x \in P
      PROVE  Follows(Append(s, x), k, P)
  BY <1>1, <1>4 DEF Follows
<1> QED BY <1>2, <1>3, <1>4

(* A sequence with one more element in front. *)
LEMMA PutInFront ==
  ASSUME NEW S, NEW s \in Seq(S), NEW x \in S
  PROVE  /\ <<x>> \o s \in Seq(S)
         /\ 1 \in DOMAIN (<<x>> \o s) /\ (<<x>> \o s)[1] = x
         /\ \A k \in DOMAIN s : k + 1 \in DOMAIN (<<x>> \o s) /\ (<<x>> \o s)[k + 1] = s[k]
         /\ \A k \in DOMAIN (<<x>> \o s) : k = 1 \/ (k - 1 \in DOMAIN s /\ (<<x>> \o s)[k] = s[k - 1])
         /\ DOMAIN s \subseteq Nat /\ DOMAIN (<<x>> \o s) \subseteq Nat
<1>1. Len(s) \in Nat /\ DOMAIN s = 1..Len(s)
  BY Positions
<1>2. <<x>> \in Seq(S) /\ Len(<<x>>) = 1 /\ <<x>>[1] = x
  OBVIOUS
<1> DEFINE t == <<x>> \o s
<1>3. /\ t \in Seq(S) /\ Len(t) = 1 + Len(s)
      /\ \A i \in 1..(1 + Len(s)) : t[i] = IF i <= 1 THEN <<x>>[i] ELSE s[i - 1]
  BY <1>2, ConcatProperties
<1>4. DOMAIN t = 1..(1 + Len(s))
  BY <1>3, Positions
<1> HIDE DEF t
<1>5. \A k \in DOMAIN s : t[k + 1] = s[k]
  <2> TAKE k \in DOMAIN s
  <2>1. k \in Nat /\ k + 1 \in 1..(1 + Len(s)) /\ ~(k + 1 <= 1) /\ (k + 1) - 1 = k
    BY <1>1
  <2> QED BY <1>3, <2>1
<1>6. t[1] = x
  BY <1>1, <1>2, <1>3
<1>7. \A k \in DOMAIN t : k = 1 \/ (k - 1 \in DOMAIN s /\ t[k] = s[k - 1])
  BY <1>1, <1>3, <1>4
<1> QED BY <1>1, <1>3, <1>4, <1>5, <1>6, <1>7 DEF t

LEMMA FrontHolds ==
  ASSUME NEW S, NEW s \in Seq(S), NEW x \in S, NEW P
  PROVE  /\ In(<<x>> \o s, P) <=> In(s, P) \/ x \in P
         /\ Once(s, P) /\ x \notin P => Once(<<x>> \o s, P)
         /\ \A k \in DOMAIN s : Follows(s, k, P) => Follows(<<x>> \o s, k + 1, P)
<1>1. PICK t : t = <<x>> \o s
  OBVIOUS
<1>2. /\ 1 \in DOMAIN t /\ t[1] = x
      /\ \A k \in DOMAIN s : k + 1 \in DOMAIN t /\ t[k + 1] = s[k]
      /\ \A k \in DOMAIN t : k = 1 \/ (k - 1 \in DOMAIN s /\ t[k] = s[k - 1])
      /\ DOMAIN s \subseteq Nat /\ DOMAIN t \subseteq Nat
  BY <1>1, PutInFront
<1>3. In(t, P) <=> In(s, P) \/ x \in P
  BY <1>2 DEF In
<1>4. Once(s, P) /\ x \notin P => Once(t, P)
  <2> SUFFICES ASSUME Once(s, P), x \notin P, NEW j \in DOMAIN t, NEW k \in DOMAIN t,
                      t[j] \in P, t[k] \in P
               PROVE  j = k
    BY DEF Once
  <2>1. j - 1 \in DOMAIN s /\ k - 1 \in DOMAIN s /\ s[j - 1] \in P /\ s[k - 1] \in P
    BY <1>2
  <2>2. j - 1 = k - 1
    BY <2>1 DEF Once
  <2> QED BY <1>2, <2>2
<1>5. ASSUME NEW k \in DOMAIN s, Follows(s, k, P) PROVE Follows(t, k + 1, P)
  <2>1. PICK j \in DOMAIN s : j > k /\ s[j] \in P
    BY <1>5 DEF Follows
  <2>2. j + 1 \in DOMAIN t /\ t[j + 1] \in P /\ j + 1 > k + 1
    BY <1>2, <2>1
  <2> QED BY <2>2 DEF Follows
<1> QED BY <1>1, <1>3, <1>4, <1>5

-----------------------------------------------------------------------------
(* The inductive invariant. *)

MessageTypes == {"answer", "update", "replaced", "closed"}
Messages == [type : MessageTypes, request : Requests, ok : BOOLEAN, n : Numbers]
Answers == {m \in Messages : m.type = "answer"}
Panels == [open : BOOLEAN, known : BOOLEAN, asking : BOOLEAN, dirty : BOOLEAN,
           reply : Seq(Numbers \cup {Unavailable, Unknown}), shown : Numbers \cup {Unavailable},
           control : Controls \cup {"none", "done", "failed"}, missed : BOOLEAN]
Entries == [id : Nat, attached : BOOLEAN, children : Numbers]
Daemons == [last : Numbers, seated : BOOLEAN, closed : BOOLEAN]
Shape ==
  /\ daemon \in Daemons /\ wire \in {"up", "down", "gone"}
  /\ waiting \in Seq(Requests) /\ late \in Seq(Requests) /\ toDaemon \in Seq(Requests)
  /\ toHost \in Seq(Messages) /\ armed \in Seq(Answers)
  /\ made \in Nat /\ entry \in Entries
  /\ entry.id <= made /\ (entry.attached => entry.id # 0)
  /\ lease \in BOOLEAN /\ signals \in BOOLEAN /\ amiss \subseteq Mishaps
  /\ panel \in Panels /\ counts \in [faults : Nat, sweeps : Nat]

(* No request is of an entry that was never made, and an attach is of one.   *)
Unmade == {r \in Requests : r.entry > made \/ (r.entry = 0 /\ r.reason \in Attaches)}
AnswersUnmade == {m \in Answers : m.request \in Unmade}
Ids ==
  /\ ~In(waiting, Unmade) /\ ~In(toDaemon, Unmade)
  /\ ~In(toHost, AnswersUnmade) /\ ~In(armed, AnswersUnmade)

(* Without a wire nothing is on it, and the daemon seats nobody; it seats    *)
(* nobody either once the session is closed, and says so only then.          *)
Closings == {m \in Messages : m.type = "closed"}
Offline ==
  /\ wire # "up" => late = <<>> /\ toDaemon = <<>> /\ toHost = <<>> /\ ~daemon.seated
  /\ daemon.closed => ~daemon.seated
  /\ In(toHost, Closings) => daemon.closed

(* A request of the reasons C is under way, and no second one.  The four     *)
(* places are those a request passes through, one after the other.           *)
Of(C) == {r \in Requests : r.reason \in C}
AnswersOf(C) == {m \in Answers : m.request.reason \in C}
SomeIn(w, d, h, a, C) ==
  In(w, Of(C)) \/ In(d, Of(C)) \/ In(h, AnswersOf(C)) \/ In(a, AnswersOf(C))
OneIn(w, d, h, a, C) ==
  /\ Once(w, Of(C)) /\ Once(d, Of(C)) /\ Once(h, AnswersOf(C)) /\ Once(a, AnswersOf(C))
  /\ ~(In(w, Of(C)) /\ In(d, Of(C)))
  /\ ~(In(w, Of(C)) /\ In(h, AnswersOf(C)))
  /\ ~(In(w, Of(C)) /\ In(a, AnswersOf(C)))
  /\ ~(In(d, Of(C)) /\ In(h, AnswersOf(C)))
  /\ ~(In(d, Of(C)) /\ In(a, AnswersOf(C)))
  /\ ~(In(h, AnswersOf(C)) /\ In(a, AnswersOf(C)))
Some(C) == SomeIn(waiting, toDaemon, toHost, armed, C)
One(C) == OneIn(waiting, toDaemon, toHost, armed, C)

(* The panel's question has one request or one reply on its way, and its     *)
(* control one request.                                                      *)
Watching == {"watch"}
Steering == Controls \cup {"control"}
AsksIn(w, d, h, a, p) ==
  /\ OneIn(w, d, h, a, Watching) /\ OneIn(w, d, h, a, Steering)
  /\ p.asking => (SomeIn(w, d, h, a, Watching) /\ p.reply = <<>>)
                 \/ (~SomeIn(w, d, h, a, Watching) /\ Len(p.reply) = 1)
  /\ ~p.asking => ~SomeIn(w, d, h, a, Watching) /\ p.reply = <<>>
  /\ SomeIn(w, d, h, a, Steering) => p.control \in Controls
Asking == AsksIn(waiting, toDaemon, toHost, armed, panel)

(* An attached entry, or one an answer under way will attach, that has no    *)
(* seat with the daemon will hear of it: by a push, by the end of another    *)
(* attach behind that answer, or when an attach that timed out is carried    *)
(* out.                                                                      *)
Pushes == {m \in Messages : m.type \in {"replaced", "closed"}}
Refusals == {m \in AnswersOf(Attaches) : ~m.ok}
Seats == {m \in AnswersOf(Attaches) : m.ok}
Mine(m) == m \in Seats /\ m.request.entry = entry.id /\ entry.id # 0
Cut == wire = "up" /\ ~daemon.seated
Underway ==
  \/ In(waiting, Of(Attaches)) \/ In(late, Of(Attaches)) \/ In(toDaemon, Of(Attaches))
  \/ In(toHost, Pushes) \/ "unseated" \in amiss
SeatLost ==
  Cut =>
  /\ entry.attached => Underway \/ In(toHost, Refusals) \/ In(armed, Refusals)
  /\ \A k \in DOMAIN armed : Mine(armed[k]) =>
       Underway \/ In(toHost, Refusals) \/ Follows(armed, k, Refusals)
  /\ \A k \in DOMAIN toHost : Mine(toHost[k]) => Underway \/ Follows(toHost, k, Refusals)

(* The detach of an entry that left the roster goes ahead of the attach of   *)
(* the entry that came after it.                                             *)
Leaving == Of({"detach"})
DetachAhead ==
  entry.id # 0 =>
  /\ \A k \in DOMAIN waiting :
       waiting[k] \in Leaving => Follows(waiting, k, Of(Attaches))
  /\ \A k \in DOMAIN toDaemon : toDaemon[k] \in Leaving =>
       Follows(toDaemon, k, Of(Attaches)) \/ In(waiting, Of(Attaches))
  /\ \A k \in DOMAIN late : late[k] \in Leaving =>
       Follows(late, k, Of(Attaches)) \/ In(toDaemon, Of(Attaches)) \/ In(waiting, Of(Attaches))

(* A seat is that of an attached entry, or its attach has not ended, or it   *)
(* is being given up.                                                        *)
Released ==
  In(waiting, Leaving) \/ In(late, Leaving) \/ In(toDaemon, Leaving) \/ Some(Attaches)
SeatKept == daemon.seated => entry.attached \/ Released \/ "stray" \in amiss

Leased ==
  /\ entry.attached => lease
  /\ lease /\ entry.id = 0 => Some({"detach"}) \/ "untold" \in amiss

Inv ==
  /\ Shape /\ Ids /\ Offline /\ Asking /\ SeatLost /\ DetachAhead /\ SeatKept /\ Leased

-----------------------------------------------------------------------------
(* How a request passes from one place to the next. *)

LEMMA Sorts ==
  ASSUME NEW C
  PROVE  /\ \A r \in Requests : r \in Of(C) <=> r.reason \in C
         /\ \A m \in Messages : m \in AnswersOf(C) <=> m.type = "answer" /\ m.request.reason \in C
         /\ \A m \in Messages : m.request \in Requests /\ m.ok \in BOOLEAN /\ m.n \in Numbers
                                /\ m.request.entry \in Nat
         /\ Answers \subseteq Messages
         /\ \A m \in Answers : m.type = "answer"
BY DEF Of, AnswersOf, Answers, Messages, Requests

LEMMA AppendPasses ==
  ASSUME NEW w \in Seq(Requests), NEW d, NEW h, NEW a, NEW r \in Requests, NEW C
  PROVE  /\ SomeIn(Append(w, r), d, h, a, C) <=> SomeIn(w, d, h, a, C) \/ r.reason \in C
         /\ OneIn(w, d, h, a, C) /\ ~(SomeIn(w, d, h, a, C) /\ r.reason \in C)
            => OneIn(Append(w, r), d, h, a, C)
<1>1. /\ In(Append(w, r), Of(C)) <=> In(w, Of(C)) \/ r.reason \in C
      /\ Once(w, Of(C)) /\ ~(In(w, Of(C)) /\ r.reason \in C) => Once(Append(w, r), Of(C))
  BY AppendHolds, Sorts
<1> QED BY <1>1 DEF SomeIn, OneIn

LEMMA FrontPasses ==
  ASSUME NEW w \in Seq(Requests), NEW d, NEW h, NEW a, NEW r \in Requests, NEW C,
         r.reason \notin C
  PROVE  /\ SomeIn(<<r>> \o w, d, h, a, C) <=> SomeIn(w, d, h, a, C)
         /\ OneIn(w, d, h, a, C) => OneIn(<<r>> \o w, d, h, a, C)
<1>1. /\ In(<<r>> \o w, Of(C)) <=> In(w, Of(C))
      /\ Once(w, Of(C)) => Once(<<r>> \o w, Of(C))
  BY FrontHolds, Sorts
<1> QED BY <1>1 DEF SomeIn, OneIn

LEMMA SendPasses ==
  ASSUME NEW w \in Seq(Requests), NEW d \in Seq(Requests), NEW h, NEW a, w # <<>>, NEW C
  PROVE  /\ SomeIn(Tail(w), Append(d, Head(w)), h, a, C) <=> SomeIn(w, d, h, a, C)
         /\ OneIn(w, d, h, a, C) => OneIn(Tail(w), Append(d, Head(w)), h, a, C)
<1>1. Head(w) \in Requests
  BY TailPositions
<1>2. /\ In(Append(d, Head(w)), Of(C)) <=> In(d, Of(C)) \/ Head(w) \in Of(C)
      /\ Once(d, Of(C)) /\ ~(In(d, Of(C)) /\ Head(w) \in Of(C))
         => Once(Append(d, Head(w)), Of(C))
  BY <1>1, AppendHolds
<1>3. /\ In(w, Of(C)) <=> Head(w) \in Of(C) \/ In(Tail(w), Of(C))
      /\ Once(w, Of(C)) => Once(Tail(w), Of(C)) /\ ~(Head(w) \in Of(C) /\ In(Tail(w), Of(C)))
  BY TailHolds
<1> QED BY <1>2, <1>3 DEF SomeIn, OneIn

LEMMA ServePasses ==
  ASSUME NEW w, NEW d \in Seq(Requests), NEW h \in Seq(Messages), NEW a, d # <<>>, NEW C,
         NEW m \in Messages, m.type = "answer", m.request = Head(d)
  PROVE  /\ SomeIn(w, Tail(d), Append(h, m), a, C) <=> SomeIn(w, d, h, a, C)
         /\ OneIn(w, d, h, a, C) => OneIn(w, Tail(d), Append(h, m), a, C)
<1>1. Head(d) \in Requests /\ (Head(d) \in Of(C) <=> m \in AnswersOf(C))
  <2>1. Head(d) \in Requests
    BY TailPositions
  <2> QED BY <2>1, Sorts
<1>2. /\ In(Append(h, m), AnswersOf(C)) <=> In(h, AnswersOf(C)) \/ Head(d) \in Of(C)
      /\ Once(h, AnswersOf(C)) /\ ~(In(h, AnswersOf(C)) /\ Head(d) \in Of(C))
         => Once(Append(h, m), AnswersOf(C))
  BY <1>1, AppendHolds
<1>3. /\ In(d, Of(C)) <=> Head(d) \in Of(C) \/ In(Tail(d), Of(C))
      /\ Once(d, Of(C)) => Once(Tail(d), Of(C)) /\ ~(Head(d) \in Of(C) /\ In(Tail(d), Of(C)))
  BY TailHolds
<1> QED BY <1>2, <1>3 DEF SomeIn, OneIn

(* The client fails the oldest request on the socket. *)
LEMMA TimeoutPasses ==
  ASSUME NEW w, NEW d \in Seq(Requests), NEW h, NEW a, d # <<>>, a = <<>>, NEW b, NEW C,
         In(b, AnswersOf(C)) <=> Head(d) \in Of(C), Once(b, AnswersOf(C))
  PROVE  /\ SomeIn(w, Tail(d), h, b, C) <=> SomeIn(w, d, h, a, C)
         /\ OneIn(w, d, h, a, C) => OneIn(w, Tail(d), h, b, C)
<1>1. ~In(a, AnswersOf(C))
  BY EmptyHolds
<1>2. /\ In(d, Of(C)) <=> Head(d) \in Of(C) \/ In(Tail(d), Of(C))
      /\ Once(d, Of(C)) => Once(Tail(d), Of(C)) /\ ~(Head(d) \in Of(C) /\ In(Tail(d), Of(C)))
  BY TailHolds
<1> QED BY <1>1, <1>2 DEF SomeIn, OneIn

LEMMA PushPasses ==
  ASSUME NEW w, NEW d, NEW h \in Seq(Messages), NEW a, NEW C, NEW m \in Messages,
         m.type # "answer"
  PROVE  /\ SomeIn(w, d, Append(h, m), a, C) <=> SomeIn(w, d, h, a, C)
         /\ OneIn(w, d, h, a, C) => OneIn(w, d, Append(h, m), a, C)
<1>1. m \notin AnswersOf(C)
  BY Sorts
<1>2. /\ In(Append(h, m), AnswersOf(C)) <=> In(h, AnswersOf(C))
      /\ Once(h, AnswersOf(C)) => Once(Append(h, m), AnswersOf(C))
  BY <1>1, AppendHolds
<1> QED BY <1>2 DEF SomeIn, OneIn

LEMMA ReadPasses ==
  ASSUME NEW w, NEW d, NEW h \in Seq(Messages), NEW a \in Seq(Answers), NEW C, h # <<>>
  PROVE  /\ Head(h).type = "answer" =>
              /\ SomeIn(w, d, Tail(h), Append(a, Head(h)), C) <=> SomeIn(w, d, h, a, C)
              /\ OneIn(w, d, h, a, C) => OneIn(w, d, Tail(h), Append(a, Head(h)), C)
         /\ Head(h).type # "answer" =>
              /\ SomeIn(w, d, Tail(h), a, C) <=> SomeIn(w, d, h, a, C)
              /\ OneIn(w, d, h, a, C) => OneIn(w, d, Tail(h), a, C)
<1>1. Head(h) \in Messages /\ (Head(h).type = "answer" => Head(h) \in Answers)
  <2>1. Head(h) \in Messages
    BY TailPositions
  <2> QED BY <2>1 DEF Answers
<1>2. /\ In(h, AnswersOf(C)) <=> Head(h) \in AnswersOf(C) \/ In(Tail(h), AnswersOf(C))
      /\ Once(h, AnswersOf(C)) => Once(Tail(h), AnswersOf(C))
                                  /\ ~(Head(h) \in AnswersOf(C) /\ In(Tail(h), AnswersOf(C)))
  BY TailHolds
<1>3. CASE Head(h).type = "answer"
  <2>1. /\ In(Append(a, Head(h)), AnswersOf(C)) <=> In(a, AnswersOf(C)) \/ Head(h) \in AnswersOf(C)
        /\ Once(a, AnswersOf(C)) /\ ~(In(a, AnswersOf(C)) /\ Head(h) \in AnswersOf(C))
           => Once(Append(a, Head(h)), AnswersOf(C))
    BY <1>1, <1>3, AppendHolds
  <2> QED BY <1>2, <1>3, <2>1 DEF SomeIn, OneIn
<1>4. CASE Head(h).type # "answer"
  <2>1. Head(h) \notin AnswersOf(C)
    BY <1>1, <1>4, Sorts
  <2> QED BY <1>2, <1>4, <2>1 DEF SomeIn, OneIn
<1> QED BY <1>3, <1>4

LEMMA EndPasses ==
  ASSUME NEW w, NEW d, NEW h, NEW a \in Seq(Answers), NEW C, a # <<>>
  PROVE  /\ SomeIn(w, d, h, Tail(a), C) => SomeIn(w, d, h, a, C)
         /\ OneIn(w, d, h, a, C) => OneIn(w, d, h, Tail(a), C)
         /\ Head(a).request.reason \notin C =>
              (SomeIn(w, d, h, Tail(a), C) <=> SomeIn(w, d, h, a, C))
         /\ Head(a).request.reason \in C =>
              /\ SomeIn(w, d, h, a, C)
              /\ OneIn(w, d, h, a, C) => ~SomeIn(w, d, h, Tail(a), C)
<1>1. Head(a) \in AnswersOf(C) <=> Head(a).request.reason \in C
  <2>1. Head(a) \in Answers
    BY TailPositions
  <2> QED BY <2>1, Sorts
<1>2. /\ In(a, AnswersOf(C)) <=> Head(a) \in AnswersOf(C) \/ In(Tail(a), AnswersOf(C))
      /\ Once(a, AnswersOf(C)) => Once(Tail(a), AnswersOf(C))
                                  /\ ~(Head(a) \in AnswersOf(C) /\ In(Tail(a), AnswersOf(C)))
  BY TailHolds
<1> QED BY <1>1, <1>2 DEF SomeIn, OneIn

LEMMA ConcatHolds ==
  ASSUME NEW S, NEW s \in Seq(S), NEW t \in Seq(S), NEW P
  PROVE  /\ s \o t \in Seq(S)
         /\ In(s \o t, P) <=> In(s, P) \/ In(t, P)
         /\ Once(s, P) /\ Once(t, P) /\ ~(In(s, P) /\ In(t, P)) => Once(s \o t, P)
<1>1. PICK u : u = s \o t
  OBVIOUS
<1>2. Len(s) \in Nat /\ DOMAIN s = 1..Len(s) /\ Len(t) \in Nat /\ DOMAIN t = 1..Len(t)
  BY Positions
<1>3. /\ u \in Seq(S) /\ Len(u) = Len(s) + Len(t)
      /\ \A i \in 1..(Len(s) + Len(t)) : u[i] = IF i <= Len(s) THEN s[i] ELSE t[i - Len(s)]
  BY <1>1, ConcatProperties
<1>4. DOMAIN u = 1..(Len(s) + Len(t))
  BY <1>3, Positions
<1>5. \A k \in DOMAIN s : k \in DOMAIN u /\ u[k] = s[k]
  BY <1>2, <1>3, <1>4
<1>6. \A k \in DOMAIN t : k + Len(s) \in DOMAIN u /\ u[k + Len(s)] = t[k]
  <2> TAKE k \in DOMAIN t
  <2>1. /\ k \in Nat /\ k + Len(s) \in 1..(Len(s) + Len(t)) /\ ~(k + Len(s) <= Len(s))
        /\ (k + Len(s)) - Len(s) = k
    BY <1>2
  <2> QED BY <1>3, <1>4, <2>1
<1>7. \A k \in DOMAIN u : \/ k \in DOMAIN s /\ u[k] = s[k]
                          \/ k - Len(s) \in DOMAIN t /\ u[k] = t[k - Len(s)]
  BY <1>2, <1>3, <1>4
<1>8. In(u, P) <=> In(s, P) \/ In(t, P)
  BY <1>5, <1>6, <1>7 DEF In
<1>9. Once(s, P) /\ Once(t, P) /\ ~(In(s, P) /\ In(t, P)) => Once(u, P)
  <2> SUFFICES ASSUME Once(s, P), Once(t, P), ~(In(s, P) /\ In(t, P)),
                      NEW j \in DOMAIN u, NEW k \in DOMAIN u, u[j] \in P, u[k] \in P
               PROVE  j = k
    BY DEF Once
  <2>1. CASE In(s, P)
    <3>1. /\ j \in DOMAIN s /\ s[j] \in P /\ k \in DOMAIN s /\ s[k] \in P
      BY <1>7, <2>1 DEF In
    <3> QED BY <3>1 DEF Once
  <2>2. CASE ~In(s, P)
    <3>1. /\ j - Len(s) \in DOMAIN t /\ t[j - Len(s)] \in P
          /\ k - Len(s) \in DOMAIN t /\ t[k - Len(s)] \in P
      BY <1>7, <2>2 DEF In
    <3>2. j - Len(s) = k - Len(s)
      BY <3>1 DEF Once
    <3>3. j \in Nat /\ k \in Nat
      BY <1>2, <1>4
    <3> QED BY <1>2, <3>2, <3>3
  <2> QED BY <2>1, <2>2
<1> QED BY <1>1, <1>3, <1>8, <1>9

LEMMA FailHolds ==
  ASSUME NEW rs \in Seq(Requests), NEW C
  PROVE  /\ Fail(rs) \in Seq(Answers)
         /\ \A k \in DOMAIN Fail(rs) : k \in DOMAIN rs /\ ~Fail(rs)[k].ok
                                       /\ Fail(rs)[k].request = rs[k]
         /\ In(Fail(rs), AnswersOf(C)) <=> In(rs, Of(C))
         /\ Once(rs, Of(C)) => Once(Fail(rs), AnswersOf(C))
<1>1. Len(rs) \in Nat /\ DOMAIN rs = 1..Len(rs) /\ \A k \in DOMAIN rs : rs[k] \in Requests
  BY Positions
<1>2. /\ DOMAIN Fail(rs) = DOMAIN rs
      /\ \A k \in DOMAIN rs : Fail(rs)[k] = Answer(rs[k], FALSE, 0)
  BY DEF Fail, RejectsAll
<1>3. \A r \in Requests : /\ Answer(r, FALSE, 0) \in Answers /\ ~Answer(r, FALSE, 0).ok
                          /\ Answer(r, FALSE, 0).request = r
  BY RosterAssumption DEF Answer, Answers, Messages, MessageTypes, Numbers
<1>4. \A k \in DOMAIN rs : /\ Fail(rs)[k] \in Answers /\ ~Fail(rs)[k].ok
                           /\ Fail(rs)[k].request = rs[k]
                           /\ (Fail(rs)[k] \in AnswersOf(C) <=> rs[k] \in Of(C))
  BY <1>1, <1>2, <1>3 DEF AnswersOf, Of
<1>5. Fail(rs) \in Seq(Answers)
  <2>1. Fail(rs) = [k \in 1..Len(rs) |-> Answer(rs[k], FALSE, 0)]
    BY <1>1 DEF Fail, RejectsAll
  <2>2. \A k \in 1..Len(rs) : Answer(rs[k], FALSE, 0) \in Answers
    BY <1>1, <1>3
  <2>3. Fail(rs) \in [1..Len(rs) -> Answers]
    BY <2>1, <2>2
  <2> QED BY <1>1, <2>3, SeqDef
<1> QED BY <1>2, <1>4, <1>5 DEF In, Once

(* The client rejects each request it sent and has read no answer to, once. *)
LEMMA DropFails ==
  ASSUME NEW d \in Seq(Requests), NEW h \in Seq(Messages),
         NEW f \in InOrder({k \in DOMAIN h : h[k].type = "answer"})
  PROVE  \E rs \in Seq(Requests) :
         /\ rs = [i \in DOMAIN f |-> h[f[i]].request] \o d
         /\ \A k \in DOMAIN rs : (\E j \in DOMAIN d : rs[k] = d[j])
                                 \/ \E j \in DOMAIN h : rs[k] = h[j].request /\ h[j].type = "answer"
         /\ \A C : /\ In(rs, Of(C)) <=> In(h, AnswersOf(C)) \/ In(d, Of(C))
                   /\ /\ Once(h, AnswersOf(C)) /\ Once(d, Of(C))
                      /\ ~(In(h, AnswersOf(C)) /\ In(d, Of(C)))
                      => Once(rs, Of(C))
<1> DEFINE S == {k \in DOMAIN h : h[k].type = "answer"}
           g == [i \in DOMAIN f |-> h[f[i]].request]
           rs == g \o d
<1>1. Len(h) \in Nat /\ DOMAIN h = 1..Len(h) /\ \A k \in DOMAIN h : h[k] \in Messages
  BY Positions
<1>2. Cardinality(S) \in Nat
  <2>1. IsFiniteSet(1..Len(h))
    BY <1>1, FS_Interval
  <2>2. S \subseteq 1..Len(h)
    BY <1>1
  <2> QED BY <2>1, <2>2, FS_Subset, FS_CardinalityType
<1>3. PICK n \in Nat :
        /\ f \in [1..n -> S]
        /\ \A i, j \in DOMAIN f : i < j => f[i] < f[j]
        /\ \A k \in S : \E i \in DOMAIN f : f[i] = k
  <2>1. /\ f \in [1..Cardinality(S) -> S]
        /\ \A i, j \in DOMAIN f : i < j => f[i] < f[j]
        /\ \A k \in S : \E i \in DOMAIN f : f[i] = k
    BY DEF InOrder
  <2> QED BY <1>2, <2>1
<1>4. DOMAIN f = 1..n /\ \A i \in 1..n : f[i] \in DOMAIN h /\ h[f[i]].type = "answer"
  BY <1>3
<1>5. g \in Seq(Requests) /\ DOMAIN g = 1..n /\ \A i \in 1..n : g[i] = h[f[i]].request
  <2>1. \A i \in 1..n : h[f[i]].request \in Requests
    BY <1>1, <1>4, Sorts
  <2>2. g = [i \in 1..n |-> h[f[i]].request]
    BY <1>4
  <2>3. n \in Nat
    OBVIOUS
  <2> HIDE DEF g
  <2>4. g \in [1..n -> Requests]
    BY <2>1, <2>2
  <2>6. Seq(Requests) = UNION {[1..m -> Requests] : m \in Nat}
    BY SeqDef
  <2>5. g \in Seq(Requests)
    BY <2>3, <2>4, <2>6
  <2> QED BY <2>2, <2>5
<1>6. ASSUME NEW C
      PROVE  /\ In(g, Of(C)) <=> In(h, AnswersOf(C))
             /\ Once(h, AnswersOf(C)) => Once(g, Of(C))
  <2>1. \A i \in 1..n : g[i] \in Of(C) <=> h[f[i]] \in AnswersOf(C)
    BY <1>1, <1>4, <1>5, Sorts
  <2>2. \A k \in DOMAIN h : h[k] \in AnswersOf(C) => \E i \in 1..n : f[i] = k
    <3> TAKE k \in DOMAIN h
    <3> HAVE h[k] \in AnswersOf(C)
    <3>1. k \in S
      BY <1>1, Sorts
    <3> QED BY <1>3, <1>4, <3>1
  <2>3. In(g, Of(C)) <=> In(h, AnswersOf(C))
    BY <1>4, <1>5, <2>1, <2>2 DEF In
  <2>4. ASSUME Once(h, AnswersOf(C)), NEW i \in DOMAIN g, NEW j \in DOMAIN g,
               g[i] \in Of(C), g[j] \in Of(C)
        PROVE  i = j
    <3>1. f[i] = f[j]
      BY <1>4, <1>5, <2>1, <2>4 DEF Once
    <3>2. i \in Nat /\ j \in Nat /\ i \in DOMAIN f /\ j \in DOMAIN f
      BY <1>4, <1>5
    <3>3. f[i] \in Nat
      BY <1>1, <1>4, <1>5
    <3>5. \A a, b \in DOMAIN f : a < b => f[a] < f[b]
      BY <1>3
    <3> HIDE DEF S
    <3>6. (i < j => f[i] < f[j]) /\ (j < i => f[j] < f[i])
      BY <3>2, <3>5
    <3>4. ~(i < j) /\ ~(j < i)
      BY <3>1, <3>3, <3>6
    <3> QED BY <3>2, <3>4
  <2> QED BY <2>3, <2>4 DEF Once
<1> HIDE DEF g
<1>7. rs \in Seq(Requests)
  BY <1>5, ConcatHolds
<1>8. \A C : /\ In(rs, Of(C)) <=> In(h, AnswersOf(C)) \/ In(d, Of(C))
             /\ /\ Once(h, AnswersOf(C)) /\ Once(d, Of(C))
                /\ ~(In(h, AnswersOf(C)) /\ In(d, Of(C)))
                => Once(rs, Of(C))
  <2> TAKE C
  <2>1. /\ In(rs, Of(C)) <=> In(g, Of(C)) \/ In(d, Of(C))
        /\ Once(g, Of(C)) /\ Once(d, Of(C)) /\ ~(In(g, Of(C)) /\ In(d, Of(C)))
           => Once(rs, Of(C))
    BY <1>5, ConcatHolds
  <2> QED BY <1>6, <2>1
<1>9. \A k \in DOMAIN rs : (\E j \in DOMAIN d : rs[k] = d[j])
                           \/ \E j \in DOMAIN h : rs[k] = h[j].request /\ h[j].type = "answer"
  <2> TAKE k \in DOMAIN rs
  <2>1. PICK P : P = {rs[k]}
    OBVIOUS
  <2>2. In(rs, P)
    BY <2>1 DEF In
  <2>3. In(rs, P) <=> In(g, P) \/ In(d, P)
    <3>1. g \in Seq(Requests) /\ d \in Seq(Requests)
      BY <1>5
    <3> QED BY <3>1, ConcatHolds
  <2> QED BY <1>4, <1>5, <2>1, <2>2, <2>3 DEF In
<1>10. rs = [i \in DOMAIN f |-> h[f[i]].request] \o d
  BY DEF g
<1> HIDE DEF rs
<1> QED BY <1>7, <1>8, <1>9, <1>10

-----------------------------------------------------------------------------
(* What a step leaves as it is. *)

(* The requests of these reasons are where they were, or further on. *)
Passes == \A C \in {Watching, Steering, {"detach"}} :
            (Some(C)' <=> Some(C)) /\ (One(C) => One(C)')

LEMMA PassesKept ==
  ASSUME Asking, Leased, Passes, UNCHANGED <<panel, lease>>, entry'.id = entry.id,
         entry'.attached => entry.attached, "untold" \in amiss => "untold" \in amiss'
  PROVE  Asking' /\ Leased'
BY DEF Asking, AsksIn, Some, One, Leased, Passes

LEMMA SeatLostKept ==
  ASSUME SeatLost, Cut' => Cut, Underway => Underway', UNCHANGED <<toHost, armed>>,
         entry'.id = entry.id, entry'.attached => entry.attached
  PROVE  SeatLost'
BY DEF SeatLost, Mine

LEMMA Kinds ==
  /\ Attaches \subseteq Reasons /\ "detach" \in Reasons /\ "detach" \notin Attaches
  /\ Controls \subseteq Reasons /\ Controls \cap Attaches = {} /\ "detach" \notin Controls
  /\ "watch" \in Attaches /\ "control" \in Attaches /\ "watch" \notin Steering
  /\ "control" \in Steering /\ Controls \subseteq Steering
BY DEF Attaches, Reasons, Controls, Steering

(* A message is at most one of these. *)
LEMMA Sorted ==
  /\ \A r \in Requests : /\ r \in Of(Attaches) <=> r.reason \in Attaches
                         /\ r \in Leaving <=> r.reason = "detach"
                         /\ r \in Unmade <=> r.entry > made \/ (r.entry = 0 /\ r.reason \in Attaches)
  /\ \A m \in Messages : /\ m \in Pushes <=> m.type \in {"replaced", "closed"}
                         /\ m \in Closings <=> m.type = "closed"
                         /\ m \in Seats <=> m.type = "answer" /\ m.request.reason \in Attaches
                                            /\ m.ok
                         /\ m \in Refusals <=> m.type = "answer" /\ m.request.reason \in Attaches
                                               /\ ~m.ok
                         /\ m \in AnswersUnmade <=> m.type = "answer" /\ m.request \in Unmade
  /\ \A m : Mine(m) => m \in Seats
<1>1. \A m \in Messages : m \in AnswersOf(Attaches) <=> m.type = "answer" /\ m.request.reason \in Attaches
  BY Sorts
<1> QED BY <1>1, Sorts DEF Leaving, Unmade, Pushes, Closings, Seats, Refusals, AnswersUnmade, Answers, Mine

LEMMA SendsKeeps ==
  ASSUME Inv, Sends
  PROVE  Inv'
<1>1. /\ waiting # <<>> /\ toDaemon' = Append(toDaemon, Head(waiting)) /\ waiting' = Tail(waiting)
      /\ UNCHANGED <<daemon, wire, late, toHost, counts, armed, entry, made, lease, signals, panel, amiss>>
      /\ waiting \in Seq(Requests) /\ toDaemon \in Seq(Requests) /\ wire = "up"
  BY DEF Sends, HostRests, Inv, Shape
<1>2. Head(waiting) \in Requests /\ waiting' \in Seq(Requests) /\ toDaemon' \in Seq(Requests)
  BY <1>1, TailPositions, AppendPositions
<1>3. \A P : /\ In(waiting, P) <=> Head(waiting) \in P \/ In(waiting', P)
             /\ In(toDaemon', P) <=> In(toDaemon, P) \/ Head(waiting) \in P
  BY <1>1, <1>2, TailHolds, AppendHolds
<1>4. Shape' /\ Offline'
  BY <1>1, <1>2 DEF Inv, Shape, Offline
<1>5. Ids'
  <2>1. Unmade' = Unmade /\ AnswersUnmade' = AnswersUnmade
    BY <1>1 DEF Unmade, AnswersUnmade
  <2> QED BY <1>1, <1>3, <2>1 DEF Inv, Ids
<1>6. Passes
  BY <1>1, SendPasses DEF Passes, Some, One
<1>7. Asking' /\ Leased'
  BY <1>1, <1>6, PassesKept DEF Inv
<1>8. SeatLost'
  <2>1. Underway => Underway'
    BY <1>1, <1>3 DEF Underway
  <2> QED BY <1>1, <2>1, SeatLostKept DEF Inv, Cut
<1>9. SeatKept'
  <2>1. Some(Attaches)' <=> Some(Attaches)
    BY <1>1, SendPasses DEF Some
  <2> QED BY <1>1, <1>3, <2>1 DEF Inv, SeatKept, Released
<1>10. DetachAhead'
  <2> SUFFICES ASSUME entry.id # 0 PROVE
        /\ \A k \in DOMAIN waiting' :
             waiting'[k] \in Leaving => Follows(waiting', k, Of(Attaches))
        /\ \A k \in DOMAIN toDaemon' : toDaemon'[k] \in Leaving =>
             Follows(toDaemon', k, Of(Attaches)) \/ In(waiting', Of(Attaches))
        /\ \A k \in DOMAIN late : late[k] \in Leaving =>
             Follows(late, k, Of(Attaches)) \/ In(toDaemon', Of(Attaches)) \/ In(waiting', Of(Attaches))
    BY <1>1 DEF DetachAhead
  <2>1. /\ \A k \in DOMAIN waiting :
             waiting[k] \in Leaving => Follows(waiting, k, Of(Attaches))
        /\ \A k \in DOMAIN toDaemon : toDaemon[k] \in Leaving =>
             Follows(toDaemon, k, Of(Attaches)) \/ In(waiting, Of(Attaches))
        /\ \A k \in DOMAIN late : late[k] \in Leaving =>
             Follows(late, k, Of(Attaches)) \/ In(toDaemon, Of(Attaches)) \/ In(waiting, Of(Attaches))
    BY DEF Inv, DetachAhead
  <2>4. \A k \in DOMAIN late : late[k] \in Leaving =>
          Follows(late, k, Of(Attaches)) \/ In(toDaemon', Of(Attaches)) \/ In(waiting', Of(Attaches))
    BY <1>3, <2>1
  <2>2. ASSUME NEW k \in DOMAIN waiting', waiting'[k] \in Leaving
        PROVE  Follows(waiting', k, Of(Attaches))
    <3>1. k + 1 \in DOMAIN waiting /\ waiting[k + 1] = waiting'[k]
      BY <1>1, TailPositions
    <3> QED BY <1>1, <2>1, <2>2, <3>1, TailHolds
  <2>3. ASSUME NEW k \in DOMAIN toDaemon', toDaemon'[k] \in Leaving
        PROVE  Follows(toDaemon', k, Of(Attaches)) \/ In(waiting', Of(Attaches))
    <3>1. CASE k \in DOMAIN toDaemon
      <4>1. toDaemon'[k] = toDaemon[k]
        BY <1>1, <1>2, <3>1, AppendPositions
      <4>2. Follows(toDaemon, k, Of(Attaches)) \/ Head(waiting) \in Of(Attaches)
            \/ In(waiting', Of(Attaches))
        BY <1>3, <2>1, <2>3, <3>1, <4>1
      <4> QED BY <1>1, <1>2, <3>1, <4>2, AppendHolds
    <3>2. CASE k \notin DOMAIN toDaemon
      <4>1. toDaemon'[k] = Head(waiting)
        BY <1>1, <1>2, <2>3, <3>2, AppendPositions
      <4>2. 1 \in DOMAIN waiting /\ waiting[1] = Head(waiting)
        BY <1>1, TailPositions
      <4>3. Follows(waiting, 1, Of(Attaches))
        BY <2>1, <2>3, <4>1, <4>2
      <4> QED BY <1>1, <4>3, TailHolds
    <3> QED BY <3>1, <3>2
  <2> QED BY <2>2, <2>3, <2>4
<1> QED BY <1>4, <1>5, <1>7, <1>8, <1>9, <1>10 DEF Inv

LEMMA FaultyCounts ==
  ASSUME Shape, Faulty
  PROVE  counts' \in [faults : Nat, sweeps : Nat]
<1>1. counts \in [faults : Nat, sweeps : Nat]
  BY DEF Shape
<1>2. counts' = [counts EXCEPT !.faults = counts.faults + 1]
  BY DEF Faulty
<1> QED BY <1>1, <1>2

LEMMA AnswerIs ==
  ASSUME NEW r \in Requests, NEW ok \in BOOLEAN, NEW n \in Numbers
  PROVE  /\ Answer(r, ok, n) \in Answers /\ Answer(r, ok, n) \in Messages
         /\ Answer(r, ok, n).type = "answer" /\ Answer(r, ok, n).request = r
         /\ Answer(r, ok, n).ok = ok /\ Answer(r, ok, n).n = n
BY DEF Answer, Answers, Messages, MessageTypes

LEMMA PushIs ==
  ASSUME NEW type \in {"update", "replaced", "closed"}, NEW n \in Numbers
  PROVE  /\ Push(type, n) \in Messages /\ Push(type, n).type = type
         /\ Push(type, n).n = n /\ Push(type, n).request.entry = 0
<1>1. Request("watch", 0) \in Requests /\ Request("watch", 0).entry = 0
  BY Kinds DEF Request, Requests, Attaches
<1> QED BY <1>1 DEF Push, Messages, MessageTypes

(* The daemon answers the oldest request it has read. *)
LEMMA DaemonServesKeeps ==
  ASSUME Inv, DaemonServes
  PROVE  Inv'
<1>1. PICK r : r = Head(toDaemon)
  OBVIOUS
<1>2. /\ armed = <<>> /\ wire = "up" /\ toDaemon # <<>> /\ toDaemon' = Tail(toDaemon)
      /\ late = <<>>
      /\ UNCHANGED <<armed, entry, made, lease, signals, panel, wire, waiting, late>>
      /\ waiting \in Seq(Requests) /\ toDaemon \in Seq(Requests) /\ toHost \in Seq(Messages)
      /\ daemon \in Daemons /\ amiss \subseteq Mishaps
  BY DEF DaemonServes, Quiet, HostRests, Inv, Shape
<1>3. r \in Requests /\ toDaemon' \in Seq(Requests) /\ 1 \in DOMAIN toDaemon /\ toDaemon[1] = r
  BY <1>1, <1>2, TailPositions
<1>4. PICK ok \in BOOLEAN, n \in Numbers :
        /\ toHost' = Append(toHost, Answer(r, ok, n))
        /\ counts' \in [faults : Nat, sweeps : Nat]
        /\ ok => ~daemon.closed
                 /\ daemon' = IF r.reason \in Controls THEN daemon
                              ELSE [daemon EXCEPT !.seated = r.reason # "detach"]
        /\ ok => amiss' = amiss
        /\ ~ok => daemon' = daemon
        /\ amiss \subseteq amiss' /\ amiss' \subseteq Mishaps
        /\ ~ok /\ r.reason = "detach" => "stray" \in amiss'
  <2>1. 0 \in Numbers /\ daemon.last \in Numbers
    BY <1>2, RosterAssumption DEF Numbers, Daemons
  <2>2. CASE /\ Accepts(r) /\ Serves(r) /\ UNCHANGED <<amiss, counts>>
             /\ toHost' = Append(toHost, Answer(r, TRUE, daemon.last))
    BY <1>2, <2>1, <2>2 DEF Accepts, Serves, Inv, Shape
  <2>3. CASE /\ IF Accepts(r) THEN Faulty ELSE UNCHANGED counts
             /\ UNCHANGED daemon /\ amiss' = amiss \cup If("stray", r.reason = "detach")
             /\ toHost' = Append(toHost, Answer(r, FALSE, 0))
    <3>1. counts' \in [faults : Nat, sweeps : Nat]
      BY <2>3, FaultyCounts DEF Inv, Shape
    <3>2. /\ amiss \subseteq amiss' /\ amiss' \subseteq Mishaps
          /\ r.reason = "detach" => "stray" \in amiss'
      BY <1>2, <2>3 DEF If, Mishaps
    <3> QED BY <2>1, <2>3, <3>1, <3>2
  <2> QED BY <1>1, <2>2, <2>3 DEF DaemonServes
<1>5. PICK m \in Messages : /\ m = Answer(r, ok, n) /\ m.type = "answer" /\ m.request = r /\ m.ok = ok
  BY <1>3, AnswerIs
<1>6. /\ daemon' \in Daemons /\ daemon'.closed = daemon.closed
      /\ ok /\ r.reason \in Attaches => daemon'.seated /\ ~daemon'.closed
      /\ ok /\ r.reason = "detach" => ~daemon'.seated
      /\ r.reason \in Controls \/ ~ok => daemon' = daemon
  <2>1. r.reason \in Attaches => r.reason \notin Controls /\ r.reason # "detach"
    BY Kinds
  <2>2. "detach" \notin Controls
    BY Kinds
  <2> QED BY <1>2, <1>4, <2>1, <2>2 DEF Daemons, Inv, Offline
<1>7. \/ r.reason \in Attaches \/ r.reason \in Controls \/ r.reason = "detach"
  BY <1>3 DEF Requests, Reasons, Attaches, Controls
<1>8. /\ toHost' \in Seq(Messages)
      /\ \A P : /\ In(toDaemon, P) <=> r \in P \/ In(toDaemon', P)
                /\ In(toHost', P) <=> In(toHost, P) \/ m \in P
                /\ \A k \in DOMAIN toHost :
                     Follows(toHost, k, P) \/ m \in P => Follows(toHost', k, P)
      /\ \A k \in DOMAIN toHost' : (k \in DOMAIN toHost /\ toHost'[k] = toHost[k]) \/ toHost'[k] = m
  <2>1. toHost' = Append(toHost, m)
    BY <1>4, <1>5
  <2>2. /\ toHost' \in Seq(Messages)
        /\ \A k \in DOMAIN toHost' : (k \in DOMAIN toHost /\ toHost'[k] = toHost[k]) \/ toHost'[k] = m
    BY <1>2, <2>1, AppendPositions
  <2>3. \A P : In(toDaemon, P) <=> r \in P \/ In(toDaemon', P)
    BY <1>1, <1>2, TailHolds
  <2>4. \A P : /\ In(toHost', P) <=> In(toHost, P) \/ m \in P
               /\ \A k \in DOMAIN toHost :
                     Follows(toHost, k, P) \/ m \in P => Follows(toHost', k, P)
    BY <1>2, <2>1, AppendHolds
  <2> QED BY <2>2, <2>3, <2>4
<1>9. Shape'
  BY <1>2, <1>3, <1>4, <1>6, <1>8 DEF Inv, Shape
<1>10. Offline'
  <2>1. m \notin Closings
    BY <1>5, Sorted
  <2> QED BY <1>2, <1>4, <1>6, <1>7, <1>8, <2>1 DEF Inv, Offline
<1>11. Ids'
  <2>1. Unmade' = Unmade /\ AnswersUnmade' = AnswersUnmade
    BY <1>2 DEF Unmade, AnswersUnmade
  <2>2. m \in AnswersUnmade <=> r \in Unmade
    BY <1>3, <1>5, Sorted
  <2> QED BY <1>2, <1>8, <2>1, <2>2 DEF Inv, Ids
<1>12. Asking' /\ Leased'
  <2>1. Passes
    BY <1>1, <1>2, <1>4, <1>5, ServePasses DEF Passes, Some, One
  <2> QED BY <1>2, <1>4, <2>1, PassesKept DEF Inv
<1>13. /\ m \in Seats <=> r.reason \in Attaches /\ ok
       /\ m \in Refusals <=> r.reason \in Attaches /\ ~ok
       /\ m \notin Pushes /\ (r \in Leaving <=> r.reason = "detach")
       /\ (r \in Of(Attaches) <=> r.reason \in Attaches)
  <2>1. m.type \notin {"replaced", "closed"}
    BY <1>5
  <2> QED BY <1>3, <1>5, <2>1, Sorted
<1>14. DetachAhead'
  <2> SUFFICES ASSUME entry.id # 0, NEW k \in DOMAIN toDaemon', toDaemon'[k] \in Leaving
               PROVE  Follows(toDaemon', k, Of(Attaches)) \/ In(waiting, Of(Attaches))
    BY <1>2, EmptyHolds DEF Inv, DetachAhead
  <2>1. k + 1 \in DOMAIN toDaemon /\ toDaemon[k + 1] = toDaemon'[k]
    BY <1>2, TailPositions
  <2>2. Follows(toDaemon, k + 1, Of(Attaches)) \/ In(waiting, Of(Attaches))
    BY <2>1 DEF Inv, DetachAhead
  <2> QED BY <1>2, <2>2, TailHolds
<1>15. SeatKept'
  <2> SUFFICES ASSUME daemon'.seated
               PROVE  entry.attached \/ Released' \/ "stray" \in amiss'
    BY <1>2 DEF SeatKept
  <2>0. Some(Attaches)' <=> Some(Attaches)
    BY <1>1, <1>2, <1>4, <1>5, ServePasses DEF Some
  <2>1. CASE r.reason \in Attaches
    <3>1. Some(Attaches)
      BY <1>8, <1>13, <2>1 DEF Some, SomeIn
    <3> QED BY <2>0, <3>1 DEF Released
  <2>2. CASE r.reason = "detach"
    BY <1>4, <1>6, <2>2
  <2>3. CASE r.reason \in Controls
    <3>1. daemon.seated /\ r \notin Leaving
      BY <1>6, <1>13, <2>3, Kinds
    <3>2. Released => Released'
      BY <1>2, <1>8, <2>0, <3>1 DEF Released
    <3> QED BY <1>4, <3>1, <3>2 DEF Inv, SeatKept
  <2> QED BY <1>7, <2>1, <2>2, <2>3
<1>16. SeatLost'
  <2> SUFFICES ASSUME ~daemon'.seated PROVE
        /\ entry.attached => Underway' \/ In(toHost', Refusals)
        /\ \A k \in DOMAIN toHost' : Mine(toHost'[k]) => Underway' \/ Follows(toHost', k, Refusals)
    BY <1>2, EmptyHolds DEF SeatLost, Cut, Mine
  <2>1. ~(ok /\ r.reason \in Attaches)
    BY <1>6
  <2>2. ~Mine(m)
    BY <1>13, <2>1, Sorted
  <2>3. CASE ok /\ r.reason = "detach"
    <3>1. ASSUME entry.id # 0 PROVE Underway'
      <4>1. Follows(toDaemon, 1, Of(Attaches)) \/ In(waiting, Of(Attaches))
        BY <1>3, <1>13, <2>3, <3>1 DEF Inv, DetachAhead
      <4>2. In(toDaemon', Of(Attaches)) \/ In(waiting, Of(Attaches))
        BY <1>2, <4>1, TailHolds
      <4> QED BY <1>2, <4>2 DEF Underway
    <3>2. entry.attached => entry.id # 0
      BY DEF Inv, Shape
    <3> QED BY <3>1, <3>2 DEF Mine
  <2>4. CASE ~(ok /\ r.reason = "detach")
    <3>1. daemon' = daemon /\ Cut
      BY <1>2, <1>6, <1>7, <2>1, <2>4 DEF Cut
    <3>2. Underway => Underway' \/ m \in Refusals
      BY <1>2, <1>4, <1>7, <1>8, <1>13, <2>1 DEF Underway
    <3>3. ~In(armed, Refusals)
      BY <1>2, EmptyHolds
    <3> QED BY <1>8, <2>2, <3>1, <3>2, <3>3 DEF Inv, SeatLost
  <2> QED BY <2>3, <2>4
<1> QED BY <1>9, <1>10, <1>11, <1>12, <1>14, <1>15, <1>16 DEF Inv

(* The daemon pushes an update, or that it gave up the seat. *)
LEMMA DaemonPushes ==
  ASSUME Inv, armed = <<>>, HostRests, UNCHANGED <<wire, waiting, late, toDaemon, amiss>>,
         counts' \in [faults : Nat, sweeps : Nat],
         NEW m \in Messages, m.type # "answer", m.request.entry = 0, Tells(m),
         daemon' \in Daemons, daemon'.seated => daemon.seated /\ ~daemon'.closed,
         daemon.closed \/ m \in Closings => daemon'.closed,
         daemon.seated /\ m \notin Pushes => daemon'.seated
  PROVE  Inv'
<1>1. /\ UNCHANGED <<wire, waiting, late, toDaemon, armed, entry, made, lease, signals, panel, amiss>>
      /\ toHost \in Seq(Messages)
      /\ toHost' = IF daemon.seated THEN Append(toHost, m) ELSE toHost
  BY DEF HostRests, Inv, Shape, Tells
<1>2. CASE ~daemon.seated
  <2>1. Shape' /\ Ids' /\ Offline' /\ DetachAhead' /\ SeatKept'
    BY <1>1, <1>2 DEF Inv, Shape, Ids, Unmade, AnswersUnmade, Offline, Daemons, DetachAhead, SeatKept
  <2>2. Passes
    BY <1>1, <1>2 DEF Passes, Some, One
  <2>3. SeatLost'
    BY <1>1, <1>2, SeatLostKept DEF Inv, Cut, Underway
  <2> QED BY <1>1, <2>1, <2>2, <2>3, PassesKept DEF Inv
<1>3. CASE daemon.seated
  <2>1. toHost' = Append(toHost, m)
    BY <1>1, <1>3
  <2>2. /\ toHost' \in Seq(Messages)
        /\ \A k \in DOMAIN toHost' : (k \in DOMAIN toHost /\ toHost'[k] = toHost[k]) \/ toHost'[k] = m
    BY <1>1, <2>1, AppendPositions
  <2>3. \A P : /\ In(toHost', P) <=> In(toHost, P) \/ m \in P
               /\ \A k \in DOMAIN toHost :
                     Follows(toHost, k, P) \/ m \in P => Follows(toHost', k, P)
    BY <1>1, <2>1, AppendHolds
  <2>4. m \notin AnswersUnmade /\ AnswersUnmade' = AnswersUnmade /\ Unmade' = Unmade
    BY <1>1, Sorted DEF AnswersUnmade, Unmade
  <2>5. Shape' /\ Ids' /\ DetachAhead'
    BY <1>1, <2>2, <2>3, <2>4 DEF Inv, Shape, Ids, DetachAhead
  <2>6. Offline'
    BY <1>1, <1>3, <2>3 DEF Inv, Offline, Shape, Daemons
  <2>7. Passes
    BY <1>1, <2>1, PushPasses DEF Passes, Some, One
  <2>8. Asking' /\ Leased'
    BY <1>1, <2>7, PassesKept DEF Inv
  <2>9. SeatLost'
    <3>1. Cut' => Underway'
      BY <1>3, <2>3 DEF Cut, Underway
    <3> QED BY <3>1 DEF SeatLost
  <2>10. SeatKept'
    <3>1. Some(Attaches)' <=> Some(Attaches)
      BY <1>1, <2>1, PushPasses DEF Some
    <3> QED BY <1>1, <1>3, <3>1 DEF Inv, SeatKept, Released
  <2> QED BY <2>5, <2>6, <2>8, <2>9, <2>10 DEF Inv
<1> QED BY <1>2, <1>3

LEMMA DaemonUpdatesKeeps ==
  ASSUME Inv, DaemonUpdates
  PROVE  Inv'
<1>1. /\ armed = <<>> /\ ~daemon.closed /\ daemon.last < MaxUpdates
      /\ daemon' = [daemon EXCEPT !.last = daemon.last + 1]
      /\ Tells(Push("update", daemon.last + 1))
      /\ HostRests /\ UNCHANGED <<wire, waiting, late, toDaemon, amiss, counts>>
  BY DEF DaemonUpdates, Quiet
<1>2. daemon \in Daemons /\ counts' \in [faults : Nat, sweeps : Nat]
  BY <1>1 DEF Inv, Shape
<1>3. daemon.last + 1 \in Numbers
  BY <1>1, <1>2, RosterAssumption DEF Daemons, Numbers
<1>4. daemon' \in Daemons /\ daemon'.seated = daemon.seated /\ daemon'.closed = daemon.closed
  BY <1>1, <1>2, <1>3 DEF Daemons
<1>5. PICK m \in Messages : /\ m = Push("update", daemon.last + 1) /\ m.type = "update"
                            /\ m.request.entry = 0
  BY <1>3, PushIs
<1>6. m \notin Pushes /\ m \notin Closings
  BY <1>5, Sorted
<1> QED BY <1>1, <1>2, <1>4, <1>5, <1>6, DaemonPushes

LEMMA WorkerReplacedKeeps ==
  ASSUME Inv, WorkerReplaced
  PROVE  Inv'
<1>1. /\ armed = <<>> /\ daemon.seated /\ Faulty
      /\ daemon' = [daemon EXCEPT !.seated = FALSE] /\ Tells(Push("replaced", 0))
      /\ HostRests /\ UNCHANGED <<wire, waiting, late, toDaemon, amiss>>
  BY DEF WorkerReplaced, Quiet
<1>2. daemon \in Daemons /\ counts' \in [faults : Nat, sweeps : Nat]
  BY <1>1, FaultyCounts DEF Inv, Shape
<1>3. daemon' \in Daemons /\ ~daemon'.seated /\ daemon'.closed = daemon.closed
  BY <1>1, <1>2 DEF Daemons
<1>4. 0 \in Numbers
  BY RosterAssumption DEF Numbers
<1>5. PICK m \in Messages : m = Push("replaced", 0) /\ m.type = "replaced" /\ m.request.entry = 0
  BY <1>4, PushIs
<1>6. m \in Pushes /\ m \notin Closings
  BY <1>5, Sorted
<1> QED BY <1>1, <1>2, <1>3, <1>5, <1>6, DaemonPushes

LEMMA SessionClosesKeeps ==
  ASSUME Inv, SessionCloses
  PROVE  Inv'
<1>1. /\ armed = <<>> /\ Faulty
      /\ daemon' = [daemon EXCEPT !.closed = TRUE, !.seated = FALSE] /\ Tells(Push("closed", 0))
      /\ HostRests /\ UNCHANGED <<wire, waiting, late, toDaemon, amiss>>
  BY DEF SessionCloses, Quiet
<1>2. daemon \in Daemons /\ counts' \in [faults : Nat, sweeps : Nat]
  BY <1>1, FaultyCounts DEF Inv, Shape
<1>3. daemon' \in Daemons /\ ~daemon'.seated /\ daemon'.closed
  BY <1>1, <1>2 DEF Daemons
<1>4. 0 \in Numbers
  BY RosterAssumption DEF Numbers
<1>5. PICK m \in Messages : m = Push("closed", 0) /\ m.type = "closed" /\ m.request.entry = 0
  BY <1>4, PushIs
<1>6. m \in Pushes
  BY <1>5, Sorted
<1> QED BY <1>1, <1>2, <1>3, <1>5, <1>6, DaemonPushes

(* The wire is up again: every entry attaches anew. *)
LEMMA ConnectsKeeps ==
  ASSUME Inv, wire # "up", armed = <<>>, Connects,
         waiting' = Reattach \o waiting \/ waiting' = waiting \o Reattach
  PROVE  Inv'
<1>1. /\ wire' = "up" /\ entry' = [entry EXCEPT !.attached = FALSE]
      /\ UNCHANGED <<daemon, late, toDaemon, toHost, armed, made, lease, signals, panel, amiss, counts>>
      /\ late = <<>> /\ toDaemon = <<>> /\ toHost = <<>> /\ ~daemon.seated /\ waiting \in Seq(Requests)
      /\ entry \in Entries /\ made \in Nat /\ entry.id <= made
  BY DEF Connects, Inv, Offline, Shape
<1>2. /\ entry' \in Entries /\ entry'.id = entry.id /\ ~entry'.attached
  BY <1>1 DEF Entries
<1>3. PICK r \in Requests : /\ r = Request("reconnect", entry.id) /\ r.reason = "reconnect"
                            /\ r.entry = entry.id
  <2>1. entry.id \in Nat /\ "reconnect" \in Reasons
    BY <1>1 DEF Entries, Reasons
  <2>2. PICK r : r = [reason |-> "reconnect", entry |-> entry.id]
    OBVIOUS
  <2>3. r \in Requests /\ r.reason = "reconnect" /\ r.entry = entry.id
    BY <2>1, <2>2 DEF Requests
  <2> QED BY <2>2, <2>3 DEF Request
<1>4. \/ waiting' = waiting
      \/ entry.id # 0 /\ (waiting' = <<r>> \o waiting \/ waiting' = Append(waiting, r))
  <2>1. CASE entry.id = 0
    BY <1>1, <2>1, ConcatEmptySeq DEF Reattach
  <2>2. CASE entry.id # 0
    <3>1. Reattach = <<r>>
      BY <1>3, <2>2 DEF Reattach
    <3>2. Append(waiting, r) = waiting \o <<r>>
      BY <1>1, AppendIsConcat
    <3>3. CASE waiting' = Reattach \o waiting
      <4>1. waiting' = <<r>> \o waiting
        BY <3>1, <3>3
      <4> QED BY <2>2, <4>1
    <3>4. CASE waiting' = waiting \o Reattach
      <4>1. waiting' = Append(waiting, r)
        BY <3>1, <3>2, <3>4
      <4> QED BY <2>2, <4>1
    <3> QED BY <3>3, <3>4
  <2> QED BY <2>1, <2>2
<1>5. waiting' \in Seq(Requests)
  <2>1. <<r>> \o waiting \in Seq(Requests)
    BY <1>1, PutInFront
  <2>2. Append(waiting, r) \in Seq(Requests)
    BY <1>1, AppendPositions
  <2> QED BY <1>1, <1>4, <2>1, <2>2
<1>6. \A P : entry.id = 0 \/ r \notin P => (In(waiting', P) <=> In(waiting, P))
  <2> TAKE P
  <2>1. In(<<r>> \o waiting, P) <=> In(waiting, P) \/ r \in P
    BY <1>1, FrontHolds
  <2>2. In(Append(waiting, r), P) <=> In(waiting, P) \/ r \in P
    BY <1>1, AppendHolds
  <2> QED BY <1>4, <2>1, <2>2
<1>7. Shape' /\ Offline'
  BY <1>1, <1>2, <1>5 DEF Inv, Shape, Offline
<1>8. Ids'
  <2>1. entry.id = 0 \/ r \notin Unmade
    <3>1. ~(entry.id > made)
      BY <1>1 DEF Entries
    <3> QED BY <1>3, <3>1 DEF Unmade
  <2>2. Unmade' = Unmade /\ AnswersUnmade' = AnswersUnmade
    BY <1>1 DEF Unmade, AnswersUnmade
  <2> QED BY <1>1, <1>6, <2>1, <2>2 DEF Inv, Ids
<1>9. Passes
  <2> SUFFICES ASSUME NEW C \in {Watching, Steering, {"detach"}}
               PROVE  (Some(C)' <=> Some(C)) /\ (One(C) => One(C)')
    BY DEF Passes
  <2>1. r.reason \notin C
    BY <1>3 DEF Watching, Steering, Controls
  <2>2. /\ SomeIn(<<r>> \o waiting, toDaemon, toHost, armed, C) <=> Some(C)
        /\ One(C) => OneIn(<<r>> \o waiting, toDaemon, toHost, armed, C)
    BY <1>1, <2>1, FrontPasses DEF Some, One
  <2>3. /\ SomeIn(Append(waiting, r), toDaemon, toHost, armed, C) <=> Some(C)
        /\ One(C) => OneIn(Append(waiting, r), toDaemon, toHost, armed, C)
    BY <1>1, <2>1, AppendPasses DEF Some, One
  <2>4. /\ Some(C)' <=> SomeIn(waiting', toDaemon, toHost, armed, C)
        /\ One(C)' <=> OneIn(waiting', toDaemon, toHost, armed, C)
    BY <1>1 DEF Some, One
  <2> QED BY <1>4, <2>2, <2>3, <2>4 DEF Some, One
<1>10. Asking' /\ Leased'
  BY <1>1, <1>2, <1>9, PassesKept DEF Inv
<1>11. SeatLost'
  BY <1>1, <1>2, EmptyHolds DEF SeatLost
<1>12. SeatKept'
  BY <1>1 DEF SeatKept
<1>13. DetachAhead'
  <2> SUFFICES ASSUME entry.id # 0, NEW k \in DOMAIN waiting', waiting'[k] \in Leaving
               PROVE  Follows(waiting', k, Of(Attaches))
    BY <1>1, <1>2, EmptyHolds DEF DetachAhead
  <2>1. \A j \in DOMAIN waiting : waiting[j] \in Leaving => Follows(waiting, j, Of(Attaches))
    BY DEF Inv, DetachAhead
  <2>2. r \notin Leaving
    BY <1>3, Sorted
  <2>3. CASE waiting' = waiting
    BY <2>1, <2>3
  <2>4. CASE waiting' = <<r>> \o waiting
    <3>1. /\ k \in Nat /\ (<<r>> \o waiting)[1] = r
          /\ k = 1 \/ (k - 1 \in DOMAIN waiting /\ waiting'[k] = waiting[k - 1])
      BY <1>1, <2>4, PutInFront
    <3>2. k # 1
      BY <2>2, <2>4, <3>1
    <3>3. k - 1 \in DOMAIN waiting /\ Follows(waiting, k - 1, Of(Attaches))
      BY <2>1, <3>1, <3>2
    <3>4. Follows(waiting', (k - 1) + 1, Of(Attaches))
      BY <1>1, <2>4, <3>3, FrontHolds
    <3>5. (k - 1) + 1 = k
      BY <3>1
    <3> QED BY <3>4, <3>5
  <2>5. CASE waiting' = Append(waiting, r)
    <3>1. k \in DOMAIN waiting /\ waiting'[k] = waiting[k]
      BY <1>1, <2>2, <2>5, AppendPositions
    <3> QED BY <1>1, <2>1, <2>5, <3>1, AppendHolds
  <2> QED BY <1>4, <2>3, <2>4, <2>5
<1> QED BY <1>7, <1>8, <1>10, <1>11, <1>12, <1>13 DEF Inv

LEMMA DialsKeeps ==
  ASSUME Inv, Dials \/ Reconnects
  PROVE  Inv'
BY ConnectsKeeps DEF Dials, Reconnects

(* The wire is gone, or the dial failed: what was asked fails. *)
LEMMA RejectsKeeps ==
  ASSUME Inv, armed = <<>>, NEW rs \in Seq(Requests), armed' = Fail(rs),
         waiting' \in {waiting, <<>>}, late' = <<>>, toDaemon' = <<>>, toHost' = <<>>,
         wire' \in {"down", "gone"},
         daemon' \in Daemons, ~daemon'.seated, counts' \in [faults : Nat, sweeps : Nat],
         amiss' \subseteq amiss, "untold" \in amiss => "untold" \in amiss',
         UNCHANGED <<entry, made, lease, signals, panel>>,
         ~In(rs, Unmade), Passes
  PROVE  Inv'
<1>1. armed' \in Seq(Answers)
  BY FailHolds
<1>2. /\ waiting' \in Seq(Requests) /\ late' \in Seq(Requests) /\ toDaemon' \in Seq(Requests)
      /\ toHost' \in Seq(Messages)
  BY EmptySeq DEF Inv, Shape
<1>3. Shape'
  BY <1>1, <1>2 DEF Inv, Shape
<1>4. Offline'
  BY EmptyHolds DEF Offline
<1>5. Ids'
  <2>1. Unmade' = Unmade /\ AnswersUnmade' = AnswersUnmade
    BY DEF Unmade, AnswersUnmade
  <2>2. ~In(armed', AnswersUnmade)
    <3> SUFFICES ASSUME NEW k \in DOMAIN armed', armed'[k] \in AnswersUnmade PROVE FALSE
      BY DEF In
    <3>1. k \in DOMAIN rs /\ armed'[k].request = rs[k] /\ rs[k] \in Requests
      BY FailHolds, Positions
    <3>2. rs[k] \in Unmade
      BY <3>1 DEF AnswersUnmade
    <3> QED BY <3>1, <3>2 DEF In
  <2> QED BY <2>1, <2>2, EmptyHolds DEF Inv, Ids
<1>6. Asking' /\ Leased'
  BY PassesKept DEF Inv
<1>7. SeatLost' /\ SeatKept'
  BY DEF SeatLost, Cut, SeatKept
<1>8. DetachAhead'
  BY EmptyHolds DEF Inv, DetachAhead
<1> QED BY <1>3, <1>4, <1>5, <1>6, <1>7, <1>8 DEF Inv

LEMMA DialFailsKeeps ==
  ASSUME Inv, DialFails
  PROVE  Inv'
<1>1. /\ wire = "gone" /\ armed = <<>> /\ Faulty /\ armed' = Fail(waiting) /\ waiting' = <<>>
      /\ wire' \in {"gone", "down"}
      /\ UNCHANGED <<daemon, late, toDaemon, toHost, entry, made, lease, signals, panel, amiss>>
      /\ waiting \in Seq(Requests) /\ daemon \in Daemons
  BY DEF DialFails, Inv, Shape
<1>2. late = <<>> /\ toDaemon = <<>> /\ toHost = <<>> /\ ~daemon.seated
  BY <1>1 DEF Inv, Offline
<1>3. Passes
  <2> SUFFICES ASSUME NEW C PROVE (Some(C)' <=> Some(C)) /\ (One(C) => One(C)')
    BY DEF Passes
  <2>1. /\ In(armed', AnswersOf(C)) <=> In(waiting, Of(C))
        /\ Once(waiting, Of(C)) => Once(armed', AnswersOf(C))
    BY <1>1, FailHolds
  <2> QED BY <1>1, <1>2, <2>1, EmptyHolds DEF Some, One, SomeIn, OneIn
<1>4. counts' \in [faults : Nat, sweeps : Nat]
  BY <1>1, FaultyCounts DEF Inv
<1>5. ~In(waiting, Unmade)
  BY DEF Inv, Ids
<1> QED BY <1>1, <1>2, <1>3, <1>4, <1>5, RejectsKeeps

LEMMA DropsKeeps ==
  ASSUME Inv, Drops
  PROVE  Inv'
<1>1. /\ wire = "up" /\ armed = <<>> /\ Faulty /\ wire' = "down" /\ toDaemon' = <<>> /\ toHost' = <<>>
      /\ late' = <<>> /\ daemon' = [daemon EXCEPT !.seated = FALSE]
      /\ amiss' = amiss \ {"stray", "unseated"}
      /\ UNCHANGED <<waiting, entry, made, lease, signals, panel>>
      /\ toDaemon \in Seq(Requests) /\ toHost \in Seq(Messages) /\ daemon \in Daemons
  BY DEF Drops, Quiet, Inv, Shape
<1>2. PICK f \in InOrder({k \in DOMAIN toHost : toHost[k].type = "answer"}) :
        armed' = Fail([i \in DOMAIN f |-> toHost[f[i]].request] \o toDaemon)
  BY DEF Drops
<1>3. PICK rs \in Seq(Requests) :
      /\ rs = [i \in DOMAIN f |-> toHost[f[i]].request] \o toDaemon
      /\ \A k \in DOMAIN rs : (\E j \in DOMAIN toDaemon : rs[k] = toDaemon[j])
                              \/ \E j \in DOMAIN toHost :
                                   rs[k] = toHost[j].request /\ toHost[j].type = "answer"
      /\ \A C : /\ In(rs, Of(C)) <=> In(toHost, AnswersOf(C)) \/ In(toDaemon, Of(C))
                /\ /\ Once(toHost, AnswersOf(C)) /\ Once(toDaemon, Of(C))
                   /\ ~(In(toHost, AnswersOf(C)) /\ In(toDaemon, Of(C)))
                   => Once(rs, Of(C))
  BY <1>1, DropFails
<1>4. rs \in Seq(Requests)
  BY <1>3
<1>5. armed' = Fail(rs)
  BY <1>2, <1>3
<1>6. Passes
  <2> SUFFICES ASSUME NEW C PROVE (Some(C)' <=> Some(C)) /\ (One(C) => One(C)')
    BY DEF Passes
  <2>1. /\ In(armed', AnswersOf(C)) <=> In(rs, Of(C))
        /\ Once(rs, Of(C)) => Once(armed', AnswersOf(C))
    BY <1>4, <1>5, FailHolds
  <2>2. /\ In(rs, Of(C)) <=> In(toHost, AnswersOf(C)) \/ In(toDaemon, Of(C))
        /\ /\ Once(toHost, AnswersOf(C)) /\ Once(toDaemon, Of(C))
           /\ ~(In(toHost, AnswersOf(C)) /\ In(toDaemon, Of(C)))
           => Once(rs, Of(C))
    BY <1>3
  <2> QED BY <1>1, <2>1, <2>2, EmptyHolds DEF Some, One, SomeIn, OneIn
<1>7. counts' \in [faults : Nat, sweeps : Nat] /\ daemon' \in Daemons /\ ~daemon'.seated
  BY <1>1, FaultyCounts DEF Inv, Daemons
<1>8. ~In(rs, Unmade)
  <2> SUFFICES ASSUME NEW k \in DOMAIN rs, rs[k] \in Unmade PROVE FALSE
    BY DEF In
  <2>1. CASE \E j \in DOMAIN toDaemon : rs[k] = toDaemon[j]
    BY <2>1 DEF Inv, Ids, In
  <2>2. CASE \E j \in DOMAIN toHost : rs[k] = toHost[j].request /\ toHost[j].type = "answer"
    <3>1. PICK j \in DOMAIN toHost : rs[k] = toHost[j].request /\ toHost[j].type = "answer"
      BY <2>2
    <3>2. toHost[j] \in Messages
      BY <1>1, Positions
    <3>3. toHost[j] \in AnswersUnmade
      BY <3>1, <3>2, Sorted
    <3> QED BY <3>3 DEF Inv, Ids, In
  <2> QED BY <1>3, <2>1, <2>2
<1> QED BY <1>1, <1>4, <1>5, <1>6, <1>7, <1>8, RejectsKeeps

(* A request times out: the daemon may still carry it out. *)
LEMMA TimesOutKeeps ==
  ASSUME Inv, TimesOut
  PROVE  Inv'
<1>1. PICK r : r = Head(toDaemon)
  OBVIOUS
<1>2. /\ wire = "up" /\ toDaemon # <<>> /\ armed = <<>> /\ Faulty
      /\ late' = Append(late, r) /\ toDaemon' = Tail(toDaemon) /\ armed' = Fail(<<r>>)
      /\ UNCHANGED <<daemon, wire, waiting, toHost, entry, made, lease, signals, panel, amiss>>
      /\ late \in Seq(Requests) /\ toDaemon \in Seq(Requests)
  BY <1>1 DEF TimesOut, Quiet, Inv, Shape
<1>3. /\ r \in Requests /\ toDaemon' \in Seq(Requests) /\ 1 \in DOMAIN toDaemon /\ toDaemon[1] = r
      /\ late' \in Seq(Requests)
  BY <1>1, <1>2, TailPositions, AppendPositions
<1>4. /\ \A P : /\ In(toDaemon, P) <=> r \in P \/ In(toDaemon', P)
                /\ In(late', P) <=> In(late, P) \/ r \in P
                /\ Follows(toDaemon, 1, P) => In(toDaemon', P)
                /\ \A k \in DOMAIN toDaemon' : Follows(toDaemon, k + 1, P) => Follows(toDaemon', k, P)
                /\ \A k \in DOMAIN late : Follows(late, k, P) \/ r \in P => Follows(late', k, P)
      /\ \A k \in DOMAIN toDaemon' : k + 1 \in DOMAIN toDaemon /\ toDaemon'[k] = toDaemon[k + 1]
      /\ \A k \in DOMAIN late' : (k \in DOMAIN late /\ late'[k] = late[k]) \/ late'[k] = r
  <2>1. /\ \A P : /\ In(toDaemon, P) <=> r \in P \/ In(toDaemon', P)
                  /\ Follows(toDaemon, 1, P) => In(toDaemon', P)
                  /\ \A k \in DOMAIN toDaemon' : Follows(toDaemon, k + 1, P) => Follows(toDaemon', k, P)
        /\ \A k \in DOMAIN toDaemon' : k + 1 \in DOMAIN toDaemon /\ toDaemon'[k] = toDaemon[k + 1]
    <3>1. \A P : /\ In(toDaemon, P) <=> r \in P \/ In(toDaemon', P)
                 /\ Follows(toDaemon, 1, P) => In(toDaemon', P)
                 /\ \A k \in DOMAIN toDaemon' : Follows(toDaemon, k + 1, P) => Follows(toDaemon', k, P)
      BY <1>1, <1>2, TailHolds
    <3>2. \A k \in DOMAIN toDaemon' : k + 1 \in DOMAIN toDaemon /\ toDaemon'[k] = toDaemon[k + 1]
      BY <1>2, TailPositions
    <3> QED BY <3>1, <3>2
  <2>2. /\ \A P : /\ In(late', P) <=> In(late, P) \/ r \in P
                  /\ \A k \in DOMAIN late : Follows(late, k, P) \/ r \in P => Follows(late', k, P)
        /\ \A k \in DOMAIN late' : (k \in DOMAIN late /\ late'[k] = late[k]) \/ late'[k] = r
    <3>1. \A P : /\ In(late', P) <=> In(late, P) \/ r \in P
                 /\ \A k \in DOMAIN late : Follows(late, k, P) \/ r \in P => Follows(late', k, P)
      BY <1>2, <1>3, AppendHolds
    <3>2. \A k \in DOMAIN late' : (k \in DOMAIN late /\ late'[k] = late[k]) \/ late'[k] = r
      BY <1>2, <1>3, AppendPositions
    <3> QED BY <3>1, <3>2
  <2> QED BY <2>1, <2>2
<1>5. /\ armed' \in Seq(Answers)
      /\ \A k \in DOMAIN armed' : ~armed'[k].ok /\ armed'[k].request = r
      /\ \A C : (In(armed', AnswersOf(C)) <=> r \in Of(C)) /\ Once(armed', AnswersOf(C))
  <2>1. PICK rs \in Seq(Requests) : rs = <<r>> /\ DOMAIN rs = {1} /\ rs[1] = r
    <3>1. <<r>> \in Seq(Requests) /\ DOMAIN <<r>> = {1} /\ <<r>>[1] = r
      BY <1>3
    <3> QED BY <3>1
  <2>2. armed' = Fail(rs)
    BY <1>2, <2>1
  <2>3. armed' \in Seq(Answers) /\ \A k \in DOMAIN armed' : ~armed'[k].ok /\ armed'[k].request = r
    BY <2>1, <2>2, FailHolds
  <2>4. \A C : (In(rs, Of(C)) <=> r \in Of(C)) /\ Once(rs, Of(C))
    BY <2>1 DEF In, Once
  <2>5. \A C : /\ In(armed', AnswersOf(C)) <=> In(rs, Of(C))
               /\ Once(rs, Of(C)) => Once(armed', AnswersOf(C))
    BY <2>2, FailHolds
  <2> QED BY <2>3, <2>4, <2>5
<1>6. \A C : /\ Some(C)' <=> Some(C)
             /\ One(C) => One(C)'
  <2> TAKE C
  <2>1. /\ SomeIn(waiting, Tail(toDaemon), toHost, armed', C)
           <=> SomeIn(waiting, toDaemon, toHost, armed, C)
        /\ OneIn(waiting, toDaemon, toHost, armed, C)
           => OneIn(waiting, Tail(toDaemon), toHost, armed', C)
    <3>1. /\ toDaemon \in Seq(Requests) /\ toDaemon # <<>> /\ armed = <<>>
          /\ In(armed', AnswersOf(C)) <=> Head(toDaemon) \in Of(C)
          /\ Once(armed', AnswersOf(C))
      BY <1>1, <1>2, <1>5
    <3> QED BY <3>1, TimeoutPasses
  <2> QED BY <1>2, <2>1 DEF Some, One
<1>7. Shape' /\ Offline'
  <2>1. counts' \in [faults : Nat, sweeps : Nat]
    BY <1>2, FaultyCounts DEF Inv
  <2> QED BY <1>2, <1>3, <1>5, <2>1 DEF Inv, Shape, Offline
<1>8. Ids'
  <2>1. Unmade' = Unmade /\ AnswersUnmade' = AnswersUnmade
    BY <1>2 DEF Unmade, AnswersUnmade
  <2>2. r \notin Unmade
    BY <1>4 DEF Inv, Ids
  <2>3. ~In(armed', AnswersUnmade)
    BY <1>5, <2>2 DEF In, AnswersUnmade
  <2> QED BY <1>2, <1>4, <2>1, <2>3 DEF Inv, Ids
<1>9. Asking' /\ Leased'
  <2>1. Passes
    BY <1>6 DEF Passes
  <2> QED BY <1>2, <2>1, PassesKept DEF Inv
<1>10. DetachAhead'
  <2> SUFFICES ASSUME entry.id # 0 PROVE
        /\ \A k \in DOMAIN toDaemon' : toDaemon'[k] \in Leaving =>
             Follows(toDaemon', k, Of(Attaches)) \/ In(waiting, Of(Attaches))
        /\ \A k \in DOMAIN late' : late'[k] \in Leaving =>
             Follows(late', k, Of(Attaches)) \/ In(toDaemon', Of(Attaches)) \/ In(waiting, Of(Attaches))
    BY <1>2 DEF Inv, DetachAhead
  <2>1. /\ \A k \in DOMAIN toDaemon : toDaemon[k] \in Leaving =>
             Follows(toDaemon, k, Of(Attaches)) \/ In(waiting, Of(Attaches))
        /\ \A k \in DOMAIN late : late[k] \in Leaving =>
             Follows(late, k, Of(Attaches)) \/ In(toDaemon, Of(Attaches)) \/ In(waiting, Of(Attaches))
    BY DEF Inv, DetachAhead
  <2>2. \A k \in DOMAIN toDaemon' : toDaemon'[k] \in Leaving =>
          Follows(toDaemon', k, Of(Attaches)) \/ In(waiting, Of(Attaches))
    BY <1>4, <2>1
  <2>3. ASSUME NEW k \in DOMAIN late', late'[k] \in Leaving
        PROVE  Follows(late', k, Of(Attaches)) \/ In(toDaemon', Of(Attaches)) \/ In(waiting, Of(Attaches))
    <3>1. CASE k \in DOMAIN late /\ late'[k] = late[k]
      BY <1>4, <2>1, <2>3, <3>1
    <3>2. CASE late'[k] = r
      BY <1>3, <1>4, <2>1, <2>3, <3>2
    <3> QED BY <1>4, <3>1, <3>2
  <2> QED BY <2>2, <2>3
<1>11. Underway => Underway'
  BY <1>2, <1>4 DEF Underway
<1>12. SeatLost'
  <2> SUFFICES ASSUME Cut PROVE
        /\ entry.attached => Underway' \/ In(toHost, Refusals) \/ In(armed', Refusals)
        /\ \A k \in DOMAIN armed' : ~Mine(armed'[k])
        /\ \A k \in DOMAIN toHost : Mine(toHost[k]) => Underway' \/ Follows(toHost, k, Refusals)
    BY <1>2 DEF SeatLost, Cut, Mine
  <2>1. \A k \in DOMAIN armed' : ~Mine(armed'[k])
    BY <1>5 DEF Mine, Seats
  <2>2. ~In(armed, Refusals)
    BY <1>2, EmptyHolds
  <2> QED BY <1>11, <2>1, <2>2 DEF Inv, SeatLost
<1>13. SeatKept'
  <2>1. Released => Released'
    BY <1>2, <1>4, <1>6 DEF Released
  <2> QED BY <1>2, <2>1 DEF Inv, SeatKept
<1> QED BY <1>7, <1>8, <1>9, <1>10, <1>12, <1>13 DEF Inv

(* The daemon carries out, or refuses, what nobody waits for any more. *)
LEMMA ServesLateKeeps ==
  ASSUME Inv, ServesLate
  PROVE  Inv'
<1>1. PICK r : r = Head(late)
  OBVIOUS
<1>2. /\ armed = <<>> /\ wire = "up" /\ late # <<>> /\ late' = Tail(late)
      /\ UNCHANGED <<armed, entry, made, lease, signals, panel, wire, waiting, toDaemon, toHost>>
      /\ late \in Seq(Requests) /\ daemon \in Daemons /\ amiss \subseteq Mishaps
  BY DEF ServesLate, Quiet, HostRests, Inv, Shape
<1>3. r \in Requests /\ late' \in Seq(Requests) /\ 1 \in DOMAIN late /\ late[1] = r
  BY <1>1, <1>2, TailPositions
<1>4. /\ counts' \in [faults : Nat, sweeps : Nat]
      /\ amiss \subseteq amiss' /\ amiss' \subseteq Mishaps
      /\ \/ /\ ~daemon.closed
            /\ daemon' = IF r.reason \in Controls THEN daemon
                         ELSE [daemon EXCEPT !.seated = r.reason # "detach"]
            /\ r.reason \in Attaches => "stray" \in amiss'
         \/ /\ daemon' = daemon
            /\ r.reason = "detach" => "stray" \in amiss'
            /\ r.reason \in Attaches => "unseated" \in amiss'
  <2>1. CASE /\ Accepts(r) /\ Serves(r) /\ UNCHANGED counts
             /\ amiss' = amiss \cup If("stray", r.reason \in Attaches)
    <3>1. /\ amiss \subseteq amiss' /\ amiss' \subseteq Mishaps
          /\ r.reason \in Attaches => "stray" \in amiss'
      BY <1>2, <2>1 DEF If, Mishaps
    <3> QED BY <2>1, <3>1 DEF Accepts, Serves, Inv, Shape
  <2>2. CASE /\ IF Accepts(r) THEN Faulty ELSE UNCHANGED counts
             /\ UNCHANGED daemon
             /\ amiss' = amiss \cup If("stray", r.reason = "detach")
                               \cup If("unseated", r.reason \in Attaches)
    <3>1. counts' \in [faults : Nat, sweeps : Nat]
      BY <2>2, FaultyCounts DEF Inv, Shape
    <3>2. /\ amiss \subseteq amiss' /\ amiss' \subseteq Mishaps
          /\ r.reason = "detach" => "stray" \in amiss'
          /\ r.reason \in Attaches => "unseated" \in amiss'
      BY <1>2, <2>2 DEF If, Mishaps
    <3> QED BY <2>2, <3>1, <3>2
  <2> QED BY <1>1, <2>1, <2>2 DEF ServesLate
<1>5. /\ \A P : /\ In(late, P) <=> r \in P \/ In(late', P)
                /\ Follows(late, 1, P) => In(late', P)
                /\ \A k \in DOMAIN late' : Follows(late, k + 1, P) => Follows(late', k, P)
      /\ \A k \in DOMAIN late' : k + 1 \in DOMAIN late /\ late'[k] = late[k + 1]
  <2>1. \A P : /\ In(late, P) <=> r \in P \/ In(late', P)
               /\ Follows(late, 1, P) => In(late', P)
               /\ \A k \in DOMAIN late' : Follows(late, k + 1, P) => Follows(late', k, P)
    BY <1>1, <1>2, TailHolds
  <2>2. \A k \in DOMAIN late' : k + 1 \in DOMAIN late /\ late'[k] = late[k + 1]
    BY <1>2, TailPositions
  <2> QED BY <2>1, <2>2
<1>6. /\ daemon' \in Daemons /\ daemon'.closed = daemon.closed
      /\ daemon'.seated => ~daemon.closed \/ daemon.seated
      /\ r.reason = "detach" => (~daemon'.seated \/ "stray" \in amiss')
      /\ r.reason \in Attaches => (daemon'.seated /\ "stray" \in amiss')
                                  \/ (daemon' = daemon /\ "unseated" \in amiss')
      /\ r.reason \in Controls => daemon' = daemon
  <2>1. r.reason \in Attaches => r.reason \notin Controls /\ r.reason # "detach"
    BY Kinds
  <2>2. "detach" \notin Controls
    BY Kinds
  <2> QED BY <1>2, <1>4, <2>1, <2>2 DEF Daemons
<1>7. \/ r.reason \in Attaches \/ r.reason \in Controls \/ r.reason = "detach"
  BY <1>3 DEF Requests, Reasons, Attaches, Controls
<1>8. (r \in Leaving <=> r.reason = "detach") /\ (r \in Of(Attaches) <=> r.reason \in Attaches)
  BY <1>3, Sorted
<1>9. Shape' /\ Offline'
  BY <1>2, <1>3, <1>4, <1>6 DEF Inv, Shape, Offline
<1>10. Ids'
  BY <1>2 DEF Inv, Ids, Unmade, AnswersUnmade
<1>11. \A C : (Some(C)' <=> Some(C)) /\ (One(C)' <=> One(C))
  BY <1>2 DEF Some, One
<1>12. Asking' /\ Leased'
  <2>1. Passes
    BY <1>11 DEF Passes
  <2> QED BY <1>2, <1>4, <2>1, PassesKept DEF Inv
<1>13. DetachAhead'
  BY <1>2, <1>5 DEF Inv, DetachAhead
<1>14. SeatKept'
  <2> SUFFICES ASSUME daemon'.seated, "stray" \notin amiss'
               PROVE  entry.attached \/ Released'
    BY <1>2 DEF SeatKept
  <2>1. r.reason # "detach" /\ daemon' = daemon
    BY <1>6, <1>7
  <2>2. entry.attached \/ Released
    BY <1>4, <2>1 DEF Inv, SeatKept
  <2>3. Released => Released'
    BY <1>2, <1>5, <1>8, <1>11, <2>1 DEF Released
  <2> QED BY <2>2, <2>3
<1>15. SeatLost'
  <2> SUFFICES ASSUME ~daemon'.seated PROVE
        /\ entry.attached => Underway' \/ In(toHost, Refusals)
        /\ \A k \in DOMAIN toHost : Mine(toHost[k]) => Underway' \/ Follows(toHost, k, Refusals)
    BY <1>2, EmptyHolds DEF SeatLost, Cut, Mine
  <2>1. CASE r.reason = "detach"
    <3>1. ASSUME entry.id # 0 PROVE Underway'
      <4>1. Follows(late, 1, Of(Attaches)) \/ In(toDaemon, Of(Attaches)) \/ In(waiting, Of(Attaches))
        BY <1>3, <1>8, <2>1, <3>1 DEF Inv, DetachAhead
      <4> QED BY <1>2, <1>5, <4>1 DEF Underway
    <3>2. entry.attached => entry.id # 0
      BY DEF Inv, Shape
    <3> QED BY <3>1, <3>2 DEF Mine
  <2>2. CASE r.reason \in Attaches
    BY <1>6, <2>2 DEF Underway
  <2>3. CASE r.reason \in Controls
    <3>1. daemon' = daemon /\ Cut
      BY <1>2, <1>6, <2>3 DEF Cut
    <3>2. r \notin Of(Attaches)
      BY <1>8, <2>3, Kinds
    <3>3. Underway => Underway'
      BY <1>2, <1>4, <1>5, <3>2 DEF Underway
    <3>4. ~In(armed, Refusals)
      BY <1>2, EmptyHolds
    <3> QED BY <3>1, <3>3, <3>4 DEF Inv, SeatLost
  <2> QED BY <1>7, <2>1, <2>2, <2>3
<1> QED BY <1>9, <1>10, <1>12, <1>13, <1>14, <1>15 DEF Inv

LEMMA GivesUpKeeps ==
  ASSUME Inv, GivesUp
  PROVE  Inv'
<1>1. /\ wire = "down" /\ Faulty /\ wire' = "gone"
      /\ UNCHANGED <<daemon, waiting, late, toDaemon, toHost, armed, entry, made, lease, signals,
                     panel, amiss>>
  BY DEF GivesUp
<1>2. counts' \in [faults : Nat, sweeps : Nat]
  BY <1>1, FaultyCounts DEF Inv
<1>3. Shape' /\ Ids' /\ Offline'
  BY <1>1, <1>2 DEF Inv, Shape, Ids, Unmade, AnswersUnmade, Offline
<1>4. Passes
  BY <1>1 DEF Passes, Some, One
<1>5. Asking' /\ Leased'
  BY <1>1, <1>4, PassesKept DEF Inv
<1>6. SeatLost' /\ SeatKept' /\ DetachAhead'
  BY <1>1 DEF Inv, SeatLost, Cut, SeatKept, Offline, DetachAhead
<1> QED BY <1>3, <1>5, <1>6 DEF Inv

(* The host reads an answer: the call it answers is about to go on. *)
LEMMA ReadsAnswerKeeps ==
  ASSUME Inv, wire = "up", toHost # <<>>, toHost' = Tail(toHost), Head(toHost).type = "answer",
         armed' = Append(armed, Head(toHost)),
         UNCHANGED <<daemon, wire, waiting, late, toDaemon, entry, made, lease, signals, panel, amiss, counts>>
  PROVE  Inv'
<1>1. PICK m : m = Head(toHost)
  OBVIOUS
<1>2. toHost \in Seq(Messages) /\ armed \in Seq(Answers)
  BY DEF Inv, Shape
<1>3. m \in Messages /\ m \in Answers /\ toHost' \in Seq(Messages) /\ armed' \in Seq(Answers)
      /\ 1 \in DOMAIN toHost /\ toHost[1] = m
  <2>1. m \in Messages /\ toHost' \in Seq(Messages) /\ 1 \in DOMAIN toHost /\ toHost[1] = m
    BY <1>1, <1>2, TailPositions
  <2>2. m \in Answers
    BY <1>1, <2>1 DEF Answers
  <2> QED BY <1>1, <1>2, <2>1, <2>2, AppendPositions
<1>4. \A P : /\ In(toHost, P) <=> m \in P \/ In(toHost', P)
             /\ In(armed', P) <=> In(armed, P) \/ m \in P
             /\ Follows(toHost, 1, P) => In(toHost', P)
             /\ \A k \in DOMAIN toHost' : Follows(toHost, k + 1, P) => Follows(toHost', k, P)
             /\ \A k \in DOMAIN armed : Follows(armed, k, P) \/ m \in P => Follows(armed', k, P)
  <2> TAKE P
  <2>1. /\ In(toHost, P) <=> m \in P \/ In(toHost', P)
        /\ Follows(toHost, 1, P) => In(toHost', P)
        /\ \A k \in DOMAIN toHost' : Follows(toHost, k + 1, P) => Follows(toHost', k, P)
    BY <1>1, <1>2, TailHolds
  <2>2. /\ In(armed', P) <=> In(armed, P) \/ m \in P
        /\ \A k \in DOMAIN armed : Follows(armed, k, P) \/ m \in P => Follows(armed', k, P)
    BY <1>1, <1>2, <1>3, AppendHolds
  <2> QED BY <2>1, <2>2
<1>5. /\ \A k \in DOMAIN toHost' : k + 1 \in DOMAIN toHost /\ toHost'[k] = toHost[k + 1]
      /\ \A k \in DOMAIN armed' : (k \in DOMAIN armed /\ armed'[k] = armed[k]) \/ armed'[k] = m
  <2>1. \A k \in DOMAIN toHost' : k + 1 \in DOMAIN toHost /\ toHost'[k] = toHost[k + 1]
    BY <1>2, TailPositions
  <2>2. \A k \in DOMAIN armed' : (k \in DOMAIN armed /\ armed'[k] = armed[k]) \/ armed'[k] = m
    BY <1>1, <1>2, <1>3, AppendPositions
  <2> QED BY <2>1, <2>2
<1>6. m \notin Pushes
  <2>1. m.type \notin {"replaced", "closed"}
    BY <1>1
  <2> QED BY <1>3, <2>1, Sorted
<1>7. Shape' /\ Offline' /\ DetachAhead'
  BY <1>3, <1>4 DEF Inv, Shape, Offline, DetachAhead
<1>8. Ids'
  <2>1. Unmade' = Unmade /\ AnswersUnmade' = AnswersUnmade
    BY DEF Unmade, AnswersUnmade
  <2> QED BY <1>4, <2>1 DEF Inv, Ids
<1>9. Asking' /\ Leased'
  <2>1. Passes
    BY <1>2, ReadPasses DEF Passes, Some, One
  <2> QED BY <2>1, PassesKept DEF Inv
<1>10. SeatLost'
  <2> SUFFICES ASSUME Cut PROVE
        /\ entry.attached => Underway' \/ In(toHost', Refusals) \/ In(armed', Refusals)
        /\ \A k \in DOMAIN armed' : Mine(armed'[k]) =>
             Underway' \/ In(toHost', Refusals) \/ Follows(armed', k, Refusals)
        /\ \A k \in DOMAIN toHost' : Mine(toHost'[k]) => Underway' \/ Follows(toHost', k, Refusals)
    BY DEF SeatLost, Cut, Mine
  <2>1. Underway => Underway'
    BY <1>4, <1>6 DEF Underway
  <2>2. /\ entry.attached => Underway \/ In(toHost, Refusals) \/ In(armed, Refusals)
        /\ \A k \in DOMAIN armed : Mine(armed[k]) =>
             Underway \/ In(toHost, Refusals) \/ Follows(armed, k, Refusals)
        /\ \A k \in DOMAIN toHost : Mine(toHost[k]) => Underway \/ Follows(toHost, k, Refusals)
    BY DEF Inv, SeatLost
  <2>3. entry.attached => Underway' \/ In(toHost', Refusals) \/ In(armed', Refusals)
    BY <1>4, <2>1, <2>2
  <2>4. ASSUME NEW k \in DOMAIN armed', Mine(armed'[k])
        PROVE  Underway' \/ In(toHost', Refusals) \/ Follows(armed', k, Refusals)
    <3>1. CASE k \in DOMAIN armed /\ armed'[k] = armed[k]
      BY <1>4, <2>1, <2>2, <2>4, <3>1
    <3>2. CASE armed'[k] = m
      BY <1>3, <1>4, <2>1, <2>2, <2>4, <3>2
    <3> QED BY <1>5, <3>1, <3>2
  <2>5. ASSUME NEW k \in DOMAIN toHost', Mine(toHost'[k])
        PROVE  Underway' \/ Follows(toHost', k, Refusals)
    BY <1>4, <1>5, <2>1, <2>2, <2>5
  <2> QED BY <2>3, <2>4, <2>5
<1>11. SeatKept'
  <2>1. Some(Attaches)' <=> Some(Attaches)
    BY <1>2, ReadPasses DEF Some
  <2> QED BY <2>1 DEF Inv, SeatKept, Released
<1> QED BY <1>7, <1>8, <1>9, <1>10, <1>11 DEF Inv

(* The host reads a push, which the roster's entry follows. *)
LEMMA ReadsPushKeeps ==
  ASSUME Inv, wire = "up", toHost # <<>>, toHost' = Tail(toHost), Head(toHost).type # "answer",
         UNCHANGED <<daemon, wire, late, toDaemon, armed, made, panel, counts>>,
         amiss' \subseteq amiss, amiss \ {"untold", "overwritten"} \subseteq amiss',
         entry' \in Entries, lease' \in BOOLEAN, signals' \in BOOLEAN,
         entry'.id \in {entry.id, 0}, entry'.attached => entry.attached /\ entry'.id = entry.id,
         NEW r \in Requests, r.reason = "replaced", r.entry = entry.id,
         waiting' = waiting \/ (entry.id # 0 /\ waiting' = Append(waiting, r)),
         Head(toHost) \in Pushes =>
           ~entry'.attached /\ (entry'.id = 0 \/ waiting' = Append(waiting, r)),
         Head(toHost) \in Pushes /\ entry'.id = 0 => entry.id = 0 \/ Head(toHost) \in Closings,
         Head(toHost) \notin Pushes => entry'.id = entry.id /\ entry'.attached = entry.attached,
         entry'.attached => lease',
         lease' /\ entry'.id = 0 => lease /\ entry.id = 0 /\ amiss' = amiss
  PROVE  Inv'
<1>1. PICK m : m = Head(toHost)
  OBVIOUS
<1>2. toHost \in Seq(Messages) /\ waiting \in Seq(Requests)
      /\ made \in Nat /\ entry \in Entries /\ entry.id <= made
      /\ (entry.attached => entry.id # 0)
  BY DEF Inv, Shape
<1>3. m \in Messages /\ toHost' \in Seq(Messages) /\ 1 \in DOMAIN toHost /\ toHost[1] = m
  BY <1>1, <1>2, TailPositions
<1>4. \A P : /\ In(toHost, P) <=> m \in P \/ In(toHost', P)
             /\ Follows(toHost, 1, P) => In(toHost', P)
             /\ \A k \in DOMAIN toHost' : Follows(toHost, k + 1, P) => Follows(toHost', k, P)
  BY <1>1, <1>2, TailHolds
<1>5. \A k \in DOMAIN toHost' : k + 1 \in DOMAIN toHost /\ toHost'[k] = toHost[k + 1]
  BY <1>2, TailPositions
<1>6. m \notin Seats /\ m \notin Refusals
  BY <1>1, <1>3, Sorted
<1>7. r \in Of(Attaches) /\ r \notin Leaving /\ (entry.id = 0 \/ r \notin Unmade)
  <2>1. "replaced" \in Attaches
    BY DEF Attaches
  <2>2. ~(entry.id > made)
    BY <1>2 DEF Entries
  <2> QED BY <2>1, <2>2, Sorted
<1>8. /\ waiting' \in Seq(Requests)
      /\ \A P : /\ In(waiting, P) => In(waiting', P)
                /\ In(waiting', P) => In(waiting, P) \/ (entry.id # 0 /\ r \in P)
                /\ \A k \in DOMAIN waiting : Follows(waiting, k, P) => Follows(waiting', k, P)
      /\ \A k \in DOMAIN waiting' : (k \in DOMAIN waiting /\ waiting'[k] = waiting[k]) \/ waiting'[k] = r
  <2>1. CASE waiting' = waiting
    BY <1>2, <2>1
  <2>2. CASE waiting' = Append(waiting, r)
    <3>1. /\ waiting' \in Seq(Requests)
          /\ \A k \in DOMAIN waiting' : (k \in DOMAIN waiting /\ waiting'[k] = waiting[k]) \/ waiting'[k] = r
      BY <1>2, <2>2, AppendPositions
    <3>2. \A P : /\ In(waiting', P) <=> In(waiting, P) \/ r \in P
                 /\ \A k \in DOMAIN waiting : Follows(waiting, k, P) => Follows(waiting', k, P)
      BY <1>2, <2>2, AppendHolds
    <3> QED BY <3>1, <3>2
  <2> QED BY <2>1, <2>2
<1>9. In(Append(waiting, r), Of(Attaches))
  BY <1>2, <1>7, AppendHolds
<1>10. Shape'
  <2>1. entry'.id <= made
    BY <1>2 DEF Entries
  <2> QED BY <1>2, <1>3, <1>8, <2>1 DEF Inv, Shape
<1>11. Offline'
  BY <1>4 DEF Inv, Offline
<1>12. Ids'
  <2>1. Unmade' = Unmade /\ AnswersUnmade' = AnswersUnmade
    BY DEF Unmade, AnswersUnmade
  <2> QED BY <1>4, <1>7, <1>8, <2>1 DEF Inv, Ids
<1>13. Passes
  <2> SUFFICES ASSUME NEW C \in {Watching, Steering, {"detach"}}
               PROVE  (Some(C)' <=> Some(C)) /\ (One(C) => One(C)')
    BY DEF Passes
  <2>1. r.reason \notin C
    BY DEF Watching, Steering, Controls
  <2>2. /\ SomeIn(waiting, toDaemon, toHost', armed, C) <=> Some(C)
        /\ One(C) => OneIn(waiting, toDaemon, toHost', armed, C)
    <3>1. armed \in Seq(Answers)
      BY DEF Inv, Shape
    <3> QED BY <1>2, <3>1, ReadPasses DEF Some, One
  <2>3. /\ SomeIn(Append(waiting, r), toDaemon, toHost', armed, C)
           <=> SomeIn(waiting, toDaemon, toHost', armed, C)
        /\ OneIn(waiting, toDaemon, toHost', armed, C)
           => OneIn(Append(waiting, r), toDaemon, toHost', armed, C)
    BY <1>2, <2>1, AppendPasses
  <2>4. /\ Some(C)' <=> SomeIn(waiting', toDaemon, toHost', armed, C)
        /\ One(C)' <=> OneIn(waiting', toDaemon, toHost', armed, C)
    BY DEF Some, One
  <2> QED BY <2>2, <2>3, <2>4
<1>14. Asking'
  BY <1>13 DEF Inv, Asking, AsksIn, Some, One, Passes
<1>15. Leased'
  BY <1>13 DEF Inv, Leased, Passes
<1>16. SeatLost'
  <2>1. CASE m \in Pushes
    <3>1. ~entry'.attached /\ (entry'.id # 0 => Underway')
      BY <1>1, <1>9, <2>1 DEF Underway
    <3> QED BY <3>1 DEF SeatLost, Mine
  <2>2. CASE m \notin Pushes
    <3>1. entry'.id = entry.id /\ entry'.attached = entry.attached
      BY <1>1, <2>2
    <3>2. Underway => Underway'
      BY <1>4, <1>8, <2>2 DEF Underway
    <3>3. SUFFICES ASSUME Cut PROVE
        /\ entry.attached => Underway' \/ In(toHost', Refusals) \/ In(armed, Refusals)
        /\ \A k \in DOMAIN armed : Mine(armed[k]) =>
             Underway' \/ In(toHost', Refusals) \/ Follows(armed, k, Refusals)
        /\ \A k \in DOMAIN toHost' : Mine(toHost'[k]) => Underway' \/ Follows(toHost', k, Refusals)
      BY <3>1 DEF SeatLost, Cut, Mine
    <3>4. /\ entry.attached => Underway \/ In(toHost, Refusals) \/ In(armed, Refusals)
          /\ \A k \in DOMAIN armed : Mine(armed[k]) =>
               Underway \/ In(toHost, Refusals) \/ Follows(armed, k, Refusals)
          /\ \A k \in DOMAIN toHost : Mine(toHost[k]) => Underway \/ Follows(toHost, k, Refusals)
      BY <3>3 DEF Inv, SeatLost
    <3> QED BY <1>4, <1>5, <1>6, <3>2, <3>4
  <2> QED BY <2>1, <2>2
<1>17. SeatKept'
  <2> SUFFICES ASSUME daemon.seated, "stray" \notin amiss' PROVE entry'.attached \/ Released'
    BY DEF SeatKept
  <2>1. entry.attached \/ Released
    BY DEF Inv, SeatKept
  <2>2. armed \in Seq(Answers)
    BY DEF Inv, Shape
  <2>3. Some(Attaches) => Some(Attaches)'
    BY <1>2, <1>8, <2>2, ReadPasses DEF Some, SomeIn
  <2>4. Released => Released'
    BY <1>8, <2>3 DEF Released
  <2>5. CASE m \notin Pushes
    BY <1>1, <2>1, <2>4, <2>5
  <2>6. CASE m \in Pushes /\ waiting' = Append(waiting, r)
    <3>1. Some(Attaches)'
      BY <1>9, <2>6 DEF Some, SomeIn
    <3> QED BY <3>1 DEF Released
  <2>7. CASE m \in Pushes /\ entry'.id = 0
    <3>1. CASE entry.id = 0
      <4>1. ~entry.attached
        BY <1>2, <3>1
      <4> QED BY <2>1, <2>4, <4>1
    <3>2. CASE m \in Closings
      <4>1. daemon.closed /\ ~daemon.seated
        BY <1>4, <3>2 DEF Inv, Offline
      <4> QED BY <4>1
    <3> QED BY <1>1, <2>7, <3>1, <3>2
  <2> QED BY <1>1, <2>5, <2>6, <2>7
<1>18. DetachAhead'
  <2> SUFFICES ASSUME entry'.id # 0 PROVE
        /\ \A k \in DOMAIN waiting' :
             waiting'[k] \in Leaving => Follows(waiting', k, Of(Attaches))
        /\ \A k \in DOMAIN toDaemon : toDaemon[k] \in Leaving =>
             Follows(toDaemon, k, Of(Attaches)) \/ In(waiting', Of(Attaches))
        /\ \A k \in DOMAIN late : late[k] \in Leaving =>
             Follows(late, k, Of(Attaches)) \/ In(toDaemon, Of(Attaches)) \/ In(waiting', Of(Attaches))
    BY DEF DetachAhead
  <2>1. /\ \A k \in DOMAIN waiting :
             waiting[k] \in Leaving => Follows(waiting, k, Of(Attaches))
        /\ \A k \in DOMAIN toDaemon : toDaemon[k] \in Leaving =>
             Follows(toDaemon, k, Of(Attaches)) \/ In(waiting, Of(Attaches))
        /\ \A k \in DOMAIN late : late[k] \in Leaving =>
             Follows(late, k, Of(Attaches)) \/ In(toDaemon, Of(Attaches)) \/ In(waiting, Of(Attaches))
    BY DEF Inv, DetachAhead
  <2> QED BY <1>7, <1>8, <2>1
<1> QED BY <1>10, <1>11, <1>12, <1>14, <1>15, <1>16, <1>17, <1>18 DEF Inv

LEMMA HostReadsKeeps ==
  ASSUME Inv, HostReads
  PROVE  Inv'
<1>1. PICK m : m = Head(toHost)
  OBVIOUS
<1>2. /\ wire = "up" /\ toHost # <<>> /\ toHost' = Tail(toHost)
      /\ UNCHANGED <<daemon, wire, late, toDaemon, made, panel, counts>>
      /\ \/ /\ m.type = "answer" /\ armed' = Append(armed, m)
            /\ Silent /\ UNCHANGED <<entry, waiting, amiss>>
         \/ m.type = "update" /\ ReadsUpdate(m.n) /\ UNCHANGED armed
         \/ m.type = "replaced" /\ ReadsReplaced /\ UNCHANGED armed
         \/ m.type = "closed" /\ ReadsClosed /\ UNCHANGED armed
  BY <1>1 DEF HostReads
<1>3. /\ toHost \in Seq(Messages) /\ entry \in Entries /\ (entry.attached => entry.id # 0 /\ lease)
      /\ lease \in BOOLEAN /\ signals \in BOOLEAN
  BY DEF Inv, Shape, Leased
<1>4. m \in Messages /\ (m \in Closings <=> m.type = "closed")
  <2>1. m \in Messages
    BY <1>1, <1>2, <1>3, TailPositions
  <2> QED BY <2>1, Sorted
<1>5. PICK r \in Requests : /\ r = Request("replaced", entry.id) /\ r.reason = "replaced"
                            /\ r.entry = entry.id
  <2>1. entry.id \in Nat /\ "replaced" \in Reasons
    BY <1>3 DEF Entries, Reasons
  <2>2. PICK r : r = [reason |-> "replaced", entry |-> entry.id]
    OBVIOUS
  <2>3. r \in Requests /\ r.reason = "replaced" /\ r.entry = entry.id
    BY <2>1, <2>2 DEF Requests
  <2> QED BY <2>2, <2>3 DEF Request
<1>6. CASE /\ m.type = "answer" /\ armed' = Append(armed, m) /\ Silent
           /\ UNCHANGED <<entry, waiting, amiss>>
  BY <1>1, <1>2, <1>6, ReadsAnswerKeeps DEF Silent
<1>7. CASE m.type = "update" /\ ReadsUpdate(m.n) /\ UNCHANGED armed
  <2>1. m \notin Pushes
    BY <1>4, <1>7, Sorted
  <2>2. /\ waiting' = waiting /\ entry' \in Entries /\ entry'.id = entry.id
        /\ entry'.attached = entry.attached /\ lease' \in BOOLEAN /\ signals' \in BOOLEAN
        /\ entry'.attached => lease'
        /\ lease' /\ entry'.id = 0 => lease /\ entry.id = 0 /\ amiss' = amiss
        /\ amiss' \subseteq amiss /\ amiss \ {"untold", "overwritten"} \subseteq amiss'
    <3>1. CASE entry.id = 0
      BY <1>3, <1>7, <3>1 DEF ReadsUpdate, Silent
    <3>2. CASE entry.id # 0
      <4>1. entry' = [entry EXCEPT !.children = m.n] /\ lease' = TRUE /\ signals' = TRUE
            /\ waiting' = waiting /\ amiss' = (amiss \ {"untold"}) \ {"overwritten"}
        BY <1>7, <3>2 DEF ReadsUpdate, Notifies, Told, SyncLease, FollowsWatched
      <4>2. m.n \in Numbers
        BY <1>4 DEF Messages
      <4> QED BY <1>3, <3>2, <4>1, <4>2 DEF Entries
    <3> QED BY <3>1, <3>2
  <2> QED BY <1>1, <1>2, <1>3, <1>5, <1>7, <2>1, <2>2, ReadsPushKeeps
<1>8. CASE m.type = "replaced" /\ ReadsReplaced /\ UNCHANGED armed
  <2>1. m \in Pushes
    BY <1>4, <1>8, Sorted
  <2>2. /\ entry' \in Entries /\ entry'.id = entry.id /\ ~entry'.attached
        /\ lease' = lease /\ signals' = signals /\ amiss' = amiss
        /\ entry'.id = 0 \/ waiting' = Append(waiting, r)
        /\ waiting' = waiting \/ (entry.id # 0 /\ waiting' = Append(waiting, r))
    <3>1. CASE entry.id = 0
      BY <1>3, <1>8, <3>1 DEF ReadsReplaced, Silent
    <3>2. CASE entry.id # 0
      BY <1>3, <1>5, <1>8, <3>2 DEF ReadsReplaced, Silent, Entries
    <3> QED BY <3>1, <3>2
  <2> QED BY <1>1, <1>2, <1>3, <1>4, <1>5, <1>8, <2>1, <2>2, ReadsPushKeeps
<1>9. CASE m.type = "closed" /\ ReadsClosed /\ UNCHANGED armed
  <2>1. m \in Pushes
    BY <1>4, <1>9, Sorted
  <2>2. /\ waiting' = waiting /\ entry' \in Entries /\ entry'.id = 0 /\ ~entry'.attached
        /\ lease' \in BOOLEAN /\ signals' \in BOOLEAN
        /\ lease' => lease /\ entry.id = 0 /\ amiss' = amiss
        /\ amiss' \subseteq amiss /\ amiss \ {"untold", "overwritten"} \subseteq amiss'
    <3>1. CASE entry.id = 0
      BY <1>3, <1>9, <3>1 DEF ReadsClosed, Silent
    <3>2. CASE entry.id # 0
      <4>1. 0 \in Numbers
        BY RosterAssumption DEF Numbers
      <4>2. NoEntry \in Entries /\ NoEntry.id = 0 /\ ~NoEntry.attached
        BY <4>1 DEF NoEntry, Entries
      <4>3. /\ entry' = NoEntry /\ waiting' = waiting /\ signals' = TRUE
            /\ lease' = (NoEntry.id # 0) /\ amiss' = amiss \ {"untold"}
        BY <1>9, <3>2 DEF ReadsClosed, Notifies, Told, SyncLease, FollowsWatched
      <4>4. lease' = FALSE
        BY <4>2, <4>3
      <4> QED BY <4>2, <4>3, <4>4
    <3> QED BY <3>1, <3>2
  <2> QED BY <1>1, <1>2, <1>3, <1>4, <1>5, <1>9, <2>1, <2>2, ReadsPushKeeps
<1> QED BY <1>2, <1>6, <1>7, <1>8, <1>9

-----------------------------------------------------------------------------
(* What the panel's question and its control look like when a call ends or   *)
(* is made: a is what has not gone on yet.                                   *)

LEMMA EndAsks ==
  ASSUME NEW w, NEW d, NEW h, NEW a \in Seq(Answers), a # <<>>, NEW p, AsksIn(w, d, h, a, p),
         Head(a).request.reason \notin Watching, Head(a).request.reason \notin Steering
  PROVE  AsksIn(w, d, h, Tail(a), p)
<1>1. \A C : /\ OneIn(w, d, h, a, C) => OneIn(w, d, h, Tail(a), C)
             /\ Head(a).request.reason \notin C =>
                  (SomeIn(w, d, h, Tail(a), C) <=> SomeIn(w, d, h, a, C))
  BY EndPasses
<1> QED BY <1>1 DEF AsksIn

LEMMA WatchAnswered ==
  ASSUME NEW w, NEW d, NEW h, NEW a \in Seq(Answers), a # <<>>, NEW p \in Panels,
         AsksIn(w, d, h, a, p), Head(a).request.reason = "watch",
         NEW x \in Numbers \cup {Unavailable}, NEW b \in BOOLEAN
  PROVE  /\ [p EXCEPT !.reply = <<x>>, !.missed = b] \in Panels
         /\ AsksIn(w, d, h, Tail(a), [p EXCEPT !.reply = <<x>>, !.missed = b])
<1>1. "watch" \in Watching /\ "watch" \notin Steering
  BY Kinds DEF Watching
<1>2. /\ OneIn(w, d, h, Tail(a), Watching) /\ OneIn(w, d, h, Tail(a), Steering)
      /\ SomeIn(w, d, h, a, Watching) /\ ~SomeIn(w, d, h, Tail(a), Watching)
      /\ SomeIn(w, d, h, Tail(a), Steering) <=> SomeIn(w, d, h, a, Steering)
  BY <1>1, EndPasses DEF AsksIn
<1>3. PICK q : q = [p EXCEPT !.reply = <<x>>, !.missed = b]
  OBVIOUS
<1>4. <<x>> \in Seq(Numbers \cup {Unavailable, Unknown}) /\ Len(<<x>>) = 1
  OBVIOUS
<1>5. /\ q \in Panels /\ q.reply = <<x>> /\ q.asking = p.asking /\ q.control = p.control
  BY <1>3, <1>4 DEF Panels
<1>6. p.asking
  BY <1>2 DEF AsksIn, Panels
<1>7. AsksIn(w, d, h, Tail(a), q)
  BY <1>2, <1>4, <1>5, <1>6 DEF AsksIn
<1> QED BY <1>3, <1>5, <1>7

LEMMA SteerAnswered ==
  ASSUME NEW w, NEW d, NEW h, NEW a \in Seq(Answers), a # <<>>, NEW p \in Panels,
         AsksIn(w, d, h, a, p), Head(a).request.reason \in Steering,
         NEW c \in Controls \cup {"none", "done", "failed"}
  PROVE  /\ p.control \in Controls /\ ~SomeIn(w, d, h, Tail(a), Steering)
         /\ [p EXCEPT !.control = c] \in Panels
         /\ AsksIn(w, d, h, Tail(a), [p EXCEPT !.control = c])
<1>1. Head(a).request.reason \notin Watching
  BY Kinds DEF Watching
<1>2. /\ OneIn(w, d, h, Tail(a), Watching) /\ OneIn(w, d, h, Tail(a), Steering)
      /\ SomeIn(w, d, h, a, Steering) /\ ~SomeIn(w, d, h, Tail(a), Steering)
      /\ SomeIn(w, d, h, Tail(a), Watching) <=> SomeIn(w, d, h, a, Watching)
  BY <1>1, EndPasses DEF AsksIn
<1>3. PICK q : q = [p EXCEPT !.control = c]
  OBVIOUS
<1>4. q \in Panels /\ q.reply = p.reply /\ q.asking = p.asking
  BY <1>3 DEF Panels
<1>5. AsksIn(w, d, h, Tail(a), q)
  BY <1>2, <1>4 DEF AsksIn
<1> QED BY <1>2, <1>3, <1>4, <1>5 DEF AsksIn

(* A command or an attach for it goes out. *)
LEMMA SteerAsked ==
  ASSUME NEW w \in Seq(Requests), NEW d, NEW h, NEW a, NEW p \in Panels,
         AsksIn(w, d, h, a, p), ~SomeIn(w, d, h, a, Steering),
         NEW q \in Requests, q.reason \in Steering, NEW c \in Controls
  PROVE  /\ [p EXCEPT !.control = c] \in Panels
         /\ AsksIn(Append(w, q), d, h, a, [p EXCEPT !.control = c])
<1>1. q.reason \notin Watching
  BY Kinds DEF Watching
<1>2. /\ OneIn(Append(w, q), d, h, a, Watching) /\ OneIn(Append(w, q), d, h, a, Steering)
      /\ SomeIn(Append(w, q), d, h, a, Watching) <=> SomeIn(w, d, h, a, Watching)
  BY <1>1, AppendPasses DEF AsksIn
<1>3. PICK e : e = [p EXCEPT !.control = c]
  OBVIOUS
<1>4. e \in Panels /\ e.reply = p.reply /\ e.asking = p.asking /\ e.control = c
  BY <1>3 DEF Panels
<1>5. AsksIn(Append(w, q), d, h, a, e)
  BY <1>2, <1>4 DEF AsksIn
<1> QED BY <1>3, <1>4, <1>5

-----------------------------------------------------------------------------
(* A request other than a detach joins the others, or none does; a new entry *)
(* comes with the attach that was asked for it.                              *)
Grows ==
  \E q \in Requests :
    /\ q.reason # "detach" /\ q.entry <= made' /\ (q.reason \in Attaches => q.entry # 0)
    /\ waiting' = waiting \/ waiting' = Append(waiting, q)
    /\ entry' \in Entries /\ entry'.attached = entry.attached
    /\ \/ entry'.id = entry.id /\ made' = made
       \/ /\ entry.id = 0 /\ entry'.id = made + 1 /\ made' = made + 1
          /\ waiting' = Append(waiting, q) /\ q.reason \in Attaches

LEMMA StaysGrows ==
  ASSUME Shape, waiting' = waiting, entry' = entry, made' = made
  PROVE  Grows
<1>1. entry \in Entries /\ made \in Nat
  BY DEF Shape
<1>2. PICK q : q = [reason |-> "steer", entry |-> 0]
  OBVIOUS
<1>3. q \in Requests /\ q.reason = "steer" /\ q.entry = 0
  BY <1>2 DEF Requests, Reasons, Controls
<1>4. "steer" \notin Attaches
  BY DEF Attaches
<1> QED BY <1>1, <1>3, <1>4 DEF Grows

LEMMA RequestIs ==
  ASSUME NEW reason \in Reasons, NEW id \in Nat
  PROVE  /\ Request(reason, id) \in Requests
         /\ Request(reason, id).reason = reason /\ Request(reason, id).entry = id
<1>1. PICK r : r = [reason |-> reason, entry |-> id]
  OBVIOUS
<1>2. r \in Requests /\ r.reason = reason /\ r.entry = id
  BY <1>1 DEF Requests
<1> QED BY <1>1, <1>2 DEF Request

LEMMA WatchesGrows ==
  ASSUME Shape, NEW reason \in Attaches, Watches(reason)
  PROVE  /\ Grows
         /\ \E q \in Requests : q.reason = reason /\ waiting' = Append(waiting, q)
<1>1. /\ entry \in Entries /\ made \in Nat /\ entry.id <= made
      /\ (entry.attached => entry.id # 0) /\ reason \in Reasons /\ reason # "detach"
      /\ entry.attached \in BOOLEAN
  BY Kinds DEF Shape, Entries
<1>2. PICK e : e = IF entry.id # 0 THEN entry ELSE [NoEntry EXCEPT !.id = made + 1]
  OBVIOUS
<1>3. /\ entry' = e /\ made' = IF entry.id # 0 THEN made ELSE made + 1
      /\ waiting' = Append(waiting, Request(reason, e.id))
  BY <1>2 DEF Watches
<1>4. CASE entry.id # 0
  <2>1. e = entry /\ made' = made /\ e.id \in Nat /\ e.id <= made' /\ e.id # 0
    BY <1>1, <1>2, <1>3, <1>4 DEF Entries
  <2>2. PICK q \in Requests : q = Request(reason, e.id) /\ q.reason = reason /\ q.entry = e.id
    BY <1>1, <2>1, RequestIs
  <2> QED BY <1>1, <1>3, <2>1, <2>2 DEF Grows
<1>5. CASE entry.id = 0
  <2>1. e = [id |-> made + 1, attached |-> FALSE, children |-> 0]
    BY <1>2, <1>5 DEF NoEntry
  <2>2. /\ e \in Entries /\ e.id = made + 1 /\ ~e.attached /\ made' = made + 1
        /\ e.id \in Nat /\ e.id <= made' /\ e.id # 0
    BY <1>1, <1>3, <1>5, <2>1, RosterAssumption DEF Entries, Numbers
  <2>3. PICK q \in Requests : q = Request(reason, e.id) /\ q.reason = reason /\ q.entry = e.id
    BY <1>1, <2>2, RequestIs
  <2>4. e.attached = entry.attached
    BY <1>1, <1>5, <2>1
  <2> QED BY <1>1, <1>3, <1>5, <2>2, <2>3, <2>4 DEF Grows
<1> QED BY <1>4, <1>5

LEMMA GrowsKeeps ==
  ASSUME Inv, Grows, UNCHANGED <<daemon, wire, late, toDaemon, toHost>>,
         amiss \ {"untold"} \subseteq amiss',
         armed' = armed \/ (armed # <<>> /\ armed' = Tail(armed)
                            /\ Head(armed).request.reason \notin Attaches)
  PROVE  /\ waiting' \in Seq(Requests) /\ armed' \in Seq(Answers) /\ made' \in Nat
         /\ entry' \in Entries /\ entry'.id <= made' /\ (entry'.attached => entry'.id # 0)
         /\ Ids' /\ Offline' /\ SeatLost' /\ DetachAhead' /\ SeatKept'
<1>1. /\ waiting \in Seq(Requests) /\ armed \in Seq(Answers) /\ made \in Nat /\ entry \in Entries
      /\ entry.id <= made /\ (entry.attached => entry.id # 0)
      /\ toHost \in Seq(Messages) /\ toDaemon \in Seq(Requests) /\ entry.attached \in BOOLEAN
  BY DEF Inv, Shape, Entries
<1>2. PICK q \in Requests :
        /\ q.reason # "detach" /\ q.entry <= made' /\ (q.reason \in Attaches => q.entry # 0)
        /\ waiting' = waiting \/ waiting' = Append(waiting, q)
        /\ entry' \in Entries /\ entry'.attached = entry.attached
        /\ \/ entry'.id = entry.id /\ made' = made
           \/ /\ entry.id = 0 /\ entry'.id = made + 1 /\ made' = made + 1
              /\ waiting' = Append(waiting, q) /\ q.reason \in Attaches
  BY DEF Grows
<1>3. /\ made' \in Nat /\ entry'.id <= made' /\ (entry'.attached => entry'.id = entry.id)
      /\ made <= made' /\ (entry'.id = entry.id \/ entry'.id > made)
      /\ (entry'.attached => entry'.id # 0)
  BY <1>1, <1>2 DEF Entries
<1>4. /\ waiting' \in Seq(Requests)
      /\ \A P : /\ In(waiting, P) => In(waiting', P)
                /\ In(waiting', P) => In(waiting, P) \/ q \in P
                /\ \A k \in DOMAIN waiting : Follows(waiting, k, P) => Follows(waiting', k, P)
                /\ \A k \in DOMAIN waiting :
                     q \in P /\ waiting' = Append(waiting, q) => Follows(waiting', k, P)
                /\ q \in P /\ waiting' = Append(waiting, q) => In(waiting', P)
      /\ \A k \in DOMAIN waiting' : (k \in DOMAIN waiting /\ waiting'[k] = waiting[k]) \/ waiting'[k] = q
  <2>1. CASE waiting' = waiting
    <3>1. waiting # Append(waiting, q)
      <4>1. Len(Append(waiting, q)) = Len(waiting) + 1 /\ Len(waiting) \in Nat
        BY <1>1, AppendProperties
      <4> QED BY <4>1
    <3> QED BY <1>1, <2>1, <3>1
  <2>2. CASE waiting' = Append(waiting, q)
    <3>1. /\ waiting' \in Seq(Requests)
          /\ \A k \in DOMAIN waiting' : (k \in DOMAIN waiting /\ waiting'[k] = waiting[k]) \/ waiting'[k] = q
      BY <1>1, <2>2, AppendPositions
    <3>2. \A P : /\ In(waiting', P) <=> In(waiting, P) \/ q \in P
                 /\ \A k \in DOMAIN waiting :
                      Follows(waiting, k, P) \/ q \in P => Follows(waiting', k, P)
      BY <1>1, <2>2, AppendHolds
    <3> QED BY <3>1, <3>2
  <2> QED BY <1>2, <2>1, <2>2
<1>5. /\ armed' \in Seq(Answers)
      /\ \A P : In(armed', P) => In(armed, P)
      /\ In(armed, Refusals) => In(armed', Refusals)
      /\ In(armed, AnswersOf(Attaches)) => In(armed', AnswersOf(Attaches))
      /\ \A k \in DOMAIN armed' : \E j \in DOMAIN armed :
           /\ armed'[k] = armed[j]
           /\ \A P : Follows(armed, j, P) => Follows(armed', k, P)
  <2>1. CASE armed' = armed
    BY <1>1, <2>1
  <2>2. CASE armed # <<>> /\ armed' = Tail(armed) /\ Head(armed).request.reason \notin Attaches
    <3>1. Head(armed) \in Messages /\ Head(armed) \in Answers /\ armed' \in Seq(Answers)
      BY <1>1, <2>2, TailPositions, Sorts
    <3>2. Head(armed) \notin Refusals /\ Head(armed) \notin AnswersOf(Attaches)
      BY <2>2, <3>1, Sorted, Sorts
    <3>3. \A P : /\ In(armed, P) <=> Head(armed) \in P \/ In(armed', P)
                 /\ \A k \in DOMAIN armed' : Follows(armed, k + 1, P) => Follows(armed', k, P)
      BY <1>1, <2>2, TailHolds
    <3>4. \A k \in DOMAIN armed' : k + 1 \in DOMAIN armed /\ armed'[k] = armed[k + 1]
      BY <1>1, <2>2, TailPositions
    <3> QED BY <3>1, <3>2, <3>3, <3>4
  <2> QED BY <2>1, <2>2
<1>6. Offline'
  BY DEF Inv, Offline
<1>7. Ids'
  <2>1. ASSUME NEW r, r \in Unmade' PROVE r \in Unmade
    <3>1. r \in Requests /\ (r.entry > made' \/ (r.entry = 0 /\ r.reason \in Attaches))
      BY <2>1 DEF Unmade
    <3>2. r.entry \in Nat
      BY <3>1 DEF Requests
    <3>3. r.entry > made' => r.entry > made
      BY <1>1, <1>3, <3>2
    <3> QED BY <3>1, <3>3 DEF Unmade
  <2>2. q \notin Unmade'
    <3>1. ~(q.entry > made')
      <4>1. q.entry \in Nat
        BY DEF Requests
      <4> QED BY <1>2, <1>3, <4>1
    <3> QED BY <1>2, <3>1 DEF Unmade
  <2>3. \A m : m \in AnswersUnmade' => m \in AnswersUnmade
    BY <2>1 DEF AnswersUnmade
  <2>4. ~In(waiting', Unmade')
    <3>1. ~In(waiting, Unmade)
      BY DEF Inv, Ids
    <3> QED BY <1>4, <2>1, <2>2, <3>1 DEF In
  <2>5. ~In(toDaemon', Unmade') /\ ~In(toHost', AnswersUnmade')
    BY <2>1, <2>3 DEF Inv, Ids, In
  <2>6. ~In(armed', AnswersUnmade')
    BY <1>5, <2>3 DEF Inv, Ids, In
  <2> QED BY <2>4, <2>5, <2>6 DEF Ids
<1>8. Underway => Underway'
  BY <1>4 DEF Underway
<1> DEFINE MineThen(m) == m \in Seats /\ m.request.entry = entry'.id /\ entry'.id # 0
<1>9. ASSUME NEW m \in Messages, m \notin AnswersUnmade, MineThen(m) PROVE Mine(m)
  <2>1. m \in Seats /\ m.request.entry = entry'.id /\ entry'.id # 0
    BY <1>9 DEF Mine
  <2>2. m.request \in Requests /\ m.request \notin Unmade
    BY <1>9, <2>1, Sorted, Sorts
  <2>3. ~(m.request.entry > made)
    BY <2>2, Sorted
  <2>4. entry'.id = entry.id
    BY <1>3, <2>1, <2>3
  <2> QED BY <2>1, <2>4 DEF Mine
<1>10. SeatLost'
  <2> SUFFICES ASSUME Cut PROVE
        /\ entry'.attached => Underway' \/ In(toHost, Refusals) \/ In(armed', Refusals)
        /\ \A k \in DOMAIN armed' : MineThen(armed'[k]) =>
             Underway' \/ In(toHost, Refusals) \/ Follows(armed', k, Refusals)
        /\ \A k \in DOMAIN toHost : MineThen(toHost[k]) => Underway' \/ Follows(toHost, k, Refusals)
    BY DEF SeatLost, Cut, Mine
  <2>1. /\ entry.attached => Underway \/ In(toHost, Refusals) \/ In(armed, Refusals)
        /\ \A k \in DOMAIN armed : Mine(armed[k]) =>
             Underway \/ In(toHost, Refusals) \/ Follows(armed, k, Refusals)
        /\ \A k \in DOMAIN toHost : Mine(toHost[k]) => Underway \/ Follows(toHost, k, Refusals)
    BY DEF Inv, SeatLost
  <2>2. entry'.attached => Underway' \/ In(toHost, Refusals) \/ In(armed', Refusals)
    BY <1>2, <1>5, <1>8, <2>1
  <2>3. \A k \in DOMAIN armed : armed[k] \in Messages /\ armed[k] \notin AnswersUnmade
    BY <1>1, Positions, Sorts DEF Inv, Ids, In
  <2>4. \A k \in DOMAIN toHost : toHost[k] \in Messages /\ toHost[k] \notin AnswersUnmade
    BY <1>1, Positions DEF Inv, Ids, In
  <2>5. ASSUME NEW k \in DOMAIN armed', MineThen(armed'[k])
        PROVE  Underway' \/ In(toHost, Refusals) \/ Follows(armed', k, Refusals)
    <3>1. PICK j \in DOMAIN armed : /\ armed'[k] = armed[j]
                                    /\ \A P : Follows(armed, j, P) => Follows(armed', k, P)
      BY <1>5
    <3>2. Mine(armed[j])
      <4>1. PICK m : m = armed[j]
        OBVIOUS
      <4>2. MineThen(m)
        BY <2>5, <3>1, <4>1 DEF Mine
      <4> QED BY <1>9, <2>3, <4>1, <4>2
    <3> QED BY <1>8, <2>1, <3>1, <3>2
  <2>6. ASSUME NEW k \in DOMAIN toHost, MineThen(toHost[k])
        PROVE  Underway' \/ Follows(toHost, k, Refusals)
    <3>1. Mine(toHost[k])
      <4>1. PICK m : m = toHost[k]
        OBVIOUS
      <4>2. MineThen(m)
        BY <2>6, <4>1 DEF Mine
      <4> QED BY <1>9, <2>4, <4>1, <4>2
    <3> QED BY <1>8, <2>1, <3>1
  <2> QED BY <2>2, <2>5, <2>6
<1>11. q \notin Leaving /\ (q.reason \in Attaches => q \in Of(Attaches))
  BY <1>2, Sorted
<1>12. DetachAhead'
  <2> SUFFICES ASSUME entry'.id # 0 PROVE
        /\ \A k \in DOMAIN waiting' :
             waiting'[k] \in Leaving => Follows(waiting', k, Of(Attaches))
        /\ \A k \in DOMAIN toDaemon : toDaemon[k] \in Leaving =>
             Follows(toDaemon, k, Of(Attaches)) \/ In(waiting', Of(Attaches))
        /\ \A k \in DOMAIN late : late[k] \in Leaving =>
             Follows(late, k, Of(Attaches)) \/ In(toDaemon, Of(Attaches)) \/ In(waiting', Of(Attaches))
    BY DEF DetachAhead
  <2>1. CASE entry'.id = entry.id
    BY <1>4, <1>11, <2>1 DEF Inv, DetachAhead
  <2>2. CASE waiting' = Append(waiting, q) /\ q.reason \in Attaches
    BY <1>4, <1>11, <2>2
  <2> QED BY <1>2, <2>1, <2>2
<1>13. SeatKept'
  <2>1. Released => Released'
    BY <1>4, <1>5 DEF Released, Some, SomeIn
  <2> QED BY <1>2, <2>1 DEF Inv, SeatKept
<1> QED BY <1>2, <1>3, <1>4, <1>5, <1>6, <1>7, <1>10, <1>12, <1>13

LEMMA GrownKeeps ==
  ASSUME Inv, Grows, UNCHANGED <<daemon, wire, late, toDaemon, toHost>>,
         amiss \ {"untold"} \subseteq amiss',
         armed' = armed \/ (armed # <<>> /\ armed' = Tail(armed)
                            /\ Head(armed).request.reason \notin Attaches),
         amiss' \subseteq Mishaps, counts' \in [faults : Nat, sweeps : Nat], panel' \in Panels,
         lease' \in BOOLEAN, signals' \in BOOLEAN, Asking', Leased'
  PROVE  Inv'
<1>1. /\ waiting' \in Seq(Requests) /\ armed' \in Seq(Answers) /\ made' \in Nat
      /\ entry' \in Entries /\ entry'.id <= made' /\ (entry'.attached => entry'.id # 0)
      /\ Ids' /\ Offline' /\ SeatLost' /\ DetachAhead' /\ SeatKept'
  BY GrowsKeeps
<1>2. Shape'
  BY <1>1 DEF Inv, Shape
<1> QED BY <1>1, <1>2 DEF Inv

LEMMA LeaseGrows ==
  ASSUME Shape, Leased, Grows, lease' = lease, amiss \subseteq amiss',
         Some({"detach"}) => Some({"detach"})'
  PROVE  Leased'
<1>1. entry'.attached = entry.attached /\ (entry'.id = 0 => entry.id = 0)
  BY DEF Grows, Shape
<1> QED BY <1>1 DEF Leased

(* The panel asks: from the roster, or with an attach. *)
LEMMA CallsAsks ==
  ASSUME Shape, NEW a, NEW p \in Panels, ~p.asking, p.reply = <<>>,
         AsksIn(waiting, toDaemon, toHost, a, p), Calls(p)
  PROVE  /\ Grows /\ panel' \in Panels /\ AsksIn(waiting', toDaemon, toHost, a, panel')
         /\ SomeIn(waiting', toDaemon, toHost, a, {"detach"})
            <=> SomeIn(waiting, toDaemon, toHost, a, {"detach"})
<1>1. waiting \in Seq(Requests) /\ entry \in Entries
  BY DEF Shape
<1>2. ~SomeIn(waiting, toDaemon, toHost, a, Watching)
  BY DEF AsksIn
<1>3. ASSUME NEW n \in Numbers \cup {Unknown}, Stays, panel' = [Asks(p) EXCEPT !.reply = <<n>>]
      PROVE  /\ Grows /\ panel' \in Panels /\ AsksIn(waiting', toDaemon, toHost, a, panel')
             /\ SomeIn(waiting', toDaemon, toHost, a, {"detach"})
                <=> SomeIn(waiting, toDaemon, toHost, a, {"detach"})
  <2>1. panel' = [p EXCEPT !.asking = TRUE, !.dirty = FALSE, !.missed = FALSE, !.reply = <<n>>]
    BY <1>3 DEF Asks
  <2>2. /\ <<n>> \in Seq(Numbers \cup {Unavailable, Unknown})
        /\ Len(<<n>>) = 1
    OBVIOUS
  <2>3. /\ panel' \in Panels /\ panel'.asking /\ panel'.reply = <<n>>
        /\ panel'.control = p.control
    BY <2>1, <2>2 DEF Panels
  <2>4. Grows /\ waiting' = waiting
    BY <1>3, StaysGrows DEF Stays
  <2>5. AsksIn(waiting', toDaemon, toHost, a, panel')
    BY <1>2, <2>2, <2>3, <2>4 DEF AsksIn
  <2> QED BY <2>3, <2>4, <2>5
<1>4. CASE Watches("watch") /\ panel' = Asks(p)
  <2>1. Watches("watch") /\ panel' = [p EXCEPT !.asking = TRUE, !.dirty = FALSE, !.missed = FALSE]
    BY <1>4 DEF Asks
  <2>2. /\ panel' \in Panels /\ panel'.asking /\ panel'.reply = p.reply
        /\ panel'.control = p.control
    BY <2>1 DEF Panels
  <2>3. Grows
    BY <2>1, WatchesGrows, Kinds
  <2>4. PICK q \in Requests : q.reason = "watch" /\ waiting' = Append(waiting, q)
    BY <2>1, WatchesGrows, Kinds
  <2>5. q.reason \in Watching /\ q.reason \notin Steering /\ q.reason \notin {"detach"}
    BY <2>4, Kinds DEF Watching
  <2>6. /\ SomeIn(waiting', toDaemon, toHost, a, Watching)
        /\ OneIn(waiting', toDaemon, toHost, a, Watching)
    BY <1>1, <1>2, <2>4, <2>5, AppendPasses DEF AsksIn
  <2>7. /\ SomeIn(waiting', toDaemon, toHost, a, Steering)
           <=> SomeIn(waiting, toDaemon, toHost, a, Steering)
        /\ OneIn(waiting', toDaemon, toHost, a, Steering)
    BY <1>1, <2>4, <2>5, AppendPasses DEF AsksIn
  <2>8. SomeIn(waiting', toDaemon, toHost, a, {"detach"})
        <=> SomeIn(waiting, toDaemon, toHost, a, {"detach"})
    BY <1>1, <2>4, <2>5, AppendPasses
  <2>9. AsksIn(waiting', toDaemon, toHost, a, panel')
    BY <2>2, <2>6, <2>7 DEF AsksIn
  <2> QED BY <2>2, <2>3, <2>8, <2>9
<1>5. entry.children \in Numbers
  BY <1>1 DEF Entries
<1> QED BY <1>3, <1>4, <1>5 DEF Calls

LEMMA FetchesAsks ==
  ASSUME Shape, NEW a, NEW p \in Panels, AsksIn(waiting, toDaemon, toHost, a, p), Fetches(p)
  PROVE  /\ Grows /\ panel' \in Panels /\ AsksIn(waiting', toDaemon, toHost, a, panel')
         /\ SomeIn(waiting', toDaemon, toHost, a, {"detach"})
            <=> SomeIn(waiting, toDaemon, toHost, a, {"detach"})
<1>1. CASE p.asking
  <2>1. Stays /\ panel' = [p EXCEPT !.dirty = TRUE]
    BY <1>1 DEF Fetches, Busy, AsksLater
  <2>2. Grows /\ waiting' = waiting
    BY <2>1, StaysGrows DEF Stays
  <2>3. /\ panel' \in Panels /\ panel'.asking = p.asking /\ panel'.reply = p.reply
        /\ panel'.control = p.control
    BY <2>1 DEF Panels
  <2>4. AsksIn(waiting', toDaemon, toHost, a, panel')
    BY <2>2, <2>3 DEF AsksIn
  <2> QED BY <2>2, <2>3, <2>4
<1>2. CASE ~p.asking
  <2>1. Calls(p) /\ p.reply = <<>>
    BY <1>2 DEF Fetches, AsksIn
  <2> QED BY <1>2, <2>1, CallsAsks
<1> QED BY <1>1, <1>2

(* The panel's own actions. *)
LEMMA PanelAsksKeeps ==
  ASSUME Inv, Grows, UNCHANGED <<daemon, wire, late, toDaemon, toHost, armed, lease>>,
         signals' \in BOOLEAN, amiss \subseteq amiss', amiss' \subseteq Mishaps,
         counts' \in [faults : Nat, sweeps : Nat], panel' \in Panels,
         AsksIn(waiting', toDaemon, toHost, armed, panel'),
         SomeIn(waiting', toDaemon, toHost, armed, {"detach"})
         <=> SomeIn(waiting, toDaemon, toHost, armed, {"detach"})
  PROVE  Inv'
<1>1. Asking'
  BY DEF Asking
<1>2. Some({"detach"})' <=> Some({"detach"})
  BY DEF Some
<1>3. Leased' /\ lease' \in BOOLEAN
  BY <1>2, LeaseGrows DEF Inv, Shape
<1>4. amiss \ {"untold"} \subseteq amiss'
  OBVIOUS
<1> QED BY <1>1, <1>3, <1>4, GrownKeeps

LEMMA PanelOpensKeeps ==
  ASSUME Inv, PanelOpens
  PROVE  Inv'
<1>1. PICK p : p = [panel EXCEPT !.open = TRUE]
  OBVIOUS
<1>2. Fetches(p) /\ UNCHANGED <<daemon, wire, late, toDaemon, toHost, armed, lease, signals, amiss, counts>>
  BY <1>1 DEF PanelOpens
<1>3. /\ p \in Panels /\ p.asking = panel.asking /\ p.reply = panel.reply
      /\ p.control = panel.control
  BY <1>1 DEF Inv, Shape, Panels
<1>4. AsksIn(waiting, toDaemon, toHost, armed, p) /\ Shape
  BY <1>3 DEF Inv, Asking, AsksIn
<1>5. signals' \in BOOLEAN /\ amiss' \subseteq Mishaps /\ counts' \in [faults : Nat, sweeps : Nat]
  BY <1>2 DEF Inv, Shape
<1> QED BY <1>2, <1>3, <1>4, <1>5, FetchesAsks, PanelAsksKeeps

LEMMA PanelClosesKeeps ==
  ASSUME Inv, PanelCloses
  PROVE  Inv'
<1>1. /\ panel' = [panel EXCEPT !.open = FALSE, !.known = FALSE, !.shown = 0] /\ Faulty
      /\ UNCHANGED <<daemon, wire, waiting, late, toDaemon, toHost, armed, entry, made, lease, signals, amiss>>
  BY DEF PanelCloses, net
<1>2. 0 \in Numbers
  BY RosterAssumption DEF Numbers
<1>3. /\ panel' \in Panels /\ panel'.asking = panel.asking /\ panel'.reply = panel.reply
      /\ panel'.control = panel.control
  BY <1>1, <1>2 DEF Inv, Shape, Panels
<1>4. AsksIn(waiting, toDaemon, toHost, armed, panel')
  BY <1>3 DEF Inv, Asking, AsksIn
<1>5. /\ signals' \in BOOLEAN /\ amiss' \subseteq Mishaps /\ counts' \in [faults : Nat, sweeps : Nat]
  BY <1>1, FaultyCounts DEF Inv, Shape
<1>6. Grows
  BY <1>1, StaysGrows DEF Inv
<1> QED BY <1>1, <1>3, <1>4, <1>5, <1>6, PanelAsksKeeps

(* The panel misses a signal, or hears of one it cannot place. *)
LEMMA MissesKeeps ==
  ASSUME Inv, UNCHANGED <<daemon, wire, waiting, late, toDaemon, toHost, armed, entry, made, lease, amiss>>,
         signals' \in BOOLEAN, counts' \in [faults : Nat, sweeps : Nat],
         NEW b \in BOOLEAN, panel' = [panel EXCEPT !.missed = b]
  PROVE  Inv'
<1>1. /\ panel' \in Panels /\ panel'.asking = panel.asking /\ panel'.reply = panel.reply
      /\ panel'.control = panel.control
  BY DEF Inv, Shape, Panels
<1>2. AsksIn(waiting, toDaemon, toHost, armed, panel')
  BY <1>1 DEF Inv, Asking, AsksIn
<1>3. Grows /\ amiss' \subseteq Mishaps
  BY StaysGrows DEF Inv, Shape
<1> QED BY <1>1, <1>2, <1>3, PanelAsksKeeps

LEMMA SignalArrivesKeeps ==
  ASSUME Inv, SignalArrives
  PROVE  Inv'
<1>1. /\ signals' = FALSE
      /\ UNCHANGED <<daemon, wire, late, toDaemon, toHost, armed, lease, amiss, counts>>
      /\ \/ Fetches(panel)
         \/ Stays /\ panel' = [panel EXCEPT !.missed = panel.missed \/ panel.reply # <<>>]
  BY DEF SignalArrives
<1>2. /\ panel \in Panels /\ AsksIn(waiting, toDaemon, toHost, armed, panel) /\ Shape
      /\ counts' \in [faults : Nat, sweeps : Nat] /\ amiss \subseteq Mishaps
  BY <1>1 DEF Inv, Asking, Shape
<1>3. CASE Fetches(panel)
  BY <1>1, <1>2, <1>3, FetchesAsks, PanelAsksKeeps
<1>4. CASE Stays /\ panel' = [panel EXCEPT !.missed = panel.missed \/ panel.reply # <<>>]
  <2>1. (panel.missed \/ panel.reply # <<>>) \in BOOLEAN
    OBVIOUS
  <2> QED BY <1>1, <1>2, <1>4, <2>1, MissesKeeps DEF Stays
<1> QED BY <1>1, <1>3, <1>4

LEMMA SignalLostKeeps ==
  ASSUME Inv, SignalLost
  PROVE  Inv'
<1>1. /\ signals' = FALSE /\ Faulty /\ panel' = [panel EXCEPT !.missed = TRUE]
      /\ UNCHANGED <<daemon, wire, waiting, late, toDaemon, toHost, armed, entry, made, lease, amiss>>
  BY DEF SignalLost, net
<1>2. counts' \in [faults : Nat, sweeps : Nat]
  BY <1>1, FaultyCounts DEF Inv
<1> QED BY <1>1, <1>2, MissesKeeps

LEMMA RealtimeGapKeeps ==
  ASSUME Inv, RealtimeGap
  PROVE  Inv'
<1>1. /\ Faulty /\ signals' = FALSE
      /\ UNCHANGED <<daemon, wire, late, toDaemon, toHost, armed, lease, amiss>>
      /\ Fetches(panel) \/ UNCHANGED <<entry, waiting, made, panel>>
  BY DEF RealtimeGap
<1>2. /\ panel \in Panels /\ AsksIn(waiting, toDaemon, toHost, armed, panel) /\ Shape
      /\ counts' \in [faults : Nat, sweeps : Nat] /\ amiss' \subseteq Mishaps
  BY <1>1, FaultyCounts DEF Inv, Asking, Shape
<1>3. CASE Fetches(panel)
  BY <1>1, <1>2, <1>3, FetchesAsks, PanelAsksKeeps
<1>4. CASE UNCHANGED <<entry, waiting, made, panel>>
  BY <1>1, <1>2, <1>4, StaysGrows, PanelAsksKeeps
<1> QED BY <1>1, <1>3, <1>4

(* The panel's call ends, whatever it shows then. *)
LEMMA Replied ==
  ASSUME Inv, panel.reply # <<>>, NEW p \in Panels, ~p.asking, p.reply = <<>>,
         p.control = panel.control
  PROVE  AsksIn(waiting, toDaemon, toHost, armed, p)
BY DEF Inv, Asking, AsksIn

LEMMA ReplyArrivesKeeps ==
  ASSUME Inv, ReplyArrives
  PROVE  Inv'
<1>0. PICK n : n = Head(panel.reply)
  OBVIOUS
<1>1. PICK p : p = [panel EXCEPT !.known = panel.known \/ n # Unknown, !.shown = Shows(n),
                                 !.reply = <<>>, !.asking = FALSE]
  OBVIOUS
<1>2. /\ panel.reply # <<>>
      /\ UNCHANGED <<daemon, wire, late, toDaemon, toHost, armed, lease, signals, amiss, counts>>
      /\ Calls(p) \/ (Stays /\ panel' = p)
  BY <1>0, <1>1 DEF ReplyArrives
<1>3. panel \in Panels /\ panel.reply \in Seq(Numbers \cup {Unavailable, Unknown})
  BY DEF Inv, Shape, Panels
<1>4. Shows(n) \in Numbers \cup {Unavailable}
  <2>1. n \in Numbers \cup {Unavailable, Unknown}
    BY <1>0, <1>2, <1>3, TailPositions
  <2>2. 0 \in Numbers
    BY RosterAssumption DEF Numbers
  <2> QED BY <2>1, <2>2 DEF Shows
<1>5. <<>> \in Seq(Numbers \cup {Unavailable, Unknown})
  BY EmptySeq
<1>6. p \in Panels /\ ~p.asking /\ p.reply = <<>> /\ p.control = panel.control
  <2>1. (panel.known \/ n # Unknown) \in BOOLEAN
    OBVIOUS
  <2> QED BY <1>1, <1>3, <1>4, <1>5, <2>1 DEF Panels
<1>7. AsksIn(waiting, toDaemon, toHost, armed, p) /\ Shape
  BY <1>2, <1>6, Replied DEF Inv
<1>8. signals' \in BOOLEAN /\ amiss' \subseteq Mishaps /\ counts' \in [faults : Nat, sweeps : Nat]
  BY <1>2 DEF Inv, Shape
<1>9. CASE Calls(p)
  BY <1>2, <1>6, <1>7, <1>8, <1>9, CallsAsks, PanelAsksKeeps
<1>10. CASE Stays /\ panel' = p
  BY <1>2, <1>6, <1>7, <1>8, <1>10, StaysGrows, PanelAsksKeeps DEF Stays
<1> QED BY <1>2, <1>9, <1>10

LEMMA CallFailsKeeps ==
  ASSUME Inv, CallFails
  PROVE  Inv'
<1>1. /\ panel.reply # <<>> /\ Faulty
      /\ \/ panel' = [panel EXCEPT !.shown = Unavailable, !.reply = <<>>, !.asking = FALSE,
                                   !.missed = TRUE]
         \/ panel' = [panel EXCEPT !.reply = <<Unavailable>>, !.missed = TRUE]
      /\ UNCHANGED <<daemon, wire, waiting, late, toDaemon, toHost, armed, entry, made, lease, signals,
                     amiss>>
  BY DEF CallFails, net
<1>2. /\ <<>> \in Seq(Numbers \cup {Unavailable, Unknown})
      /\ <<Unavailable>> \in Seq(Numbers \cup {Unavailable, Unknown}) /\ Len(<<Unavailable>>) = 1
  BY EmptySeq
<1>3. panel \in Panels /\ AsksIn(waiting, toDaemon, toHost, armed, panel) /\ Shape
  BY DEF Inv, Shape, Asking
<1>4. panel' \in Panels /\ AsksIn(waiting, toDaemon, toHost, armed, panel')
  <2>1. CASE panel' = [panel EXCEPT !.shown = Unavailable, !.reply = <<>>, !.asking = FALSE,
                                    !.missed = TRUE]
    <3>1. PICK p : p = panel'
      OBVIOUS
    <3>2. p \in Panels /\ ~p.asking /\ p.reply = <<>> /\ p.control = panel.control
      BY <1>2, <1>3, <2>1, <3>1 DEF Panels
    <3> QED BY <1>1, <3>1, <3>2, Replied
  <2>2. CASE panel' = [panel EXCEPT !.reply = <<Unavailable>>, !.missed = TRUE]
    <3>1. PICK p : p = panel'
      OBVIOUS
    <3>2. /\ p \in Panels /\ p.asking = panel.asking /\ p.reply = <<Unavailable>>
          /\ p.control = panel.control
      BY <1>2, <1>3, <2>2, <3>1 DEF Panels
    <3>3. AsksIn(waiting, toDaemon, toHost, armed, p)
      BY <1>1, <1>2, <1>3, <3>2 DEF AsksIn
    <3> QED BY <3>1, <3>2, <3>3
  <2> QED BY <1>1, <2>1, <2>2
<1>5. signals' \in BOOLEAN /\ counts' \in [faults : Nat, sweeps : Nat] /\ amiss' \subseteq Mishaps
  BY <1>1, FaultyCounts DEF Inv, Shape
<1>6. Grows
  BY <1>1, <1>3, StaysGrows
<1> QED BY <1>1, <1>4, <1>5, <1>6, PanelAsksKeeps

(* A command is refused here, or goes out. *)
LEMMA CommandsAsks ==
  ASSUME Shape, NEW a, NEW p \in Panels, AsksIn(waiting, toDaemon, toHost, a, p),
         ~SomeIn(waiting, toDaemon, toHost, a, Steering), NEW kind \in Controls, NEW n,
         NEW id \in Nat, Commands(kind, p, n, id)
  PROVE  /\ \E q \in Requests : /\ q.reason \in Controls /\ q.entry = id
                                /\ waiting' = waiting \/ waiting' = Append(waiting, q)
         /\ panel' \in Panels /\ AsksIn(waiting', toDaemon, toHost, a, panel')
         /\ SomeIn(waiting', toDaemon, toHost, a, {"detach"})
            <=> SomeIn(waiting, toDaemon, toHost, a, {"detach"})
<1>1. waiting \in Seq(Requests)
  BY DEF Shape
<1>2. PICK q \in Requests : q = Request(kind, id) /\ q.reason = kind /\ q.entry = id
  BY Kinds, RequestIs
<1>3. CASE Refuses(kind, n)
  <2>1. waiting' = waiting /\ panel' = [p EXCEPT !.control = "failed"]
    BY <1>3 DEF Commands
  <2>2. /\ panel' \in Panels /\ panel'.asking = p.asking /\ panel'.reply = p.reply
    BY <2>1 DEF Panels
  <2>3. AsksIn(waiting', toDaemon, toHost, a, panel')
    BY <2>1, <2>2 DEF AsksIn
  <2> QED BY <1>2, <2>1, <2>2, <2>3
<1>4. CASE ~Refuses(kind, n)
  <2>1. waiting' = Append(waiting, q) /\ panel' = [p EXCEPT !.control = kind]
    BY <1>2, <1>4 DEF Commands
  <2>2. q.reason \in Steering /\ q.reason \notin {"detach"}
    BY <1>2, Kinds
  <2>3. panel' \in Panels /\ AsksIn(waiting', toDaemon, toHost, a, panel')
    BY <1>1, <2>1, <2>2, SteerAsked
  <2>4. SomeIn(waiting', toDaemon, toHost, a, {"detach"})
        <=> SomeIn(waiting, toDaemon, toHost, a, {"detach"})
    BY <1>1, <2>1, <2>2, AppendPasses
  <2> QED BY <1>2, <2>1, <2>3, <2>4
<1> QED BY <1>3, <1>4

LEMMA ControlCallsKeeps ==
  ASSUME Inv, ControlCalls
  PROVE  Inv'
<1>1. PICK kind \in Controls :
        \/ Commands(kind, panel, entry.children, entry.id) /\ UNCHANGED <<entry, made>>
        \/ Watches("control") /\ panel' = [panel EXCEPT !.control = kind]
  BY DEF ControlCalls
<1>2. /\ panel.control = "none"
      /\ UNCHANGED <<daemon, wire, late, toDaemon, toHost, armed, lease, signals, amiss, counts>>
  BY DEF ControlCalls
<1>3. /\ panel \in Panels /\ AsksIn(waiting, toDaemon, toHost, armed, panel) /\ Shape
      /\ waiting \in Seq(Requests) /\ entry \in Entries /\ made \in Nat /\ entry.id <= made
      /\ entry.id \in Nat
      /\ counts' \in [faults : Nat, sweeps : Nat] /\ amiss' \subseteq Mishaps /\ signals' \in BOOLEAN
  BY <1>2 DEF Inv, Asking, Shape, Entries
<1>4. ~SomeIn(waiting, toDaemon, toHost, armed, Steering)
  BY <1>2, <1>3 DEF AsksIn, Controls
<1>5. CASE Commands(kind, panel, entry.children, entry.id) /\ UNCHANGED <<entry, made>>
  <2>1. /\ \E q \in Requests : /\ q.reason \in Controls /\ q.entry = entry.id
                               /\ waiting' = waiting \/ waiting' = Append(waiting, q)
        /\ panel' \in Panels /\ AsksIn(waiting', toDaemon, toHost, armed, panel')
        /\ SomeIn(waiting', toDaemon, toHost, armed, {"detach"})
           <=> SomeIn(waiting, toDaemon, toHost, armed, {"detach"})
    BY <1>3, <1>4, <1>5, CommandsAsks
  <2>2. Grows
    BY <1>3, <1>5, <2>1, Kinds DEF Grows
  <2> QED BY <1>2, <1>3, <2>1, <2>2, PanelAsksKeeps
<1>6. CASE Watches("control") /\ panel' = [panel EXCEPT !.control = kind]
  <2>1. Grows
    BY <1>3, <1>6, WatchesGrows, Kinds
  <2>2. PICK q \in Requests : q.reason = "control" /\ waiting' = Append(waiting, q)
    BY <1>3, <1>6, WatchesGrows, Kinds
  <2>3. q.reason \in Steering /\ q.reason \notin {"detach"}
    BY <2>2, Kinds
  <2>4. panel' \in Panels /\ AsksIn(waiting', toDaemon, toHost, armed, panel')
    BY <1>3, <1>4, <1>6, <2>2, <2>3, SteerAsked
  <2>5. SomeIn(waiting', toDaemon, toHost, armed, {"detach"})
        <=> SomeIn(waiting, toDaemon, toHost, armed, {"detach"})
    BY <1>3, <2>2, <2>3, AppendPasses
  <2> QED BY <1>2, <1>3, <2>1, <2>4, <2>5, PanelAsksKeeps
<1> QED BY <1>1, <1>5, <1>6

-----------------------------------------------------------------------------
(* An attach goes on or fails: the entry is attached, gives up its place in  *)
(* the roster, or is left as it was.                                         *)
LEMMA AttachEndsKeeps ==
  ASSUME Inv, armed # <<>>, armed' = Tail(armed), UNCHANGED <<daemon, wire, late, toDaemon, toHost, made>>,
         NEW m, m = Head(armed), m.request.reason \in Attaches,
         NEW q \in Requests, q.reason \in Controls, q.entry = entry.id,
         waiting' = waiting \/ waiting' = Append(waiting, q),
         entry' \in Entries, entry'.id \in {entry.id, 0},
         "unseated" \in amiss => "unseated" \in amiss',
         daemon.seated => entry'.attached \/ "stray" \in amiss',
         m.ok => /\ entry'.id = entry.id
                 /\ IF m.request.entry = entry.id THEN entry'.attached
                    ELSE entry'.attached = entry.attached,
         ~m.ok => \/ entry'.id = 0 /\ ~entry'.attached
                  \/ /\ entry'.id = entry.id /\ entry'.attached = entry.attached
                     /\ entry.attached => "unseated" \in amiss'
  PROVE  /\ waiting' \in Seq(Requests) /\ armed' \in Seq(Answers)
         /\ entry'.id <= made' /\ (entry'.attached => entry'.id # 0)
         /\ Ids' /\ Offline' /\ SeatLost' /\ DetachAhead' /\ SeatKept'
<1>1. /\ waiting \in Seq(Requests) /\ armed \in Seq(Answers) /\ made \in Nat /\ entry \in Entries
      /\ entry.id <= made /\ (entry.attached => entry.id # 0) /\ entry.id \in Nat
      /\ toHost \in Seq(Messages) /\ toDaemon \in Seq(Requests) /\ entry.attached \in BOOLEAN
  BY DEF Inv, Shape, Entries
<1>2. /\ m \in Messages /\ m \in Answers /\ armed' \in Seq(Answers) /\ m.type = "answer"
      /\ 1 \in DOMAIN armed /\ armed[1] = m /\ m.ok \in BOOLEAN
  BY <1>1, TailPositions, Sorts
<1>3. /\ m \in Seats <=> m.ok
      /\ m \in Refusals <=> ~m.ok
      /\ q \notin Leaving /\ q \notin Of(Attaches) /\ q \notin Unmade
  <2>1. q.reason \notin Attaches /\ q.reason # "detach"
    BY Kinds
  <2>2. ~(q.entry > made)
    BY <1>1
  <2> QED BY <1>2, <2>1, <2>2, Sorted
<1>4. /\ waiting' \in Seq(Requests)
      /\ \A P : /\ In(waiting, P) => In(waiting', P)
                /\ In(waiting', P) => In(waiting, P) \/ q \in P
                /\ \A k \in DOMAIN waiting : Follows(waiting, k, P) => Follows(waiting', k, P)
      /\ \A k \in DOMAIN waiting' : (k \in DOMAIN waiting /\ waiting'[k] = waiting[k]) \/ waiting'[k] = q
  <2>1. CASE waiting' = waiting
    BY <1>1, <2>1
  <2>2. CASE waiting' = Append(waiting, q)
    <3>1. /\ waiting' \in Seq(Requests)
          /\ \A k \in DOMAIN waiting' : (k \in DOMAIN waiting /\ waiting'[k] = waiting[k]) \/ waiting'[k] = q
      BY <1>1, <2>2, AppendPositions
    <3>2. \A P : /\ In(waiting', P) <=> In(waiting, P) \/ q \in P
                 /\ \A k \in DOMAIN waiting :
                      Follows(waiting, k, P) \/ q \in P => Follows(waiting', k, P)
      BY <1>1, <2>2, AppendHolds
    <3> QED BY <3>1, <3>2
  <2> QED BY <2>1, <2>2
<1>5. /\ \A P : /\ In(armed, P) <=> m \in P \/ In(armed', P)
                /\ Follows(armed, 1, P) => In(armed', P)
                /\ \A k \in DOMAIN armed' : Follows(armed, k + 1, P) => Follows(armed', k, P)
      /\ \A k \in DOMAIN armed' : k + 1 \in DOMAIN armed /\ armed'[k] = armed[k + 1]
  <2>1. \A P : /\ In(armed, P) <=> m \in P \/ In(armed', P)
               /\ Follows(armed, 1, P) => In(armed', P)
               /\ \A k \in DOMAIN armed' : Follows(armed, k + 1, P) => Follows(armed', k, P)
    BY <1>1, TailHolds
  <2>2. \A k \in DOMAIN armed' : k + 1 \in DOMAIN armed /\ armed'[k] = armed[k + 1]
    BY <1>1, TailPositions
  <2> QED BY <2>1, <2>2
<1>6. entry'.id <= made'
  BY <1>1
<1>7. entry'.attached => entry'.id # 0
  <2>1. CASE m.ok /\ m.request.entry = entry.id
    <3>1. m \notin AnswersUnmade
      BY <1>1, <1>2 DEF Inv, Ids, In
    <3>2. m.request \in Requests /\ m.request \notin Unmade
      BY <1>2, <3>1, Sorted, Sorts
    <3>3. m.request.entry # 0
      BY <3>2, Sorted
    <3> QED BY <2>1, <3>3
  <2>2. CASE m.ok /\ m.request.entry # entry.id
    BY <1>1, <2>2
  <2>3. CASE ~m.ok
    BY <1>1, <2>3
  <2> QED BY <2>1, <2>2, <2>3
<1>8. Ids'
  <2>1. Unmade' = Unmade /\ AnswersUnmade' = AnswersUnmade
    BY DEF Unmade, AnswersUnmade
  <2> QED BY <1>3, <1>4, <1>5, <2>1 DEF Inv, Ids
<1>9. Offline'
  BY DEF Inv, Offline
<1>10. DetachAhead'
  <2> SUFFICES ASSUME entry.id # 0 PROVE
        /\ \A k \in DOMAIN waiting' :
             waiting'[k] \in Leaving => Follows(waiting', k, Of(Attaches))
        /\ \A k \in DOMAIN toDaemon : toDaemon[k] \in Leaving =>
             Follows(toDaemon, k, Of(Attaches)) \/ In(waiting', Of(Attaches))
        /\ \A k \in DOMAIN late : late[k] \in Leaving =>
             Follows(late, k, Of(Attaches)) \/ In(toDaemon, Of(Attaches)) \/ In(waiting', Of(Attaches))
    BY DEF DetachAhead
  <2> QED BY <1>3, <1>4 DEF Inv, DetachAhead
<1>11. Underway => Underway'
  BY <1>4 DEF Underway
<1>12. SeatLost'
  <2>1. CASE entry'.id = 0
    BY <1>7, <2>1 DEF SeatLost, Mine
  <2>2. CASE entry'.id # 0
    <3>1. entry'.id = entry.id
      BY <2>2
    <3>2. SUFFICES ASSUME Cut PROVE
        /\ entry'.attached => Underway' \/ In(toHost, Refusals) \/ In(armed', Refusals)
        /\ \A k \in DOMAIN armed' : Mine(armed'[k]) =>
             Underway' \/ In(toHost, Refusals) \/ Follows(armed', k, Refusals)
        /\ \A k \in DOMAIN toHost : Mine(toHost[k]) => Underway' \/ Follows(toHost, k, Refusals)
      BY <3>1 DEF SeatLost, Cut, Mine
    <3>3. /\ entry.attached => Underway \/ In(toHost, Refusals) \/ In(armed, Refusals)
          /\ \A k \in DOMAIN armed : Mine(armed[k]) =>
               Underway \/ In(toHost, Refusals) \/ Follows(armed, k, Refusals)
          /\ \A k \in DOMAIN toHost : Mine(toHost[k]) => Underway \/ Follows(toHost, k, Refusals)
      BY <3>2 DEF Inv, SeatLost
    <3>4. \A k \in DOMAIN armed' : Mine(armed'[k]) =>
            Underway' \/ In(toHost, Refusals) \/ Follows(armed', k, Refusals)
      BY <1>5, <1>11, <3>3
    <3>5. \A k \in DOMAIN toHost : Mine(toHost[k]) => Underway' \/ Follows(toHost, k, Refusals)
      BY <1>11, <3>3
    <3>6. ASSUME entry'.attached PROVE Underway' \/ In(toHost, Refusals) \/ In(armed', Refusals)
      <4>1. CASE m.ok /\ m.request.entry = entry.id
        <5>1. Mine(armed[1])
          BY <1>2, <1>3, <2>2, <3>1, <4>1 DEF Mine
        <5> QED BY <1>2, <1>5, <1>11, <3>3, <5>1
      <4>2. CASE m.ok /\ m.request.entry # entry.id
        BY <1>3, <1>5, <1>11, <3>3, <3>6, <4>2
      <4>3. CASE ~m.ok
        <5>1. "unseated" \in amiss'
          BY <2>2, <3>6, <4>3
        <5> QED BY <5>1 DEF Underway
      <4> QED BY <4>1, <4>2, <4>3
    <3> QED BY <3>4, <3>5, <3>6
  <2> QED BY <2>1, <2>2
<1>13. SeatKept'
  BY DEF SeatKept
<1> QED BY <1>2, <1>4, <1>6, <1>7, <1>8, <1>9, <1>10, <1>12, <1>13

LEMMA AttachedKeeps ==
  ASSUME Inv, armed # <<>>, armed' = Tail(armed), NEW m, m = Head(armed),
         m.request.reason \in Attaches, m.ok, Attached(m),
         UNCHANGED <<daemon, wire, late, toDaemon, toHost, counts>>
  PROVE  Inv'
<1>1. PICK e : e = IF m.request.entry = entry.id
                   THEN [entry EXCEPT !.attached = TRUE, !.children = m.n] ELSE entry
  OBVIOUS
<1>2. /\ entry' = e /\ Notifies(e) /\ Resumes(m.request, e) /\ made' = made
      /\ amiss' = IF m.request.entry = entry.id
                  THEN ((amiss \ {"untold"}) \ {"stray"}) \cup If("overwritten", m.n < entry.children)
                  ELSE (amiss \ {"untold"}) \cup If("stray", ~entry.attached)
  BY <1>1 DEF Attached, Told
<1>3. /\ armed \in Seq(Answers) /\ entry \in Entries /\ panel \in Panels /\ Shape
      /\ AsksIn(waiting, toDaemon, toHost, armed, panel) /\ amiss \subseteq Mishaps
      /\ waiting \in Seq(Requests) /\ entry.id \in Nat
  BY DEF Inv, Shape, Asking, Entries
<1>4. m \in Messages /\ m.n \in Numbers
  BY <1>3, TailPositions, Sorts
<1>5. /\ e \in Entries /\ e.id = entry.id /\ e.children \in Numbers
      /\ IF m.request.entry = entry.id THEN e.attached ELSE e.attached = entry.attached
  <2>1. CASE m.request.entry = entry.id
    <3>1. e = [entry EXCEPT !.attached = TRUE, !.children = m.n]
      BY <1>1, <2>1
    <3> QED BY <1>3, <1>4, <2>1, <3>1 DEF Entries
  <2>2. CASE m.request.entry # entry.id
    BY <1>1, <1>3, <2>2 DEF Entries
  <2> QED BY <2>1, <2>2
<1>6. /\ "unseated" \in amiss => "unseated" \in amiss'
      /\ amiss' \subseteq Mishaps
      /\ m.request.entry # entry.id => entry.attached \/ "stray" \in amiss'
  <2>1. CASE m.request.entry = entry.id
    BY <1>2, <1>3, <2>1 DEF If, Mishaps
  <2>2. CASE m.request.entry # entry.id
    BY <1>2, <1>3, <2>2 DEF If, Mishaps
  <2> QED BY <2>1, <2>2
<1>7. lease' = (e.id # 0) /\ signals' = TRUE
  BY <1>2 DEF Notifies, SyncLease, FollowsWatched
<1>8. /\ \E q \in Requests : /\ q.reason \in Controls /\ q.entry = entry.id
                             /\ waiting' = waiting \/ waiting' = Append(waiting, q)
      /\ panel' \in Panels /\ AsksIn(waiting', toDaemon, toHost, armed', panel')
  <2>1. PICK q \in Requests : q.reason = "stop" /\ q.entry = entry.id
    <3>1. "stop" \in Reasons
      BY DEF Reasons, Controls
    <3> QED BY <1>3, <3>1, RequestIs
  <2>2. "stop" \in Controls
    BY DEF Controls
  <2>3. CASE m.request.reason = "watch"
    <3>0. PICK b \in BOOLEAN : b = (panel.missed \/ m.request.entry # e.id)
      OBVIOUS
    <3>1. panel' = [panel EXCEPT !.reply = <<e.children>>, !.missed = b] /\ waiting' = waiting
      BY <1>2, <2>3, <3>0 DEF Resumes
    <3>2. e.children \in Numbers \cup {Unavailable}
      BY <1>5
    <3>3. /\ [panel EXCEPT !.reply = <<e.children>>, !.missed = b] \in Panels
          /\ AsksIn(waiting, toDaemon, toHost, Tail(armed),
                    [panel EXCEPT !.reply = <<e.children>>, !.missed = b])
      BY <1>3, <2>3, <3>2, WatchAnswered
    <3> QED BY <2>1, <2>2, <3>1, <3>3
  <2>4. CASE m.request.reason = "control"
    <3>1. Commands(panel.control, panel, e.children, entry.id)
      BY <1>2, <1>5, <2>4 DEF Resumes
    <3>2. m.request.reason \in Steering /\ panel.control \in Controls \cup {"none", "done", "failed"}
      BY <1>3, <2>4, Kinds DEF Panels
    <3>3. /\ panel.control \in Controls
          /\ ~SomeIn(waiting, toDaemon, toHost, Tail(armed), Steering)
          /\ AsksIn(waiting, toDaemon, toHost, Tail(armed), [panel EXCEPT !.control = panel.control])
      BY <1>3, <3>2, SteerAnswered
    <3>4. [panel EXCEPT !.control = panel.control] = panel
      BY <1>3 DEF Panels
    <3>5. AsksIn(waiting, toDaemon, toHost, Tail(armed), panel)
      BY <3>3, <3>4
    <3>6. /\ \E r \in Requests : /\ r.reason \in Controls /\ r.entry = entry.id
                                 /\ waiting' = waiting \/ waiting' = Append(waiting, r)
          /\ panel' \in Panels /\ AsksIn(waiting', toDaemon, toHost, Tail(armed), panel')
      BY <1>3, <3>1, <3>3, <3>5, CommandsAsks
    <3> QED BY <3>6
  <2>5. CASE m.request.reason \in {"reconnect", "replaced"}
    <3>1. panel' = panel /\ waiting' = waiting
      BY <1>2, <2>5 DEF Resumes
    <3>2. m.request.reason \notin Watching /\ m.request.reason \notin Steering
      BY <2>5 DEF Watching, Steering, Controls
    <3>3. AsksIn(waiting, toDaemon, toHost, Tail(armed), panel)
      BY <1>3, <3>2, EndAsks
    <3> QED BY <1>3, <2>1, <2>2, <3>1, <3>3
  <2> QED BY <2>3, <2>4, <2>5 DEF Attaches
<1>9. /\ waiting' \in Seq(Requests) /\ armed' \in Seq(Answers)
      /\ entry'.id <= made' /\ (entry'.attached => entry'.id # 0)
      /\ Ids' /\ Offline' /\ SeatLost' /\ DetachAhead' /\ SeatKept'
  <2>1. PICK q \in Requests : /\ q.reason \in Controls /\ q.entry = entry.id
                              /\ waiting' = waiting \/ waiting' = Append(waiting, q)
    BY <1>8
  <2>2. entry' \in Entries /\ entry'.id = entry.id
    BY <1>2, <1>5
  <2>3. IF m.request.entry = entry.id THEN entry'.attached
        ELSE entry'.attached = entry.attached
    BY <1>2, <1>5
  <2>4. entry'.attached \/ "stray" \in amiss'
    BY <1>6, <2>3
  <2> QED BY <1>2, <1>6, <2>1, <2>2, <2>3, <2>4, AttachEndsKeeps
<1>10. Shape'
  <2>1. lease' \in BOOLEAN /\ signals' \in BOOLEAN
    BY <1>7
  <2> QED BY <1>2, <1>5, <1>6, <1>8, <1>9, <2>1 DEF Inv, Shape
<1>11. Asking'
  BY <1>8 DEF Asking
<1>12. Leased'
  BY <1>2, <1>7, <1>9 DEF Leased
<1> QED BY <1>9, <1>10, <1>11, <1>12 DEF Inv

LEMMA AttachFailsKeeps ==
  ASSUME Inv, armed # <<>>, armed' = Tail(armed), NEW m, m = Head(armed),
         m.request.reason \in Attaches, ~m.ok, AttachFails(m.request),
         UNCHANGED <<daemon, wire, late, toDaemon, toHost, counts>>
  PROVE  Inv'
<1>1. /\ UNCHANGED <<lease, signals, made, waiting>>
      /\ \/ /\ m.request.reason = "watch" /\ UNCHANGED entry
            /\ panel' = [panel EXCEPT !.reply = <<Unavailable>>,
                                      !.missed = panel.missed \/ ~daemon.closed]
         \/ /\ m.request.reason = "control" /\ UNCHANGED entry
            /\ panel' = [panel EXCEPT !.control = "failed"]
         \/ /\ m.request.reason \in {"reconnect", "replaced"} /\ entry' = NoEntry
            /\ panel' = [panel EXCEPT !.missed = panel.missed \/ entry.id # 0]
      /\ amiss' = amiss \cup If("unseated", entry'.attached)
                        \cup If("stray", daemon.seated /\ ~entry'.attached)
                        \cup If("untold", entry' # entry)
  BY DEF AttachFails, Silent
<1>2. /\ armed \in Seq(Answers) /\ entry \in Entries /\ panel \in Panels /\ Shape
      /\ AsksIn(waiting, toDaemon, toHost, armed, panel) /\ amiss \subseteq Mishaps
      /\ waiting \in Seq(Requests) /\ entry.id \in Nat
  BY DEF Inv, Shape, Asking, Entries
<1>3. /\ entry' \in Entries /\ entry'.id \in {entry.id, 0} /\ amiss \subseteq amiss'
      /\ amiss' \subseteq Mishaps
      /\ \/ /\ entry'.id = 0 /\ ~entry'.attached
            /\ entry.id # 0 => "untold" \in amiss'
         \/ /\ entry' = entry
            /\ entry.attached => "unseated" \in amiss'
      /\ daemon.seated => entry'.attached \/ "stray" \in amiss'
  <2>1. NoEntry \in Entries /\ NoEntry.id = 0 /\ ~NoEntry.attached
    BY RosterAssumption DEF NoEntry, Entries, Numbers
  <2>2. /\ amiss \subseteq amiss' /\ amiss' \subseteq Mishaps
        /\ entry'.attached => "unseated" \in amiss'
        /\ daemon.seated => entry'.attached \/ "stray" \in amiss'
        /\ entry' # entry => "untold" \in amiss'
    BY <1>1, <1>2 DEF If, Mishaps
  <2>3. CASE entry' = entry
    BY <1>2, <2>2, <2>3
  <2>4. CASE entry' = NoEntry
    <3>1. entry.id # 0 => entry' # entry
      BY <2>1, <2>4
    <3> QED BY <2>1, <2>2, <2>4, <3>1
  <2> QED BY <1>1, <2>3, <2>4
<1>4. panel' \in Panels /\ AsksIn(waiting, toDaemon, toHost, Tail(armed), panel')
  <2>1. CASE m.request.reason = "watch"
    <3>0. PICK b \in BOOLEAN : b = (panel.missed \/ ~daemon.closed)
      OBVIOUS
    <3>1. panel' = [panel EXCEPT !.reply = <<Unavailable>>, !.missed = b]
      BY <1>1, <2>1, <3>0
    <3>2. Unavailable \in Numbers \cup {Unavailable}
      OBVIOUS
    <3> QED BY <1>2, <2>1, <3>1, <3>2, WatchAnswered
  <2>2. CASE m.request.reason = "control"
    <3>1. panel' = [panel EXCEPT !.control = "failed"]
      BY <1>1, <2>2
    <3>2. m.request.reason \in Steering /\ "failed" \in Controls \cup {"none", "done", "failed"}
      BY <2>2, Kinds
    <3> QED BY <1>2, <3>1, <3>2, SteerAnswered
  <2>3. CASE m.request.reason \in {"reconnect", "replaced"}
    <3>1. m.request.reason \notin Watching /\ m.request.reason \notin Steering
      BY <2>3 DEF Watching, Steering, Controls
    <3>2. AsksIn(waiting, toDaemon, toHost, Tail(armed), panel)
      BY <1>2, <3>1, EndAsks
    <3>3. PICK b \in BOOLEAN : b = (panel.missed \/ entry.id # 0)
      OBVIOUS
    <3>4. panel' = [panel EXCEPT !.missed = b]
      BY <1>1, <2>3, <3>3
    <3>5. /\ panel' \in Panels /\ panel'.asking = panel.asking /\ panel'.reply = panel.reply
          /\ panel'.control = panel.control
      BY <1>2, <3>4 DEF Panels
    <3> QED BY <3>2, <3>5 DEF AsksIn
  <2> QED BY <2>1, <2>2, <2>3 DEF Attaches
<1>5. /\ waiting' \in Seq(Requests) /\ armed' \in Seq(Answers)
      /\ entry'.id <= made' /\ (entry'.attached => entry'.id # 0)
      /\ Ids' /\ Offline' /\ SeatLost' /\ DetachAhead' /\ SeatKept'
  <2>1. PICK q \in Requests : q.reason = "stop" /\ q.entry = entry.id
    <3>1. "stop" \in Reasons
      BY DEF Reasons, Controls
    <3> QED BY <1>2, <3>1, RequestIs
  <2>2. "stop" \in Controls
    BY DEF Controls
  <2> QED BY <1>1, <1>3, <2>1, <2>2, AttachEndsKeeps
<1>6. Shape'
  BY <1>1, <1>3, <1>4, <1>5 DEF Inv, Shape
<1>7. Asking'
  BY <1>1, <1>4 DEF Asking
<1>8. Leased'
  <2>1. m.request.reason \notin {"detach"}
    BY Kinds
  <2>2. Some({"detach"})' <=> Some({"detach"})
    BY <1>1, <1>2, <2>1, EndPasses DEF Some
  <2>3. entry'.attached => lease'
    BY <1>1, <1>3 DEF Inv, Leased
  <2>4. lease' /\ entry'.id = 0 => Some({"detach"})' \/ "untold" \in amiss'
    BY <1>1, <1>3, <2>2 DEF Inv, Leased
  <2> QED BY <2>3, <2>4 DEF Leased
<1> QED BY <1>5, <1>6, <1>7, <1>8 DEF Inv

LEMMA ControlledKeeps ==
  ASSUME Inv, armed # <<>>, armed' = Tail(armed), NEW m, m = Head(armed),
         m.request.reason \in Controls, Controlled(m),
         UNCHANGED <<daemon, wire, late, toDaemon, toHost, counts>>
  PROVE  Inv'
<1>1. /\ UNCHANGED <<lease, signals, amiss>>
      /\ \/ Fetches([panel EXCEPT !.control = "done"])
         \/ Stays /\ panel' = [panel EXCEPT !.control = "failed"]
  BY DEF Controlled, Silent
<1>2. /\ armed \in Seq(Answers) /\ panel \in Panels /\ Shape
      /\ AsksIn(waiting, toDaemon, toHost, armed, panel) /\ amiss' \subseteq Mishaps
      /\ lease' \in BOOLEAN /\ signals' \in BOOLEAN /\ counts' \in [faults : Nat, sweeps : Nat]
  BY <1>1 DEF Inv, Shape, Asking
<1>3. /\ m.request.reason \in Steering /\ m.request.reason \notin {"detach"}
      /\ m.request.reason \notin Attaches
  BY Kinds
<1>4. \A c \in {"done", "failed"} :
        /\ [panel EXCEPT !.control = c] \in Panels
        /\ AsksIn(waiting, toDaemon, toHost, Tail(armed), [panel EXCEPT !.control = c])
  BY <1>2, <1>3, SteerAnswered
<1>5. /\ Grows /\ panel' \in Panels /\ AsksIn(waiting', toDaemon, toHost, Tail(armed), panel')
      /\ SomeIn(waiting', toDaemon, toHost, Tail(armed), {"detach"})
         <=> SomeIn(waiting, toDaemon, toHost, Tail(armed), {"detach"})
  <2>1. CASE Fetches([panel EXCEPT !.control = "done"])
    <3>1. PICK p \in Panels : /\ p = [panel EXCEPT !.control = "done"]
                              /\ AsksIn(waiting, toDaemon, toHost, Tail(armed), p)
      BY <1>4
    <3> QED BY <1>2, <2>1, <3>1, FetchesAsks
  <2>2. CASE Stays /\ panel' = [panel EXCEPT !.control = "failed"]
    <3>1. Grows /\ waiting' = waiting
      BY <1>2, <2>2, StaysGrows DEF Stays
    <3> QED BY <1>4, <2>2, <3>1
  <2> QED BY <1>1, <2>1, <2>2
<1>6. Asking'
  BY <1>5 DEF Asking
<1>7. Some({"detach"})' <=> Some({"detach"})
  BY <1>2, <1>3, <1>5, EndPasses DEF Some
<1>8. Leased'
  BY <1>1, <1>2, <1>5, <1>7, LeaseGrows DEF Inv
<1> QED BY <1>1, <1>2, <1>3, <1>5, <1>6, <1>8, GrownKeeps

LEMMA DetachedKeeps ==
  ASSUME Inv, armed # <<>>, armed' = Tail(armed), Head(armed).request.reason = "detach",
         Notifies(entry), amiss' = Told, Stays,
         UNCHANGED <<daemon, wire, late, toDaemon, toHost, counts, panel>>
  PROVE  Inv'
<1>1. lease' = (entry.id # 0) /\ signals' = TRUE /\ UNCHANGED <<entry, waiting, made>>
  BY DEF Notifies, SyncLease, FollowsWatched, Stays
<1>2. /\ armed \in Seq(Answers) /\ panel' \in Panels /\ Shape
      /\ AsksIn(waiting, toDaemon, toHost, armed, panel) /\ amiss' \subseteq Mishaps
      /\ amiss \ {"untold"} \subseteq amiss'
      /\ lease' \in BOOLEAN /\ signals' \in BOOLEAN /\ counts' \in [faults : Nat, sweeps : Nat]
      /\ (entry.attached => entry.id # 0)
  BY <1>1 DEF Inv, Shape, Asking, Told
<1>3. /\ Head(armed).request.reason \notin Steering /\ Head(armed).request.reason \notin Attaches
      /\ Head(armed).request.reason \notin Watching
  BY DEF Steering, Controls, Attaches, Watching
<1>4. Asking'
  BY <1>1, <1>2, <1>3, EndAsks DEF Asking
<1>5. Leased'
  BY <1>1, <1>2 DEF Leased
<1>6. Grows
  BY <1>1, <1>2, StaysGrows
<1> QED BY <1>2, <1>3, <1>4, <1>5, <1>6, GrownKeeps

LEMMA GoesOnKeeps ==
  ASSUME Inv, GoesOn
  PROVE  Inv'
<1>1. PICK m : m = Head(armed)
  OBVIOUS
<1>2. /\ armed # <<>> /\ armed' = Tail(armed)
      /\ \/ m.request.reason \in Attaches /\ m.ok /\ Attached(m)
         \/ m.request.reason \in Attaches /\ ~m.ok /\ AttachFails(m.request)
         \/ m.request.reason \in Controls /\ Controlled(m)
         \/ /\ m.request.reason = "detach" /\ Notifies(entry) /\ amiss' = Told /\ Stays
            /\ UNCHANGED panel
      /\ UNCHANGED <<daemon, wire, late, toDaemon, toHost, counts>>
  BY <1>1 DEF GoesOn
<1>3. CASE m.request.reason \in Attaches /\ m.ok /\ Attached(m)
  BY <1>1, <1>2, <1>3, AttachedKeeps
<1>4. CASE m.request.reason \in Attaches /\ ~m.ok /\ AttachFails(m.request)
  BY <1>1, <1>2, <1>4, AttachFailsKeeps
<1>5. CASE m.request.reason \in Controls /\ Controlled(m)
  BY <1>1, <1>2, <1>5, ControlledKeeps
<1>6. CASE /\ m.request.reason = "detach" /\ Notifies(entry) /\ amiss' = Told /\ Stays
           /\ UNCHANGED panel
  BY <1>1, <1>2, <1>6, DetachedKeeps
<1> QED BY <1>2, <1>3, <1>4, <1>5, <1>6

(* The session leaves the roster: its detach goes out, or there is nobody to *)
(* tell.                                                                     *)
LEMMA SweepsKeeps ==
  ASSUME Inv, Sweeps
  PROVE  Inv'
<1>1. /\ armed = <<>> /\ entry.id # 0 /\ entry' = NoEntry
      /\ counts' = [counts EXCEPT !.sweeps = counts.sweeps + 1]
      /\ UNCHANGED <<daemon, wire, late, toDaemon, toHost, armed, made, panel>>
      /\ \/ /\ entry.attached /\ waiting' = Append(waiting, Request("detach", entry.id))
            /\ UNCHANGED <<lease, signals, amiss>>
         \/ ~entry.attached /\ waiting' = waiting /\ Notifies(NoEntry) /\ amiss' = Told
  BY DEF Sweeps, SweepTimerRuns, Quiet, Silent
<1>2. /\ waiting \in Seq(Requests) /\ made \in Nat /\ entry \in Entries /\ entry.id \in Nat
      /\ entry.id <= made /\ counts \in [faults : Nat, sweeps : Nat]
  BY DEF Inv, Shape, Entries
<1>3. NoEntry \in Entries /\ NoEntry.id = 0 /\ ~NoEntry.attached
  BY RosterAssumption DEF NoEntry, Entries, Numbers
<1>4. PICK q \in Requests : /\ q = Request("detach", entry.id) /\ q.reason = "detach"
                            /\ q.entry = entry.id
  BY <1>2, Kinds, RequestIs
<1>5. q \in Leaving /\ q \notin Unmade
  <2>1. ~(q.entry > made)
    BY <1>2, <1>4
  <2> QED BY <1>4, <2>1, Kinds, Sorted
<1>6. /\ amiss \ {"untold"} \subseteq amiss' /\ amiss' \subseteq amiss
      /\ \/ /\ waiting' = Append(waiting, q) /\ lease' = lease /\ signals' = signals
         \/ /\ waiting' = waiting /\ lease' = FALSE /\ signals' = TRUE /\ ~entry.attached
  BY <1>1, <1>3, <1>4 DEF Notifies, Told, SyncLease, FollowsWatched
<1>7. /\ waiting' \in Seq(Requests)
      /\ \A P : /\ In(waiting, P) => In(waiting', P)
                /\ In(waiting', P) => In(waiting, P) \/ q \in P
      /\ waiting' = waiting \/ In(waiting', Leaving)
  <2>1. /\ Append(waiting, q) \in Seq(Requests)
        /\ \A P : In(Append(waiting, q), P) <=> In(waiting, P) \/ q \in P
    BY <1>2, AppendPositions, AppendHolds
  <2> QED BY <1>2, <1>5, <1>6, <2>1
<1>8. counts' \in [faults : Nat, sweeps : Nat]
  BY <1>1, <1>2
<1>9. Shape'
  <2>1. entry'.id <= made' /\ (entry'.attached => entry'.id # 0)
    BY <1>1, <1>2, <1>3
  <2>2. lease' \in BOOLEAN /\ signals' \in BOOLEAN
    BY <1>6 DEF Inv, Shape
  <2> QED BY <1>1, <1>3, <1>6, <1>7, <1>8, <2>1, <2>2 DEF Inv, Shape
<1>10. Ids'
  <2>1. Unmade' = Unmade /\ AnswersUnmade' = AnswersUnmade
    BY <1>1 DEF Unmade, AnswersUnmade
  <2> QED BY <1>1, <1>5, <1>7, <2>1 DEF Inv, Ids
<1>11. Offline'
  BY <1>1 DEF Inv, Offline
<1>12. Asking'
  <2>1. q.reason \notin Watching /\ q.reason \notin Steering
    BY <1>4 DEF Watching, Steering, Controls
  <2>2. \A C \in {Watching, Steering} :
          /\ SomeIn(waiting', toDaemon, toHost, armed, C) <=> SomeIn(waiting, toDaemon, toHost, armed, C)
          /\ OneIn(waiting, toDaemon, toHost, armed, C) => OneIn(waiting', toDaemon, toHost, armed, C)
    <3>1. CASE waiting' = waiting
      BY <3>1
    <3>2. CASE waiting' = Append(waiting, q)
      BY <1>2, <2>1, <3>2, AppendPasses
    <3> QED BY <1>6, <3>1, <3>2
  <2>3. AsksIn(waiting', toDaemon, toHost, armed, panel)
    BY <2>2 DEF Inv, Asking, AsksIn
  <2> QED BY <1>1, <2>3 DEF Asking
<1>13. Leased'
  <2>1. In(waiting', Leaving) => Some({"detach"})'
    BY DEF Some, SomeIn, Leaving
  <2>2. lease' => In(waiting', Leaving)
    <3>1. In(Append(waiting, q), Leaving)
      BY <1>2, <1>5, AppendHolds
    <3> QED BY <1>6, <3>1
  <2> QED BY <1>1, <1>3, <2>1, <2>2 DEF Leased
<1>14. SeatLost' /\ DetachAhead'
  BY <1>1, <1>3 DEF SeatLost, Mine, DetachAhead
<1>15. SeatKept'
  <2>1. entry.attached => In(waiting', Leaving)
    <3>1. In(Append(waiting, q), Leaving)
      BY <1>2, <1>5, AppendHolds
    <3> QED BY <1>6, <3>1
  <2>2. Released => Released'
    BY <1>1, <1>7 DEF Released, Some, SomeIn
  <2>3. In(waiting', Leaving) => Released'
    BY DEF Released
  <2> QED BY <1>1, <1>6, <2>1, <2>2, <2>3 DEF Inv, SeatKept
<1> QED BY <1>9, <1>10, <1>11, <1>12, <1>13, <1>14, <1>15 DEF Inv

LEMMA WorkerStopsKeeps ==
  ASSUME Inv, WorkerStops
  PROVE  Inv'
<1>1. /\ ~lease /\ armed = <<>> /\ waiting = <<>> /\ toDaemon = <<>> /\ toHost = <<>>
      /\ wire' = "gone" /\ entry' = NoEntry /\ daemon' = [daemon EXCEPT !.seated = FALSE]
      /\ late' = <<>> /\ amiss' = {}
      /\ UNCHANGED <<waiting, toDaemon, toHost, armed, made, lease, signals, panel, counts>>
      /\ daemon \in Daemons /\ made \in Nat
  BY DEF WorkerStops, Inv, Shape
<1>2. NoEntry \in Entries /\ NoEntry.id = 0 /\ ~NoEntry.attached
  BY RosterAssumption DEF NoEntry, Entries, Numbers
<1>3. daemon' \in Daemons /\ ~daemon'.seated
  BY <1>1 DEF Daemons
<1>4. entry'.id <= made' /\ (entry'.attached => entry'.id # 0)
  BY <1>1, <1>2
<1>5. Shape'
  <2>1. late' \in Seq(Requests)
    BY <1>1, EmptySeq
  <2> QED BY <1>1, <1>2, <1>3, <1>4, <2>1 DEF Inv, Shape
<1>6. Ids'
  BY <1>1 DEF Inv, Ids, Unmade, AnswersUnmade
<1>7. Offline'
  BY <1>1, <1>3, EmptyHolds DEF Offline
<1>8. Asking'
  BY <1>1 DEF Inv, Asking, AsksIn
<1>9. Leased'
  BY <1>1, <1>2 DEF Leased
<1>10. SeatLost' /\ DetachAhead' /\ SeatKept'
  BY <1>1, <1>2, <1>3 DEF SeatLost, Mine, DetachAhead, SeatKept
<1> QED BY <1>5, <1>6, <1>7, <1>8, <1>9, <1>10 DEF Inv

-----------------------------------------------------------------------------
(* The theorems. *)

LEMMA InitHolds ==
  ASSUME Init
  PROVE  Inv
<1>1. /\ daemon = [last |-> 1, seated |-> FALSE, closed |-> FALSE] /\ wire = "gone"
      /\ waiting = <<>> /\ late = <<>> /\ toDaemon = <<>> /\ toHost = <<>> /\ armed = <<>>
      /\ entry = NoEntry /\ made = 0 /\ lease = FALSE /\ signals = FALSE
      /\ panel = [open |-> FALSE, known |-> FALSE, asking |-> FALSE, reply |-> <<>>,
                  dirty |-> FALSE, shown |-> 0, control |-> "none", missed |-> FALSE]
      /\ amiss = {} /\ counts = [faults |-> 0, sweeps |-> 0]
  BY DEF Init
<1>2. 0 \in Numbers /\ 1 \in Numbers
  BY RosterAssumption DEF Numbers
<1>3. NoEntry \in Entries /\ NoEntry.id = 0 /\ ~NoEntry.attached
  BY <1>2 DEF NoEntry, Entries
<1>4. /\ waiting \in Seq(Requests) /\ late \in Seq(Requests) /\ toDaemon \in Seq(Requests)
      /\ toHost \in Seq(Messages) /\ armed \in Seq(Answers) /\ <<>> \in Seq(Numbers \cup {Unavailable, Unknown})
  BY <1>1, EmptySeq
<1>5. daemon \in Daemons /\ ~daemon.seated
  BY <1>1, <1>2 DEF Daemons
<1>6. panel \in Panels /\ panel.reply = <<>> /\ ~panel.asking
  BY <1>1, <1>2, <1>4 DEF Panels
<1>7. Shape
  <2>1. counts \in [faults : Nat, sweeps : Nat] /\ amiss \subseteq Mishaps
    BY <1>1
  <2>2. made \in Nat /\ entry.id <= made
    BY <1>1, <1>3
  <2> QED BY <1>1, <1>3, <1>4, <1>5, <1>6, <2>1, <2>2 DEF Shape
<1>8. Ids
  BY <1>1, EmptyHolds DEF Ids
<1>9. Offline
  BY <1>1, <1>5, EmptyHolds DEF Offline
<1>10. Asking
  BY <1>1, <1>6, EmptyHolds DEF Asking, AsksIn, OneIn, SomeIn
<1>11. SeatLost /\ DetachAhead /\ SeatKept
  BY <1>1, <1>3, <1>5 DEF SeatLost, Cut, DetachAhead, SeatKept
<1>12. Leased
  BY <1>1, <1>3 DEF Leased
<1> QED BY <1>7, <1>8, <1>9, <1>10, <1>11, <1>12 DEF Inv

LEMMA StepKeeps ==
  ASSUME Inv, [Next]_vars
  PROVE  Inv'
<1>1. CASE PanelOpens
  BY <1>1, PanelOpensKeeps
<1>2. CASE PanelCloses
  BY <1>2, PanelClosesKeeps
<1>3. CASE SignalArrives
  BY <1>3, SignalArrivesKeeps
<1>4. CASE RealtimeGap
  BY <1>4, RealtimeGapKeeps
<1>5. CASE ReplyArrives
  BY <1>5, ReplyArrivesKeeps
<1>6. CASE CallFails
  BY <1>6, CallFailsKeeps
<1>7. CASE ControlCalls
  BY <1>7, ControlCallsKeeps
<1>8. CASE DaemonUpdates
  BY <1>8, DaemonUpdatesKeeps
<1>9. CASE WorkerReplaced
  BY <1>9, WorkerReplacedKeeps
<1>10. CASE SessionCloses
  BY <1>10, SessionClosesKeeps
<1>11. CASE DaemonServes
  BY <1>11, DaemonServesKeeps
<1>12. CASE Sends
  BY <1>12, SendsKeeps
<1>13. CASE Dials \/ Reconnects
  BY <1>13, DialsKeeps
<1>14. CASE DialFails
  BY <1>14, DialFailsKeeps
<1>15. CASE Drops
  BY <1>15, DropsKeeps
<1>16. CASE GivesUp
  BY <1>16, GivesUpKeeps
<1>17. CASE HostReads
  BY <1>17, HostReadsKeeps
<1>18. CASE GoesOn
  BY <1>18, GoesOnKeeps
<1>19. CASE Sweeps
  BY <1>19, SweepsKeeps
<1>20. CASE WorkerStops
  BY <1>20, WorkerStopsKeeps
<1>21. CASE SignalLost
  BY <1>21, SignalLostKeeps
<1>22. CASE ServesLate
  BY <1>22, ServesLateKeeps
<1>23. CASE TimesOut
  BY <1>23, TimesOutKeeps
<1>24. CASE UNCHANGED vars
  BY <1>24 DEF vars, net, Inv, Shape, Ids, Unmade, AnswersUnmade, Offline, Asking, AsksIn, SeatLost,
               Cut, Underway, Mine, DetachAhead, SeatKept, Released, Leased, Some
<1> QED BY <1>1, <1>2, <1>3, <1>4, <1>5, <1>6, <1>7, <1>8, <1>9, <1>10, <1>11, <1>12, <1>13,
           <1>14, <1>15, <1>16, <1>17, <1>18, <1>19, <1>20, <1>21, <1>22, <1>23, <1>24 DEF Next

(* The inductive invariant of the roster, its connection and the panel: what *)
(* is under way for the panel's one question and its one control, and why a  *)
(* watched session that lost its seat will hear of it.                       *)
THEOREM RosterInvariant == Spec => []Inv
<1>1. Init => Inv
  BY InitHolds
<1>2. Inv /\ [Next]_vars => Inv'
  BY StepKeeps
<1> QED BY <1>1, <1>2, PTL DEF Spec

(* The places of the requests of a reason. *)
LEMMA PlacesAsked ==
  ASSUME NEW place, NEW rs \in Seq(Requests), NEW reason
  PROVE  /\ Asked(place, rs, reason) # {} <=> In(rs, Of({reason}))
         /\ Once(rs, Of({reason})) => \A x, y \in Asked(place, rs, reason) : x = y
<1>1. \A k \in DOMAIN rs : rs[k].reason = reason <=> rs[k] \in Of({reason})
  BY Positions, Sorts
<1>2. \A x : x \in Asked(place, rs, reason)
             <=> \E k \in DOMAIN rs : rs[k] \in Of({reason}) /\ x = <<place, k>>
  BY <1>1 DEF Asked
<1>3. Asked(place, rs, reason) # {} <=> In(rs, Of({reason}))
  <2>1. ASSUME Asked(place, rs, reason) # {} PROVE In(rs, Of({reason}))
    BY <1>2, <2>1 DEF In
  <2>2. ASSUME In(rs, Of({reason})) PROVE Asked(place, rs, reason) # {}
    <3>1. PICK k \in DOMAIN rs : rs[k] \in Of({reason})
      BY <2>2 DEF In
    <3>2. <<place, k>> \in Asked(place, rs, reason)
      BY <1>2, <3>1
    <3> QED BY <3>2
  <2> QED BY <2>1, <2>2
<1>4. Once(rs, Of({reason})) => \A x, y \in Asked(place, rs, reason) : x = y
  <2> SUFFICES ASSUME Once(rs, Of({reason})), NEW x \in Asked(place, rs, reason), NEW y \in Asked(place, rs, reason)
               PROVE  x = y
    OBVIOUS
  <2>1. PICK j \in DOMAIN rs : rs[j] \in Of({reason}) /\ x = <<place, j>>
    BY <1>2
  <2>2. PICK k \in DOMAIN rs : rs[k] \in Of({reason}) /\ y = <<place, k>>
    BY <1>2
  <2> QED BY <2>1, <2>2 DEF Once
<1> QED BY <1>3, <1>4

LEMMA PlacesAnswered ==
  ASSUME NEW place, NEW ms \in Seq(Messages), NEW reason
  PROVE  /\ Answered(place, ms, reason) # {} <=> In(ms, AnswersOf({reason}))
         /\ Once(ms, AnswersOf({reason})) => \A x, y \in Answered(place, ms, reason) : x = y
<1>1. \A k \in DOMAIN ms : ms[k].type = "answer" /\ ms[k].request.reason = reason
                           <=> ms[k] \in AnswersOf({reason})
  BY Positions, Sorts
<1>2. \A x : x \in Answered(place, ms, reason)
             <=> \E k \in DOMAIN ms : ms[k] \in AnswersOf({reason}) /\ x = <<place, k>>
  BY <1>1 DEF Answered
<1>3. Answered(place, ms, reason) # {} <=> In(ms, AnswersOf({reason}))
  <2>1. ASSUME Answered(place, ms, reason) # {} PROVE In(ms, AnswersOf({reason}))
    BY <1>2, <2>1 DEF In
  <2>2. ASSUME In(ms, AnswersOf({reason})) PROVE Answered(place, ms, reason) # {}
    <3>1. PICK k \in DOMAIN ms : ms[k] \in AnswersOf({reason})
      BY <2>2 DEF In
    <3>2. <<place, k>> \in Answered(place, ms, reason)
      BY <1>2, <3>1
    <3> QED BY <3>2
  <2> QED BY <2>1, <2>2
<1>4. Once(ms, AnswersOf({reason})) => \A x, y \in Answered(place, ms, reason) : x = y
  <2> SUFFICES ASSUME Once(ms, AnswersOf({reason})), NEW x \in Answered(place, ms, reason), NEW y \in Answered(place, ms, reason)
               PROVE  x = y
    OBVIOUS
  <2>1. PICK j \in DOMAIN ms : ms[j] \in AnswersOf({reason}) /\ x = <<place, j>>
    BY <1>2
  <2>2. PICK k \in DOMAIN ms : ms[k] \in AnswersOf({reason}) /\ y = <<place, k>>
    BY <1>2
  <2> QED BY <2>1, <2>2 DEF Once
<1> QED BY <1>3, <1>4

LEMMA PendingCounts ==
  ASSUME Shape, NEW reason
  PROVE  /\ Pending(reason) # {} <=> Some({reason})
         /\ One({reason}) => Cardinality(Pending(reason)) = IF Some({reason}) THEN 1 ELSE 0
<1>1. /\ waiting \in Seq(Requests) /\ toDaemon \in Seq(Requests)
      /\ toHost \in Seq(Messages) /\ armed \in Seq(Messages)
  <2>1. armed \in Seq(Answers) /\ Answers \subseteq Messages
    BY Sorts DEF Shape
  <2>2. \A k \in DOMAIN armed : armed[k] \in Messages
    BY <2>1, Positions
  <2>3. Len(armed) \in Nat /\ DOMAIN armed = 1..Len(armed) /\ armed = [k \in 1..Len(armed) |-> armed[k]]
    BY <2>1, LenProperties
  <2>4. armed \in [1..Len(armed) -> Messages]
    BY <2>2, <2>3
  <2>5. Seq(Messages) = UNION {[1..n -> Messages] : n \in Nat}
    BY SeqDef
  <2>6. armed \in Seq(Messages)
    BY <2>3, <2>4, <2>5
  <2> QED BY <2>6 DEF Shape
<1>2. PICK w, d, h, a : /\ w = Asked("waiting", waiting, reason)
                        /\ d = Asked("toDaemon", toDaemon, reason)
                        /\ h = Answered("toHost", toHost, reason)
                        /\ a = Answered("armed", armed, reason)
  OBVIOUS
<1>3. Pending(reason) = w \cup d \cup h \cup a
  BY <1>2 DEF Pending
<1>4. /\ w # {} <=> In(waiting, Of({reason}))
      /\ d # {} <=> In(toDaemon, Of({reason}))
      /\ h # {} <=> In(toHost, AnswersOf({reason}))
      /\ a # {} <=> In(armed, AnswersOf({reason}))
  BY <1>1, <1>2, PlacesAsked, PlacesAnswered
<1>5. Pending(reason) # {} <=> Some({reason})
  BY <1>3, <1>4 DEF Some, SomeIn
<1>6. ASSUME One({reason}) PROVE Cardinality(Pending(reason)) = IF Some({reason}) THEN 1 ELSE 0
  <2>1. /\ \A x, y \in w : x = y
        /\ \A x, y \in d : x = y
        /\ \A x, y \in h : x = y
        /\ \A x, y \in a : x = y
    BY <1>1, <1>2, <1>6, PlacesAsked, PlacesAnswered DEF One, OneIn
  <2>2. /\ ~(w # {} /\ d # {}) /\ ~(w # {} /\ h # {}) /\ ~(w # {} /\ a # {})
        /\ ~(d # {} /\ h # {}) /\ ~(d # {} /\ a # {}) /\ ~(h # {} /\ a # {})
    BY <1>4, <1>6 DEF One, OneIn
  <2>3. \A x, y \in Pending(reason) : x = y
    BY <1>3, <2>1, <2>2
  <2>4. CASE Pending(reason) = {}
    BY <1>5, <2>4, FS_EmptySet
  <2>5. CASE Pending(reason) # {}
    <3>1. PICK x : x \in Pending(reason)
      BY <2>5
    <3>2. Pending(reason) = {x}
      BY <2>3, <3>1
    <3> QED BY <1>5, <2>5, <3>2, FS_Singleton
  <2> QED BY <2>4, <2>5
<1> QED BY <1>5, <1>6

(* The types, and that a panel that waits for an answer has exactly one      *)
(* request or one reply on its way, and one that does not has none: neither  *)
(* a drop, a dial that fails nor a refusal loses the panel's question.       *)
THEOREM RosterTypeCorrect == Spec => []TypeOK
<1>1. Inv => TypeOK
  <2> SUFFICES ASSUME Inv PROVE TypeOK
    OBVIOUS
  <2>1. Shape /\ Asking
    BY DEF Inv
  <2>2. entry \in [id : 0..made, attached : BOOLEAN, children : Numbers]
    <3>1. entry \in Entries /\ entry.id <= made /\ made \in Nat
      BY <2>1 DEF Shape
    <3> QED BY <3>1 DEF Entries
  <2>3. panel \in Panels /\ panel.shown \in Numbers \cup {Unavailable} /\ panel.asking \in BOOLEAN
    BY <2>1 DEF Shape, Panels
  <2>4. Len(<<>>) = 0
    OBVIOUS
  <2>5. Cardinality(Pending("watch")) = IF Some({"watch"}) THEN 1 ELSE 0
    BY <2>1, PendingCounts DEF Asking, AsksIn, Watching, One
  <2>6. Cardinality(Pending("watch")) + Len(panel.reply) = IF panel.asking THEN 1 ELSE 0
    <3>1. /\ panel.asking => (Some({"watch"}) /\ panel.reply = <<>>)
                             \/ (~Some({"watch"}) /\ Len(panel.reply) = 1)
          /\ ~panel.asking => ~Some({"watch"}) /\ panel.reply = <<>>
      BY <2>1 DEF Asking, AsksIn, Watching, Some
    <3>2. panel.reply = <<>> => Len(panel.reply) = 0
      BY <2>4
    <3>3. CASE panel.asking /\ Some({"watch"})
      BY <2>5, <3>1, <3>2, <3>3
    <3>4. CASE panel.asking /\ ~Some({"watch"})
      <4>1. Len(panel.reply) = 1
        BY <3>1, <3>4
      <4>2. Cardinality(Pending("watch")) = 0
        BY <2>5, <3>4
      <4> QED BY <3>4, <4>1, <4>2
    <3>5. CASE ~panel.asking
      BY <2>5, <3>1, <3>2, <3>5
    <3> QED BY <3>3, <3>4, <3>5
  <2> QED BY <2>1, <2>2, <2>3, <2>6 DEF Shape, TypeOK, Daemons
<1> QED BY <1>1, RosterInvariant, PTL

(* The worker is leased while the roster relies on pushes, and no longer     *)
(* than a session is watched or being let go, or until somebody is told of   *)
(* an entry taken out in silence; and when nothing is under way, a session   *)
(* held as attached has its seat, unless an attach of it failed after it was *)
(* attached, and a seat is that of an attached entry, unless nobody waited   *)
(* for the attach that made it or its detach was refused.                    *)
THEOREM WatchedStaysHeld == Spec => []WatchedIsHeld
<1>1. Inv => WatchedIsHeld
  <2> SUFFICES ASSUME Inv PROVE WatchedIsHeld
    OBVIOUS
  <2>1. entry.attached => lease
    BY DEF Inv, Leased
  <2>2. lease /\ entry.id = 0 => Pending("detach") # {} \/ "untold" \in amiss
    BY PendingCounts DEF Inv, Leased
  <2>3. ASSUME AtRest, entry.attached PROVE daemon.seated \/ "unseated" \in amiss
    BY <2>3, EmptyHolds DEF AtRest, Inv, SeatLost, Cut, Underway
  <2>4. ASSUME AtRest, daemon.seated
        PROVE  entry.attached \/ "stray" \in amiss
    BY <2>4, EmptyHolds DEF AtRest, Inv, SeatKept, Released, Some, SomeIn
  <2> QED BY <2>1, <2>2, <2>3, <2>4 DEF WatchedIsHeld
<1> QED BY <1>1, RosterInvariant, PTL
=============================================================================
