---------------------------- MODULE SessionStream ----------------------------
(***************************************************************************)
(* How a lane (src/prime-session.ts) turns what the daemon pushes into one *)
(* stream: attach() takes a snapshot, whose cursor is the boundary between *)
(* what is in it and what streams; pushes that arrive before are buffered; *)
(* a replaced worker or a lost wire makes the lane attach again; and two   *)
(* filters, isStale by cursor and deliver's by sequence, keep an event     *)
(* from being shown twice.                                                 *)
(*                                                                         *)
(* One socket chunk may hold several lines.  The lines are handled         *)
(* synchronously, and what awaits an answer goes on after the last of      *)
(* them: an answer that was read is `armed` until then, and neither the    *)
(* daemon nor the wire takes a step meanwhile.  prime's daemon is external. *)
(***************************************************************************)
EXTENDS Integers, Sequences, SequencesExt

CONSTANTS
  MaxEvents,    \* session events in a behaviour
  MaxGens,      \* event generations: a replaced worker starts a new one
  MaxDrops,     \* losses of the wire
  MaxReplays,   \* events the daemon sends a second time
  MaxRefusals   \* attaches the daemon refuses

ASSUME BoundsAssumption ==
  /\ MaxEvents \in Nat \ {0} /\ MaxGens \in Nat \ {0} /\ MaxDrops \in Nat
  /\ MaxReplays \in Nat /\ MaxRefusals \in Nat

VARIABLES
  clock,     \* which clocks the daemon's events and answers carry
  events,    \* the cursors of the session's events so far, oldest first
  now,       \* the daemon's cursor for the session
  seated,    \* the daemon streams the session to this client
  serving,   \* the attach the daemon works on
  wire,      \* the shared connection: up or down
  toDaemon,  \* attaches on the socket
  toLane,    \* answers and pushes on the socket
  asks,      \* the attach() calls that have not gone on yet, oldest first
  armed,     \* the answers to the first of them, which were read
  lane,      \* attached, closed, boundary, last (Sequence), buffered
  shown,     \* the events delivered to the translator (history)
  rendered,  \* how many events the first snapshot held (history)
  base,      \* how many events the last snapshot held (history)
  counts     \* how often each bounded thing has happened

daemon == <<clock, events, now, seated, serving>>
net == <<wire, toDaemon, toLane>>
vars == <<daemon, net, asks, armed, lane, shown, rendered, base, counts>>

(* Why an attach is asked for: by start(), by a push that says the worker   *)
(* was replaced, by the wire coming back.                                   *)
Reasons == {"start", "replaced", "restored"}
Clocks == {"both", "cursor", "sequence"}
NoCursor == [generation |-> 0, sequence |-> -1]
Cursors == [generation : 1..MaxGens, sequence : 0..MaxEvents]
Events == 1..Len(events)

NotServing == [phase |-> "none", reason |-> "start", upTo |-> 0, at |-> NoCursor]
Event(n) == [type |-> "session_event", n |-> n, ok |-> TRUE, at |-> NoCursor]
Replaced == [type |-> "session_replaced", n |-> 0, ok |-> TRUE, at |-> NoCursor]
Attached(n, ok, at) == [type |-> "attach", n |-> n, ok |-> ok, at |-> at]

-----------------------------------------------------------------------------
(* The lane's filters, on the lane and what it has shown. *)
Cursor(n) == IF clock = "sequence" THEN NoCursor ELSE events[n]
HasSequence == clock # "cursor"

(* isStale: at or before the boundary in its generation; an event of        *)
(* another generation moves the boundary to itself and is live.             *)
Stale(l, n) ==
  /\ Cursor(n) # NoCursor /\ l.boundary # NoCursor
  /\ Cursor(n).generation = l.boundary.generation
  /\ Cursor(n).sequence <= l.boundary.sequence
StaleByOneMore(l, n) ==
  /\ Cursor(n) # NoCursor /\ l.boundary # NoCursor
  /\ Cursor(n).generation = l.boundary.generation
  /\ Cursor(n).sequence <= l.boundary.sequence + 1
IsStale(l, n) == Stale(l, n)
MovesBoundary(l, n) ==
  /\ Cursor(n) # NoCursor /\ l.boundary # NoCursor
  /\ Cursor(n).generation # l.boundary.generation

(* deliver: the sequence decides. *)
Repeats(l, n) == HasSequence /\ l.last >= 0 /\ events[n].sequence <= l.last
NeverRepeats(l, n) == FALSE
IsRepeat(l, n) == Repeats(l, n)

Deliver(x, n) ==
  IF IsRepeat(x.lane, n) THEN x
  ELSE [lane |-> IF HasSequence THEN [x.lane EXCEPT !.last = events[n].sequence] ELSE x.lane,
        shown |-> Append(x.shown, n)]
Filter(x, n) ==
  IF IsStale(x.lane, n) THEN x
  ELSE Deliver(IF MovesBoundary(x.lane, n) THEN [x EXCEPT !.lane.boundary = Cursor(n)] ELSE x, n)

-----------------------------------------------------------------------------
NewLane == [attached |-> FALSE, closed |-> FALSE, boundary |-> NoCursor, last |-> -1,
            buffered |-> <<>>]

(* A session of some events, and the lane that start() or a resume makes    *)
(* for it: its attach is on the socket.                                     *)
Init ==
  /\ clock \in Clocks
  /\ \E n \in 0..1 :
       /\ events = [i \in 1..n |-> [generation |-> 1, sequence |-> i]]
       /\ now = [generation |-> 1, sequence |-> n]
  /\ seated = FALSE /\ serving = NotServing
  /\ wire = "up" /\ toDaemon = <<"start">> /\ toLane = <<>>
  /\ asks = <<"start">> /\ armed = <<>>
  /\ lane = NewLane /\ shown = <<>> /\ rendered = 0 /\ base = 0
  /\ counts = [drops |-> 0, replays |-> 0, refusals |-> 0, restarts |-> 0, early |-> 0,
                rewound |-> FALSE]

Push(msg) == toLane' = IF seated THEN Append(toLane, msg) ELSE toLane
LaneRests == UNCHANGED <<asks, armed, lane, shown, rendered, base>>
DaemonActs == wire = "up" /\ armed = <<>>

Emits ==
  /\ armed = <<>> /\ Len(events) < MaxEvents
  /\ now' = [now EXCEPT !.sequence = @ + 1]
  /\ events' = Append(events, now')
  /\ Push(Event(Len(events) + 1))
  /\ LaneRests /\ UNCHANGED <<clock, seated, serving, wire, toDaemon, counts>>

(* A respawned session replays what the snapshot holds. *)
Replays ==
  /\ DaemonActs /\ seated /\ counts.replays < MaxReplays
  /\ counts' = [counts EXCEPT !.replays = @ + 1]
  /\ \E n \in Events :
       /\ n <= serving.upTo /\ events[n].generation = now.generation
       /\ Push(Event(n))
  /\ LaneRests /\ UNCHANGED <<daemon, wire, toDaemon>>

(* A new worker, or a new daemon while the wire is down: a new generation,  *)
(* whose sequence goes on or starts over.                                   *)
Replaces ==
  /\ armed = <<>> /\ now.generation < MaxGens
  /\ \E s \in {0, now.sequence} :
       /\ now' = [generation |-> now.generation + 1, sequence |-> s]
       /\ counts' = [counts EXCEPT !.restarts = @ + (IF s < now.sequence THEN 1 ELSE 0),
                                   !.early = @ + (IF lane.attached THEN 0 ELSE 1)]
  /\ Push(Replaced)
  /\ LaneRests /\ UNCHANGED <<clock, events, seated, serving, wire, toDaemon>>

(* The daemon seats the client, takes the snapshot, and answers. *)
Seats ==
  /\ DaemonActs /\ serving.phase = "none" /\ toDaemon # <<>>
  /\ serving' = [phase |-> "seated", reason |-> Head(toDaemon), upTo |-> 0, at |-> NoCursor]
  /\ toDaemon' = Tail(toDaemon)
  /\ seated' = TRUE
  /\ LaneRests /\ UNCHANGED <<clock, events, now, wire, toLane, counts>>

Snapshots ==
  /\ DaemonActs /\ serving.phase = "seated"
  /\ serving' = [serving EXCEPT !.phase = "taken", !.upTo = Len(events), !.at = now]
  /\ LaneRests /\ UNCHANGED <<clock, events, now, seated, net, counts>>

Answers ==
  /\ DaemonActs /\ serving.phase = "taken"
  /\ toLane' = Append(toLane, Attached(serving.upTo, TRUE, serving.at))
  /\ serving' = [serving EXCEPT !.phase = "none"]
  /\ LaneRests /\ UNCHANGED <<clock, events, now, seated, wire, toDaemon, counts>>

Refuses ==
  /\ DaemonActs /\ serving.phase = "none" /\ toDaemon # <<>>
  /\ counts.refusals < MaxRefusals
  /\ counts' = [counts EXCEPT !.refusals = @ + 1]
  /\ toDaemon' = Tail(toDaemon)
  /\ toLane' = Append(toLane, Attached(0, FALSE, NoCursor))
  /\ LaneRests /\ UNCHANGED <<daemon, wire>>

-----------------------------------------------------------------------------
(* An attach that fails: start() throws and its record is dropped, the      *)
(* attach of a replaced worker closes the lane, the one of a restored wire  *)
(* leaves the lane waiting.                                                 *)
ClosesLane(reasons) == reasons \cap {"start", "replaced"} # {}

AttachTo(reason) ==
  asks' = Append(asks, reason) /\ toDaemon' = Append(toDaemon, reason)

ReadsAnswer(msg) ==
  armed' = Append(armed, msg) /\ UNCHANGED <<asks, lane, shown, toDaemon>>

ReadsReplaced == AttachTo("replaced") /\ UNCHANGED <<armed, lane, shown>>

ReadsEvent(n) ==
  /\ IF lane.attached
     THEN LET x == Filter([lane |-> lane, shown |-> shown], n)
          IN lane' = x.lane /\ shown' = x.shown
     ELSE lane' = [lane EXCEPT !.buffered = Append(@, n)] /\ UNCHANGED shown
  /\ UNCHANGED <<asks, armed, toDaemon>>

(* handlePush, and the client's answers: a closed lane hears nothing.       *)
LaneReads ==
  /\ wire = "up" /\ toLane # <<>>
  /\ toLane' = Tail(toLane)
  /\ LET msg == Head(toLane) IN
       \/ msg.type = "attach" /\ ReadsAnswer(msg)
       \/ msg.type = "session_replaced" /\ ~lane.closed /\ ReadsReplaced
       \/ msg.type = "session_event" /\ ~lane.closed /\ ReadsEvent(msg.n)
       \/ /\ msg.type # "attach" /\ lane.closed
          /\ UNCHANGED <<asks, armed, lane, shown, toDaemon>>
  /\ UNCHANGED <<daemon, wire, rendered, base, counts>>

(* attach() goes on, for every answer that the chunk held: each sets the    *)
(* boundary and the sequence before the first of them, back from            *)
(* ensureConnected(), delivers what was buffered, so the last one's decide  *)
(* what of it is dropped.  A refused attach() only fails.                   *)
DeliverAll(x, ns) ==
  LET after[k \in 0..Len(ns)] == IF k = 0 THEN x ELSE Filter(after[k - 1], ns[k])
  IN after[Len(ns)]
BoundaryOf(msg) == IF clock = "sequence" THEN NoCursor ELSE msg.at
NextSequence(msg) == IF clock = "cursor" THEN -1 ELSE msg.at.sequence + 1
LastSequenceOf(msg) == IF clock = "cursor" THEN -1 ELSE msg.at.sequence

IsLast(k) == armed[k].ok /\ \A j \in DOMAIN armed : armed[j].ok => j <= k
Failed == {asks[k] : k \in {j \in DOMAIN armed : ~armed[j].ok}}
Closing == [lane EXCEPT !.closed = @ \/ ClosesLane(Failed)]

Attaches(msg) ==
  LET fresh == [Closing EXCEPT !.boundary = BoundaryOf(msg), !.last = LastSequenceOf(msg),
                               !.buffered = <<>>, !.attached = TRUE]
      x == DeliverAll([lane |-> fresh, shown |-> shown], lane.buffered)
  IN /\ lane' = x.lane /\ shown' = x.shown
     /\ base' = msg.n
     /\ rendered' = IF lane.attached THEN rendered ELSE msg.n
     /\ counts' = [counts EXCEPT !.rewound = @ \/ \E k \in DOMAIN shown : shown[k] > msg.n]
Fails == lane' = Closing /\ UNCHANGED <<shown, base, rendered, counts>>

Arms ==
  /\ armed # <<>> /\ armed' = <<>>
  /\ asks' = SubSeq(asks, Len(armed) + 1, Len(asks))
  /\ \/ \E k \in DOMAIN armed : IsLast(k) /\ Attaches(armed[k])
     \/ (\A k \in DOMAIN armed : ~armed[k].ok) /\ Fails
  /\ UNCHANGED <<daemon, net>>

Lost ==
  /\ wire = "up" /\ armed = <<>> /\ counts.drops < MaxDrops
  /\ counts' = [counts EXCEPT !.drops = @ + 1]
  /\ wire' = "down" /\ toDaemon' = <<>> /\ toLane' = <<>>
  /\ seated' = FALSE /\ serving' = NotServing
  /\ asks' = <<>>
  /\ lane' = [lane EXCEPT !.closed = @ \/ ClosesLane(ToSet(asks))]
  /\ UNCHANGED <<clock, events, now, armed, shown, rendered, base>>

WaitsForPush == UNCHANGED <<asks, toDaemon>>
Rejoins == IF lane.closed THEN UNCHANGED <<asks, toDaemon>> ELSE AttachTo("restored")
Restored ==
  /\ wire = "down" /\ wire' = "up"
  /\ Rejoins
  /\ UNCHANGED <<daemon, toLane, armed, lane, shown, rendered, base, counts>>

Next ==
  \/ Emits \/ Replays \/ Replaces \/ Seats \/ Snapshots \/ Answers \/ Refuses
  \/ LaneReads \/ Arms \/ Lost \/ Restored

Spec == Init /\ [][Next]_vars

(* The daemon serves what it reads, a socket delivers, a promise that is    *)
(* resolved goes on, and the client's reconnect loop finds the daemon.      *)
Fairness == WF_vars(Seats) /\ WF_vars(Snapshots) /\ WF_vars(Answers)
            /\ WF_vars(LaneReads) /\ WF_vars(Arms) /\ WF_vars(Restored)
FairSpec == Spec /\ Fairness

-----------------------------------------------------------------------------
MessageTypes == {"session_event", "session_replaced", "attach"}
TypeOK ==
  /\ clock \in Clocks /\ events \in Seq(Cursors) /\ now \in Cursors
  /\ seated \in BOOLEAN /\ wire \in {"up", "down"}
  /\ toDaemon \in Seq(Reasons) /\ asks \in Seq(Reasons)
  /\ \A k \in DOMAIN toLane : toLane[k].type \in MessageTypes /\ toLane[k].n \in 0..Len(events)
  /\ lane.boundary \in Cursors \cup {NoCursor} /\ lane.last \in -1..MaxEvents
  /\ lane.buffered \in Seq(Events)
  /\ shown \in Seq(Events) /\ rendered \in 0..Len(events) /\ base \in 0..Len(events)

(* What a step shows is new: the last snapshot does not hold it, whatever   *)
(* clock the events carry, whatever the daemon sends again and however      *)
(* often the lane attaches; and it comes after all that was shown, once and *)
(* in order, with one exception.  When the daemon does send an event again, *)
(* the boundary alone does not know what was shown since, so Filtered asks  *)
(* for the sequence then, and that no snapshot came in that was older than  *)
(* what was shown by then, which takes lastSequence back.  A worker that is *)
(* replaced before the first answer was read (`early`) is spared: isStale   *)
(* takes what is buffered of the older generation as live.                  *)
Filtered == counts.replays = 0 \/ (HasSequence /\ ~counts.rewound)
ShowsNew ==
  counts'.early = 0 =>
    \A i \in DOMAIN shown' \ DOMAIN shown :
      /\ shown'[i] > base'
      /\ Filtered' => \A j \in DOMAIN shown' : j < i => shown'[j] < shown'[i]
ShownOnceInOrder == [][ShowsNew]_vars

CaughtUp ==
  /\ wire = "up" /\ seated /\ lane.attached /\ ~lane.closed
  /\ toLane = <<>> /\ asks = <<>> /\ armed = <<>>

(* A lane that has read all there is has shown every event since its last   *)
(* snapshot; and every event since its first one, if the wire never dropped. *)
NothingSkipped ==
  CaughtUp => \A n \in Events :
    n > base \/ (n > rendered /\ counts.drops = 0) => n \in ToSet(shown)
NothingLost == counts.restarts = 0 => NothingSkipped

(* A lane nobody refuses and no drop cuts off catches up with its session.  *)
StreamResumes ==
  []<>(CaughtUp \/ lane.closed \/ counts.refusals > 0)
=============================================================================
