------------------------------ MODULE Timeline ------------------------------
(***************************************************************************)
(* The timeline of one bb thread: a lane (src/prime-session.ts) translates *)
(* what prime streams (Translation, src/delta-translation.ts) and adds the *)
(* deltas of its own, when bb interrupts, when the wire drops and when     *)
(* prime refuses a compaction; bb's assembler folds them into rows and     *)
(* turns.  Delivery is synchronous here: what the lane does with events    *)
(* that are late, repeated or out of order is SessionStream's subject.     *)
(*                                                                         *)
(* prime and bb are external.  prime numbers its runs, and a manual        *)
(* compaction counts as a run: the numbers let a property say which turn a *)
(* boundary was meant for, the code never sees them.                       *)
(***************************************************************************)
EXTENDS Translation, FiniteSets

CONSTANTS
  MaxRuns,    \* runs and manual compactions in a behaviour
  MaxTurns,   \* prompts bb sends
  MaxDrops,   \* losses of the wire
  MaxQueues,  \* changes of prime's waiting lanes
  MaxKinds,   \* kinds of things a session streams, of Kinds
  MaxUpsets   \* adverse things in a behaviour, of Upsets

ASSUME BoundsAssumption ==
  /\ MaxRuns \in Nat \ {0} /\ MaxTurns \in Nat /\ MaxDrops \in Nat
  /\ MaxQueues \in Nat /\ MaxKinds \in Nat /\ MaxUpsets \in Nat

VARIABLES
  state,      \* the translator's ThreadState
  openTurn,   \* this.openTurn: none, open or settled (settledLocally)
  compact,    \* compactManually() under way, with the run it asks for
  started,    \* this.compactionStarted
  abort,      \* interrupt() under way: the deltas it computed, and for which turn
  wire,       \* down, up, or deaf: back, and the lane's re-attach was refused
  told,       \* the lane knows the queue since it last attached (history)
  prime,      \* what the session does
  bb,         \* what bb's assembler made of the deltas
  upset,      \* the adverse things that have happened (history)
  counts      \* how often each bounded thing has happened

vars == <<state, openTurn, compact, started, abort, wire, told, prime, bb, upset, counts>>

Kinds == {"text", "tool", "child", "queue"}
Idle == 0
NoAbort == [deltas |-> <<>>, turn |-> -1]
ChildStatus == Live \cup {"none", "done"}
Payloads == Waiting \cup {Drained}

(* What can upset a timeline:                                               *)
(*   unowned   a run starts although the lane's last turn is settled        *)
(*   reprompt  bb sends a turn before the run it interrupted has ended      *)
(*   crossing  a run or compaction starts before an abort's answer          *)
(*   unheld    the lane settles a turn it does not own: bb interrupts it, or *)
(*             it is a compaction's and the lane has a prompt waiting        *)
(*   cut       the wire drops in a run or a turn the lane does not own      *)
(*   refused   prime refuses a compaction bb shows a turn for, or a busy one *)
(*   blind     a compaction begins that the lane does not see: the session  *)
(*             is adopted in the middle of it, or the wire is down          *)
(*   midtool   the session is adopted in the middle of a tool call          *)
(*   child     a child changes while the lane is not attached                *)
Upsets == { "unowned", "reprompt", "crossing", "unheld", "cut", "refused",
            "blind", "midtool", "child" }
Upset(kind, happens) == IF happens THEN {kind} ELSE {}
Suffers(kinds) ==
  upset' = upset \cup kinds /\ Cardinality(upset \cup kinds) <= MaxUpsets

Rows == [key : Channels \cup Tools \cup Children \cup {"compaction"}, shape : {"started", "named"}]
          \cup [key : Rendered, shape : {"rendered"}]

-----------------------------------------------------------------------------
(* bb's assembler, as the translator's comments describe it: a boundary     *)
(* closes the turn and the rows of it, a background child's row outlives    *)
(* the turn, and a boundary that claims an idle thread makes a turn to close. *)
(* What a transcript rendered is of an earlier turn.                        *)
KeyIs(key) == {row \in Rows : row.key = key}
Outlives(rows) == {row \in rows : row.key \in Children \/ row.shape = "rendered"}

Apply(run, b, d) ==
  CASE d.kind = "turn.open" -> [b EXCEPT !.turn = run]
    [] d.kind = "turn.boundary" /\ b.turn # Idle ->
         [b EXCEPT !.turn = Idle, !.rows = Outlives(@), !.closed = @ \cup {b.turn},
                   !.mixed = @ \/ b.turn # run]
    [] d.kind = "turn.boundary" /\ b.turn = Idle /\ d.claim ->
         [b EXCEPT !.closed = @ \cup ({run} \ {Idle}), !.twice = @ \/ run \in b.closed]
    [] d.kind = "turn.boundary" /\ b.turn = Idle /\ ~d.claim -> b
    [] d.kind = "item.open" ->
         [b EXCEPT !.rows = (@ \ KeyIs(d.key)) \cup {[key |-> d.key, shape |-> d.shape]}]
    [] d.kind = "item.close" ->
         [b EXCEPT !.rows = @ \ KeyIs(d.key),
                   !.reshaped = @ \/ \E row \in b.rows : row.key = d.key /\ row.shape # d.shape]
    [] d.kind = "item.textDelta" ->
         [b EXCEPT !.rows = (@ \ KeyIs(d.key)) \cup {[key |-> d.key, shape |-> "started"]}]
    [] d.kind = "item.textClose" -> [b EXCEPT !.rows = @ \ KeyIs(d.key)]
    [] d.kind = "extension.state" -> [b EXCEPT !.queue = d.payload]

Assembled(b, deltas, run) ==
  LET after[i \in 0..Len(deltas)] == IF i = 0 THEN b ELSE Apply(run, after[i - 1], deltas[i])
  IN after[Len(deltas)]

NewTimeline == [turn |-> Idle, rows |-> {}, queue |-> Drained, closed |-> {},
                mixed |-> FALSE, twice |-> FALSE, reshaped |-> FALSE]

(* pushDeltas: what the translator answered, emitted for a run. *)
Emit(a, run) == state' = a.state /\ bb' = Assembled(bb, a.deltas, run)

HasOpenTurn == openTurn = "open"

-----------------------------------------------------------------------------
(* The lane has just attached: to a session it created, or to one it        *)
(* adopts, whose transcript and children it puts on the timeline.  A queue  *)
(* the daemon fails to answer is not shown (attach swallows the failure).   *)
Created == [run |-> Idle, last |-> Idle, kind |-> "none", owed |-> 0, asked |-> Idle,
            texts |-> {}, tools |-> {},
            compacting |-> FALSE, children |-> [c \in Children |-> "none"], queue |-> Drained,
            streams |-> Kinds]

Begins(p, shown, answered) ==
  LET known == [c \in {x \in Children : p.children[x] # "none"} |-> p.children[c]]
      children == childrenDeltas(stateFor, known)
      waiting == IF p.queue = Drained \/ ~answered THEN Answer(children.state, <<>>)
                 ELSE queueUpdateDeltas(children.state, p.queue)
  IN /\ prime = p /\ told = (answered \/ p.queue = Drained)
     /\ state = waiting.state
     /\ bb = Assembled(NewTimeline,
               snapshotDeltas(shown, p.tools, {}) \o children.deltas \o waiting.deltas, Idle)
     /\ upset = Upset("blind", p.compacting) \cup Upset("midtool", p.tools # {})

Sessions == {p \in [run : {1}, last : {1}, kind : {"prompt"}, owed : {0}, asked : {Idle},
                    texts : {{}}, tools : SUBSET Tools, compacting : BOOLEAN,
                    children : [Children -> {"none", "running", "done"}], queue : Payloads,
                    streams : {k \in SUBSET Kinds : Cardinality(k) = MaxKinds}] :
               /\ p.tools # {} => "tool" \in p.streams
               /\ p.queue # Drained => "queue" \in p.streams
               /\ (\E c \in Children : p.children[c] # "none") => "child" \in p.streams}

Init ==
  /\ \E answered \in BOOLEAN :
       \/ \E k \in SUBSET Kinds :
            Cardinality(k) = MaxKinds /\ Begins([Created EXCEPT !.streams = k], {}, answered)
       \/ \E p \in Sessions, shown \in SUBSET Rendered :
            (shown # {} => "text" \in p.streams) /\ Begins(p, shown, answered)
  /\ openTurn = "none" /\ compact = Idle /\ started = FALSE /\ abort = NoAbort
  /\ wire = "up"
  /\ counts = [turns |-> 0, drops |-> 0, queues |-> 0]

(* prime streams an event to the lane: trackSessionFacts, deliver, translate. *)
Streams == wire = "up"
Quietly == UNCHANGED <<openTurn, compact, started, abort, wire, told, upset, counts>>

RunStarts ==
  /\ prime.run = Idle /\ prime.last < MaxRuns
  /\ \E owed \in {0, 1} :
       /\ owed <= prime.owed
       /\ prime' = [prime EXCEPT !.run = prime.last + 1, !.last = prime.last + 1,
                                 !.kind = "prompt", !.owed = @ - owed]

StartRun ==
  /\ Streams /\ ~prime.compacting
  /\ RunStarts
  /\ Emit(Answer(state, <<TurnOpen>>), prime.last + 1)
  /\ Suffers(Upset("unowned", openTurn = "settled")
                    \cup Upset("crossing", abort # NoAbort))
  /\ UNCHANGED <<openTurn, compact, started, abort, wire, told, counts>>

StreamsText ==
  /\ Streams /\ "text" \in prime.streams /\ prime.kind = "prompt"
  /\ \E c \in Channels :
       \/ /\ prime' = [prime EXCEPT !.texts = @ \cup {c}]
          /\ Emit(textDelta(state, c), prime.run)
       \/ /\ c \in prime.texts
          /\ prime' = [prime EXCEPT !.texts = @ \ {c}]
          /\ Emit(textClose(state, c), prime.run)
  /\ Quietly

StreamsTool ==
  /\ Streams /\ "tool" \in prime.streams /\ prime.kind = "prompt"
  /\ \E tool \in Tools :
       \/ /\ tool \notin prime.tools
          /\ prime' = [prime EXCEPT !.tools = @ \cup {tool}]
          /\ Emit(toolStart(state, tool), prime.run)
       \/ /\ tool \in prime.tools
          /\ prime' = [prime EXCEPT !.tools = @ \ {tool}]
          /\ Emit(toolEnd(state, tool), prime.run)
  /\ Quietly

(* A run ends once its tools have; texts may be cut short by an abort.      *)
EndRun ==
  /\ Streams /\ prime.kind = "prompt" /\ prime.tools = {} /\ ~prime.compacting
  /\ prime' = [prime EXCEPT !.run = Idle, !.kind = "none", !.texts = {}]
  /\ Emit(agentEnd(state, openTurn = "settled"), prime.run)
  /\ openTurn' = IF HasOpenTurn THEN "settled" ELSE openTurn
  /\ UNCHANGED <<compact, started, abort, wire, told, upset, counts>>

(* prime compacts on its own, in a run or between two: no turn is its own. *)
CompactsItself ==
  /\ Streams /\ prime.kind # "compact"
  /\ \/ /\ ~prime.compacting
        /\ prime' = [prime EXCEPT !.compacting = TRUE]
        /\ Emit(compactionStart(state, FALSE), Idle)
        /\ started' = TRUE
     \/ /\ prime.compacting
        /\ prime' = [prime EXCEPT !.compacting = FALSE]
        /\ \E skipped \in BOOLEAN : Emit(compactionEnd(state, skipped), Idle)
        /\ started' = FALSE
  /\ UNCHANGED <<openTurn, compact, abort, wire, told, upset, counts>>

ChildChanges ==
  /\ Streams /\ "child" \in prime.streams
  /\ \E c \in Children, s \in {"running", "done"} :
       /\ prime.children[c] \in Live \cup {"none"}
       /\ prime' = [prime EXCEPT !.children[c] = s]
       /\ Emit(childDeltas(state, c, s), prime.run)
  /\ Quietly

QueueChanges ==
  /\ Streams /\ "queue" \in prime.streams /\ counts.queues < MaxQueues
  /\ counts' = [counts EXCEPT !.queues = @ + 1]
  /\ \E q \in Payloads :
       /\ prime' = [prime EXCEPT !.queue = q]
       /\ Emit(queueUpdateDeltas(state, q), prime.run)
  /\ told' = TRUE
  /\ UNCHANGED <<openTurn, compact, started, abort, wire, upset>>

-----------------------------------------------------------------------------
(* turn(): a new open turn; prime runs the prompt when it is idle.          *)
Turn ==
  /\ Streams /\ counts.turns < MaxTurns
  /\ counts' = [counts EXCEPT !.turns = @ + 1]
  /\ Suffers(Upset("reprompt", openTurn = "settled" /\ prime.run # Idle))
  /\ openTurn' = "open"
  /\ prime' = [prime EXCEPT !.owed = @ + 1]
  /\ UNCHANGED <<state, compact, started, abort, wire, told, bb>>

(* compactManually(), and prime doing it. *)
Compact ==
  /\ Streams /\ compact = Idle /\ prime.last < MaxRuns
  /\ compact' = prime.last + 1
  /\ prime' = [prime EXCEPT !.last = @ + 1, !.asked = prime.last + 1]
  /\ started' = FALSE
  /\ UNCHANGED <<state, openTurn, abort, wire, told, bb, upset, counts>>

Compacts ==
  /\ Streams
  /\ \/ /\ prime.asked # Idle /\ prime.run = Idle /\ ~prime.compacting
        /\ prime' = [prime EXCEPT !.run = prime.asked, !.kind = "compact", !.asked = Idle]
        /\ Emit(compactionStart(state, TRUE), prime.asked)
        /\ started' = TRUE
        /\ Suffers(Upset("crossing", abort # NoAbort))
     \/ /\ prime.kind = "compact"
        /\ prime' = [prime EXCEPT !.run = Idle, !.kind = "none"]
        /\ \E skipped \in BOOLEAN : Emit(compactionEnd(state, skipped), prime.run)
        /\ started' = FALSE
        /\ UNCHANGED upset
  /\ UNCHANGED <<openTurn, compact, abort, wire, told, counts>>

(* The turn a refused compact fails: none if prime streamed a compaction.   *)
FailsCompaction == ~started

(* Prime has compacted already, or is busy with something else. *)
Compacted == compact \notin {prime.asked, prime.run}
CompactionIsMoot ==
  Compacted \/ prime.compacting \/ {prime.run, bb.turn} \ {Idle, compact} # {}

CompactAnswered ==
  /\ Streams /\ compact # Idle /\ prime.run # compact
  /\ compact' = Idle
  /\ prime' = [prime EXCEPT !.asked = Idle]
  /\ \/ /\ Compacted
        /\ UNCHANGED <<state, bb, upset>>
     \/ /\ IF FailsCompaction THEN Emit(failureDeltas(state), compact)
                              ELSE UNCHANGED <<state, bb>>
        /\ Suffers(Upset("refused", CompactionIsMoot))
  /\ UNCHANGED <<openTurn, started, abort, wire, told, counts>>

(* interrupt() computes its deltas first, settles the turn, and hands them  *)
(* over once the abort is answered; the bridge emits them then.             *)
Interrupt ==
  /\ HasOpenTurn => abort = NoAbort /\ wire = "up"
  /\ LET i == interruptDeltas(state) IN
       IF HasOpenTurn
       THEN /\ abort' = [deltas |-> i.deltas, turn |-> bb.turn]
            /\ openTurn' = "settled"
            /\ state' = i.state
            /\ UNCHANGED bb
       ELSE /\ Emit(i, bb.turn)
            /\ UNCHANGED <<abort, openTurn>>
  /\ Suffers(Upset("unheld", bb.turn # Idle /\ (HasOpenTurn => prime.kind = "compact")))
  /\ UNCHANGED <<compact, started, wire, told, prime, counts>>

EmitsInterrupt(b) == Assembled(b, abort.deltas, abort.turn)
AbortAnswered ==
  /\ Streams /\ abort # NoAbort
  /\ bb' = EmitsInterrupt(bb)
  /\ abort' = NoAbort
  /\ UNCHANGED <<state, openTurn, compact, started, wire, told, prime, upset, counts>>

(* The wire drops: handleConnectionLost fails the lane's open turn, then    *)
(* the requests that waited for an answer are rejected.                     *)
LosesTurn == FALSE
FailsOpenTurn == HasOpenTurn
ConnectionLost ==
  /\ wire = "up" /\ counts.drops < MaxDrops
  /\ counts' = [counts EXCEPT !.drops = @ + 1]
  /\ wire' = "down" /\ told' = FALSE
  /\ openTurn' = IF FailsOpenTurn THEN "settled" ELSE openTurn
  /\ LET lost == IF FailsOpenTurn THEN failureDeltas(state) ELSE Answer(state, <<>>)
         refused == IF compact # Idle /\ FailsCompaction THEN failureDeltas(lost.state)
                    ELSE Answer(lost.state, <<>>)
     IN /\ state' = refused.state
        /\ bb' = EmitsInterrupt(Assembled(Assembled(bb, lost.deltas, bb.turn),
                                          refused.deltas, compact))
  /\ abort' = NoAbort /\ compact' = Idle
  /\ Suffers(Upset("cut", IF HasOpenTurn \/ abort # NoAbort
                                     THEN prime.run \notin {Idle, bb.turn}
                                     ELSE {bb.turn, prime.run} # {Idle})
                    \cup Upset("unheld", HasOpenTurn /\ prime.kind = "compact")
                    \cup Upset("refused", compact # Idle /\ CompactionIsMoot))
  /\ UNCHANGED <<started, prime>>

(* A drop before the lane re-attached changes nothing: its gap is open.      *)
LostAgain ==
  /\ wire = "deaf"
  /\ wire' = "down"
  /\ UNCHANGED <<state, openTurn, compact, started, abort, told, prime, bb, upset, counts>>

(* What the lane does not see: prime goes on, begins something else, or     *)
(* comes back without the run.                                              *)
Missed ==
  /\ wire # "up"
  /\ \E c \in [Children -> ChildStatus], q \in Payloads, ends \in BOOLEAN :
       /\ q # prime.queue => "queue" \in prime.streams
       /\ \A x \in Children : c[x] = prime.children[x] \/ (prime.children[x] \in Live /\ c[x] = "done")
       /\ prime' = [prime EXCEPT !.children = c, !.queue = q,
                      !.run = IF ends THEN Idle ELSE @, !.kind = IF ends THEN "none" ELSE @,
                      !.asked = IF ends THEN Idle ELSE @,
                      !.texts = IF ends THEN {} ELSE @, !.tools = IF ends THEN {} ELSE @,
                      !.compacting = IF ends THEN FALSE ELSE @, !.owed = IF ends THEN 0 ELSE @]
       /\ Suffers(Upset("child", c # prime.children))
  /\ UNCHANGED <<state, openTurn, compact, started, abort, wire, told, bb, counts>>

BeginsUnseen ==
  /\ wire # "up" /\ ~prime.compacting
  /\ \/ RunStarts /\ UNCHANGED upset
     \/ /\ prime.asked # Idle /\ prime.run = Idle
        /\ prime' = [prime EXCEPT !.run = prime.asked, !.kind = "compact", !.asked = Idle]
        /\ Suffers({"blind"})
     \/ /\ prime.kind # "compact"
        /\ prime' = [prime EXCEPT !.compacting = TRUE]
        /\ Suffers({"blind"})
  /\ UNCHANGED <<state, openTurn, compact, started, abort, wire, told, bb, counts>>

(* handleConnectionRestored: attach() renders nothing again, but reads the  *)
(* waiting lanes, and shows them when something waits and the daemon        *)
(* answers.  A refused attach leaves the gap open; a turn may try again     *)
(* (awaitLive, once the recovery had given up).                             *)
ShowsNothing(st, answered) == Answer(st, <<>>)
ShowsWaiting(st, answered) ==
  IF prime.queue = Drained \/ ~answered THEN Answer(st, <<>>)
  ELSE queueUpdateDeltas(st, prime.queue)
ConnectionRestored ==
  /\ wire # "up"
  /\ wire' = "up"
  /\ \E answered \in BOOLEAN :
       /\ Emit(ShowsWaiting(state, answered), prime.run)
       /\ told' = (answered /\ prime.queue # Drained)
  /\ UNCHANGED <<openTurn, compact, started, abort, prime, upset, counts>>
AttachRefused ==
  /\ wire = "down"
  /\ wire' = "deaf"
  /\ UNCHANGED <<state, openTurn, compact, started, abort, told, prime, bb, upset, counts>>

Next ==
  \/ StartRun \/ StreamsText \/ StreamsTool \/ EndRun \/ CompactsItself
  \/ ChildChanges \/ QueueChanges \/ Turn \/ Compact \/ Compacts \/ CompactAnswered
  \/ Interrupt \/ AbortAnswered \/ ConnectionLost \/ LostAgain \/ Missed \/ BeginsUnseen
  \/ ConnectionRestored \/ AttachRefused

Spec == Init /\ [][Next]_vars

-----------------------------------------------------------------------------
Spared(by) == upset \cap by = {}

(* The types, and a thread state the translator could hold. *)
TypeOK ==
  /\ state \in ThreadState
  /\ openTurn \in {"none", "open", "settled"} /\ compact \in 0..MaxRuns
  /\ started \in BOOLEAN /\ wire \in {"up", "down", "deaf"} /\ told \in BOOLEAN /\ upset \subseteq Upsets
  /\ bb.turn \in 0..MaxRuns /\ bb.rows \subseteq Rows
  /\ bb.queue \in Payloads /\ prime.run \in 0..MaxRuns

Quiet ==
  /\ prime.run = Idle /\ prime.owed = 0 /\ ~prime.compacting
  /\ wire = "up" /\ abort = NoAbort /\ compact = Idle

TurnsEnd == Quiet => bb.turn = Idle

(* Once prime has nothing to do and the lane waits for nothing, bb shows no *)
(* turn under way, and no answer, thinking block or tool call still open,   *)
(* but for the texts a rendered transcript opened and no stream closed.     *)
NothingLeftOpen ==
  /\ Spared({"unowned", "cut"}) => TurnsEnd
  /\ Quiet /\ Spared({"cut"}) =>
       \A row \in bb.rows :
         row.key \in Children \cup {"compaction"} \/ row.shape = "rendered"

(* What closes is what was opened: the boundary that closes a turn is of    *)
(* that turn's own run, compaction or interrupt, whatever drops, aborts and *)
(* compactions come between, and a tool call's row closes with the          *)
(* arguments it was opened with.                                            *)
ClosesWhatWasOpened ==
  /\ Spared({"crossing", "cut", "refused"}) => ~bb.mixed
  /\ Spared({"midtool"}) => ~bb.reshaped

(* A run bb saw closed is not claimed and closed again. *)
ClosedOnce == Spared({"reprompt", "crossing", "unheld", "refused", "blind"}) => ~bb.twice

(* A child's row is open exactly while prime's last word of it is that it   *)
(* lives, through boundaries, drops and the snapshot of an adopted session. *)
ChildRowsFollow ==
  Spared({"child"}) =>
    \A c \in Children : (\E row \in bb.rows : row.key = c) <=> prime.children[c] \in Live

(* Once a push or the read of an attach has told the lane what waits, bb    *)
(* shows the queue prime holds, until the wire drops: although an answer    *)
(* that fails is not shown, an empty one neither, and a payload only when   *)
(* it differs from the last the translator emitted.                         *)
QueueIsShown == wire = "up" /\ told => bb.queue = prime.queue
=============================================================================
