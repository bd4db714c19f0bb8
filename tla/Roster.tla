-------------------------------- MODULE Roster --------------------------------
(***************************************************************************)
(* One session's subagents, from prime's daemon to a panel of bb: the      *)
(* backend's roster (src/subagents/roster.ts) over a connection of its own *)
(* (backend-connection.ts), the host entry that leases its worker, signals *)
(* changes and sends the panel's controls (host-entry.ts, control.ts), the *)
(* plugin server between them (server.ts), and the panel's hook, which     *)
(* answers every signal by asking again (panel/use-subagents-roster.ts).   *)
(*                                                                         *)
(* The children are one value, the number of the daemon's last update: 0   *)
(* is an empty roster, Unavailable what the panel shows when no host       *)
(* answers, Unknown the answer for a thread that has no session yet, and   *)
(* the update numbered MaxUpdates finishes the child.  As in               *)
(* SessionStream, the lines of one socket chunk are handled before         *)
(* anything that awaits an answer goes on: such a call is `armed`          *)
(* meanwhile.  The daemon and bb's realtime channel are external; signals  *)
(* on their way are one, since the panel answers each of them alike.       *)
(***************************************************************************)
EXTENDS Integers, Sequences, FiniteSets

CONSTANTS
  MaxUpdates,  \* the number of the last update of the children
  MaxFaults,   \* drops, refusals, timeouts, replaced workers, lost calls and signals
  MaxSweeps    \* interests that run out

ASSUME RosterAssumption == MaxUpdates \in Nat \ {0} /\ MaxFaults \in Nat /\ MaxSweeps \in Nat

VARIABLES
  daemon,    \* its last update, whether this client is seated, whether it closed
  wire,      \* "up", "down" while the client reconnects, "gone" when it gave up
  waiting,   \* requests that wait for the connection
  late,      \* requests on the socket whose timer fired
  toDaemon,  \* requests on the socket behind those
  toHost,    \* answers and pushes on the socket
  armed,     \* requests that were answered or failed and have not gone on
  entry,     \* the roster's entry of the session; id 0 when there is none
  made,      \* how many entries were made
  lease,     \* the worker-retention lease is held
  signals,   \* a "subagents.changed" is on its way to the panel
  panel,     \* the hook: open, known, asking, reply, dirty, shown, control; and
             \* that it missed a change since it asked last (history)
  amiss,     \* how roster and daemon are out of step now (history)
  counts

net == <<wire, waiting, late, toDaemon, toHost>>
vars == <<daemon, net, armed, entry, made, lease, signals, panel, amiss, counts>>

Unavailable == -1
Unknown == -2
NoEntry == [id |-> 0, attached |-> FALSE, children |-> 0]
Controls == {"steer", "stop"}
Reasons == {"watch", "reconnect", "replaced", "detach", "control"} \cup Controls
Attaches == {"watch", "reconnect", "replaced", "control"}
(* A seat no attached entry answers for, an attached entry that may have no *)
(* seat, a lease nobody gave back, children older than the daemon's pushes. *)
Mishaps == {"stray", "unseated", "untold", "overwritten"}
Request(reason, id) == [reason |-> reason, entry |-> id]
Push(type, n) == [type |-> type, request |-> Request("watch", 0), ok |-> TRUE, n |-> n]
Answer(r, ok, n) == [type |-> "answer", request |-> r, ok |-> ok, n |-> n]

Init ==
  /\ daemon = [last |-> 1, seated |-> FALSE, closed |-> FALSE]
  /\ wire = "gone" /\ waiting = <<>> /\ late = <<>> /\ toDaemon = <<>> /\ toHost = <<>>
  /\ armed = <<>>
  /\ entry = NoEntry /\ made = 0 /\ lease = FALSE /\ signals = FALSE
  /\ panel = [open |-> FALSE, known |-> FALSE, asking |-> FALSE, reply |-> <<>>,
              dirty |-> FALSE, shown |-> 0, control |-> "none", missed |-> FALSE]
  /\ amiss = {} /\ counts = [faults |-> 0, sweeps |-> 0]

(* What may follow on a promise does so before the next event.              *)
Quiet == armed = <<>> /\ (wire = "up" => waiting = <<>>)
Faulty == counts.faults < MaxFaults /\ counts' = [counts EXCEPT !.faults = @ + 1]
If(what, when) == IF when THEN {what} ELSE {}
HostRests == UNCHANGED <<armed, entry, made, lease, signals, panel>>

-----------------------------------------------------------------------------
(* notify: the lease follows the watched sessions, and the panel is told.   *)
FollowsWatched(e) == e.id # 0
KeepsLease(e) == lease \/ e.id # 0
SyncLease(e) == FollowsWatched(e)
Notifies(e) == lease' = SyncLease(e) /\ signals' = TRUE
Told == amiss \ {"untold"}
Silent == UNCHANGED <<lease, signals>>

(* watch(): an attached entry answers from the roster, any other entry      *)
(* attaches, for the caller that waits for it.                              *)
Watches(reason) ==
  LET e == IF entry.id # 0 THEN entry ELSE [NoEntry EXCEPT !.id = made + 1]
  IN /\ entry' = e /\ made' = IF entry.id # 0 THEN made ELSE made + 1
     /\ waiting' = Append(waiting, Request(reason, e.id))
Stays == UNCHANGED <<entry, waiting, made>>

(* fetchRoster: one call at a time, and once more if a signal came during   *)
(* it.  The server asks the host and answers "unavailable" when that fails; *)
(* until the thread's identity names a session, it has nothing to ask for.  *)
Asks(p) == [p EXCEPT !.asking = TRUE, !.dirty = FALSE, !.missed = FALSE]
Calls(p) ==
  \/ /\ ~p.known /\ made = 0
     /\ Stays /\ panel' = [Asks(p) EXCEPT !.reply = <<Unknown>>]
  \/ IF entry.attached THEN Stays /\ panel' = [Asks(p) EXCEPT !.reply = <<entry.children>>]
     ELSE Watches("watch") /\ panel' = Asks(p)
Forgets(p) == p
AsksLater(p) == [p EXCEPT !.dirty = TRUE]
Busy(p) == AsksLater(p)
Fetches(p) == IF p.asking THEN Stays /\ panel' = Busy(p) ELSE Calls(p)

PanelOpens ==
  /\ ~panel.open /\ Quiet
  /\ Fetches([panel EXCEPT !.open = TRUE])
  /\ UNCHANGED <<daemon, wire, late, toDaemon, toHost, armed, lease, signals, amiss, counts>>
PanelCloses ==
  /\ panel.open /\ ~panel.asking /\ panel.control \notin Controls /\ Faulty
  /\ panel' = [panel EXCEPT !.open = FALSE, !.known = FALSE, !.shown = 0]
  /\ UNCHANGED <<daemon, net, armed, entry, made, lease, signals, amiss>>

(* A signal names its session, which the hook only knows from an answer.    *)
SignalArrives ==
  /\ signals /\ signals' = FALSE /\ Quiet
  /\ IF panel.open /\ panel.known
     THEN Fetches(panel)
     ELSE Stays /\ panel' = [panel EXCEPT !.missed = @ \/ panel.reply # <<>>]
  /\ UNCHANGED <<daemon, wire, late, toDaemon, toHost, armed, lease, amiss, counts>>

(* The host tells of a change once and looks at no failure.                 *)
SignalLost ==
  /\ signals /\ signals' = FALSE /\ Quiet /\ Faulty
  /\ panel' = [panel EXCEPT !.missed = TRUE]
  /\ UNCHANGED <<daemon, net, armed, entry, made, lease, amiss>>

(* A realtime gap: signals are lost, and the panel asks when it is over.    *)
RealtimeGap ==
  /\ Quiet /\ Faulty /\ signals' = FALSE
  /\ IF panel.open THEN Fetches(panel) ELSE UNCHANGED <<entry, waiting, made, panel>>
  /\ UNCHANGED <<daemon, wire, late, toDaemon, toHost, armed, lease, amiss>>

Shows(n) == IF n = Unknown THEN 0 ELSE n
ReplyArrives ==
  /\ panel.reply # <<>> /\ Quiet
  /\ LET n == Head(panel.reply)
         p == [panel EXCEPT !.known = @ \/ n # Unknown, !.shown = Shows(n), !.reply = <<>>,
                            !.asking = FALSE]
     IN IF panel.dirty THEN Calls(p) ELSE Stays /\ panel' = p
  /\ UNCHANGED <<daemon, wire, late, toDaemon, toHost, armed, lease, signals, amiss, counts>>

(* The call fails between the panel and the server, or between the server   *)
(* and the host, for which the server answers "unavailable".                *)
CallFails ==
  /\ panel.reply # <<>> /\ Quiet /\ Faulty
  /\ \/ panel' = [panel EXCEPT !.shown = Unavailable, !.reply = <<>>, !.asking = FALSE,
                               !.missed = TRUE]
     \/ /\ Head(panel.reply) \in 0..MaxUpdates
        /\ panel' = [panel EXCEPT !.reply = <<Unavailable>>, !.missed = TRUE]
  /\ UNCHANGED <<daemon, net, armed, entry, made, lease, signals, amiss>>

-----------------------------------------------------------------------------
(* A control (one to a behaviour, while nothing is amiss): the host makes   *)
(* sure the session is watched, refuses a child it does not know, refuses   *)
(* to steer a finished one, and sends prime's command.                      *)
Live(n) == n \in 1..(MaxUpdates - 1)
Refuses(kind, n) == IF kind = "steer" THEN ~Live(n) ELSE n = 0
Commands(kind, p, n, id) ==
  IF Refuses(kind, n) THEN waiting' = waiting /\ panel' = [p EXCEPT !.control = "failed"]
  ELSE waiting' = Append(waiting, Request(kind, id)) /\ panel' = [p EXCEPT !.control = kind]
ControlCalls ==
  /\ panel.open /\ panel.known /\ panel.control = "none" /\ amiss = {} /\ Quiet
  /\ \E kind \in Controls :
       IF entry.attached
       THEN Commands(kind, panel, entry.children, entry.id) /\ UNCHANGED <<entry, made>>
       ELSE Watches("control") /\ panel' = [panel EXCEPT !.control = kind]
  /\ UNCHANGED <<daemon, wire, late, toDaemon, toHost, armed, lease, signals, amiss, counts>>

-----------------------------------------------------------------------------
(* The daemon. *)
Tells(m) == toHost' = IF daemon.seated THEN Append(toHost, m) ELSE toHost
DaemonUpdates ==
  /\ Quiet /\ ~daemon.closed /\ daemon.last < MaxUpdates
  /\ daemon' = [daemon EXCEPT !.last = @ + 1] /\ Tells(Push("update", daemon.last + 1))
  /\ HostRests /\ UNCHANGED <<wire, waiting, late, toDaemon, amiss, counts>>
WorkerReplaced ==
  /\ Quiet /\ daemon.seated /\ Faulty
  /\ daemon' = [daemon EXCEPT !.seated = FALSE] /\ Tells(Push("replaced", 0))
  /\ HostRests /\ UNCHANGED <<wire, waiting, late, toDaemon, amiss>>
SessionCloses ==
  /\ Quiet /\ ~daemon.closed /\ Faulty
  /\ daemon' = [daemon EXCEPT !.closed = TRUE, !.seated = FALSE] /\ Tells(Push("closed", 0))
  /\ HostRests /\ UNCHANGED <<wire, waiting, late, toDaemon, amiss>>
Accepts(r) == ~daemon.closed /\ (r.reason = "stop" => Live(daemon.last))
Serves(r) ==
  daemon' = IF r.reason \in Controls THEN daemon ELSE [daemon EXCEPT !.seated = r.reason # "detach"]
DaemonServes ==
  /\ Quiet /\ wire = "up" /\ late = <<>>
  /\ toDaemon # <<>> /\ toDaemon' = Tail(toDaemon)
  /\ LET r == Head(toDaemon) IN
       \/ /\ Accepts(r) /\ Serves(r) /\ UNCHANGED <<amiss, counts>>
          /\ toHost' = Append(toHost, Answer(r, TRUE, daemon.last))
       \/ /\ IF Accepts(r) THEN Faulty ELSE UNCHANGED counts
          /\ UNCHANGED daemon /\ amiss' = amiss \cup If("stray", r.reason = "detach")
          /\ toHost' = Append(toHost, Answer(r, FALSE, 0))
  /\ HostRests /\ UNCHANGED <<wire, waiting, late>>

(* The client has stopped waiting; the answer is dropped when it comes.     *)
ServesLate ==
  /\ Quiet /\ wire = "up" /\ late # <<>> /\ late' = Tail(late)
  /\ LET r == Head(late) IN
       \/ /\ Accepts(r) /\ Serves(r) /\ UNCHANGED counts
          /\ amiss' = amiss \cup If("stray", r.reason \in Attaches)
       \/ /\ IF Accepts(r) THEN Faulty ELSE UNCHANGED counts
          /\ UNCHANGED daemon
          /\ amiss' = amiss \cup If("stray", r.reason = "detach")
                            \cup If("unseated", r.reason \in Attaches)
  /\ HostRests /\ UNCHANGED <<wire, waiting, toDaemon, toHost>>

-----------------------------------------------------------------------------
(* The connection: a request waits for a reconnect that is under way and    *)
(* dials if there is no connection.  A dial that is greeted and a reconnect *)
(* both tell the roster, whose reattachAll attaches its entry again: ahead  *)
(* of the requests that dialled, behind those that waited for a reconnect.  *)
Sends ==
  /\ wire = "up" /\ waiting # <<>> /\ armed = <<>>
  /\ toDaemon' = Append(toDaemon, Head(waiting)) /\ waiting' = Tail(waiting)
  /\ HostRests /\ UNCHANGED <<daemon, wire, late, toHost, amiss, counts>>
Reattach == IF entry.id = 0 THEN <<>> ELSE <<Request("reconnect", entry.id)>>
Connects ==
  /\ wire' = "up" /\ entry' = [entry EXCEPT !.attached = FALSE]
  /\ UNCHANGED <<daemon, late, toDaemon, toHost, armed, made, lease, signals, panel, amiss, counts>>
Dials ==
  /\ wire = "gone" /\ waiting # <<>> /\ armed = <<>>
  /\ waiting' = Reattach \o waiting /\ Connects
Reconnects ==
  /\ wire = "down" /\ armed = <<>>
  /\ waiting' = waiting \o Reattach /\ Connects
LeavesPending(rs) == <<>>
RejectsAll(rs) == [i \in DOMAIN rs |-> Answer(rs[i], FALSE, 0)]
Fail(rs) == RejectsAll(rs)
(* A dial that fails fails its requests; if its socket had opened, the loss *)
(* of that starts a reconnect.                                              *)
DialFails ==
  /\ wire = "gone" /\ waiting # <<>> /\ armed = <<>> /\ Faulty
  /\ armed' = Fail(waiting) /\ waiting' = <<>> /\ wire' \in {"gone", "down"}
  /\ UNCHANGED <<daemon, late, toDaemon, toHost, entry, made, lease, signals, panel, amiss>>

(* The timer of the oldest request fires before its answer is there (a      *)
(* request served a moment earlier is one that is served a moment later).   *)
TimesOut ==
  /\ wire = "up" /\ toDaemon # <<>> /\ Quiet /\ Faulty
  /\ \A k \in DOMAIN toHost : toHost[k].type # "answer"
  /\ late' = Append(late, Head(toDaemon)) /\ toDaemon' = Tail(toDaemon)
  /\ armed' = Fail(<<Head(toDaemon)>>)
  /\ UNCHANGED <<daemon, wire, waiting, toHost, entry, made, lease, signals, panel, amiss>>
(* The client rejects what it has read no answer to, oldest first.          *)
InOrder(S) == {f \in [1..Cardinality(S) -> S] :
                 /\ \A i, j \in DOMAIN f : i < j => f[i] < f[j]
                 /\ \A k \in S : \E i \in DOMAIN f : f[i] = k}
Drops ==
  /\ wire = "up" /\ Quiet /\ Faulty
  /\ wire' = "down" /\ late' = <<>> /\ toDaemon' = <<>> /\ toHost' = <<>>
  /\ daemon' = [daemon EXCEPT !.seated = FALSE]
  /\ \E f \in InOrder({k \in DOMAIN toHost : toHost[k].type = "answer"}) :
       armed' = Fail([i \in DOMAIN f |-> toHost[f[i]].request] \o toDaemon)
  /\ amiss' = amiss \ {"stray", "unseated"}
  /\ UNCHANGED <<waiting, entry, made, lease, signals, panel>>

(* The budget is spent: entries stay attached to a daemon that forgot them  *)
(* until a request dials, and an attached entry makes none.                 *)
GivesUp ==
  /\ wire = "down" /\ armed = <<>> /\ Faulty
  /\ wire' = "gone"
  /\ UNCHANGED <<daemon, waiting, late, toDaemon, toHost, armed, entry, made, lease, signals,
                 panel, amiss>>

-----------------------------------------------------------------------------
(* handlePush, before the calls that the same chunk answered go on.         *)
ReadsUpdate(n) ==
  /\ IF entry.id = 0 THEN UNCHANGED <<entry, amiss>> /\ Silent
     ELSE /\ entry' = [entry EXCEPT !.children = n] /\ Notifies(entry)
          /\ amiss' = Told \ {"overwritten"}
  /\ UNCHANGED waiting
ReadsReplaced ==
  /\ IF entry.id = 0 THEN UNCHANGED <<entry, waiting>>
     ELSE /\ entry' = [entry EXCEPT !.attached = FALSE]
          /\ waiting' = Append(waiting, Request("replaced", entry.id))
  /\ Silent /\ UNCHANGED amiss
ReadsClosed ==
  /\ IF entry.id = 0 THEN UNCHANGED <<entry, amiss>> /\ Silent
     ELSE entry' = NoEntry /\ Notifies(NoEntry) /\ amiss' = Told
  /\ UNCHANGED waiting
HostReads ==
  /\ wire = "up" /\ toHost # <<>> /\ toHost' = Tail(toHost)
  /\ LET msg == Head(toHost) IN
       \/ /\ msg.type = "answer" /\ armed' = Append(armed, msg)
          /\ Silent /\ UNCHANGED <<entry, waiting, amiss>>
       \/ msg.type = "update" /\ ReadsUpdate(msg.n) /\ UNCHANGED armed
       \/ msg.type = "replaced" /\ ReadsReplaced /\ UNCHANGED armed
       \/ msg.type = "closed" /\ ReadsClosed /\ UNCHANGED armed
  /\ UNCHANGED <<daemon, wire, late, toDaemon, made, panel, counts>>

(* A watch or a control goes on with the children its session has now.      *)
Resumes(r, e) ==
  \/ /\ r.reason = "watch"
     /\ panel' = [panel EXCEPT !.reply = <<e.children>>, !.missed = @ \/ r.entry # e.id]
     /\ UNCHANGED waiting
  \/ r.reason = "control" /\ Commands(panel.control, panel, e.children, e.id)
  \/ r.reason \in {"reconnect", "replaced"} /\ UNCHANGED <<panel, waiting>>

(* An attach goes on: the answer's children replace the entry's, even if    *)
(* that entry has left the roster or newer children were pushed already.    *)
Attached(msg) ==
  LET mine == msg.request.entry = entry.id
      e == IF mine THEN [entry EXCEPT !.attached = TRUE, !.children = msg.n] ELSE entry
  IN /\ entry' = e /\ Notifies(e)
     /\ amiss' = IF mine THEN (Told \ {"stray"})
                              \cup If("overwritten", msg.n < entry.children)
                 ELSE Told \cup If("stray", ~entry.attached)
     /\ Resumes(msg.request, e) /\ UNCHANGED made

(* An attach fails: into the call that waits for it, or, where nothing      *)
(* waits, by taking the session out of the roster without telling anybody.  *)
AttachFails(r) ==
  /\ Silent /\ UNCHANGED <<made, waiting>>
  /\ \/ /\ r.reason = "watch" /\ UNCHANGED entry
        /\ panel' = [panel EXCEPT !.reply = <<Unavailable>>, !.missed = @ \/ ~daemon.closed]
     \/ r.reason = "control" /\ UNCHANGED entry /\ panel' = [panel EXCEPT !.control = "failed"]
     \/ /\ r.reason \in {"reconnect", "replaced"} /\ entry' = NoEntry
        /\ panel' = [panel EXCEPT !.missed = @ \/ entry.id # 0]
  /\ amiss' = amiss \cup If("unseated", entry'.attached)
                    \cup If("stray", daemon.seated /\ ~entry'.attached)
                    \cup If("untold", entry' # entry)

(* The control's answer; the panel asks again after one that succeeded.     *)
Controlled(msg) ==
  /\ IF msg.ok THEN Fetches([panel EXCEPT !.control = "done"])
     ELSE Stays /\ panel' = [panel EXCEPT !.control = "failed"]
  /\ Silent /\ UNCHANGED amiss
GoesOn ==
  /\ armed # <<>> /\ armed' = Tail(armed)
  /\ LET msg == Head(armed)
         r == msg.request
     IN \/ r.reason \in Attaches /\ msg.ok /\ Attached(msg)
        \/ r.reason \in Attaches /\ ~msg.ok /\ AttachFails(r)
        \/ r.reason \in Controls /\ Controlled(msg)
        \/ r.reason = "detach" /\ Notifies(entry) /\ amiss' = Told /\ Stays /\ UNCHANGED panel
  /\ UNCHANGED <<daemon, wire, late, toDaemon, toHost, counts>>

-----------------------------------------------------------------------------
(* sweepIdle: interest ran out, which a call in progress has just renewed;  *)
(* the session is released, and the panel told once it is detached.         *)
SweepTimerRuns == entry.id # 0 /\ counts.sweeps < MaxSweeps
Sweeps ==
  /\ SweepTimerRuns /\ Quiet
  /\ ~panel.asking /\ panel.control \notin Controls
  /\ counts' = [counts EXCEPT !.sweeps = @ + 1]
  /\ entry' = NoEntry
  /\ IF entry.attached
     THEN waiting' = Append(waiting, Request("detach", entry.id)) /\ Silent /\ UNCHANGED amiss
     ELSE UNCHANGED waiting /\ Notifies(NoEntry) /\ amiss' = Told
  /\ UNCHANGED <<daemon, wire, late, toDaemon, toHost, armed, made, panel>>

(* bb stops a worker that holds no lease and serves no call.                *)
WorkerStops ==
  /\ ~lease /\ (wire # "gone" \/ entry.id # 0)
  /\ armed = <<>> /\ waiting = <<>> /\ toDaemon = <<>> /\ toHost = <<>>
  /\ ~panel.asking /\ panel.control \notin Controls
  /\ wire' = "gone" /\ entry' = NoEntry /\ daemon' = [daemon EXCEPT !.seated = FALSE]
  /\ late' = <<>> /\ amiss' = {}
  /\ UNCHANGED <<waiting, toDaemon, toHost, armed, made, lease, signals, panel, counts>>

-----------------------------------------------------------------------------
Next ==
  \/ PanelOpens
  \/ PanelCloses
  \/ SignalArrives
  \/ SignalLost
  \/ RealtimeGap
  \/ ReplyArrives
  \/ CallFails
  \/ ControlCalls
  \/ DaemonUpdates
  \/ WorkerReplaced
  \/ SessionCloses
  \/ DaemonServes
  \/ ServesLate
  \/ Sends
  \/ Dials
  \/ Reconnects
  \/ DialFails
  \/ TimesOut
  \/ Drops
  \/ GivesUp
  \/ HostReads
  \/ GoesOn
  \/ Sweeps
  \/ WorkerStops

(* Sockets, timers and promises go on; the daemon answers, and the client   *)
(* reconnects or gives up; nobody owes an update, a fault or a sweep.       *)
Fairness ==
  /\ WF_vars(SignalArrives \/ SignalLost) /\ WF_vars(ReplyArrives)
  /\ WF_vars(DaemonServes) /\ WF_vars(ServesLate)
  /\ WF_vars(Sends) /\ WF_vars(Dials) /\ WF_vars(Reconnects \/ GivesUp)
  /\ WF_vars(HostReads) /\ WF_vars(GoesOn)

Spec == Init /\ [][Next]_vars /\ Fairness

-----------------------------------------------------------------------------
Numbers == 0..MaxUpdates
Requests == [reason : Reasons, entry : Nat]
(* The types, and that no call waits for an answer nobody will make: the    *)
(* panel's question has exactly one request or one reply on its way.        *)
Asked(place, rs, reason) == {<<place, k>> : k \in {k \in DOMAIN rs : rs[k].reason = reason}}
Answered(place, ms, reason) ==
  {<<place, k>> : k \in {k \in DOMAIN ms : ms[k].type = "answer" /\ ms[k].request.reason = reason}}
Pending(reason) ==
  Asked("waiting", waiting, reason) \cup Asked("toDaemon", toDaemon, reason)
  \cup Answered("toHost", toHost, reason) \cup Answered("armed", armed, reason)
TypeOK ==
  /\ daemon \in [last : Numbers, seated : BOOLEAN, closed : BOOLEAN]
  /\ wire \in {"up", "down", "gone"}
  /\ waiting \in Seq(Requests) /\ late \in Seq(Requests) /\ toDaemon \in Seq(Requests)
  /\ entry \in [id : 0..made, attached : BOOLEAN, children : Numbers]
  /\ lease \in BOOLEAN /\ signals \in BOOLEAN /\ amiss \subseteq Mishaps
  /\ panel.shown \in Numbers \cup {Unavailable}
  /\ Cardinality(Pending("watch")) + Len(panel.reply) = IF panel.asking THEN 1 ELSE 0

(* The worker is leased while the roster relies on pushes, and no longer    *)
(* than a session is watched or being let go; what the roster holds as      *)
(* attached is a seat the daemon pushes to, and the daemon seats nobody     *)
(* else.  What the code leaves behind, and until when: a re-attach that     *)
(* fails keeps the lease until somebody is told again; a seat nobody        *)
(* watches (a detach that was refused, an attach that nobody waits for or   *)
(* whose entry has gone) stays until the entry's next attach is answered;   *)
(* an attach that fails after an entry was attached can leave it without    *)
(* its seat; and the loss of the wire ends both.                            *)
AtRest ==
  wire = "up" /\ armed = <<>> /\ waiting = <<>> /\ late = <<>> /\ toDaemon = <<>> /\ toHost = <<>>
WatchedIsHeld ==
  /\ entry.attached => lease
  /\ lease /\ entry.id = 0 => Pending("detach") # {} \/ "untold" \in amiss
  /\ AtRest /\ entry.attached => daemon.seated \/ "unseated" \in amiss
  /\ AtRest /\ daemon.seated => entry.attached \/ "stray" \in amiss

(* A panel that knows its session shows the daemon's roster in the end, and *)
(* its control settles: "every signal that something changed ... asks       *)
(* again".  What it cannot know of is a change it missed since it asked     *)
(* last (a lost signal or call, an entry taken out in silence), one the     *)
(* daemon did not push (no seat, or the client gave up), and one that an    *)
(* older answer overwrote.                                                  *)
Current == panel.shown = IF daemon.closed THEN Unavailable ELSE daemon.last
OutOfReach ==
  ~panel.known \/ panel.missed \/ "unseated" \in amiss \/ "overwritten" \in amiss
  \/ (wire = "gone" /\ entry.attached)
PanelCatchesUp ==
  /\ <>[](panel.open => Current \/ OutOfReach)
  /\ []<>(panel.control \notin Controls /\ ~panel.asking)
=============================================================================
