------------------------------- MODULE Bridge -------------------------------
(***************************************************************************)
(* The requests bb makes of the bridge (src/provider-bridge.ts) and the    *)
(* state they share: the session table with its two indices, one tool      *)
(* channel per thread, one lane per record.  A handler runs without a lock *)
(* and may be at any await when the next request comes: one action per     *)
(* step between two awaits.                                                *)
(*                                                                         *)
(* Inside a lane only what the bridge depends on is kept: it hears the     *)
(* daemon until it is released, is attached or not, and holds its prompts  *)
(* while it waits for a lost daemon, until it has attached again and read  *)
(* the queue.  prime's daemon is external: it may refuse a command, and one *)
(* that timed out may have been carried out; but it answers a create with  *)
(* a session of its own.                                                   *)
(***************************************************************************)
EXTENDS Integers, Sequences, FiniteSets

CONSTANTS
  Threads,      \* bb's threads
  MaxRequests,  \* requests bb makes
  MaxLive,      \* requests in flight at once
  MaxFaults     \* commands that fail, sessions prime closes by itself or replaces,
                \* losses of the wire, bridge processes that end

ASSUME BridgeAssumption == MaxRequests \in Nat /\ MaxLive \in Nat /\ MaxFaults \in Nat

VARIABLES
  records,     \* the SessionRecords of this process, in the order they were made
  byThread,    \* SessionTable's index by bb thread, 0 where there is none
  byProvider,  \* its index by provider thread id
  channels,    \* the threads whose tool channel listens
  calls,       \* the requests in flight
  daemon,      \* wire, live sessions, saved transcripts, sessions seated here
  told,        \* the session bb knows a thread by (persisted by bb), 0 if none
  gone,        \* the threads with a record whose discard succeeded
  mixed,       \* threads built and let go, or either twice, at once (history)
  counts       \* requests and faults so far

table == <<records, byThread, byProvider>>
vars == <<table, channels, calls, daemon, told, gone, mixed, counts>>

-----------------------------------------------------------------------------
(* Sessions are numbered as the daemon mints them.  A provider thread id is *)
(* the thread itself while it is provisional, the session afterwards.       *)
SessionIds == 1..MaxRequests
Names == Threads \cup SessionIds
(* A provisional id "can never be mistaken for a resident session".         *)
ASSUME NamesAssumption == Threads \cap SessionIds = {}
Kinds == {"start", "fork", "resume", "release", "discard", "turn"}
Slots == 1..MaxLive
Idle == [kind |-> "idle"]
Live(i) == calls[i].kind # "idle"
Steps == {"listen", "branch", "create", "attach", "publish", "ready",
          "channel", "detach", "closed", "kill", "delete"}

NewRecord(t, name) ==
  [thread |-> t, name |-> name, sid |-> 0, lane |-> "none", attached |-> FALSE,
   gap |-> FALSE, down |-> FALSE, stage |-> "rest", cut |-> FALSE, dead |-> FALSE,
   failed |-> FALSE, letGo |-> FALSE]

(* SessionTable.register, adoptProviderThreadId, drop. *)
Registered(t, name) ==
  /\ records' = Append(records, NewRecord(t, name))
  /\ byThread' = [byThread EXCEPT ![t] = Len(records) + 1]
  /\ byProvider' = [byProvider EXCEPT ![name] = Len(records) + 1]
Adopted(r, s) ==
  LET old == records[r].name
      freed == IF byProvider[old] = r THEN [byProvider EXCEPT ![old] = 0] ELSE byProvider
  IN byProvider' = [freed EXCEPT ![s] = r]
DroppedRecord(t) ==
  LET r == byThread[t]
  IN /\ byThread' = [byThread EXCEPT ![t] = 0]
     /\ byProvider' = IF r # 0 /\ byProvider[records[r].name] = r
                      THEN [byProvider EXCEPT ![records[r].name] = 0] ELSE byProvider
DropsThreadOnly(t) == byThread' = [byThread EXCEPT ![t] = 0] /\ UNCHANGED byProvider
Dropped(t) == DroppedRecord(t)

-----------------------------------------------------------------------------
(* What a call goes through. *)
Goes(i, step) == calls' = [calls EXCEPT ![i].at = step]
Ends(i) == calls' = [calls EXCEPT ![i] = Idle]
Rec(i) == records[calls[i].rec]
SetRec(r, new) == records' = [records EXCEPT ![r] = new]
IndicesRest == UNCHANGED <<byThread, byProvider>>
Faulty == counts.faults < MaxFaults /\ counts' = [counts EXCEPT !.faults = @ + 1]
Heard(r) == r.lane = "open" /\ r.attached /\ r.sid \in daemon.seated

Init ==
  /\ records = <<>>
  /\ byThread = [t \in Threads |-> 0] /\ byProvider = [n \in Names |-> 0]
  /\ channels = {} /\ calls = [i \in Slots |-> Idle]
  /\ daemon = [wire |-> "up", live |-> {}, saved |-> {}, seated |-> {}, minted |-> 0]
  /\ told = [t \in Threads |-> 0] /\ gone = {} /\ mixed = {}
  /\ counts = [requests |-> 0, faults |-> 0]

Asks(i, kind, t, rec, step, adopted) ==
  /\ t \notin gone /\ ~Live(i) /\ \A j \in Slots : j < i => Live(j)
  /\ counts.requests < MaxRequests
  /\ counts' = [counts EXCEPT !.requests = @ + 1]
  /\ calls' = [calls EXCEPT ![i] =
       [kind |-> kind, thread |-> t, rec |-> rec, at |-> step, adopted |-> adopted, bad |-> FALSE]]
  /\ mixed' = IF \E j \in Slots : Live(j) /\ calls[j].thread = t /\ "turn" \notin {kind, calls[j].kind}
              THEN mixed \cup {t} ELSE mixed
  /\ UNCHANGED <<daemon, told, gone>>

(* bb constructs a thread, or a turn of it, one request at a time. *)
Constructing(t) ==
  \E j \in Slots : Live(j) /\ calls[j].thread = t
                  /\ calls[j].kind \in {"start", "fork", "resume"}

(* registry.start takes the old channel out of the map before it listens.   *)
ChannelReplaced(t) == channels' = channels \ {t}

(* thread/start, and thread/fork of another thread's session, for a thread  *)
(* bb knows no session of.                                                  *)
AskStart(i, t, kind) ==
  /\ told[t] = 0 /\ ~Constructing(t)
  /\ Registered(t, t) /\ ChannelReplaced(t)
  /\ Asks(i, kind, t, Len(records) + 1, "listen", FALSE)

(* The new one listens, or cannot; the thread then runs without bb's tools. *)
ChannelListens(t) ==
  \/ channels' = channels \cup {t} /\ UNCHANGED counts
  \/ Faulty /\ UNCHANGED channels
Listens(i) ==
  /\ Live(i) /\ calls[i].at = "listen"
  /\ ChannelListens(calls[i].thread)
  /\ \/ calls[i].kind = "fork" /\ Goes(i, "branch") /\ UNCHANGED records
     \/ /\ calls[i].kind = "start" /\ Goes(i, "create")
        /\ SetRec(calls[i].rec, [Rec(i) EXCEPT !.lane = "open"])
     \/ calls[i].kind = "resume" /\ Goes(i, "publish") /\ UNCHANGED records
  /\ IndicesRest /\ UNCHANGED <<daemon, told, gone, mixed>>

-----------------------------------------------------------------------------
(* A construction that throws: startSession and resume drop the thread's    *)
(* record, a fork its channel as well.  Nobody releases the lane.           *)
ConstructionFails(i, r) ==
  /\ SetRec(calls[i].rec, [r EXCEPT !.failed = TRUE])
  /\ channels' = IF calls[i].kind = "fork" THEN channels \ {calls[i].thread} ELSE channels
  /\ \/ (calls[i].kind # "resume" \/ calls[i].adopted) /\ Dropped(calls[i].thread)
     \/ calls[i].kind = "resume" /\ ~calls[i].adopted /\ IndicesRest
  /\ Ends(i)

Branches(i) ==
  /\ Live(i) /\ calls[i].at = "branch" /\ daemon.wire = "up"
  /\ Goes(i, "create")
  /\ SetRec(calls[i].rec, [Rec(i) EXCEPT !.lane = "open"])
  /\ IndicesRest /\ UNCHANGED <<channels, daemon, told, gone, mixed, counts>>

(* The daemon mints a session and writes its transcript. *)
Minted == [daemon EXCEPT !.minted = @ + 1, !.live = @ \cup {daemon.minted + 1},
                         !.saved = @ \cup {daemon.minted + 1}]
Creates(i) ==
  /\ Live(i) /\ calls[i].at = "create" /\ daemon.wire = "up"
  /\ daemon' = Minted
  /\ SetRec(calls[i].rec, [Rec(i) EXCEPT !.sid = daemon.minted + 1])
  /\ Goes(i, "attach")
  /\ IndicesRest /\ UNCHANGED <<channels, told, gone, mixed, counts>>

Seat(s) == [daemon EXCEPT !.seated = @ \cup {s}]

(* The attach of a construction, then adoptProviderThreadId, announceSession *)
(* (bb persists the id) and publishDynamicTools.                            *)
Attaches(i) ==
  /\ Live(i) /\ calls[i].at = "attach" /\ daemon.wire = "up"
  /\ LET s == Rec(i).sid IN
       /\ s \in daemon.live
       /\ daemon' = Seat(s)
       /\ SetRec(calls[i].rec, [Rec(i) EXCEPT !.attached = TRUE, !.name = s,
                                              !.cut = @ /\ Rec(i).lane = "closed"])
       /\ told' = [told EXCEPT ![calls[i].thread] = s]
       /\ \/ calls[i].kind # "resume" /\ Adopted(calls[i].rec, s) /\ Goes(i, "publish")
             /\ UNCHANGED <<byThread, channels>>
          \/ calls[i].kind = "resume" /\ IndicesRest /\ Goes(i, "listen")
             /\ ChannelReplaced(calls[i].thread)
  /\ UNCHANGED <<gone, mixed, counts>>

(* thread/start goes on to its first turn, if bb sent one. *)
Publishes(i) ==
  /\ Live(i) /\ calls[i].at = "publish"
  /\ Ends(i) \/ (calls[i].kind = "start" /\ Goes(i, "ready"))
  /\ IndicesRest /\ UNCHANGED <<records, channels, daemon, told, gone, mixed, counts>>

-----------------------------------------------------------------------------
(* thread/resume by the id bb persisted: the record the table has, or a     *)
(* new one, which is dropped again if it fails.                             *)
FindsNone(t) == 0
FindsRecord(t) == byProvider[told[t]]
Found(t) == FindsRecord(t)
AskResume(i, t) ==
  /\ told[t] # 0 /\ ~Constructing(t)
  /\ LET r == Found(t) IN
       \/ /\ r = 0 /\ Asks(i, "resume", t, Len(records) + 1, "attach", TRUE)
          /\ records' = Append(records, [NewRecord(t, told[t]) EXCEPT
                                            !.sid = told[t], !.lane = "open"])
          /\ byThread' = [byThread EXCEPT ![t] = Len(records) + 1]
          /\ byProvider' = [byProvider EXCEPT ![told[t]] = Len(records) + 1]
       \/ /\ r # 0 /\ Asks(i, "resume", t, r, "attach", FALSE)
          /\ UNCHANGED table
  /\ UNCHANGED channels

(* turn/start, turn/steer and the compact prompt: the record bb's thread    *)
(* has, its lane, its options, and the wait for a lost daemon.              *)
AskTurn(i, t) ==
  /\ byThread[t] # 0 /\ told[t] # 0 /\ ~Constructing(t)
  /\ Asks(i, "turn", t, byThread[t], "ready", FALSE)
  /\ UNCHANGED <<table, channels>>

(* applyTurnOptions, awaitLive and the prompt. *)
Prompts(i) ==
  /\ Live(i) /\ calls[i].at = "ready" /\ ~Rec(i).gap /\ daemon.wire = "up"
  /\ Ends(i)
  /\ UNCHANGED <<table, channels, daemon, told, gone, mixed, counts>>

-----------------------------------------------------------------------------
(* thread/stop that releases (an interrupt of a thread without a lane does  *)
(* too; with one it aborts the turn and changes nothing here), and          *)
(* thread/discard, which stops the tool channel first.                      *)
AskStop(i, t, kind) ==
  LET r == byThread[t] IN
    /\ r # 0
    /\ records' = [records EXCEPT ![r].letGo = TRUE,
                                  ![r].gap = IF kind = "release" THEN FALSE ELSE @]
    /\ LET step == IF kind = "discard" THEN "channel"
                   ELSE IF records[r].lane = "none" THEN "closed" ELSE "detach"
       IN Asks(i, kind, t, r, step, FALSE)
    /\ channels' = IF kind = "discard" \/ records[r].lane = "none"
                   THEN channels \ {t} ELSE channels
    /\ IndicesRest

(* A stop, or a discard, of a thread the table has no record of answers ok  *)
(* and lets go of nothing.                                                  *)
AskUnknown(t) ==
  /\ byThread[t] = 0 /\ t \notin gone
  /\ counts.requests < MaxRequests /\ counts' = [counts EXCEPT !.requests = @ + 1]
  /\ UNCHANGED <<table, channels, calls, daemon, told, gone, mixed>>

ChannelClosed(i) ==
  /\ Live(i) /\ calls[i].at = "channel"
  /\ Goes(i, IF Rec(i).lane = "none" THEN "closed" ELSE "detach")
  /\ SetRec(calls[i].rec, [Rec(i) EXCEPT !.gap = FALSE])
  /\ IndicesRest /\ UNCHANGED <<channels, daemon, told, gone, mixed, counts>>

(* release() ends: the seat is given up, unless the lane knows the wire to  *)
(* be down or the daemon did not answer, and the lane hears no more.        *)
Detaches(i) ==
  /\ Live(i) /\ calls[i].at = "detach"
  /\ daemon' = IF Rec(i).down \/ daemon.wire = "down" THEN daemon
               ELSE [daemon EXCEPT !.seated = @ \ {Rec(i).sid}]
  /\ SetRec(calls[i].rec, [Rec(i) EXCEPT !.lane = "closed"])
  /\ \/ calls[i].kind = "release" /\ Goes(i, "closed")
        /\ channels' = channels \ {calls[i].thread}
     \/ calls[i].kind = "discard" /\ UNCHANGED channels
        /\ Goes(i, IF Rec(i).sid # 0 /\ ~Rec(i).dead THEN "kill" ELSE "delete")
  /\ IndicesRest /\ UNCHANGED <<told, gone, mixed, counts>>

(* The lanes that hear a session are told when the daemon closes it. *)
ToldClosed(s, rs) ==
  [r \in DOMAIN rs |-> IF rs[r].lane = "open" /\ rs[r].sid = s /\ s \in daemon.seated
                       THEN [rs[r] EXCEPT !.lane = "closed", !.dead = TRUE] ELSE rs[r]]
Killed(s) == [daemon EXCEPT !.live = @ \ {s}, !.seated = @ \ {s}]

Kills(i) ==
  /\ Live(i) /\ calls[i].at = "kill" /\ daemon.wire = "up" /\ Rec(i).sid \in daemon.live
  /\ daemon' = Killed(Rec(i).sid)
  /\ records' = ToldClosed(Rec(i).sid, [records EXCEPT ![calls[i].rec].dead = TRUE])
  /\ Goes(i, "delete")
  /\ IndicesRest /\ UNCHANGED <<channels, told, gone, mixed, counts>>

Deletes(i) ==
  /\ Live(i) /\ calls[i].at = "delete" /\ daemon.wire = "up"
  /\ daemon' = [daemon EXCEPT !.saved = @ \ {Rec(i).sid}]
  /\ IF calls[i].bad THEN Ends(i) ELSE Goes(i, "closed")
  /\ UNCHANGED <<table, channels, told, gone, mixed, counts>>

(* The record is dropped, and bb is answered. *)
LetsGo(i) ==
  /\ Live(i) /\ calls[i].at = "closed"
  /\ Dropped(calls[i].thread) /\ Ends(i)
  /\ gone' = IF calls[i].kind = "discard" THEN gone \cup {calls[i].thread} ELSE gone
  /\ UNCHANGED <<records, channels, daemon, told, mixed, counts>>

-----------------------------------------------------------------------------
(* A command fails: the daemon refuses it or says too late that it did it,  *)
(* the wire is gone, or the session is.                                     *)
CarriedOut(i) ==
  \/ calls[i].at = "create" /\ daemon' = Minted
  \/ calls[i].at = "attach" /\ Rec(i).sid \in daemon.live /\ daemon' = Seat(Rec(i).sid)
  \/ calls[i].at = "kill" /\ daemon' = Killed(Rec(i).sid)
  \/ calls[i].at = "delete" /\ daemon' = [daemon EXCEPT !.saved = @ \ {Rec(i).sid}]
SessionGone(i) == calls[i].at \in {"attach", "kill"} /\ Rec(i).sid \notin daemon.live

(* destroy goes on to the transcript after a kill that failed, and keeps    *)
(* the record after any failure.                                            *)
DestroyFails(i) ==
  /\ \/ calls[i].at = "kill"
        /\ calls' = [calls EXCEPT ![i].at = "delete", ![i].bad = TRUE]
     \/ calls[i].at = "delete" /\ Ends(i)
  /\ UNCHANGED <<table, channels>>

Fails(i) ==
  /\ Live(i)
  /\ \/ daemon.wire = "down" /\ UNCHANGED <<counts, daemon>>
     \/ SessionGone(i) /\ UNCHANGED <<counts, daemon>>
     \/ Faulty /\ (UNCHANGED daemon \/ (daemon.wire = "up" /\ CarriedOut(i)))
  /\ \/ calls[i].at \in {"branch", "create", "attach"} /\ ConstructionFails(i, Rec(i))
     \/ calls[i].at \in {"kill", "delete"} /\ DestroyFails(i)
     \/ calls[i].at = "ready" /\ Ends(i) /\ UNCHANGED <<table, channels>>
  /\ UNCHANGED <<told, gone, mixed>>

(* prime quits the session, or an out-of-band client does. *)
SessionCloses(s) ==
  /\ s \in daemon.live /\ daemon.wire = "up" /\ Faulty
  /\ daemon' = Killed(s) /\ records' = ToldClosed(s, records)
  /\ IndicesRest /\ UNCHANGED <<channels, calls, told, gone, mixed>>

(* prime replaces the session's worker: the lane attaches again, and closes *)
(* if that fails, the drop of the wire included.                            *)
ReplacementFails(r) ==
  /\ records[r].lane = "open" /\ records[r].attached /\ Faulty
  /\ daemon.wire = "down" \/ records[r].sid \in daemon.seated
  /\ SetRec(r, [records[r] EXCEPT !.lane = "closed", !.cut = TRUE])
  /\ IndicesRest /\ UNCHANGED <<channels, calls, daemon, told, gone, mixed>>

-----------------------------------------------------------------------------
(* The wire drops: the daemon forgets the seats, the lanes wait.  A lane    *)
(* that reads the queue of its re-attach takes the failure for an end of it, *)
(* and of the gap.                                                          *)
OnlyMarked(r) == [r EXCEPT !.down = TRUE, !.stage = "rest"]
Waiting(r) == [r EXCEPT !.gap = TRUE, !.down = TRUE, !.stage = "rest"]
Overtaken(r) == [r EXCEPT !.gap = FALSE, !.down = FALSE, !.stage = "rest", !.cut = TRUE]
HearsLoss(r) == Waiting(r)
Lost ==
  /\ daemon.wire = "up" /\ Faulty
  /\ daemon' = [daemon EXCEPT !.wire = "down", !.seated = {}]
  /\ records' = [r \in DOMAIN records |->
       IF records[r].lane # "open" \/ records[r].sid = 0 THEN records[r]
       ELSE IF records[r].stage = "reads" THEN Overtaken(records[r])
       ELSE HearsLoss(records[r])]
  /\ IndicesRest /\ UNCHANGED <<channels, calls, told, gone, mixed>>

(* The lanes hear of it and are to attach again. *)
Restored ==
  /\ daemon.wire = "down" /\ daemon' = [daemon EXCEPT !.wire = "up"]
  /\ records' = [r \in DOMAIN records |->
       IF records[r].lane = "open" /\ records[r].sid # 0
       THEN [records[r] EXCEPT !.stage = "due"] ELSE records[r]]
  /\ IndicesRest /\ UNCHANGED <<channels, calls, told, gone, mixed, counts>>

(* awaitLive of a call that is parked when the recovery gives up attaches   *)
(* as well.                                                                 *)
Late(r) == records[r].gap /\ \E i \in Slots : Live(i) /\ calls[i].at = "ready" /\ calls[i].rec = r
MayAttach(r) ==
  /\ daemon.wire = "up" /\ records[r].lane = "open"
  /\ records[r].stage = "due" \/ (records[r].stage = "rest" /\ Late(r))
LaneAttaches(r) ==
  /\ MayAttach(r) /\ records[r].sid \in daemon.live
  /\ daemon' = Seat(records[r].sid)
  /\ SetRec(r, [records[r] EXCEPT !.attached = TRUE, !.stage = "reads", !.cut = FALSE])
  /\ IndicesRest /\ UNCHANGED <<channels, calls, told, gone, mixed, counts>>

(* Refused, or answered too late: the gap stays open. *)
AttachRefused(r) ==
  /\ MayAttach(r)
  /\ \/ records[r].sid \notin daemon.live /\ UNCHANGED <<daemon, counts>>
     \/ records[r].sid \in daemon.live /\ Faulty
        /\ daemon' \in {daemon, Seat(records[r].sid)}
  /\ SetRec(r, [records[r] EXCEPT !.stage = "rest"])
  /\ IndicesRest /\ UNCHANGED <<channels, calls, told, gone, mixed>>

(* get_queue is answered, refused or too late, and the gap settles. *)
LaneSettles(r) ==
  /\ records[r].stage = "reads"
  /\ SetRec(r, [records[r] EXCEPT !.gap = FALSE, !.down = FALSE, !.stage = "rest"])
  /\ IndicesRest /\ UNCHANGED <<channels, calls, daemon, told, gone, mixed, counts>>

(* onClose, or a crash: the next process starts with nothing. *)
KeepsIndices == IndicesRest
Empty == byThread' = [t \in Threads |-> 0] /\ byProvider' = [n \in Names |-> 0]
Cleared == Empty
ProcessEnds ==
  /\ Faulty
  /\ records' = <<>> /\ channels' = {} /\ calls' = [i \in Slots |-> Idle] /\ Cleared
  /\ daemon' = [daemon EXCEPT !.seated = {}, !.wire = "up"]
  /\ UNCHANGED <<told, gone, mixed>>

AskStarts == \E i \in Slots, t \in Threads, k \in {"start", "fork"} : AskStart(i, t, k)
AskResumes == \E i \in Slots, t \in Threads : AskResume(i, t)
AskTurns == \E i \in Slots, t \in Threads : AskTurn(i, t)
AskStops == \E i \in Slots, t \in Threads, k \in {"release", "discard"} : AskStop(i, t, k)
AskNothing == \E t \in Threads : AskUnknown(t)
Construct == \E i \in Slots : Listens(i) \/ Branches(i) \/ Creates(i) \/ Attaches(i) \/ Publishes(i)
RunTurn == \E i \in Slots : Prompts(i)
Release == \E i \in Slots : ChannelClosed(i) \/ Detaches(i) \/ LetsGo(i)
Destroy == \E i \in Slots : Kills(i) \/ Deletes(i)
CommandFails == \E i \in Slots : Fails(i)
DaemonCloses == \E s \in SessionIds : SessionCloses(s)
Reattach == \E r \in DOMAIN records : LaneAttaches(r) \/ AttachRefused(r) \/ LaneSettles(r)
WorkerReplaced == \E r \in DOMAIN records : ReplacementFails(r)

Next ==
  \/ AskStarts \/ AskResumes \/ AskTurns \/ AskStops \/ AskNothing
  \/ Construct \/ RunTurn \/ Release \/ Destroy \/ CommandFails
  \/ DaemonCloses \/ WorkerReplaced \/ Lost \/ Restored \/ Reattach \/ ProcessEnds

Spec == Init /\ [][Next]_vars

-----------------------------------------------------------------------------
TypeOK ==
  /\ \A r \in DOMAIN records :
       /\ records[r].thread \in Threads /\ records[r].name \in Names
       /\ records[r].sid \in 0..daemon.minted /\ records[r].lane \in {"none", "open", "closed"}
       /\ records[r].attached => records[r].sid # 0
       /\ records[r].stage \in {"rest", "due", "reads"}
  /\ byThread \in [Threads -> 0..Len(records)] /\ byProvider \in [Names -> 0..Len(records)]
  /\ channels \subseteq Threads /\ gone \subseteq Threads /\ mixed \subseteq Threads
  /\ \A i \in Slots : Live(i) => /\ calls[i].kind \in Kinds /\ calls[i].at \in Steps
                                 /\ calls[i].rec \in DOMAIN records
  /\ daemon.seated \subseteq daemon.live /\ told \in [Threads -> 0..daemon.minted]

(* Two lanes never stream one session into bb, where every event would show *)
(* twice; except for a lane whose construction failed.                      *)
OneLanePerSession ==
  \A r, q \in DOMAIN records :
    /\ r # q /\ records[r].sid = records[q].sid
    /\ Heard(records[r]) /\ Heard(records[q])
    => records[r].failed \/ records[q].failed \/ records[r].thread \in mixed

(* When no request is under way the indices know the same records, a        *)
(* channel listens only for a thread that has one, and a thread that was    *)
(* discarded while the table had a record of it has left neither session    *)
(* nor transcript of the id bb knows it by; except for a thread whose       *)
(* requests overlapped, and the channel of a start that failed.             *)
RestIsClean ==
  (\A i \in Slots : ~Live(i)) =>
    /\ \A n \in Names : LET r == byProvider[n] IN
         r # 0 /\ records[r].thread \notin mixed => byThread[records[r].thread] = r
    /\ \A t \in Threads \ mixed :
         /\ byThread[t] # 0 => byProvider[records[byThread[t]].name] = byThread[t]
         /\ t \in channels => byThread[t] # 0 \/ \E r \in DOMAIN records :
                                records[r].thread = t /\ records[r].failed
         /\ t \in gone => told[t] \notin daemon.live \cup daemon.saved

(* A prompt that goes out is answered into the thread: its lane hears the   *)
(* session, through losses of the wire and re-attaches; unless bb has asked *)
(* to let the thread go at some time, or the wire dropped while the lane    *)
(* read the queue of its last re-attach or attached to a replacement.       *)
PromptIsHeard ==
  [][\A i \in Slots : Prompts(i) /\ Rec(i).sid \in daemon.live
       => Heard(Rec(i)) \/ Rec(i).letGo \/ Rec(i).cut \/ Rec(i).thread \in mixed]_vars
=============================================================================
