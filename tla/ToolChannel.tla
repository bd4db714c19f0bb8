----------------------------- MODULE ToolChannel -----------------------------
(***************************************************************************)
(* A session's dynamic-tools channel: the bridge's end                     *)
(* (src/dynamic-tools/channel-server.ts) and the companion extension that  *)
(* prime's worker loads (extension/bb-tools-extension.ts).  The bridge     *)
(* publishes the thread's tool set and answers the model's tool calls.     *)
(*                                                                         *)
(* prime may replace the worker of a session: the new one's extension is   *)
(* an instance of its own, with its own count of calls, and the old one    *)
(* may still be there for a while.  A connection is a number; each of its  *)
(* ends closes by itself and what the other end wrote may be lost.         *)
(***************************************************************************)
EXTENDS Naturals, Sequences, Functions

CONSTANTS
  MaxSets,         \* bound: calls of setTools
  MaxInstances,    \* bound: workers of the session
  MaxConnections,  \* bound: connections made
  MaxCalls         \* bound: tool calls of all instances

ASSUME ToolChannelConstants ==
  /\ MaxSets \in Nat /\ MaxInstances \in Nat
  /\ MaxConnections \in Nat /\ MaxCalls \in Nat

Sets == 1..MaxSets           \* a call of setTools is the tool set it publishes
NoSet == 0                   \* no set was published or applied
Mixed == MaxSets + 1         \* what a set that was rejected half-way leaves in force
Instances == 1..MaxInstances
Connections == 1..MaxConnections
None == 0

VARIABLES
  closed,      \* the channel was closed
  desired,     \* desiredTools
  chain,       \* setTools calls queued on setChain
  publishing,  \* the publish() under way and what it waits for
  outcome,     \* how each setTools stands
  current,     \* the connection the channel holds
  executing,   \* the tool calls bb runs
  started,     \* instances started
  alive,       \* the instances whose session has not shut down
  sock,        \* each instance's connection
  pending,     \* each instance's pendingCalls, and whether the call was sent
  calls,       \* each instance's nextCallId
  active,      \* the set each instance has in force
  made,        \* connections made
  owner,       \* the instance that made each
  backlog,     \* connections the channel has not accepted yet
  toExt,       \* lines on their way to the extension
  toBridge,    \* lines on their way to the bridge
  applied,     \* the sets an instance has applied (history)
  misanswered  \* the calls that resolved with another's result (history)

bridge    == <<closed, desired, chain, publishing, outcome, current, executing>>
extension == <<started, alive, sock, pending, calls, active>>
wire      == <<made, owner, backlog, toExt, toBridge>>
hist      == <<applied, misanswered>>
vars      == <<bridge, extension, wire, hist>>

Call(e, n) == [by |-> e, id |-> n]
ToolCalls == [by : Instances, id : Nat]

ToolsSet(s) == [type |-> "tools/set", set |-> s]
ToolResult(c) == [type |-> "tool/result", of |-> c]
ToolsAck(ok) == [type |-> "tools/ack", ok |-> ok]
ToolCall(c) == [type |-> "tool/call", call |-> c]

ToExtension ==
  [type : {"tools/set"}, set : Sets] \cup [type : {"tool/result"}, of : ToolCalls]
ToBridge ==
  [type : {"tools/ack"}, ok : BOOLEAN] \cup [type : {"tool/call"}, call : ToolCalls]

Pending(n) == [id : {n}, sent : BOOLEAN]
Awaited(e, n) == pending[e] \cap Pending(n) # {}

Idle == [set |-> NoSet, awaits |-> "nothing"]
Awaits(s, what) == [set |-> s, awaits |-> what]

-----------------------------------------------------------------------------
(* Helpers. *)

(* The bridge's end of a connection is open from the connect on until the    *)
(* channel drops it; the extension's, while it is its instance's socket.     *)
HeldByBridge(k) == k = current \/ \E j \in DOMAIN backlog : backlog[j] = k
HeldByExtension(k) == k # None /\ sock[owner[k]] = k

(* A line for either end; one written without a socket, or to an end that    *)
(* closed, is lost.                                                          *)
Write(k, line) ==
  toExt' = IF HeldByExtension(k) THEN [toExt EXCEPT ![k] = Append(@, line)] ELSE toExt
Send(k, line) ==
  toBridge' = IF HeldByBridge(k) THEN [toBridge EXCEPT ![k] = Append(@, line)] ELSE toBridge

(* What is on its way to an end that closes is lost, too. *)
Drained(channel, k) == IF k = None THEN channel ELSE [channel EXCEPT ![k] = <<>>]

(* What a connection is sent when it is accepted: the desired set, and again *)
(* by a publish() that waited for the connection.                            *)
ByPublish(s) == IF publishing.awaits = "connection" THEN <<ToolsSet(s)>> ELSE <<>>
EvenNone(s) == <<ToolsSet(s)>> \o ByPublish(s)
Republished(s) == IF s = NoSet THEN <<>> ELSE <<ToolsSet(s)>> \o ByPublish(s)

(* An ack settles the setTools that waits for one. *)
AckedAnyway(ok) == "acked"
Settled(ok) == IF ok THEN "acked" ELSE "failed"

(* What publish() gives up on when its deadline passes. *)
OnlyConnecting(what) == what = "connection"
HasDeadline(what) == what # "nothing"

(* What becomes of the calls an instance waits for when its socket closes. *)
KeptPending(e) == pending[e]
FailPendingCalls(e) == {}

(* publish(): record the set, then write it or wait for a connection. *)
RecordsLate(s) == IF current = None THEN desired ELSE s
Recorded(s) == s
Publish(s) ==
  /\ desired' = Recorded(s)
  /\ publishing' = Awaits(s, IF current = None THEN "connection" ELSE "ack")
  /\ Write(current, ToolsSet(s))

(* The publish() under way ended; the next of the chain has not begun. *)
Ends(result) ==
  /\ outcome' = [outcome EXCEPT ![publishing.set] = result]
  /\ publishing' = Idle

-----------------------------------------------------------------------------
(* After listen() and the create command: the first worker's extension has   *)
(* not connected yet.                                                        *)
Init ==
  /\ closed = FALSE
  /\ desired = NoSet
  /\ chain = <<>>
  /\ publishing = Idle
  /\ outcome = [s \in Sets |-> "new"]
  /\ current = None
  /\ executing = {}
  /\ started = 0
  /\ alive = [e \in Instances |-> FALSE]
  /\ sock = [e \in Instances |-> None]
  /\ pending = [e \in Instances |-> {}]
  /\ calls = [e \in Instances |-> 0]
  /\ active = [e \in Instances |-> NoSet]
  /\ made = 0
  /\ owner = [k \in Connections |-> None]
  /\ backlog = <<>>
  /\ toExt = [k \in Connections |-> <<>>]
  /\ toBridge = [k \in Connections |-> <<>>]
  /\ applied = {} /\ misanswered = {}

-----------------------------------------------------------------------------
(* The bridge's end. *)

(* setTools: behind the calls before it, or at once. *)
SetTools(s) ==
  /\ outcome[s] = "new" /\ \A t \in 1..s - 1 : outcome[t] # "new"
  /\ IF closed
     THEN /\ outcome' = [outcome EXCEPT ![s] = "failed"]
          /\ UNCHANGED <<desired, chain, publishing, toExt>>
     ELSE /\ outcome' = [outcome EXCEPT ![s] = "waiting"]
          /\ IF publishing = Idle /\ chain = <<>>
             THEN Publish(s) /\ UNCHANGED chain
             ELSE /\ chain' = Append(chain, s)
                  /\ UNCHANGED <<desired, publishing, toExt>>
  /\ UNCHANGED <<closed, current, executing, extension, made, owner, backlog,
                 toBridge, hist>>

(* The chain goes on after an ack, a timeout or a close, whatever the        *)
(* outcome; the lines of one chunk are all read before.                      *)
ChainGoesOn ==
  /\ publishing = Idle /\ chain # <<>>
  /\ chain' = Tail(chain)
  /\ Publish(Head(chain))
  /\ UNCHANGED <<closed, outcome, current, executing, extension, made, owner,
                 backlog, toBridge, hist>>

(* Its deadline passes while it waits for the connection or for the ack. *)
PublishTimesOut ==
  /\ HasDeadline(publishing.awaits)
  /\ Ends("failed")
  /\ UNCHANGED <<closed, desired, chain, current, executing, extension, wire, hist>>

(* handleConnection: the latest extension wins, and is sent the desired set. *)
Accepts ==
  /\ backlog # <<>> /\ ~closed
  /\ LET k == Head(backlog)
     IN /\ current' = k
        /\ toExt' = IF HeldByExtension(k)
                    THEN [toExt EXCEPT ![k] = @ \o Republished(desired)] ELSE toExt
        /\ toBridge' = Drained(toBridge, current)
  /\ backlog' = Tail(backlog)
  /\ publishing' = IF publishing.awaits = "connection"
                   THEN Awaits(publishing.set, "ack") ELSE publishing
  /\ UNCHANGED <<closed, desired, chain, outcome, executing, extension, made, owner,
                 hist>>

(* A line of the extension: an ack settles the publish() that waits for one, *)
(* whichever set it is of; a tool call goes to bb.                           *)
BridgeReads ==
  /\ current # None /\ toBridge[current] # <<>>
  /\ LET line == Head(toBridge[current])
     IN IF line.type = "tools/ack"
        THEN /\ IF publishing.awaits = "ack" THEN Ends(Settled(line.ok))
                ELSE UNCHANGED <<publishing, outcome>>
             /\ UNCHANGED executing
        ELSE /\ executing' = executing \cup {line.call}
             /\ UNCHANGED <<publishing, outcome>>
  /\ toBridge' = [toBridge EXCEPT ![current] = Tail(@)]
  /\ UNCHANGED <<closed, desired, chain, current, extension, made, owner, backlog,
                 toExt, hist>>

(* bb returned from a tool call: the result is written to the connection the *)
(* channel holds by now.                                                     *)
ToolReturns(c) ==
  /\ executing' = executing \ {c}
  /\ Write(current, ToolResult(c))
  /\ UNCHANGED <<closed, desired, chain, publishing, outcome, current, extension,
                 made, owner, backlog, toBridge, hist>>

(* The other end of the connection closed; a reset loses what is unread. *)
BridgeSeesClose ==
  /\ current # None /\ ~HeldByExtension(current)
  /\ current' = None
  /\ toBridge' = Drained(toBridge, current)
  /\ UNCHANGED <<closed, desired, chain, publishing, outcome, executing, extension,
                 made, owner, backlog, toExt, hist>>

(* close(), when the thread is released. *)
Close ==
  /\ ~closed
  /\ closed' = TRUE
  /\ current' = None
  /\ backlog' = <<>>
  /\ toBridge' = [k \in Connections |-> <<>>]
  /\ IF publishing = Idle THEN UNCHANGED <<publishing, outcome>> ELSE Ends("failed")
  /\ UNCHANGED <<desired, chain, executing, extension, made, owner, toExt, hist>>

-----------------------------------------------------------------------------
(* The extension. *)

(* prime starts a worker for the session, its first or a replacement (one    *)
(* started after the close finds nobody listening).                          *)
Starts ==
  /\ started < MaxInstances /\ ~closed
  /\ started' = started + 1
  /\ alive' = [alive EXCEPT ![started + 1] = TRUE]
  /\ UNCHANGED <<bridge, sock, pending, calls, active, wire, hist>>

(* session_start, or the reconnect timer. *)
Connects(e) ==
  /\ alive[e] /\ sock[e] = None /\ ~closed
  /\ made < MaxConnections
  /\ LET k == made + 1
     IN /\ made' = k
        /\ sock' = [sock EXCEPT ![e] = k]
        /\ owner' = [owner EXCEPT ![k] = e]
        /\ backlog' = Append(backlog, k)
  /\ UNCHANGED <<bridge, started, alive, pending, calls, active, toExt, toBridge, hist>>

(* handleToolsSet: the set replaces the one in force, unless prime rejects a *)
(* tool half-way.                                                            *)
AppliesSet(e) ==
  LET s == Head(toExt[sock[e]]).set IN
  /\ \/ /\ active' = [active EXCEPT ![e] = s]
        /\ applied' = applied \cup {s}
        /\ Send(sock[e], ToolsAck(TRUE))
     \/ /\ active' = [active EXCEPT ![e] = Mixed]
        /\ Send(sock[e], ToolsAck(FALSE))
        /\ UNCHANGED applied
  /\ UNCHANGED <<pending, misanswered>>

(* handleToolResult: it resolves the call that has its callId. *)
TakesResult(e) ==
  LET c == Head(toExt[sock[e]]).of IN
  /\ pending' = [pending EXCEPT ![e] = @ \ Pending(c.id)]
  /\ misanswered' = IF Awaited(e, c.id) /\ c.by # e
                    THEN misanswered \cup {Call(e, c.id)} ELSE misanswered
  /\ UNCHANGED <<active, toBridge, applied>>

ExtReads(e) ==
  /\ sock[e] # None /\ toExt[sock[e]] # <<>>
  /\ IF Head(toExt[sock[e]]).type = "tools/set" THEN AppliesSet(e) ELSE TakesResult(e)
  /\ toExt' = [toExt EXCEPT ![sock[e]] = Tail(@)]
  /\ UNCHANGED <<bridge, started, alive, sock, calls, made, owner, backlog>>

CallsMade == FoldFunction(LAMBDA n, m : n + m, 0, calls)

(* forwardToolCall: the model calls a tool of the set. *)
Calls(e) ==
  /\ alive[e] /\ active[e] # NoSet
  /\ CallsMade < MaxCalls
  /\ LET n == calls[e] + 1
     IN /\ calls' = [calls EXCEPT ![e] = n]
        /\ pending' = [pending EXCEPT ![e] = @ \cup {[id |-> n, sent |-> sock[e] # None]}]
        /\ IF sock[e] = None THEN UNCHANGED toBridge
           ELSE Send(sock[e], ToolCall(Call(e, n)))
  /\ UNCHANGED <<bridge, started, alive, sock, active, made, owner, backlog, toExt,
                 hist>>

(* prime aborts the run: the call is forgotten. *)
Aborts(e) ==
  /\ \E p \in pending[e] : pending' = [pending EXCEPT ![e] = @ \ {p}]
  /\ UNCHANGED <<bridge, started, alive, sock, calls, active, wire, hist>>

(* The bridge dropped the connection: the calls outstanding fail. *)
ExtSeesClose(e) ==
  /\ sock[e] # None /\ ~HeldByBridge(sock[e])
  /\ sock' = [sock EXCEPT ![e] = None]
  /\ pending' = [pending EXCEPT ![e] = FailPendingCalls(e)]
  /\ toExt' = Drained(toExt, sock[e])
  /\ UNCHANGED <<bridge, started, alive, calls, active, made, owner, backlog, toBridge,
                 hist>>

(* session_shutdown, or the worker's end. *)
ShutsDown(e) ==
  /\ alive[e]
  /\ alive' = [alive EXCEPT ![e] = FALSE]
  /\ sock' = [sock EXCEPT ![e] = None]
  /\ pending' = [pending EXCEPT ![e] = {}]
  /\ toExt' = Drained(toExt, sock[e])
  /\ UNCHANGED <<bridge, started, calls, active, made, owner, backlog, toBridge, hist>>

-----------------------------------------------------------------------------
Next ==
  \/ \E s \in Sets : SetTools(s)
  \/ ChainGoesOn \/ PublishTimesOut \/ Accepts \/ BridgeReads
  \/ \E c \in executing : ToolReturns(c)
  \/ BridgeSeesClose \/ Close \/ Starts
  \/ \E e \in Instances :
       \/ Connects(e) \/ ExtReads(e) \/ Calls(e) \/ Aborts(e)
       \/ ExtSeesClose(e) \/ ShutsDown(e)

Spec == Init /\ [][Next]_vars

(* Both event loops handle what arrived, a timer ends each publish(), and bb *)
(* returns from its tool calls.                                              *)
Fairness ==
  /\ WF_vars(ChainGoesOn) /\ WF_vars(PublishTimesOut)
  /\ WF_vars(Accepts \/ BridgeReads)
  /\ WF_vars(\E c \in executing : ToolReturns(c))
  /\ \A e \in Instances : WF_vars(ExtReads(e) \/ ExtSeesClose(e))

FairSpec == Spec /\ Fairness

-----------------------------------------------------------------------------
(* Properties. *)

BridgeTyped ==
  /\ closed \in BOOLEAN
  /\ desired \in Sets \cup {NoSet}
  /\ chain \in Seq(Sets)
  /\ publishing \in {Idle} \cup [set : Sets, awaits : {"connection", "ack"}]
  /\ outcome \in [Sets -> {"new", "waiting", "acked", "failed"}]
  /\ current \in Connections \cup {None}
  /\ executing \in SUBSET ToolCalls

ExtensionTyped ==
  /\ started \in 0..MaxInstances
  /\ alive \in [Instances -> BOOLEAN]
  /\ sock \in [Instances -> Connections \cup {None}]
  /\ pending \in [Instances -> SUBSET [id : Nat, sent : BOOLEAN]]
  /\ calls \in [Instances -> Nat]
  /\ active \in [Instances -> Sets \cup {NoSet, Mixed}]

WireTyped ==
  /\ made \in 0..MaxConnections
  /\ owner \in [Connections -> Instances \cup {None}]
  /\ backlog \in Seq(Connections)
  /\ toExt \in [Connections -> Seq(ToExtension)]
  /\ toBridge \in [Connections -> Seq(ToBridge)]

TypeOK ==
  /\ BridgeTyped /\ ExtensionTyped /\ WireTyped
  /\ applied \in SUBSET Sets
  /\ misanswered \in SUBSET ToolCalls

(* The extension the channel holds has the set the bridge published last in  *)
(* force, once it has read what it was sent, through every reconnect and     *)
(* replacement ("tool state follows the worker", handleConnection), also     *)
(* when that setTools gave up on it ("the tool set stays queued and is       *)
(* pushed if it connects later", waitForConnection).                         *)
Published == {s \in Sets : outcome[s] # "new" /\ \A j \in DOMAIN chain : chain[j] # s}
LastPublished == CHOOSE s \in Published : \A t \in Published : t <= s

ServedSetIsPublished ==
  LET e == owner[current] IN
  /\ current # None /\ Published # {}
  /\ HeldByExtension(current)
  /\ \A j \in DOMAIN toExt[current] : toExt[current][j].type # "tools/set"
  => active[e] \in {LastPublished, Mixed}

(* A setTools returns when the extension applied its set (publish awaits the *)
(* ack).  It holds for the one setTools the bridge makes on a channel.       *)
AloneAckIsOwn ==
  \A s \in Sets : (\A t \in Sets \ {s} : outcome[t] = "new") /\ outcome[s] = "acked"
                  => s \in applied

(* A tool call resolves with its own result ("The bridge executes the tool   *)
(* ... and answers exactly once", PROTOCOL.md).                              *)
ResultIsOfItsCall == misanswered = {}

(* Nobody hangs.  Every setTools returns, and a tool call that was sent is   *)
(* answered by the bridge or failed by the extension that lost the channel.  *)
ChannelSettles ==
  /\ \A s \in Sets : outcome[s] = "waiting" ~> outcome[s] \in {"acked", "failed"}
  /\ \A e \in Instances, n \in 1..MaxCalls :
       [id |-> n, sent |-> TRUE] \in pending[e] ~> ~Awaited(e, n)
=============================================================================
