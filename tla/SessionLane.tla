----------------------------- MODULE SessionLane -----------------------------
(***************************************************************************)
(* One bb thread's lane onto its daemon-resident prime session             *)
(* (src/prime-session.ts, class PrimeSession), after start() has attached  *)
(* it: turns, steers, interrupts and the release bb asks for, the prompts  *)
(* the lane sends, the fork anchors it queues with them, and what it does  *)
(* when the shared wire drops, comes back, or stays away.                  *)
(*                                                                         *)
(* The process is one JavaScript event loop, so what a handler does up to  *)
(* its next await on the wire is one action: the promise callbacks such a  *)
(* step resolves run before the next message is read, and belong to it.    *)
(* The socket is a pair of FIFO channels.  prime's daemon is external: it  *)
(* is modelled from what the lane's code, its comments, the scripted test  *)
(* daemon and docs/spikes/0001-prime-daemon-protocol.md say of it.         *)
(***************************************************************************)
EXTENDS Naturals, Sequences, FiniteSets

CONSTANTS
  Turns,          \* inputs bb sends with turn/start
  Steers,         \* inputs bb sends with turn/steer
  Foreign,        \* a prompt some other client of the session sends
  NoInput,        \* "undefined" where an input is expected
  MaxFaults,      \* how often each fault below may happen in a behaviour
  MaxKinds,       \* how many kinds of fault may happen in one behaviour
  MaxInterrupts   \* how many thread/stop {interrupt} requests bb sends

Inputs == Turns \cup Steers
Prompts == Inputs \cup {Foreign}

Faults == { "drop",      \* the wire is lost
            "refuse",    \* the daemon answers a prompt with success: false
            "timeout",   \* a prompt is answered after the client gave up
            "attach",    \* the daemon refuses an attach
            "merge",     \* a steer joins the run under way
            "foreign",   \* another client prompts the session
            "retry",     \* prime ends a run with willRetry and goes on
            "close",     \* the daemon closes the session
            "release" }  \* bb releases the thread

ASSUME InputsAssumption ==
  /\ IsFiniteSet(Turns) /\ IsFiniteSet(Steers) /\ Turns \cap Steers = {}
  /\ Foreign \notin Inputs /\ NoInput \notin Prompts
ASSUME BoundsAssumption ==
  MaxFaults \in [Faults -> Nat] /\ MaxKinds \in Nat /\ MaxInterrupts \in Nat

VARIABLES
  call,                \* where each turn() / steer() call stands
  parked,              \* the calls waiting on the gap's promise, oldest first
  openTurn,            \* this.openTurn, with the input whose call opened it
  pendingCheckpoints,  \* this.pendingCheckpoints; an input stands for its anchor
  connectionGap,       \* this.connectionGap: none, pending or resolved
  wireDown,            \* this.wireDown
  closed,              \* this.closed
  reattach,            \* the attach() of handleConnectionRestored
  stop,                \* the interrupt() or release() under way
  wire,                \* the shared daemon connection
  blocked,             \* commands waiting in ensureDaemonConnection
  toDaemon,            \* commands on the socket
  toLane,              \* answers and pushes on the socket
  seated,              \* the daemon streams the session to this client
  resident,            \* the daemon holds the session
  running,             \* the prompts of the run under way
  queue,               \* prime's follow-up lane
  faults,              \* faults so far
  interrupts,          \* interrupts so far
  boundaries,          \* every turn.boundary delta the lane computed (history)
  admissions           \* how often prime admitted each input (history)

lane  == <<call, parked, openTurn, pendingCheckpoints, connectionGap, wireDown,
           closed, reattach, stop>>
prime == <<seated, resident, running, queue>>
hist  == <<faults, interrupts, boundaries, admissions>>
vars  == <<lane, wire, blocked, toDaemon, toLane, prime, hist>>

NoTurn == [input |-> NoInput, settled |-> FALSE]
CallPhases == {"new", "parked", "asking", "reading", "sent", "done", "failed"}
CommandTypes == {"prompt", "attach", "get_queue", "abort", "detach"}

Commands ==
  {cmd \in [type : CommandTypes, input : Inputs \cup {NoInput}, steer : BOOLEAN] :
     cmd.type = "prompt" => cmd.input \in Inputs}
Messages == [type : CommandTypes \cup {"agent_end", "session_closed"},
             input : Inputs \cup {NoInput}, ok : BOOLEAN, run : SUBSET Prompts]
Boundaries == [status : {"ended", "failed", "interrupted"},
               anchor : Inputs \cup {NoInput},
               run : SUBSET Prompts,
               turn : Inputs \cup {NoInput}]

Cmd(type, i) == [type |-> type, input |-> i, steer |-> FALSE]
Answer(cmd, ok) == [type |-> cmd.type, input |-> cmd.input, ok |-> ok, run |-> {}]
Push(type, run) == [type |-> type, input |-> NoInput, ok |-> TRUE, run |-> run]

-----------------------------------------------------------------------------
(* Helpers of the lane. *)

(* awaitLive: nothing to wait for while no gap is open. *)
NeverWaits == TRUE
IsLive == connectionGap = "none"

HasOpenTurn == openTurn.input # NoInput /\ ~openTurn.settled

StillOpen(turn) == turn
Settled(turn) == [input |-> turn.input, settled |-> TRUE]

Happens(f) == faults' = [faults EXCEPT ![f] = @ + 1]
Fault(f) ==
  /\ faults[f] < MaxFaults[f]
  /\ Cardinality({g \in Faults \ {f} : faults[g] > 0}) < MaxKinds
  /\ Happens(f)

(* A command waits in ensureDaemonConnection unless the wire is up. *)
Send(cmds) ==
  IF wire = "up"
  THEN toDaemon' = toDaemon \o cmds /\ UNCHANGED blocked
  ELSE blocked' = blocked \o cmds /\ UNCHANGED toDaemon

(* turn() and steer() past awaitLive, for the calls in s in order: the new  *)
(* openTurn, the anchors queued with the sends, the commands.  A steer with *)
(* a turn of the lane open is prime's mid-turn prompt.                      *)
TurnAfter(s, turn) ==
  IF s = <<>> THEN turn ELSE [input |-> s[Len(s)], settled |-> FALSE]
PromptCmds(s, open) ==
  [k \in 1..Len(s) |-> [type |-> "prompt", input |-> s[k],
                        steer |-> s[k] \in Steers /\ (open \/ k > 1)]]
Elements(s) == {s[k] : k \in DOMAIN s}

(* pendingCheckpoints.shift(): an agent_end consumes the oldest anchor,      *)
(* whether its boundary is suppressed or not.                                *)
ShiftUnlessSuppressed(s, suppressed) ==
  IF s = <<>> \/ suppressed THEN s ELSE Tail(s)
PeekCheckpoints(s, suppressed) == s
RequeueUndefined(s, suppressed) == IF s = <<>> THEN <<NoInput>> ELSE Tail(s)
ShiftCheckpoints(s, suppressed) == IF s = <<>> THEN s ELSE Tail(s)

(* pendingCheckpoints.pop() n times: each takes the newest anchor back. *)
PopCheckpoints(s, n) == SubSeq(s, 1, IF n > Len(s) THEN 0 ELSE Len(s) - n)

Boundary(status, anchor, run, turn) ==
  [status |-> status, anchor |-> anchor, run |-> run, turn |-> turn]

Orderings(S) ==
  {s \in UNION {[1..n -> S] : n \in 0..Cardinality(S)} :
     Elements(s) = S /\ \A j, k \in DOMAIN s : s[j] = s[k] => j = k}

InPhase(phase) == {i \in Inputs : call[i] = phase}
MoveCalls(S, phase) == [i \in Inputs |-> IF i \in S THEN phase ELSE call[i]]

-----------------------------------------------------------------------------
Init ==
  /\ call = [i \in Inputs |-> "new"]
  /\ parked = <<>>
  /\ openTurn = NoTurn
  /\ pendingCheckpoints = <<>>
  /\ connectionGap = "none"
  /\ wireDown = FALSE
  /\ closed = FALSE
  /\ reattach = "none"
  /\ stop = "none"
  /\ wire = "up"
  /\ blocked = <<>>
  /\ toDaemon = <<>>
  /\ toLane = <<>>
  /\ seated = TRUE
  /\ resident = TRUE
  /\ running = {}
  /\ queue = <<>>
  /\ faults = [f \in Faults |-> 0]
  /\ interrupts = 0
  /\ boundaries = <<>>
  /\ admissions = [i \in Inputs |-> 0]

-----------------------------------------------------------------------------
(* What bb asks of the lane. *)

(* turn() / steer() with no gap: awaitLive returns, the prompt goes out. *)
PromptNow(i) ==
  /\ call[i] = "new" /\ stop # "released" /\ IsLive
  /\ call' = [call EXCEPT ![i] = "sent"]
  /\ openTurn' = TurnAfter(<<i>>, openTurn)
  /\ pendingCheckpoints' = Append(pendingCheckpoints, i)
  /\ Send(PromptCmds(<<i>>, HasOpenTurn))
  /\ UNCHANGED <<parked, connectionGap, wireDown, closed, reattach, stop,
                 wire, toLane, prime, hist>>

(* turn() / steer() into a gap still pending: awaitLive parks. *)
Park(i) ==
  /\ call[i] = "new" /\ stop # "released" /\ connectionGap = "pending"
  /\ call' = [call EXCEPT ![i] = "parked"]
  /\ parked' = Append(parked, i)
  /\ UNCHANGED <<openTurn, pendingCheckpoints, connectionGap, wireDown, closed,
                 reattach, stop, wire, blocked, toDaemon, toLane, prime, hist>>

(* turn() / steer() after the recovery gave up: awaitLive attaches itself. *)
AskAttach(i) ==
  /\ call[i] = "new" /\ stop # "released" /\ connectionGap = "unavailable"
  /\ call' = [call EXCEPT ![i] = "asking"]
  /\ Send(<<Cmd("attach", i)>>)
  /\ UNCHANGED <<parked, openTurn, pendingCheckpoints, connectionGap, wireDown,
                 closed, reattach, stop, wire, toLane, prime, hist>>

(* thread/stop {interrupt}: interrupt() computes the boundary of the turn    *)
(* that is open, or one that claims no turn, and with a turn open on a live  *)
(* wire it settles it and sends abort.  The bridge emits the boundary when   *)
(* interrupt() returns, whether the abort was answered or rejected.          *)
Interrupt ==
  /\ stop = "none" /\ interrupts < MaxInterrupts
  /\ interrupts' = interrupts + 1
  /\ boundaries' = Append(boundaries,
       Boundary("interrupted", NoInput, {}, IF HasOpenTurn THEN openTurn.input ELSE NoInput))
  /\ IF HasOpenTurn /\ ~wireDown
     THEN /\ openTurn' = Settled(openTurn)
          /\ stop' = "interrupting"
          /\ Send(<<Cmd("abort", NoInput)>>)
     ELSE UNCHANGED <<openTurn, stop, blocked, toDaemon>>
  /\ UNCHANGED <<call, parked, pendingCheckpoints, connectionGap, wireDown,
                 closed, reattach, wire, toLane, prime, faults,
                 admissions>>

(* release(): settling the gap sends every parked call on; then abort and    *)
(* detach, each skipped while the wire is down, and the lane stops listening.*)
Release ==
  /\ stop = "none" /\ Fault("release")
  /\ connectionGap' = "none"
  /\ LET woken == IF connectionGap = "pending" THEN parked ELSE <<>>
         aborts == HasOpenTurn /\ ~wireDown
         cmds == IF aborts THEN <<Cmd("abort", NoInput)>>
                 ELSE IF wireDown THEN <<>> ELSE <<Cmd("detach", NoInput)>>
         turn == IF aborts THEN Settled(openTurn) ELSE openTurn
     IN /\ parked' = IF connectionGap = "pending" THEN <<>> ELSE parked
        /\ call' = MoveCalls(Elements(woken), "sent")
        /\ openTurn' = TurnAfter(woken, turn)
        /\ pendingCheckpoints' = pendingCheckpoints \o woken
        /\ Send(cmds \o PromptCmds(woken, HasOpenTurn /\ ~aborts))
        /\ stop' = IF aborts THEN "releasing"
                   ELSE IF wireDown THEN "released" ELSE "detaching"
        /\ closed' = (closed \/ (wireDown /\ ~aborts))
  /\ UNCHANGED <<wireDown, reattach, wire, toLane, prime, interrupts, boundaries,
                 admissions>>

-----------------------------------------------------------------------------
(* What the daemon answers and pushes, as the lane reads it off the socket. *)

Receive(type) ==
  /\ toLane # <<>> /\ Head(toLane).type = type
  /\ toLane' = Tail(toLane)

(* The prompt's answer.  turn() ignores success: false, steer() throws on it *)
(* and takes the newest anchor back; a call that timed out hears nothing.    *)
PromptAnswered ==
  /\ Receive("prompt")
  /\ LET i == Head(toLane).input
         refused == i \in Steers /\ ~Head(toLane).ok
     IN IF call[i] = "sent"
        THEN /\ call' = [call EXCEPT ![i] = IF refused THEN "failed" ELSE "done"]
             /\ pendingCheckpoints' =
                  PopCheckpoints(pendingCheckpoints, IF refused THEN 1 ELSE 0)
        ELSE UNCHANGED <<call, pendingCheckpoints>>
  /\ UNCHANGED <<parked, openTurn, connectionGap, wireDown, closed, reattach,
                 stop, wire, blocked, toDaemon, prime, hist>>

(* The request timer fires first: the call throws and its catch pops. *)
PromptTimesOut(i) ==
  /\ call[i] = "sent" /\ wire = "up" /\ Fault("timeout")
  /\ call' = [call EXCEPT ![i] = "failed"]
  /\ pendingCheckpoints' = PopCheckpoints(pendingCheckpoints, 1)
  /\ UNCHANGED <<parked, openTurn, connectionGap, wireDown, closed, reattach,
                 stop, wire, blocked, toDaemon, toLane, prime, interrupts,
                 boundaries, admissions>>

(* The attach's answer: attach() goes on to read the queue; a refusal leaves *)
(* the gap of handleConnectionRestored as it is and fails awaitLive's call.  *)
AttachAnswered ==
  /\ Receive("attach")
  /\ LET i == Head(toLane).input
         ok == Head(toLane).ok
     IN /\ IF i = NoInput
           THEN reattach' = (IF ok THEN "reading" ELSE "none") /\ UNCHANGED call
           ELSE /\ call' = [call EXCEPT ![i] = IF ok THEN "reading" ELSE "failed"]
                /\ UNCHANGED reattach
        /\ Send(IF ok THEN <<Cmd("get_queue", i)>> ELSE <<>>)
  /\ UNCHANGED <<parked, openTurn, pendingCheckpoints, connectionGap, wireDown,
                 closed, stop, wire, prime, hist>>

(* The calls that go on when the gap settles, in the order they parked, and  *)
(* the call i whose own attach settled it.                                   *)
WokenTwice(i) == (IF i = NoInput THEN parked ELSE parked \o <<i>>) \o parked
Woken(i) == IF i = NoInput THEN parked ELSE parked \o <<i>>

(* attach() returns: the wire counts as live, the gap settles "recovered",   *)
(* and every call waiting on it prompts.                                     *)
QueueAnswered ==
  /\ Receive("get_queue")
  /\ LET i == Head(toLane).input
         woken == Woken(i)
     IN /\ call' = MoveCalls(Elements(woken), "sent")
        /\ openTurn' = TurnAfter(woken, openTurn)
        /\ pendingCheckpoints' = pendingCheckpoints \o woken
        /\ Send(PromptCmds(woken, HasOpenTurn))
        /\ reattach' = IF i = NoInput THEN "none" ELSE reattach
  /\ parked' = <<>>
  /\ connectionGap' = "none"
  /\ wireDown' = FALSE
  /\ UNCHANGED <<closed, stop, wire, prime, hist>>

(* abort() returned: an interrupt is over, a release goes on to detach. *)
AbortAnswered ==
  /\ Receive("abort")
  /\ IF stop = "interrupting"
     THEN stop' = "none" /\ UNCHANGED <<blocked, toDaemon>>
     ELSE stop' = "detaching" /\ Send(<<Cmd("detach", NoInput)>>)
  /\ UNCHANGED <<call, parked, openTurn, pendingCheckpoints, connectionGap,
                 wireDown, closed, reattach, wire, prime, hist>>

DetachAnswered ==
  /\ Receive("detach")
  /\ stop' = "released"
  /\ closed' = TRUE
  /\ UNCHANGED <<call, parked, openTurn, pendingCheckpoints, connectionGap,
                 wireDown, reattach, wire, blocked, toDaemon, prime, hist>>

(* deliver() of an agent_end: it consumes the oldest anchor, and closes bb's *)
(* turn unless the open turn was settled already.                            *)
AgentEndDelivered ==
  /\ Receive("agent_end")
  /\ IF closed
     THEN UNCHANGED <<pendingCheckpoints, openTurn, boundaries>>
     ELSE /\ pendingCheckpoints' =
               ShiftCheckpoints(pendingCheckpoints, openTurn.settled)
          /\ IF openTurn.settled
             THEN UNCHANGED <<openTurn, boundaries>>
             ELSE /\ boundaries' = Append(boundaries,
                       Boundary("ended",
                         IF pendingCheckpoints = <<>> THEN NoInput
                         ELSE Head(pendingCheckpoints),
                         Head(toLane).run, openTurn.input))
                  /\ openTurn' = IF openTurn.input = NoInput THEN openTurn
                                 ELSE Settled(openTurn)
  /\ UNCHANGED <<call, parked, connectionGap, wireDown, closed, reattach, stop,
                 wire, blocked, toDaemon, prime, faults, interrupts,
                 admissions>>

(* handlePush of session_closed. *)
ClosedDelivered ==
  /\ Receive("session_closed")
  /\ closed' = TRUE
  /\ UNCHANGED <<call, parked, openTurn, pendingCheckpoints, connectionGap,
                 wireDown, reattach, stop, wire, blocked, toDaemon, prime, hist>>

-----------------------------------------------------------------------------
(* The shared connection's events (src/daemon/connection.ts). *)

(* Every request in flight is rejected: prompts fail and pop, attaches fail. *)
Rejected == InPhase("sent") \cup InPhase("asking")
PoppedByReject == PopCheckpoints(pendingCheckpoints, Cardinality(InPhase("sent")))

(* An interrupt whose abort is rejected is over all the same; a release      *)
(* skips the detach if the wire is known to be down.                         *)
StopAfterReject(down) ==
  IF stop \in {"none", "interrupting"} THEN "none"
  ELSE IF stop = "releasing" /\ ~down THEN "detaching" ELSE "released"

(* handleConnectionLost acts once per gap, and fails a turn that is open. *)
HearsLossMidTurn == ~closed /\ connectionGap = "none" /\ HasOpenTurn
HearsLoss == ~closed /\ connectionGap = "none"
ForgetsOpenTurn == FALSE
FailsOpenTurn == HearsLoss /\ HasOpenTurn

(* The wire drops.  handleConnectionLost fails the open turn and opens the   *)
(* gap, unless one is open; requests in flight are rejected.  An attach()    *)
(* that was reading the queue swallows that rejection and counts as done: it *)
(* settles the gap, and the calls it wakes wait for the wire in the request. *)
ConnectionLost ==
  /\ wire = "up" /\ Fault("drop")
  /\ wire' = "recovering"
  /\ toDaemon' = <<>> /\ toLane' = <<>>
  /\ seated' = FALSE
  /\ \/ UNCHANGED <<running, queue>>
     \/ running' = {} /\ queue' = <<>>
  /\ LET turn == IF FailsOpenTurn THEN Settled(openTurn) ELSE openTurn
         attached == reattach = "reading" \/ InPhase("reading") # {}
         down == IF attached THEN FALSE ELSE (wireDown \/ HearsLoss)
         then == StopAfterReject(down)
     IN \E readers \in Orderings(InPhase("reading")) :
          LET woken == IF attached THEN parked \o readers ELSE <<>>
          IN /\ openTurn' = TurnAfter(woken, turn)
             /\ call' = [i \in Inputs |->
                           IF i \in Elements(woken) THEN "sent"
                           ELSE IF i \in Rejected THEN "failed" ELSE call[i]]
             /\ parked' = IF attached THEN <<>> ELSE parked
             /\ pendingCheckpoints' = PoppedByReject \o woken
             /\ blocked' = PromptCmds(woken, turn.input # NoInput /\ ~turn.settled)
                             \o (IF then = "detaching"
                                 THEN <<Cmd("detach", NoInput)>> ELSE <<>>)
             /\ connectionGap' = IF attached THEN "none"
                                 ELSE IF HearsLoss THEN "pending" ELSE connectionGap
             /\ wireDown' = down
             /\ stop' = then
             /\ closed' = (closed \/ then = "released")
             /\ boundaries' =
                  IF FailsOpenTurn
                  THEN Append(boundaries, Boundary("failed", NoInput, {}, openTurn.input))
                  ELSE boundaries
  /\ reattach' = "none"
  /\ UNCHANGED <<resident, interrupts, admissions>>

(* The recovery succeeds: commands that waited for it go out, then the       *)
(* lane's own re-attach.                                                     *)
ConnectionRestored ==
  /\ wire = "recovering"
  /\ wire' = "up"
  /\ toDaemon' = blocked \o (IF closed THEN <<>> ELSE <<Cmd("attach", NoInput)>>)
  /\ blocked' = <<>>
  /\ reattach' = IF closed THEN "none" ELSE "asking"
  /\ UNCHANGED <<call, parked, openTurn, pendingCheckpoints, connectionGap,
                 wireDown, closed, stop, toLane, prime, hist>>

(* "unavailable" resolves the gap: every parked call wakes, unless the lane  *)
(* is closed and ignores the event.                                          *)
NobodyWakes == <<>>
WokenByUnavailable == IF closed THEN <<>> ELSE parked

(* The recovery gives up: what waited for it is rejected, and each parked    *)
(* call tries one attach of its own, which dials afresh.                     *)
ConnectionUnavailable ==
  /\ wire = "recovering"
  /\ wire' = "gone"
  /\ LET woken == WokenByUnavailable
     IN /\ call' = [i \in Inputs |->
                      IF i \in Elements(woken) THEN "asking"
                      ELSE IF i \in Rejected THEN "failed" ELSE call[i]]
        /\ blocked' = [k \in 1..Len(woken) |-> Cmd("attach", woken[k])]
        /\ parked' = IF woken = parked THEN <<>> ELSE parked
  /\ connectionGap' = IF ~closed /\ connectionGap = "pending"
                      THEN "unavailable" ELSE connectionGap
  /\ pendingCheckpoints' = PoppedByReject
  /\ stop' = StopAfterReject(TRUE)
  /\ closed' = (closed \/ stop' = "released")
  /\ UNCHANGED <<openTurn, wireDown, reattach, toDaemon, toLane, prime, hist>>

(* A request of this or of another lane dials a fresh transport. *)
DialSucceeds ==
  /\ wire = "gone"
  /\ wire' = "up"
  /\ toDaemon' = blocked
  /\ blocked' = <<>>
  /\ UNCHANGED <<lane, toLane, prime, hist>>

DialFails ==
  /\ wire = "gone" /\ blocked # <<>>
  /\ blocked' = <<>>
  /\ call' = MoveCalls(Rejected, "failed")
  /\ pendingCheckpoints' = PoppedByReject
  /\ stop' = StopAfterReject(TRUE)
  /\ closed' = (closed \/ stop' = "released")
  /\ UNCHANGED <<parked, openTurn, connectionGap, wireDown, reattach, wire,
                 toDaemon, toLane, prime, hist>>

-----------------------------------------------------------------------------
(* prime's daemon. *)

Accept(type) ==
  /\ toDaemon # <<>> /\ Head(toDaemon).type = type
  /\ toDaemon' = Tail(toDaemon)
  /\ UNCHANGED <<lane, wire, blocked, interrupts, boundaries>>

(* A prompt is answered when it is admitted: a mid-turn steer joins the run  *)
(* under way, anything else runs now or waits in the follow-up lane.         *)
DaemonAdmits ==
  /\ Accept("prompt")
  /\ resident
  /\ LET cmd == Head(toDaemon)
         joins == cmd.steer /\ running # {}
     IN /\ toLane' = Append(toLane, Answer(cmd, TRUE))
        /\ IF joins THEN Happens("merge") ELSE UNCHANGED faults
        /\ running' = IF joins \/ running = {} THEN running \cup {cmd.input}
                      ELSE running
        /\ queue' = IF joins \/ running = {} THEN queue
                    ELSE Append(queue, cmd.input)
        /\ admissions' = [admissions EXCEPT ![cmd.input] = @ + 1]
  /\ UNCHANGED <<seated, resident>>

DaemonRefuses ==
  /\ Accept("prompt")
  /\ toLane' = Append(toLane, Answer(Head(toDaemon), FALSE))
  /\ IF resident THEN Fault("refuse") ELSE UNCHANGED faults
  /\ UNCHANGED <<prime, admissions>>

DaemonAttaches ==
  /\ Accept("attach")
  /\ \/ /\ resident
        /\ seated' = TRUE
        /\ toLane' = Append(toLane, Answer(Head(toDaemon), TRUE))
        /\ UNCHANGED faults
     \/ /\ IF resident THEN Fault("attach") ELSE UNCHANGED faults
        /\ toLane' = Append(toLane, Answer(Head(toDaemon), FALSE))
        /\ UNCHANGED seated
  /\ UNCHANGED <<resident, running, queue, admissions>>

DaemonReadsQueue ==
  /\ Accept("get_queue")
  /\ toLane' = Append(toLane, Answer(Head(toDaemon), TRUE))
  /\ UNCHANGED <<prime, faults, admissions>>

(* The run under way ends; the next follow-up starts. *)
NextRun ==
  /\ running' = IF queue = <<>> THEN {} ELSE {Head(queue)}
  /\ queue' = IF queue = <<>> THEN <<>> ELSE Tail(queue)

Streamed(push) == IF seated THEN <<push>> ELSE <<>>

(* abort stops the run at once or after its current tool round. *)
DaemonAborts ==
  /\ Accept("abort")
  /\ \/ /\ running # {}
        /\ toLane' = toLane \o Streamed(Push("agent_end", running))
                            \o <<Answer(Head(toDaemon), TRUE)>>
        /\ NextRun
     \/ /\ toLane' = Append(toLane, Answer(Head(toDaemon), TRUE))
        /\ UNCHANGED <<running, queue>>
  /\ UNCHANGED <<seated, resident, faults, admissions>>

DaemonDetaches ==
  /\ Accept("detach")
  /\ seated' = FALSE
  /\ toLane' = Append(toLane, Answer(Head(toDaemon), TRUE))
  /\ UNCHANGED <<resident, running, queue, faults, admissions>>

DaemonEndsRun ==
  /\ running # {}
  /\ toLane' = toLane \o Streamed(Push("agent_end", running))
  /\ NextRun
  /\ UNCHANGED <<lane, wire, blocked, toDaemon, seated, resident, hist>>

DaemonRetriesRun ==
  /\ running # {} /\ Fault("retry")
  /\ toLane' = toLane \o Streamed(Push("agent_end", running))
  /\ UNCHANGED <<lane, wire, blocked, toDaemon, prime, interrupts, boundaries,
                 admissions>>

ForeignPrompt ==
  /\ resident /\ Fault("foreign")
  /\ running' = IF running = {} THEN {Foreign} ELSE running
  /\ queue' = IF running = {} THEN queue ELSE Append(queue, Foreign)
  /\ UNCHANGED <<lane, wire, blocked, toDaemon, toLane, seated, resident,
                 interrupts, boundaries, admissions>>

DaemonClosesSession ==
  /\ resident /\ Fault("close")
  /\ toLane' = toLane \o Streamed(Push("session_closed", {}))
  /\ seated' = FALSE /\ resident' = FALSE
  /\ running' = {} /\ queue' = <<>>
  /\ UNCHANGED <<lane, wire, blocked, toDaemon, interrupts, boundaries, admissions>>

-----------------------------------------------------------------------------
LaneReads ==
  \/ PromptAnswered \/ AttachAnswered \/ QueueAnswered \/ AbortAnswered
  \/ DetachAnswered \/ AgentEndDelivered \/ ClosedDelivered

DaemonReads ==
  \/ DaemonAdmits \/ DaemonRefuses \/ DaemonAttaches \/ DaemonReadsQueue
  \/ DaemonAborts \/ DaemonDetaches

Next ==
  \/ \E i \in Inputs : PromptNow(i) \/ Park(i) \/ AskAttach(i) \/ PromptTimesOut(i)
  \/ Interrupt \/ Release
  \/ LaneReads
  \/ ConnectionLost \/ ConnectionRestored \/ ConnectionUnavailable
  \/ DialSucceeds \/ DialFails
  \/ DaemonReads
  \/ DaemonEndsRun \/ DaemonRetriesRun \/ ForeignPrompt \/ DaemonClosesSession

Spec == Init /\ [][Next]_vars

(* The event loop reads what arrives; prime answers commands and ends its    *)
(* runs; the recovery loop has a budget and so does a dial.  Nothing makes   *)
(* bb send an input, or anything fail.                                       *)
Fairness ==
  /\ WF_vars(LaneReads)
  /\ WF_vars(DaemonReads)
  /\ WF_vars(DaemonEndsRun)
  /\ WF_vars(ConnectionRestored \/ ConnectionUnavailable)
  /\ WF_vars((DialSucceeds \/ DialFails) /\ blocked # <<>>)

FairSpec == Spec /\ Fairness

-----------------------------------------------------------------------------
(* Properties. *)

TypeOK ==
  /\ call \in [Inputs -> CallPhases]
  /\ parked \in Seq(Inputs)
  /\ openTurn \in [input : Inputs \cup {NoInput}, settled : BOOLEAN]
  /\ pendingCheckpoints \in Seq(Inputs)
  /\ connectionGap \in {"none", "pending", "unavailable"}
  /\ wireDown \in BOOLEAN
  /\ closed \in BOOLEAN
  /\ reattach \in {"none", "asking", "reading"}
  /\ stop \in {"none", "interrupting", "releasing", "detaching", "released"}
  /\ wire \in {"up", "recovering", "gone"}
  /\ blocked \in Seq(Commands)
  /\ toDaemon \in Seq(Commands)
  /\ toLane \in Seq(Messages)
  /\ seated \in BOOLEAN
  /\ resident \in BOOLEAN
  /\ running \in SUBSET Prompts
  /\ queue \in Seq(Prompts)
  /\ faults \in [Faults -> Nat]
  /\ interrupts \in Nat
  /\ boundaries \in Seq(Boundaries)
  /\ admissions \in [Inputs -> Nat]

(* What the checkpoint FIFO takes for granted: each input sent is admitted,  *)
(* runs by itself, ends once, and the lane hears its end.                    *)
Undisturbed == \A f \in Faults : faults[f] = 0

Ends == {k \in DOMAIN boundaries : boundaries[k].status = "ended"}

(* A boundary that ends a run carries the anchor of a prompt of that run: bb *)
(* stores it and forks there later ("the fork anchor minted for the run this *)
(* agent_end settles", TranslationContext).                                  *)
AnchorIsOfItsRun == \A k \in Ends : boundaries[k].anchor \in boundaries[k].run

(* ... and as long as nothing disturbs the lane, whatever bb sends and       *)
(* interrupts, it does.                                                      *)
AnchorsAligned == Undisturbed => AnchorIsOfItsRun

(* An anchor is in one place at most: queued once, or on one boundary.       *)
AnchorSpentOnce ==
  LET stamped(i) == {k \in DOMAIN boundaries : boundaries[k].anchor = i}
      queued(i) == {k \in DOMAIN pendingCheckpoints : pendingCheckpoints[k] = i}
  IN \A i \in Inputs : Cardinality(stamped(i)) + Cardinality(queued(i)) <= 1

(* No turn of the lane is closed twice, by runs that end, by an interrupt or *)
(* by the wire's loss: what the bridge settled itself a later agent_end does *)
(* not settle again, nor does the loss, nor another interrupt.               *)
TurnClosedOnce ==
  \A j, k \in DOMAIN boundaries :
    j # k => boundaries[j].turn # boundaries[k].turn \/ boundaries[j].turn = NoInput

(* The lane implements PromptOnce: no input is sent or admitted twice.       *)
Ledger ==
  [i \in Inputs |-> IF call[i] \in {"parked", "asking", "reading"} THEN "waiting"
                    ELSE call[i]]
Once == INSTANCE PromptOnce WITH ledger <- Ledger
ImplementsPromptOnce == Once!Spec

(* Whatever the wire does, a call owns one request at most, waiting, on the   *)
(* socket or being answered, and where the call stands says which.           *)

(* A request or an answer of input i is of the kind call[i] waits for. *)
Fits(x) ==
  \/ x.input = NoInput /\ x.type # "prompt"
  \/ /\ x.input \in Inputs
     /\ \/ x.type = "prompt" /\ call[x.input] \in {"sent", "done", "failed"}
        \/ x.type = "attach" /\ call[x.input] = "asking"
        \/ x.type = "get_queue" /\ call[x.input] = "reading"

(* A prompt that has not reached prime. *)
Unread(c) ==
  c.type = "prompt" => call[c.input] # "done" /\ admissions[c.input] = 0

(* No two entries of a channel are of the same input; nor, below, of two. *)
Unique(s) ==
  \A j, k \in DOMAIN s : j # k /\ s[j].input = s[k].input => s[j].input = NoInput

Apart(s, t) ==
  \A x \in Elements(s), y \in Elements(t) : x.input = y.input => x.input = NoInput

WireInv ==
  /\ wire = "up" => blocked = <<>>
  /\ wire # "up" => toDaemon = <<>> /\ toLane = <<>> /\ ~seated

ParkedInv ==
  /\ \A i \in Elements(parked) : call[i] = "parked"
  /\ \A j, k \in DOMAIN parked : j # k => parked[j] # parked[k]

FitInv ==
  /\ \A x \in Elements(blocked) : Fits(x) /\ Unread(x)
  /\ \A x \in Elements(toDaemon) : Fits(x) /\ Unread(x)
  /\ \A x \in Elements(toLane) : Fits(x)

UniqueInv ==
  Unique(blocked) /\ Unique(toDaemon) /\ Unique(toLane) /\ Apart(toDaemon, toLane)

AdmissionInv ==
  \A i \in Inputs :
    call[i] \in {"new", "parked", "asking", "reading"} => admissions[i] = 0

OneRequestPerCall ==
  WireInv /\ ParkedInv /\ FitInv /\ UniqueInv /\ AdmissionInv

(* Prompts reach the daemon only from a client it streams to, or right       *)
(* behind that client's attach: otherwise the run streams to nobody          *)
(* (applyTurnOptions, awaitLive).  A session the daemon closed runs nothing.  *)
PromptsFollowAttach ==
  \A k \in DOMAIN toDaemon :
    toDaemon[k].type = "prompt" /\ resident =>
      seated \/ \E j \in 1..(k - 1) : toDaemon[j].type = "attach"

(* A lane that counts its wire as live is attached to its session.           *)
LiveLaneIsSeated ==
  wire = "up" /\ ~wireDown /\ ~closed /\ resident /\ stop # "detaching" => seated

(* Both hold while the wire drops once: see README for what a second drop    *)
(* during the re-attach does to them.                                        *)
OnceDropped == faults["drop"] <= 1 /\ faults["release"] = 0
PromptsFollowAttachOnce == OnceDropped => PromptsFollowAttach
LiveLaneIsSeatedOnce == faults["drop"] <= 1 => LiveLaneIsSeated

(* Every turn() and steer() returns, with an answer or an error: a call that *)
(* parked on the gap wakes up when the lane re-attached or the recovery gave *)
(* up ("fails legibly instead of hanging", connectionGap).                   *)
CallsReturn == \A i \in Inputs : call[i] # "new" ~> call[i] \in {"done", "failed"}

(* A turn left open until agent_end does get settled: by its run, by an      *)
(* interrupt, or by the wire's loss, unless its own call returned an error.  *)
OpenTurnSettles ==
  HasOpenTurn ~> \/ ~HasOpenTurn \/ closed
                 \/ call[openTurn.input] = "failed"
                 \/ faults["drop"] > 1
=============================================================================
