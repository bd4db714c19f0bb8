-------------------------- MODULE SessionLane_proofs --------------------------
(***************************************************************************)
(* Proofs about SessionLane for every set of inputs and every bound.       *)
(*                                                                         *)
(* First its type invariant, and that the lane implements PromptOnce. The  *)
(* refinement rests on one observation: whatever the wire does, a call     *)
(* owns at most one request, and where that request is tells where the     *)
(* call stands.                                                            *)
(*                                                                         *)
(* Then its turns and its anchors: no turn is closed twice, no anchor is   *)
(* spent twice, and an anchor is of the run it is stamped on as long as    *)
(* nothing disturbs the lane. The first two read every step of the lane as *)
(* one move (LaneMove): calls that never prompted prompt, the queue of     *)
(* anchors loses some of its entries, and one boundary at most closes the  *)
(* turn that was open.                                                     *)
(*                                                                         *)
(* Then its seat: while the wire drops once at most, a lane that counts as *)
(* live is attached, and prompts follow their attach.                      *)
(***************************************************************************)
EXTENDS SessionLane, SequenceTheorems, FiniteSetTheorems, TLAPS

-----------------------------------------------------------------------------
(* Lemmas about the operators of the lane. *)

(* Joining two sequences keeps their element type. *)
LEMMA ConcatType ==
  ASSUME NEW S, NEW s \in Seq(S), NEW t \in Seq(S)
  PROVE  s \o t \in Seq(S)
BY ConcatProperties

(* One element or none is a sequence. *)
LEMMA IfSeqType ==
  ASSUME NEW S, NEW x \in S, NEW b \in BOOLEAN
  PROVE  (IF b THEN <<x>> ELSE <<>>) \in Seq(S)
OBVIOUS

(* Taking anchors back leaves a sequence of inputs. *)
LEMMA PopType ==
  ASSUME NEW S, NEW s \in Seq(S), NEW n \in Nat
  PROVE  PopCheckpoints(s, n) \in Seq(S)
<1> DEFINE m == IF n > Len(s) THEN 0 ELSE Len(s) - n
<1>1. m \in Int /\ m <= Len(s)
  BY LenProperties
<1>2. \A i \in 1..m : s[i] \in S
  BY <1>1, ElementOfSeq, LenProperties
<1>3. SubSeq(s, 1, m) \in Seq(S)
  <2> HIDE DEF m
  <2> QED BY <1>1, <1>2, SubSeqProperties
<1> QED BY <1>3 DEF PopCheckpoints

(* The turn the sends leave open is a turn. *)
LEMMA TurnAfterType ==
  ASSUME NEW s \in Seq(Inputs),
         NEW turn \in [input : Inputs \cup {NoInput}, settled : BOOLEAN]
  PROVE  TurnAfter(s, turn) \in [input : Inputs \cup {NoInput}, settled : BOOLEAN]
<1>1. CASE s = <<>>
  BY <1>1 DEF TurnAfter
<1>2. CASE s # <<>>
  <2>1. Len(s) \in 1..Len(s)
    BY <1>2, EmptySeq, LenProperties
  <2> QED BY <1>2, <2>1, ElementOfSeq DEF TurnAfter
<1> QED BY <1>1, <1>2

(* Settling a turn leaves a turn. *)
LEMMA SettledType ==
  ASSUME openTurn \in [input : Inputs \cup {NoInput}, settled : BOOLEAN]
  PROVE  Settled(openTurn) \in [input : Inputs \cup {NoInput}, settled : BOOLEAN]
BY DEF Settled

(* Calls sent on become as many commands, all of them prompts. *)
LEMMA PromptCmdsType ==
  ASSUME NEW s \in Seq(Inputs), NEW open \in BOOLEAN
  PROVE  /\ PromptCmds(s, open) \in Seq(Commands)
         /\ Len(PromptCmds(s, open)) = Len(s)
<1> DEFINE n == Len(s)
           f == PromptCmds(s, open)
<1>1. n \in Nat
  BY LenProperties
<1>2. \A k \in 1..n : s[k] \in Inputs
  BY ElementOfSeq
<1>3. f = [k \in 1..n |-> f[k]] /\ \A k \in 1..n : f[k] \in Commands
  BY <1>1, <1>2 DEF PromptCmds, Commands, CommandTypes
<1>4. f \in [1..n -> Commands]
  BY <1>3
<1> QED BY <1>1, <1>4

(* A request of the lane other than a prompt is a command. *)
LEMMA CmdType ==
  ASSUME NEW type \in CommandTypes \ {"prompt"}, NEW i \in Inputs \cup {NoInput}
  PROVE  Cmd(type, i) \in Commands
BY DEF Cmd, Commands

(* The answer to a command is a message. *)
LEMMA AnswerType ==
  ASSUME NEW cmd \in Commands, NEW ok \in BOOLEAN
  PROVE  Answer(cmd, ok) \in Messages
BY DEF Answer, Messages, Commands

(* What the daemon pushes is a message. *)
LEMMA PushType ==
  ASSUME NEW type \in {"agent_end", "session_closed"}, NEW run \in SUBSET Prompts
  PROVE  Push(type, run) \in Messages
BY DEF Push, Messages

(* A boundary delta has the fields of a boundary. *)
LEMMA BoundaryType ==
  ASSUME NEW status \in {"ended", "failed", "interrupted"},
         NEW anchor \in Inputs \cup {NoInput}, NEW run \in SUBSET Prompts,
         NEW turn \in Inputs \cup {NoInput}
  PROVE  Boundary(status, anchor, run, turn) \in Boundaries
BY DEF Boundary, Boundaries

(* A fault that happens is counted. *)
LEMMA HappensType ==
  ASSUME faults \in [Faults -> Nat], NEW f \in Faults, Happens(f)
  PROVE  faults' \in [Faults -> Nat]
BY DEF Happens

(* Calls in a phase can be counted: there are finitely many. *)
LEMMA CountType ==
  ASSUME NEW phase
  PROVE  Cardinality(InPhase(phase)) \in Nat
<1>1. IsFiniteSet(Inputs)
  BY InputsAssumption, FS_Union DEF Inputs
<1>2. InPhase(phase) \subseteq Inputs
  BY DEF InPhase
<1> QED BY <1>1, <1>2, FS_Subset, FS_CardinalityType

(* An order of a set of inputs is a sequence of inputs. *)
LEMMA OrderingsType ==
  ASSUME NEW S \in SUBSET Inputs, NEW s \in Orderings(S)
  PROVE  s \in Seq(Inputs)
<1>1. IsFiniteSet(S) /\ Cardinality(S) \in Nat
  BY InputsAssumption, FS_Union, FS_Subset, FS_CardinalityType DEF Inputs
<1>2. PICK n \in 0..Cardinality(S) : s \in [1..n -> S]
  BY DEF Orderings
<1> QED BY <1>1, <1>2

(* A send keeps both channels sequences of commands. *)
LEMMA SendType ==
  ASSUME blocked \in Seq(Commands), toDaemon \in Seq(Commands),
         NEW cmds \in Seq(Commands), Send(cmds)
  PROVE  blocked' \in Seq(Commands) /\ toDaemon' \in Seq(Commands)
BY ConcatType DEF Send

(* What the lane reads is a message; the rest stays a channel. *)
LEMMA ReceiveType ==
  ASSUME toLane \in Seq(Messages), NEW type, Receive(type)
  PROVE  /\ Head(toLane) \in Messages /\ Head(toLane).type = type
         /\ toLane' \in Seq(Messages)
BY HeadTailProperties DEF Receive

(* What the daemon does between reading commands leaves the lane alone. *)
LaneKept ==
  UNCHANGED <<call, parked, openTurn, pendingCheckpoints, connectionGap, wireDown,
              closed, reattach, stop, wire, blocked, interrupts, boundaries>>

(* What the daemon reads is a command, and the lane does not move. *)
LEMMA AcceptType ==
  ASSUME toDaemon \in Seq(Commands), NEW type, Accept(type)
  PROVE  /\ Head(toDaemon) \in Commands /\ Head(toDaemon).type = type
         /\ toDaemon' \in Seq(Commands)
         /\ LaneKept
BY HeadTailProperties DEF Accept, LaneKept, lane

(* Answering keeps the channel to the lane a channel. *)
LEMMA AnswersType ==
  ASSUME toLane \in Seq(Messages), NEW cmd \in Commands, NEW ok \in BOOLEAN
  PROVE  Append(toLane, Answer(cmd, ok)) \in Seq(Messages)
BY AnswerType, AppendProperties

(* Where a stop stands after its request was rejected. *)
LEMMA StopType ==
  ASSUME TypeOK, NEW down \in BOOLEAN
  PROVE  StopAfterReject(down) \in {"none", "detaching", "released"}
BY DEF StopAfterReject

(* Moving calls to a phase leaves every call in a phase. *)
LEMMA MoveCallsType ==
  ASSUME TypeOK, NEW S, NEW phase \in CallPhases
  PROVE  MoveCalls(S, phase) \in [Inputs -> CallPhases]
BY DEF TypeOK, MoveCalls

(* The calls an attach wakes are inputs. *)
LEMMA WokenType ==
  ASSUME parked \in Seq(Inputs), NEW i \in Inputs \cup {NoInput}
  PROVE  Woken(i) \in Seq(Inputs)
<1>1. CASE i = NoInput
  BY <1>1 DEF Woken
<1>2. CASE i # NoInput
  <2>1. <<i>> \in Seq(Inputs)
    BY <1>2
  <2> QED BY <1>2, <2>1, ConcatType DEF Woken
<1> QED BY <1>1, <1>2

(* A push streamed to this client, or to nobody, is a channel. *)
LEMMA StreamedType ==
  ASSUME NEW push \in Messages
  PROVE  Streamed(push) \in Seq(Messages)
BY DEF Streamed

(* The run that follows is of prompts, and so is what stays queued. *)
LEMMA NextRunType ==
  ASSUME queue \in Seq(Prompts), NextRun
  PROVE  running' \in SUBSET Prompts /\ queue' \in Seq(Prompts)
BY HeadTailProperties, EmptySeq DEF NextRun

(* The elements of a sequence are of its type. *)
LEMMA ElementsType ==
  ASSUME NEW S, NEW s \in Seq(S)
  PROVE  Elements(s) \subseteq S
BY ElementOfSeq, LenProperties DEF Elements

-----------------------------------------------------------------------------
(* Type correctness: the variables keep their types, whatever bb, the wire and *)
(* prime do.                                                                   *)

(* The lane starts well typed. *)
LEMMA TypeInit == Init => TypeOK
<1> SUFFICES ASSUME Init PROVE TypeOK
  OBVIOUS
<1>1. call \in [Inputs -> CallPhases]
  BY DEF Init, CallPhases
<1>2. openTurn \in [input : Inputs \cup {NoInput}, settled : BOOLEAN]
  BY DEF Init, NoTurn
<1>3. faults \in [Faults -> Nat] /\ admissions \in [Inputs -> Nat]
  BY DEF Init
<1>4. /\ parked \in Seq(Inputs) /\ pendingCheckpoints \in Seq(Inputs)
      /\ blocked \in Seq(Commands) /\ toDaemon \in Seq(Commands)
      /\ toLane \in Seq(Messages) /\ queue \in Seq(Prompts)
      /\ boundaries \in Seq(Boundaries)
  BY EmptySeq DEF Init
<1>5. running \in SUBSET Prompts /\ interrupts \in Nat
  BY DEF Init
<1>6. /\ connectionGap = "none" /\ reattach = "none" /\ stop = "none" /\ wire = "up"
      /\ wireDown = FALSE /\ closed = FALSE /\ seated = TRUE /\ resident = TRUE
  BY DEF Init
<1> QED BY <1>1, <1>2, <1>3, <1>4, <1>5, <1>6 DEF TypeOK

(* bb's requests, and their timeouts, keep the types. *)
LEMMA TypeOfInputActions ==
  ASSUME TypeOK,
         \/ \E i \in Inputs : PromptNow(i) \/ Park(i) \/ AskAttach(i) \/ PromptTimesOut(i)
         \/ Interrupt \/ Release
  PROVE  TypeOK'
<1>1. ASSUME NEW i \in Inputs, PromptNow(i) PROVE TypeOK'
  <2>1. <<i>> \in Seq(Inputs) /\ HasOpenTurn \in BOOLEAN
    BY DEF HasOpenTurn
  <2>2. PromptCmds(<<i>>, HasOpenTurn) \in Seq(Commands)
    BY <2>1, PromptCmdsType
  <2>3. blocked' \in Seq(Commands) /\ toDaemon' \in Seq(Commands)
    BY <1>1, <2>2, SendType DEF TypeOK, PromptNow
  <2>4. openTurn' \in [input : Inputs \cup {NoInput}, settled : BOOLEAN]
    BY <1>1, <2>1, TurnAfterType DEF TypeOK, PromptNow
  <2>5. pendingCheckpoints' \in Seq(Inputs)
    BY <1>1 DEF TypeOK, PromptNow
  <2> QED BY <1>1, <2>3, <2>4, <2>5 DEF TypeOK, PromptNow, CallPhases, prime, hist
<1>2. ASSUME NEW i \in Inputs, Park(i) PROVE TypeOK'
  BY <1>2 DEF TypeOK, Park, CallPhases, prime, hist
<1>3. ASSUME NEW i \in Inputs, AskAttach(i) PROVE TypeOK'
  <2>1. <<Cmd("attach", i)>> \in Seq(Commands)
    BY CmdType DEF CommandTypes
  <2>2. blocked' \in Seq(Commands) /\ toDaemon' \in Seq(Commands)
    BY <1>3, <2>1, SendType DEF TypeOK, AskAttach
  <2> QED BY <1>3, <2>2 DEF TypeOK, AskAttach, CallPhases, prime, hist
<1>4. ASSUME NEW i \in Inputs, PromptTimesOut(i) PROVE TypeOK'
  <2>1. faults' \in [Faults -> Nat]
    BY <1>4, HappensType DEF TypeOK, PromptTimesOut, Fault, Faults
  <2>2. pendingCheckpoints' \in Seq(Inputs)
    BY <1>4, PopType DEF TypeOK, PromptTimesOut
  <2> QED BY <1>4, <2>1, <2>2 DEF TypeOK, PromptTimesOut, CallPhases, prime
<1>5. ASSUME Interrupt PROVE TypeOK'
  <2>1. <<Cmd("abort", NoInput)>> \in Seq(Commands)
    BY CmdType DEF CommandTypes
  <2>2. blocked' \in Seq(Commands) /\ toDaemon' \in Seq(Commands)
    BY <1>5, <2>1, SendType DEF TypeOK, Interrupt
  <2>3. boundaries' \in Seq(Boundaries)
    <3> DEFINE t == IF HasOpenTurn THEN openTurn.input ELSE NoInput
               b == Boundary("interrupted", NoInput, {}, t)
    <3>1. t \in Inputs \cup {NoInput}
      BY DEF TypeOK
    <3>2. boundaries' = Append(boundaries, b)
      BY <1>5 DEF Interrupt
    <3> HIDE DEF t
    <3>3. b \in Boundaries
      BY <3>1, BoundaryType
    <3> HIDE DEF b
    <3> QED BY <3>2, <3>3, AppendProperties DEF TypeOK
  <2>4. openTurn' \in [input : Inputs \cup {NoInput}, settled : BOOLEAN]
    BY <1>5, SettledType DEF TypeOK, Interrupt
  <2>5. stop' \in {"none", "interrupting", "releasing", "detaching", "released"}
    BY <1>5 DEF TypeOK, Interrupt, HasOpenTurn
  <2>6. interrupts' \in Nat /\ UNCHANGED <<call, parked, pendingCheckpoints,
          connectionGap, wireDown, closed, reattach, wire, toLane, prime, faults, admissions>>
    BY <1>5 DEF TypeOK, Interrupt
  <2> QED BY <2>2, <2>3, <2>4, <2>5, <2>6 DEF TypeOK, prime
<1>6. ASSUME Release PROVE TypeOK'
  <2> DEFINE woken == IF connectionGap = "pending" THEN parked ELSE <<>>
             aborts == HasOpenTurn /\ ~wireDown
             cmds == IF aborts THEN <<Cmd("abort", NoInput)>>
                     ELSE IF wireDown THEN <<>> ELSE <<Cmd("detach", NoInput)>>
             turn == IF aborts THEN Settled(openTurn) ELSE openTurn
             open == HasOpenTurn /\ ~aborts
  <2>1. woken \in Seq(Inputs) /\ open \in BOOLEAN
    BY DEF TypeOK, HasOpenTurn
  <2>2. turn \in [input : Inputs \cup {NoInput}, settled : BOOLEAN]
    BY SettledType DEF TypeOK
  <2>3. cmds \in Seq(Commands)
    BY CmdType DEF CommandTypes
  <2>4. /\ call' = MoveCalls(Elements(woken), "sent")
        /\ openTurn' = TurnAfter(woken, turn)
        /\ pendingCheckpoints' = pendingCheckpoints \o woken
        /\ Send(cmds \o PromptCmds(woken, open))
    BY <1>6 DEF Release
  <2>5. parked' \in Seq(Inputs)
    BY <1>6 DEF TypeOK, Release
  <2>6. faults' \in [Faults -> Nat]
    BY <1>6, HappensType DEF TypeOK, Release, Fault, Faults
  <2>7. /\ connectionGap' \in {"none", "pending", "unavailable"}
        /\ stop' \in {"none", "interrupting", "releasing", "detaching", "released"}
        /\ closed' \in BOOLEAN
    BY <1>6 DEF TypeOK, Release
  <2> HIDE DEF woken, cmds, turn, open
  <2>8. PromptCmds(woken, open) \in Seq(Commands)
    BY <2>1, PromptCmdsType
  <2>9. blocked' \in Seq(Commands) /\ toDaemon' \in Seq(Commands)
    BY <2>3, <2>4, <2>8, ConcatType, SendType DEF TypeOK
  <2>10. pendingCheckpoints' \in Seq(Inputs)
    BY <2>1, <2>4, ConcatType DEF TypeOK
  <2>11. openTurn' \in [input : Inputs \cup {NoInput}, settled : BOOLEAN]
    BY <2>1, <2>2, <2>4, TurnAfterType
  <2>12. call' \in [Inputs -> CallPhases]
    BY <2>4 DEF TypeOK, MoveCalls, CallPhases
  <2> QED BY <1>6, <2>5, <2>6, <2>7, <2>9, <2>10, <2>11, <2>12
          DEF TypeOK, Release, prime
<1> QED BY <1>1, <1>2, <1>3, <1>4, <1>5, <1>6

(* Reading an answer or a push keeps the types. *)
LEMMA TypeOfLaneReads ==
  ASSUME TypeOK, LaneReads
  PROVE  TypeOK'
<1>1. ASSUME PromptAnswered PROVE TypeOK'
  <2>1. toLane' \in Seq(Messages)
    BY <1>1, ReceiveType DEF TypeOK, PromptAnswered
  <2>2. PopCheckpoints(pendingCheckpoints, 1) \in Seq(Inputs)
        /\ PopCheckpoints(pendingCheckpoints, 0) \in Seq(Inputs)
    BY PopType DEF TypeOK
  <2>3. call' \in [Inputs -> CallPhases] /\ pendingCheckpoints' \in Seq(Inputs)
    BY <1>1, <2>2 DEF TypeOK, PromptAnswered, CallPhases
  <2> QED BY <1>1, <2>1, <2>3 DEF TypeOK, PromptAnswered, prime, hist
<1>2. ASSUME AttachAnswered PROVE TypeOK'
  <2>1. Head(toLane) \in Messages /\ toLane' \in Seq(Messages)
    BY <1>2, ReceiveType DEF TypeOK, AttachAnswered
  <2> DEFINE i == Head(toLane).input
             cmds == IF Head(toLane).ok THEN <<Cmd("get_queue", i)>> ELSE <<>>
  <2>2. i \in Inputs \cup {NoInput}
    BY <2>1 DEF Messages
  <2>3. cmds \in Seq(Commands)
    BY <2>2, CmdType DEF CommandTypes
  <2>4. blocked' \in Seq(Commands) /\ toDaemon' \in Seq(Commands)
    BY <1>2, <2>3, SendType DEF TypeOK, AttachAnswered
  <2>5. call' \in [Inputs -> CallPhases] /\ reattach' \in {"none", "asking", "reading"}
    BY <1>2 DEF TypeOK, AttachAnswered, CallPhases
  <2> QED BY <1>2, <2>1, <2>4, <2>5 DEF TypeOK, AttachAnswered, prime, hist
<1>3. ASSUME QueueAnswered PROVE TypeOK'
  <2>1. Head(toLane) \in Messages /\ toLane' \in Seq(Messages)
    BY <1>3, ReceiveType DEF TypeOK, QueueAnswered
  <2> DEFINE i == Head(toLane).input
             woken == Woken(i)
  <2>2. woken \in Seq(Inputs) /\ HasOpenTurn \in BOOLEAN
    BY <2>1, WokenType DEF TypeOK, Messages, HasOpenTurn
  <2>3. /\ call' = MoveCalls(Elements(woken), "sent")
        /\ openTurn' = TurnAfter(woken, openTurn)
        /\ pendingCheckpoints' = pendingCheckpoints \o woken
        /\ Send(PromptCmds(woken, HasOpenTurn))
        /\ reattach' \in {"none", "asking", "reading"}
    BY <1>3 DEF TypeOK, QueueAnswered
  <2> HIDE DEF woken
  <2>4. blocked' \in Seq(Commands) /\ toDaemon' \in Seq(Commands)
    BY <2>2, <2>3, PromptCmdsType, SendType DEF TypeOK
  <2>5. pendingCheckpoints' \in Seq(Inputs)
    BY <2>2, <2>3, ConcatType DEF TypeOK
  <2>6. openTurn' \in [input : Inputs \cup {NoInput}, settled : BOOLEAN]
    BY <2>2, <2>3, TurnAfterType DEF TypeOK
  <2>7. call' \in [Inputs -> CallPhases]
    BY <2>3, MoveCallsType DEF CallPhases
  <2>8. parked' = <<>> /\ connectionGap' = "none" /\ wireDown' = FALSE
        /\ UNCHANGED <<closed, stop, wire, prime, hist>>
    BY <1>3 DEF QueueAnswered
  <2>9. parked' \in Seq(Inputs)
    BY <2>8, EmptySeq
  <2> QED BY <2>1, <2>3, <2>4, <2>5, <2>6, <2>7, <2>8, <2>9 DEF TypeOK, prime, hist
<1>4. ASSUME AbortAnswered PROVE TypeOK'
  <2>1. toLane' \in Seq(Messages)
    BY <1>4, ReceiveType DEF TypeOK, AbortAnswered
  <2>2. <<Cmd("detach", NoInput)>> \in Seq(Commands)
    BY CmdType DEF CommandTypes
  <2>3. CASE stop = "interrupting"
    BY <1>4, <2>1, <2>3 DEF TypeOK, AbortAnswered, prime, hist
  <2>4. CASE stop # "interrupting"
    <3>1. blocked' \in Seq(Commands) /\ toDaemon' \in Seq(Commands)
      BY <1>4, <2>2, <2>4, SendType DEF TypeOK, AbortAnswered
    <3> QED BY <1>4, <2>1, <2>4, <3>1 DEF TypeOK, AbortAnswered, prime, hist
  <2> QED BY <2>3, <2>4
<1>5. ASSUME DetachAnswered PROVE TypeOK'
  BY <1>5, ReceiveType DEF TypeOK, DetachAnswered, prime, hist
<1>6. ASSUME AgentEndDelivered PROVE TypeOK'
  <2>1. Head(toLane) \in Messages /\ toLane' \in Seq(Messages)
    BY <1>6, ReceiveType DEF TypeOK, AgentEndDelivered
  <2> DEFINE anchor == IF pendingCheckpoints = <<>> THEN NoInput
                       ELSE Head(pendingCheckpoints)
             boundary == Boundary("ended", anchor, Head(toLane).run, openTurn.input)
  <2>2. anchor \in Inputs \cup {NoInput}
    BY HeadTailProperties DEF TypeOK
  <2>3. Head(toLane).run \in SUBSET Prompts
    BY <2>1 DEF Messages
  <2>4. openTurn.input \in Inputs \cup {NoInput}
    BY DEF TypeOK
  <2>5. boundary \in Boundaries
    <3> HIDE DEF anchor
    <3> QED BY <2>2, <2>3, <2>4, BoundaryType
  <2>6. pendingCheckpoints' \in Seq(Inputs)
    <3>1. pendingCheckpoints \in Seq(Inputs)
      BY DEF TypeOK
    <3>2. pendingCheckpoints # <<>> => Tail(pendingCheckpoints) \in Seq(Inputs)
      BY <3>1, HeadTailProperties
    <3>3. \/ pendingCheckpoints' = pendingCheckpoints
          \/ pendingCheckpoints # <<>> /\ pendingCheckpoints' = Tail(pendingCheckpoints)
      BY <1>6 DEF AgentEndDelivered, ShiftCheckpoints
    <3> QED BY <3>1, <3>2, <3>3
  <2>7. boundaries' \in Seq(Boundaries)
    <3>1. boundaries' = boundaries \/ boundaries' = Append(boundaries, boundary)
      BY <1>6 DEF AgentEndDelivered
    <3>2. boundaries \in Seq(Boundaries)
      BY DEF TypeOK
    <3> HIDE DEF boundary
    <3>3. Append(boundaries, boundary) \in Seq(Boundaries)
      BY <2>5, <3>2, AppendProperties
    <3> QED BY <3>1, <3>2, <3>3
  <2>8. openTurn' \in [input : Inputs \cup {NoInput}, settled : BOOLEAN]
    BY <1>6, SettledType DEF TypeOK, AgentEndDelivered
  <2> QED BY <1>6, <2>1, <2>6, <2>7, <2>8 DEF TypeOK, AgentEndDelivered, prime
<1>7. ASSUME ClosedDelivered PROVE TypeOK'
  BY <1>7, ReceiveType DEF TypeOK, ClosedDelivered, prime, hist
<1> QED BY <1>1, <1>2, <1>3, <1>4, <1>5, <1>6, <1>7 DEF LaneReads

(* The shared connection's events keep the types. *)
LEMMA TypeOfConnection ==
  ASSUME TypeOK,
         \/ ConnectionLost \/ ConnectionRestored \/ ConnectionUnavailable
         \/ DialSucceeds \/ DialFails
  PROVE  TypeOK'
<1>1. ASSUME ConnectionLost PROVE TypeOK'
  <2> DEFINE turn == IF FailsOpenTurn THEN Settled(openTurn) ELSE openTurn
             open == turn.input # NoInput /\ ~turn.settled
             attached == reattach = "reading" \/ InPhase("reading") # {}
             down == IF attached THEN FALSE ELSE (wireDown \/ HearsLoss)
             then == StopAfterReject(down)
             detach == IF then = "detaching" THEN <<Cmd("detach", NoInput)>> ELSE <<>>
             failed == Boundary("failed", NoInput, {}, openTurn.input)
  <2>1. PICK readers \in Orderings(InPhase("reading")) :
          LET woken == IF attached THEN parked \o readers ELSE <<>>
          IN /\ openTurn' = TurnAfter(woken, turn)
             /\ call' = [i \in Inputs |->
                           IF i \in Elements(woken) THEN "sent"
                           ELSE IF i \in Rejected THEN "failed" ELSE call[i]]
             /\ parked' = IF attached THEN <<>> ELSE parked
             /\ pendingCheckpoints' = PoppedByReject \o woken
             /\ blocked' = PromptCmds(woken, open) \o detach
             /\ connectionGap' = IF attached THEN "none"
                                 ELSE IF HearsLoss THEN "pending" ELSE connectionGap
             /\ wireDown' = down
             /\ stop' = then
             /\ closed' = (closed \/ then = "released")
             /\ boundaries' = IF FailsOpenTurn THEN Append(boundaries, failed)
                              ELSE boundaries
    BY <1>1 DEF ConnectionLost
  <2> DEFINE woken == IF attached THEN parked \o readers ELSE <<>>
  <2>2. woken \in Seq(Inputs)
    <3>1. readers \in Seq(Inputs)
      BY OrderingsType DEF InPhase
    <3> QED BY <3>1, ConcatType, EmptySeq DEF TypeOK
  <2>3. turn \in [input : Inputs \cup {NoInput}, settled : BOOLEAN] /\ open \in BOOLEAN
    BY SettledType DEF TypeOK
  <2>4. down \in BOOLEAN
    BY DEF TypeOK
  <2>5. then \in {"none", "detaching", "released"}
    BY <2>4, StopType
  <2>6. detach \in Seq(Commands)
    <3> HIDE DEF then
    <3>1. Cmd("detach", NoInput) \in Commands
      BY CmdType DEF CommandTypes
    <3> QED BY <3>1
  <2>7. failed \in Boundaries
    BY BoundaryType DEF TypeOK
  <2>8. PoppedByReject \in Seq(Inputs)
    BY CountType, PopType DEF TypeOK, PoppedByReject
  <2> HIDE DEF woken, turn, open, then, detach, failed, down
  <2>9. blocked' \in Seq(Commands)
    BY <2>1, <2>2, <2>3, <2>6, PromptCmdsType, ConcatType DEF woken
  <2>10. boundaries' \in Seq(Boundaries)
    BY <2>1, <2>7, AppendProperties DEF TypeOK
  <2>11. pendingCheckpoints' \in Seq(Inputs)
    BY <2>1, <2>2, <2>8, ConcatType DEF woken
  <2>12. openTurn' \in [input : Inputs \cup {NoInput}, settled : BOOLEAN]
    BY <2>1, <2>2, <2>3, TurnAfterType DEF woken
  <2>13. call' \in [Inputs -> CallPhases]
    BY <2>1 DEF TypeOK, CallPhases
  <2>14. /\ parked' \in Seq(Inputs)
         /\ connectionGap' \in {"none", "pending", "unavailable"}
         /\ wireDown' \in BOOLEAN /\ closed' \in BOOLEAN
         /\ stop' \in {"none", "interrupting", "releasing", "detaching", "released"}
    BY <2>1, <2>4, <2>5, EmptySeq DEF TypeOK
  <2>15. faults' \in [Faults -> Nat]
    BY <1>1, HappensType DEF TypeOK, ConnectionLost, Fault, Faults
  <2>16. running' \in SUBSET Prompts /\ queue' \in Seq(Prompts)
    BY <1>1, EmptySeq, ZenonT(30) DEF TypeOK, ConnectionLost
  <2>17. toDaemon' \in Seq(Commands) /\ toLane' \in Seq(Messages)
    BY <1>1, EmptySeq DEF ConnectionLost
  <2>18. /\ wire' = "recovering" /\ seated' = FALSE /\ reattach' = "none"
         /\ UNCHANGED <<resident, interrupts, admissions>>
    BY <1>1 DEF ConnectionLost
  <2> QED BY <2>9, <2>10, <2>11, <2>12, <2>13, <2>14, <2>15, <2>16, <2>17, <2>18
          DEF TypeOK
<1>2. ASSUME ConnectionRestored PROVE TypeOK'
  <2> DEFINE own == IF closed THEN <<>> ELSE <<Cmd("attach", NoInput)>>
  <2>1. own \in Seq(Commands)
    BY CmdType DEF CommandTypes
  <2>2. toDaemon' = blocked \o own
    BY <1>2 DEF ConnectionRestored
  <2> HIDE DEF own
  <2>3. toDaemon' \in Seq(Commands)
    BY <2>1, <2>2, ConcatType DEF TypeOK
  <2>4. blocked' \in Seq(Commands) /\ reattach' \in {"none", "asking", "reading"}
    BY <1>2, EmptySeq DEF ConnectionRestored
  <2> QED BY <1>2, <2>3, <2>4 DEF TypeOK, ConnectionRestored, prime, hist
<1>3. ASSUME ConnectionUnavailable PROVE TypeOK'
  <2> DEFINE woken == WokenByUnavailable
  <2>1. woken \in Seq(Inputs)
    BY EmptySeq DEF TypeOK, WokenByUnavailable
  <2>2. /\ call' = [i \in Inputs |-> IF i \in Elements(woken) THEN "asking"
                                     ELSE IF i \in Rejected THEN "failed" ELSE call[i]]
        /\ blocked' = [k \in 1..Len(woken) |-> Cmd("attach", woken[k])]
        /\ parked' = IF woken = parked THEN <<>> ELSE parked
        /\ pendingCheckpoints' = PoppedByReject
        /\ stop' = StopAfterReject(TRUE)
    BY <1>3 DEF ConnectionUnavailable
  <2>3. blocked' \in Seq(Commands)
    <3> HIDE DEF woken
    <3>1. Len(woken) \in Nat /\ \A k \in 1..Len(woken) : woken[k] \in Inputs
      BY <2>1, LenProperties, ElementOfSeq
    <3>2. \A k \in 1..Len(woken) : Cmd("attach", woken[k]) \in Commands
      BY <3>1, CmdType DEF CommandTypes
    <3> QED BY <2>2, <3>1, <3>2
  <2>4. call' \in [Inputs -> CallPhases] /\ parked' \in Seq(Inputs)
    BY <2>2, EmptySeq DEF TypeOK, CallPhases
  <2>5. pendingCheckpoints' \in Seq(Inputs)
    BY <2>2, CountType, PopType DEF TypeOK, PoppedByReject
  <2>6. stop' \in {"none", "interrupting", "releasing", "detaching", "released"}
    BY <2>2, StopType
  <2>7. /\ connectionGap' \in {"none", "pending", "unavailable"}
        /\ closed' \in BOOLEAN /\ wire' = "gone"
        /\ UNCHANGED <<openTurn, wireDown, reattach, toDaemon, toLane, prime, hist>>
    BY <1>3 DEF TypeOK, ConnectionUnavailable
  <2> QED BY <2>3, <2>4, <2>5, <2>6, <2>7 DEF TypeOK, prime, hist
<1>4. ASSUME DialSucceeds PROVE TypeOK'
  BY <1>4, EmptySeq DEF TypeOK, DialSucceeds, lane, prime, hist
<1>5. ASSUME DialFails PROVE TypeOK'
  <2>1. call' \in [Inputs -> CallPhases] /\ blocked' \in Seq(Commands)
    BY <1>5, MoveCallsType, EmptySeq DEF DialFails, CallPhases
  <2>2. pendingCheckpoints' \in Seq(Inputs)
    BY <1>5, CountType, PopType DEF TypeOK, PoppedByReject, DialFails
  <2>3. stop' \in {"none", "interrupting", "releasing", "detaching", "released"}
    BY <1>5, StopType DEF DialFails
  <2> QED BY <1>5, <2>1, <2>2, <2>3 DEF TypeOK, DialFails, prime, hist
<1> QED BY <1>1, <1>2, <1>3, <1>4, <1>5

(* The daemon's steps keep the types. *)
LEMMA TypeOfDaemon ==
  ASSUME TypeOK,
         DaemonReads \/ DaemonEndsRun \/ DaemonRetriesRun \/ ForeignPrompt
           \/ DaemonClosesSession
  PROVE  TypeOK'
<1>1. ASSUME DaemonAdmits PROVE TypeOK'
  <2>1. /\ Head(toDaemon) \in Commands /\ toDaemon' \in Seq(Commands)
        /\ Head(toDaemon).type = "prompt"
        /\ LaneKept
    BY <1>1, AcceptType DEF TypeOK, DaemonAdmits
  <2>2. toLane' \in Seq(Messages)
    BY <1>1, <2>1, AnswersType DEF TypeOK, DaemonAdmits
  <2>3. faults' \in [Faults -> Nat]
    BY <1>1, HappensType DEF TypeOK, DaemonAdmits, Faults
  <2>4. Head(toDaemon).input \in Inputs
    BY <2>1 DEF Commands
  <2>5. admissions' \in [Inputs -> Nat]
    <3>1. admissions' = [admissions EXCEPT ![Head(toDaemon).input] = @ + 1]
      BY <1>1 DEF DaemonAdmits
    <3> HIDE <1>1
    <3> QED BY <2>4, <3>1 DEF TypeOK
  <2>6. running' \in SUBSET Prompts /\ queue' \in Seq(Prompts)
    <3>1. Head(toDaemon).input \in Prompts
      BY <2>4 DEF Prompts
    <3> QED BY <1>1, <3>1, AppendProperties DEF TypeOK, DaemonAdmits
  <2>7. UNCHANGED <<seated, resident>>
    BY <1>1 DEF TypeOK, DaemonAdmits
  <2> QED BY <2>1, <2>2, <2>3, <2>5, <2>6, <2>7 DEF TypeOK, LaneKept
<1>2. ASSUME DaemonRefuses PROVE TypeOK'
  <2>1. /\ Head(toDaemon) \in Commands /\ toDaemon' \in Seq(Commands)
        /\ LaneKept
    BY <1>2, AcceptType DEF TypeOK, DaemonRefuses
  <2>2. toLane' \in Seq(Messages)
    BY <1>2, <2>1, AnswersType DEF TypeOK, DaemonRefuses
  <2>3. faults' \in [Faults -> Nat]
    BY <1>2, HappensType DEF TypeOK, DaemonRefuses, Fault, Faults
  <2>4. UNCHANGED <<seated, resident, running, queue, admissions>>
    BY <1>2 DEF TypeOK, DaemonRefuses, prime
  <2> QED BY <2>1, <2>2, <2>3, <2>4 DEF TypeOK, LaneKept
<1>3. ASSUME DaemonAttaches PROVE TypeOK'
  <2>1. /\ Head(toDaemon) \in Commands /\ toDaemon' \in Seq(Commands)
        /\ LaneKept
    BY <1>3, AcceptType DEF TypeOK, DaemonAttaches
  <2>2. toLane' \in Seq(Messages)
    BY <1>3, <2>1, AnswersType DEF TypeOK, DaemonAttaches
  <2>3. faults' \in [Faults -> Nat]
    BY <1>3, HappensType DEF TypeOK, DaemonAttaches, Fault, Faults
  <2>4. seated' \in BOOLEAN /\ UNCHANGED <<resident, running, queue, admissions>>
    BY <1>3 DEF TypeOK, DaemonAttaches
  <2> QED BY <2>1, <2>2, <2>3, <2>4 DEF TypeOK, LaneKept
<1>4. ASSUME DaemonReadsQueue PROVE TypeOK'
  <2>1. /\ Head(toDaemon) \in Commands /\ toDaemon' \in Seq(Commands)
        /\ LaneKept
    BY <1>4, AcceptType DEF TypeOK, DaemonReadsQueue
  <2>2. toLane' \in Seq(Messages)
    BY <1>4, <2>1, AnswersType DEF TypeOK, DaemonReadsQueue
  <2>3. UNCHANGED <<seated, resident, running, queue, faults, admissions>>
    BY <1>4 DEF TypeOK, DaemonReadsQueue, prime
  <2> QED BY <2>1, <2>2, <2>3 DEF TypeOK, LaneKept
<1>5. ASSUME DaemonAborts PROVE TypeOK'
  <2>1. /\ Head(toDaemon) \in Commands /\ toDaemon' \in Seq(Commands)
        /\ LaneKept
    BY <1>5, AcceptType DEF TypeOK, DaemonAborts
  <2> DEFINE answer == Answer(Head(toDaemon), TRUE)
             end == Streamed(Push("agent_end", running))
  <2>2. answer \in Messages /\ end \in Seq(Messages)
    BY <2>1, AnswerType, PushType, StreamedType DEF TypeOK
  <2>3. toLane' = toLane \o end \o <<answer>> \/ toLane' = Append(toLane, answer)
    BY <1>5 DEF DaemonAborts
  <2> HIDE DEF answer, end
  <2>4. toLane' \in Seq(Messages)
    <3>1. <<answer>> \in Seq(Messages) /\ toLane \in Seq(Messages)
      BY <2>2 DEF TypeOK
    <3>2. toLane \o end \o <<answer>> \in Seq(Messages)
      BY <2>2, <3>1, ConcatType
    <3>3. Append(toLane, answer) \in Seq(Messages)
      BY <2>2, <3>1, AppendProperties
    <3> QED BY <2>3, <3>2, <3>3
  <2>5. running' \in SUBSET Prompts /\ queue' \in Seq(Prompts)
    BY <1>5, NextRunType DEF TypeOK, DaemonAborts
  <2>6. UNCHANGED <<seated, resident, faults, admissions>>
    BY <1>5 DEF TypeOK, DaemonAborts
  <2> QED BY <2>1, <2>4, <2>5, <2>6 DEF TypeOK, LaneKept
<1>6. ASSUME DaemonDetaches PROVE TypeOK'
  <2>1. /\ Head(toDaemon) \in Commands /\ toDaemon' \in Seq(Commands)
        /\ LaneKept
    BY <1>6, AcceptType DEF TypeOK, DaemonDetaches
  <2>2. toLane' \in Seq(Messages)
    BY <1>6, <2>1, AnswersType DEF TypeOK, DaemonDetaches
  <2>3. seated' \in BOOLEAN /\ UNCHANGED <<resident, running, queue, faults, admissions>>
    BY <1>6 DEF TypeOK, DaemonDetaches
  <2> QED BY <2>1, <2>2, <2>3 DEF TypeOK, LaneKept
<1>7. Streamed(Push("agent_end", running)) \in Seq(Messages)
  BY PushType, StreamedType DEF TypeOK
<1>8. ASSUME DaemonEndsRun PROVE TypeOK'
  <2>1. toLane' \in Seq(Messages)
    BY <1>7, <1>8, ConcatType DEF TypeOK, DaemonEndsRun
  <2>2. running' \in SUBSET Prompts /\ queue' \in Seq(Prompts)
    BY <1>8, NextRunType DEF TypeOK, DaemonEndsRun
  <2> QED BY <1>8, <2>1, <2>2 DEF TypeOK, DaemonEndsRun, lane, hist
<1>9. ASSUME DaemonRetriesRun PROVE TypeOK'
  <2>1. toLane' \in Seq(Messages)
    BY <1>7, <1>9, ConcatType DEF TypeOK, DaemonRetriesRun
  <2>2. faults' \in [Faults -> Nat]
    BY <1>9, HappensType DEF TypeOK, DaemonRetriesRun, Fault, Faults
  <2> QED BY <1>9, <2>1, <2>2 DEF TypeOK, DaemonRetriesRun, lane, prime
<1>10. ASSUME ForeignPrompt PROVE TypeOK'
  <2>1. faults' \in [Faults -> Nat]
    BY <1>10, HappensType DEF TypeOK, ForeignPrompt, Fault, Faults
  <2>2. Foreign \in Prompts
    BY DEF Prompts
  <2>3. running' \in SUBSET Prompts /\ queue' \in Seq(Prompts)
    BY <1>10, <2>2, AppendProperties DEF TypeOK, ForeignPrompt
  <2>4. LaneKept /\ UNCHANGED <<toDaemon, toLane, seated, resident, admissions>>
    BY <1>10 DEF ForeignPrompt, LaneKept, lane
  <2> QED BY <2>1, <2>3, <2>4 DEF TypeOK, LaneKept
<1>11. ASSUME DaemonClosesSession PROVE TypeOK'
  <2>1. faults' \in [Faults -> Nat]
    BY <1>11, HappensType DEF TypeOK, DaemonClosesSession, Fault, Faults
  <2>2. toLane' \in Seq(Messages)
    <3>1. Streamed(Push("session_closed", {})) \in Seq(Messages)
      BY PushType, StreamedType
    <3> QED BY <1>11, <3>1, ConcatType DEF TypeOK, DaemonClosesSession
  <2>3. running' \in SUBSET Prompts /\ queue' \in Seq(Prompts)
    BY <1>11, EmptySeq DEF DaemonClosesSession
  <2>4. seated' \in BOOLEAN /\ resident' \in BOOLEAN
    BY <1>11 DEF DaemonClosesSession
  <2>5. LaneKept /\ UNCHANGED <<toDaemon, admissions>>
    BY <1>11 DEF DaemonClosesSession, LaneKept, lane
  <2> QED BY <2>1, <2>2, <2>3, <2>4, <2>5 DEF TypeOK, LaneKept
<1> QED BY <1>1, <1>2, <1>3, <1>4, <1>5, <1>6, <1>8, <1>9, <1>10, <1>11
        DEF DaemonReads

(* The types every run starts with are kept by every step. *)
THEOREM TypeCorrect == Spec => []TypeOK
<1>1. TypeOK /\ [Next]_vars => TypeOK'
  <2> SUFFICES ASSUME TypeOK, [Next]_vars PROVE TypeOK'
    OBVIOUS
  <2>1. CASE Next
    BY <2>1, TypeOfInputActions, TypeOfLaneReads, TypeOfConnection, TypeOfDaemon
       DEF Next
  <2>2. CASE UNCHANGED vars
    BY <2>2 DEF TypeOK, vars, lane, prime, hist
  <2> QED BY <2>1, <2>2
<1> QED BY <1>1, TypeInit, PTL DEF Spec

-----------------------------------------------------------------------------
(* Lemmas about what channels hold. *)

(* An element is the entry at some position. *)
LEMMA ElementsAt ==
  ASSUME NEW s, NEW x
  PROVE  x \in Elements(s) <=> \E k \in DOMAIN s : x = s[k]
BY DEF Elements

(* The empty sequence has no elements. *)
LEMMA ElementsEmpty == Elements(<<>>) = {}
BY DEF Elements

(* A concatenation holds the elements of both parts. *)
LEMMA ElementsConcat ==
  ASSUME NEW S, NEW s \in Seq(S), NEW t \in Seq(S)
  PROVE  Elements(s \o t) = Elements(s) \cup Elements(t)
<1>1. /\ Len(s) \in Nat /\ DOMAIN s = 1..Len(s)
      /\ Len(t) \in Nat /\ DOMAIN t = 1..Len(t)
  BY LenProperties
<1>2. /\ DOMAIN (s \o t) = 1..(Len(s) + Len(t))
      /\ \A k \in 1..(Len(s) + Len(t)) :
           (s \o t)[k] = IF k <= Len(s) THEN s[k] ELSE t[k - Len(s)]
  BY ConcatProperties, LenProperties
<1>3. ASSUME NEW x \in Elements(s \o t) PROVE x \in Elements(s) \cup Elements(t)
  <2>1. PICK k \in DOMAIN (s \o t) : x = (s \o t)[k]
    BY <1>3 DEF Elements
  <2>2. CASE k <= Len(s)
    BY <1>1, <1>2, <2>1, <2>2 DEF Elements
  <2>3. CASE ~(k <= Len(s))
    <3>1. k - Len(s) \in 1..Len(t) /\ x = t[k - Len(s)]
      BY <1>1, <1>2, <2>1, <2>3
    <3> QED BY <1>1, <3>1 DEF Elements
  <2> QED BY <2>2, <2>3
<1>4. ASSUME NEW x \in Elements(s) PROVE x \in Elements(s \o t)
  <2>1. PICK k \in 1..Len(s) : x = s[k]
    BY <1>1, <1>4 DEF Elements
  <2>2. k \in 1..(Len(s) + Len(t)) /\ x = (s \o t)[k]
    BY <1>1, <1>2, <2>1
  <2> QED BY <1>2, <2>2, ElementsAt
<1>5. ASSUME NEW x \in Elements(t) PROVE x \in Elements(s \o t)
  <2>1. PICK k \in 1..Len(t) : x = t[k]
    BY <1>1, <1>5 DEF Elements
  <2>2. Len(s) + k \in 1..(Len(s) + Len(t)) /\ x = (s \o t)[Len(s) + k]
    BY <1>1, <1>2, <2>1
  <2> QED BY <1>2, <2>2, ElementsAt
<1> QED BY <1>3, <1>4, <1>5

(* A sequence of one entry holds that entry. *)
LEMMA ElementsOne ==
  ASSUME NEW x
  PROVE  Elements(<<x>>) = {x}
BY DEF Elements

(* Appending adds one element. *)
LEMMA ElementsAppend ==
  ASSUME NEW S, NEW s \in Seq(S), NEW x \in S
  PROVE  Elements(Append(s, x)) = Elements(s) \cup {x}
<1>1. Append(s, x) = s \o <<x>>
  BY AppendIsConcat
<1>2. <<x>> \in Seq(S)
  OBVIOUS
<1>3. Elements(s \o <<x>>) = Elements(s) \cup Elements(<<x>>)
  BY <1>2, ElementsConcat, ZenonT(30)
<1> QED BY <1>1, <1>3, ElementsOne

(* Reading the head keeps what is left among the elements. *)
LEMMA ElementsHeadTail ==
  ASSUME NEW S, NEW s \in Seq(S), s # <<>>
  PROVE  Head(s) \in Elements(s) /\ Elements(Tail(s)) \subseteq Elements(s)
<1>1. /\ Len(s) \in Nat /\ Len(s) # 0 /\ DOMAIN s = 1..Len(s)
      /\ Tail(s) \in Seq(S) /\ Len(Tail(s)) = Len(s) - 1
      /\ \A k \in 1..Len(Tail(s)) : Tail(s)[k] = s[k + 1]
  BY LenProperties, HeadTailProperties, EmptySeq
<1>2. DOMAIN Tail(s) = 1..(Len(s) - 1)
  BY <1>1, LenProperties
<1>3. Head(s) = s[1] /\ 1 \in DOMAIN s
  BY <1>1
<1>4. ASSUME NEW x \in Elements(Tail(s)) PROVE x \in Elements(s)
  <2>1. PICK k \in DOMAIN Tail(s) : x = Tail(s)[k]
    BY <1>4 DEF Elements
  <2>2. k + 1 \in DOMAIN s /\ x = s[k + 1]
    BY <1>1, <1>2, <2>1
  <2> QED BY <2>2 DEF Elements
<1> QED BY <1>3, <1>4, ElementsAt

(* An empty channel holds no input twice. *)
LEMMA UniqueEmpty == Unique(<<>>)
BY DEF Unique

(* Nor does a channel of one entry. *)
LEMMA UniqueOne ==
  ASSUME NEW x
  PROVE  Unique(<<x>>)
BY DEF Unique

(* Nor does what joins two channels that share no input. *)
LEMMA UniqueConcat ==
  ASSUME NEW S, NEW s \in Seq(S), NEW t \in Seq(S),
         Unique(s), Unique(t), Apart(s, t)
  PROVE  Unique(s \o t)
<1>1. /\ Len(s) \in Nat /\ DOMAIN s = 1..Len(s)
      /\ Len(t) \in Nat /\ DOMAIN t = 1..Len(t)
  BY LenProperties
<1>2. /\ DOMAIN (s \o t) = 1..(Len(s) + Len(t))
      /\ \A k \in 1..(Len(s) + Len(t)) :
           (s \o t)[k] = IF k <= Len(s) THEN s[k] ELSE t[k - Len(s)]
  BY ConcatProperties, LenProperties
<1> SUFFICES ASSUME NEW j \in DOMAIN (s \o t), NEW k \in DOMAIN (s \o t), j # k,
                    (s \o t)[j].input = (s \o t)[k].input
             PROVE  (s \o t)[j].input = NoInput
  BY DEF Unique
<1>3. CASE j <= Len(s) /\ k <= Len(s)
  BY <1>1, <1>2, <1>3 DEF Unique
<1>4. CASE ~(j <= Len(s)) /\ ~(k <= Len(s))
  <2>1. j - Len(s) \in DOMAIN t /\ k - Len(s) \in DOMAIN t /\ j - Len(s) # k - Len(s)
    BY <1>1, <1>2, <1>4
  <2>2. (s \o t)[j] = t[j - Len(s)] /\ (s \o t)[k] = t[k - Len(s)]
    BY <1>2, <1>4
  <2> QED BY <2>1, <2>2 DEF Unique
<1>5. CASE j <= Len(s) /\ ~(k <= Len(s))
  <2>1. j \in DOMAIN s /\ k - Len(s) \in DOMAIN t
    BY <1>1, <1>2, <1>5
  <2>2. (s \o t)[j] = s[j] /\ (s \o t)[k] = t[k - Len(s)]
    BY <1>2, <1>5
  <2> QED BY <2>1, <2>2, ElementsAt DEF Apart
<1>6. CASE ~(j <= Len(s)) /\ k <= Len(s)
  <2>1. k \in DOMAIN s /\ j - Len(s) \in DOMAIN t
    BY <1>1, <1>2, <1>6
  <2>2. (s \o t)[k] = s[k] /\ (s \o t)[j] = t[j - Len(s)]
    BY <1>2, <1>6
  <2> QED BY <2>1, <2>2, ElementsAt DEF Apart
<1> QED BY <1>3, <1>4, <1>5, <1>6

(* Reading the head leaves no entry of its input behind. *)
LEMMA UniqueHeadTail ==
  ASSUME NEW S, NEW s \in Seq(S), s # <<>>, Unique(s)
  PROVE  Unique(Tail(s)) /\ Apart(<<Head(s)>>, Tail(s))
<1>1. /\ Len(s) \in Nat /\ Len(s) # 0 /\ DOMAIN s = 1..Len(s)
      /\ Tail(s) \in Seq(S) /\ Len(Tail(s)) = Len(s) - 1
      /\ \A k \in 1..Len(Tail(s)) : Tail(s)[k] = s[k + 1]
  BY LenProperties, HeadTailProperties, EmptySeq
<1>2. DOMAIN Tail(s) = 1..(Len(s) - 1) /\ Head(s) = s[1]
  BY <1>1, LenProperties
<1>3. \A k \in DOMAIN Tail(s) : k + 1 \in DOMAIN s /\ k + 1 # 1 /\ Tail(s)[k] = s[k + 1]
  BY <1>1, <1>2
<1>4. Unique(Tail(s))
  <2> SUFFICES ASSUME NEW j \in DOMAIN Tail(s), NEW k \in DOMAIN Tail(s), j # k,
                      Tail(s)[j].input = Tail(s)[k].input
               PROVE  Tail(s)[j].input = NoInput
    BY DEF Unique
  <2>1. j + 1 # k + 1
    BY <1>2
  <2> QED BY <1>3, <2>1 DEF Unique
<1>5. Apart(<<Head(s)>>, Tail(s))
  <2> SUFFICES ASSUME NEW y \in Elements(Tail(s)), Head(s).input = y.input
               PROVE  Head(s).input = NoInput
    BY ElementsOne DEF Apart
  <2>1. PICK k \in DOMAIN Tail(s) : y = Tail(s)[k]
    BY ElementsAt
  <2>2. 1 \in DOMAIN s
    BY <1>1
  <2> QED BY <1>2, <1>3, <2>1, <2>2 DEF Unique
<1> QED BY <1>4, <1>5

(* The prompts of distinct inputs: one each. *)
LEMMA PromptCmdsHold ==
  ASSUME NEW s \in Seq(Inputs), NEW open \in BOOLEAN,
         \A j, k \in DOMAIN s : j # k => s[j] # s[k]
  PROVE  /\ Unique(PromptCmds(s, open))
         /\ \A x \in Elements(PromptCmds(s, open)) :
              x.type = "prompt" /\ x.input \in Elements(s)
<1> DEFINE f == PromptCmds(s, open)
<1>1. DOMAIN s = 1..Len(s) /\ DOMAIN f = 1..Len(s)
  BY LenProperties DEF PromptCmds
<1>2. \A k \in DOMAIN f : f[k].type = "prompt" /\ f[k].input = s[k]
  BY <1>1 DEF PromptCmds
<1> HIDE DEF f
<1>3. Unique(f)
  BY <1>1, <1>2 DEF Unique
<1>4. \A x \in Elements(f) : x.type = "prompt" /\ x.input \in Elements(s)
  BY <1>1, <1>2, ElementsAt DEF Elements
<1> QED BY <1>3, <1>4 DEF f

-----------------------------------------------------------------------------
(* OneRequestPerCall is inductive. *)

USE DEF Inputs

(* NoInput is no input bb sends. *)
LEMMA NoInputIsNone == NoInput \notin Inputs
BY InputsAssumption DEF Prompts

(* A call that is new or parked owns nothing. *)
LEMMA OwnsNothing ==
  ASSUME OneRequestPerCall, NEW i \in Inputs, call[i] \in {"new", "parked"}
  PROVE  \A x \in Elements(blocked) \cup Elements(toDaemon) \cup Elements(toLane) :
           x.input # i
<1> SUFFICES ASSUME NEW x \in Elements(blocked) \cup Elements(toDaemon)
                                 \cup Elements(toLane),
                    x.input = i
             PROVE  FALSE
  OBVIOUS
<1>1. Fits(x)
  BY DEF OneRequestPerCall, FitInv
<1> QED BY <1>1, NoInputIsNone DEF Fits

(* The answer read next is the only entry of its input. *)
LEMMA AnsweredAlone ==
  ASSUME TypeOK, OneRequestPerCall, toLane # <<>>
  PROVE  /\ wire = "up" /\ blocked = <<>>
         /\ Fits(Head(toLane))
         /\ Unique(Tail(toLane)) /\ Elements(Tail(toLane)) \subseteq Elements(toLane)
         /\ Head(toLane).input # NoInput =>
              \A x \in Elements(toDaemon) \cup Elements(Tail(toLane)) :
                x.input # Head(toLane).input
<1>1. toLane \in Seq(Messages)
  BY DEF TypeOK
<1>2. wire = "up" /\ blocked = <<>>
  BY DEF OneRequestPerCall, WireInv
<1>3. /\ Head(toLane) \in Elements(toLane)
      /\ Elements(Tail(toLane)) \subseteq Elements(toLane)
  BY <1>1, ElementsHeadTail
<1>4. Fits(Head(toLane))
  BY <1>3 DEF OneRequestPerCall, FitInv
<1>5. Unique(Tail(toLane)) /\ Apart(<<Head(toLane)>>, Tail(toLane))
  BY <1>1, UniqueHeadTail DEF OneRequestPerCall, UniqueInv
<1>6. ASSUME Head(toLane).input # NoInput,
             NEW x \in Elements(toDaemon) \cup Elements(Tail(toLane))
      PROVE  x.input # Head(toLane).input
  <2>1. CASE x \in Elements(toDaemon)
    BY <1>3, <1>6, <2>1 DEF OneRequestPerCall, UniqueInv, Apart
  <2>2. CASE x \in Elements(Tail(toLane))
    BY <1>5, <1>6, <2>2, ElementsOne DEF Apart
  <2> QED BY <2>1, <2>2
<1> QED BY <1>2, <1>3, <1>4, <1>5, <1>6

(* A step in which the lane moves the calls M, which own nothing else, and     *)
(* sends cmds, of those calls or of none.                                     *)
LEMMA LaneStep ==
  ASSUME TypeOK, TypeOK', OneRequestPerCall,
         NEW cmds \in Seq(Commands), Send(cmds), Unique(cmds),
         NEW M \in SUBSET Inputs,
         UNCHANGED <<wire, seated, admissions>>,
         Unique(toLane'), Elements(toLane') \subseteq Elements(toLane),
         wire # "up" => toLane' = <<>>,
         \A i \in Inputs \ M : call'[i] = call[i],
         \A i \in M : call'[i] \in {"new", "parked", "asking", "reading"}
                        => admissions[i] = 0,
         \A x \in Elements(blocked) \cup Elements(toDaemon) \cup Elements(toLane') :
           x.input \notin M,
         \A x \in Elements(cmds) : /\ x.input \in M \cup {NoInput}
                                  /\ Fits(x)' /\ Unread(x)',
         ParkedInv'
  PROVE  OneRequestPerCall'
<1>1. /\ blocked \in Seq(Commands) /\ toDaemon \in Seq(Commands)
      /\ Unique(blocked) /\ Unique(toDaemon)
  BY DEF TypeOK, OneRequestPerCall, UniqueInv
<1>2. Apart(blocked, cmds) /\ Apart(toDaemon, cmds)
  BY DEF Apart
<1>3. /\ Unique(blocked \o cmds) /\ Unique(toDaemon \o cmds)
      /\ Elements(blocked \o cmds) = Elements(blocked) \cup Elements(cmds)
      /\ Elements(toDaemon \o cmds) = Elements(toDaemon) \cup Elements(cmds)
  BY <1>1, <1>2, UniqueConcat, ElementsConcat
<1>4. \/ wire = "up" /\ toDaemon' = toDaemon \o cmds /\ blocked' = blocked
      \/ wire # "up" /\ blocked' = blocked \o cmds /\ toDaemon' = toDaemon
  BY DEF Send
<1>5. WireInv'
  BY <1>4 DEF OneRequestPerCall, WireInv
<1>6. Unique(blocked') /\ Unique(toDaemon')
  BY <1>1, <1>3, <1>4
<1>7. /\ Elements(blocked') \subseteq Elements(blocked) \cup Elements(cmds)
      /\ Elements(toDaemon') \subseteq Elements(toDaemon) \cup Elements(cmds)
  BY <1>3, <1>4
<1>8. Apart(toDaemon', toLane')
  <2> SUFFICES ASSUME NEW x \in Elements(toDaemon'), NEW y \in Elements(toLane'),
                      x.input = y.input
               PROVE  x.input = NoInput
    BY DEF Apart
  <2>1. CASE x \in Elements(cmds)
    BY <2>1
  <2>2. CASE x \in Elements(toDaemon)
    BY <2>2 DEF OneRequestPerCall, UniqueInv, Apart
  <2> QED BY <1>7, <2>1, <2>2
<1>9. ASSUME NEW x \in Elements(blocked) \cup Elements(toDaemon) \cup Elements(toLane')
      PROVE  Fits(x)' /\ (x \in Elements(blocked) \cup Elements(toDaemon) => Unread(x)')
  <2>1. Fits(x) /\ (x \in Elements(blocked) \cup Elements(toDaemon) => Unread(x))
    BY DEF OneRequestPerCall, FitInv
  <2>2. x.input \notin M
    OBVIOUS
  <2>3. x.input \in Inputs => call'[x.input] = call[x.input]
    BY <2>2
  <2>4. Fits(x)'
    BY <2>1, <2>3 DEF Fits
  <2>5. x.type = "prompt" => x.input \in Inputs
    BY <2>1 DEF Fits
  <2>6. Unread(x) => Unread(x)'
    BY <2>3, <2>5 DEF Unread
  <2> QED BY <2>1, <2>4, <2>6
<1>10. FitInv'
  <2>1. \A x \in Elements(blocked') : Fits(x)' /\ Unread(x)'
    BY <1>7, <1>9
  <2>2. \A x \in Elements(toDaemon') : Fits(x)' /\ Unread(x)'
    BY <1>7, <1>9
  <2>3. \A x \in Elements(toLane') : Fits(x)'
    BY <1>9
  <2> QED BY <2>1, <2>2, <2>3 DEF FitInv
<1>11. AdmissionInv'
  BY DEF OneRequestPerCall, AdmissionInv
<1> QED BY <1>5, <1>6, <1>8, <1>10, <1>11 DEF OneRequestPerCall, UniqueInv

(* The same, for one call and for none. *)
LEMMA OneCallMoves ==
  ASSUME TypeOK, TypeOK', OneRequestPerCall,
         NEW cmds \in Seq(Commands), Send(cmds), Unique(cmds),
         NEW i \in Inputs,
         UNCHANGED <<wire, seated, admissions>>,
         Unique(toLane'), Elements(toLane') \subseteq Elements(toLane),
         wire # "up" => toLane' = <<>>,
         \A j \in Inputs \ {i} : call'[j] = call[j],
         call'[i] \in {"new", "parked", "asking", "reading"} => admissions[i] = 0,
         \A x \in Elements(blocked) \cup Elements(toDaemon) \cup Elements(toLane') :
           x.input # i,
         \A x \in Elements(cmds) : x.input = i /\ Fits(x)' /\ Unread(x)',
         ParkedInv'
  PROVE  OneRequestPerCall'
<1> DEFINE M == {i}
<1>1. M \in SUBSET Inputs
  OBVIOUS
<1>2. /\ \A j \in Inputs \ M : call'[j] = call[j]
      /\ \A j \in M : call'[j] \in {"new", "parked", "asking", "reading"}
                       => admissions[j] = 0
      /\ \A x \in Elements(blocked) \cup Elements(toDaemon) \cup Elements(toLane') :
           x.input \notin M
      /\ \A x \in Elements(cmds) : /\ x.input \in M \cup {NoInput}
                                   /\ Fits(x)' /\ Unread(x)'
  OBVIOUS
<1> HIDE DEF M
<1> QED BY <1>1, <1>2, LaneStep

(* A step in which no call moves and the lane sends commands of its own. *)
LEMMA NoCallMoves ==
  ASSUME TypeOK, TypeOK', OneRequestPerCall,
         NEW cmds \in Seq(Commands), Send(cmds), Unique(cmds),
         UNCHANGED <<call, parked, wire, seated, admissions>>,
         Unique(toLane'), Elements(toLane') \subseteq Elements(toLane),
         wire # "up" => toLane' = <<>>,
         \A x \in Elements(cmds) : x.input = NoInput /\ Fits(x)' /\ Unread(x)'
  PROVE  OneRequestPerCall'
<1> DEFINE M == {}
<1>1. M \in SUBSET Inputs
  OBVIOUS
<1>2. /\ \A j \in Inputs \ M : call'[j] = call[j]
      /\ \A j \in M : call'[j] \in {"new", "parked", "asking", "reading"}
                       => admissions[j] = 0
      /\ \A x \in Elements(blocked) \cup Elements(toDaemon) \cup Elements(toLane') :
           x.input \notin M
      /\ \A x \in Elements(cmds) : /\ x.input \in M \cup {NoInput}
                                   /\ Fits(x)' /\ Unread(x)'
  OBVIOUS
<1>3. ParkedInv'
  BY DEF OneRequestPerCall, ParkedInv
<1> HIDE DEF M
<1> QED BY <1>1, <1>2, <1>3, LaneStep

(* Parked calls that do not move stay parked. *)
LEMMA ParkedKept ==
  ASSUME ParkedInv, UNCHANGED parked,
         \A i \in Elements(parked) : call'[i] = call[i]
  PROVE  ParkedInv'
BY DEF ParkedInv

(* Nothing is asked of an empty list of parked calls. *)
LEMMA ParkedGone ==
  ASSUME parked' = <<>>
  PROVE  ParkedInv'
BY ElementsEmpty DEF ParkedInv

(* A step that sends nothing sends the empty list of commands. *)
LEMMA SendsNothing ==
  ASSUME TypeOK, UNCHANGED <<blocked, toDaemon>>
  PROVE  /\ Send(<<>>) /\ Unique(<<>>) /\ <<>> \in Seq(Commands)
         /\ Elements(<<>>) = {}
<1>1. blocked \o <<>> = blocked /\ toDaemon \o <<>> = toDaemon
  BY ConcatEmptySeq DEF TypeOK
<1> QED BY <1>1, EmptySeq, UniqueEmpty, ElementsEmpty DEF Send

(* A request of the lane itself, which belongs to no call. *)
LEMMA OwnCmd ==
  ASSUME NEW type \in {"attach", "get_queue", "abort", "detach"}
  PROVE  /\ <<Cmd(type, NoInput)>> \in Seq(Commands)
         /\ Unique(<<Cmd(type, NoInput)>>)
         /\ \A x \in Elements(<<Cmd(type, NoInput)>>) :
              x.input = NoInput /\ Fits(x)' /\ Unread(x)'
<1>1. Cmd(type, NoInput) \in Commands
  BY CmdType DEF CommandTypes
<1> QED BY <1>1, UniqueOne, ElementsOne DEF Cmd, Fits, Unread

(* A request a call makes on its way belongs to that call. *)
LEMMA CallCmd ==
  ASSUME NEW type \in {"attach", "get_queue"}, NEW i \in Inputs
  PROVE  /\ <<Cmd(type, i)>> \in Seq(Commands) /\ Unique(<<Cmd(type, i)>>)
         /\ \A x \in Elements(<<Cmd(type, i)>>) : x.input = i /\ x.type = type
<1>1. Cmd(type, i) \in Commands
  BY CmdType DEF CommandTypes
<1> QED BY <1>1, UniqueOne, ElementsOne DEF Cmd

(* A call begins with one request, or parked with none. *)
LEMMA OneRequestOfInputActions ==
  ASSUME TypeOK, TypeOK', OneRequestPerCall,
         NEW i \in Inputs, PromptNow(i) \/ Park(i) \/ AskAttach(i)
  PROVE  OneRequestPerCall'
<1>1. /\ call[i] = "new"
      /\ \A x \in Elements(blocked) \cup Elements(toDaemon) \cup Elements(toLane) :
           x.input # i
  BY OwnsNothing DEF PromptNow, Park, AskAttach
<1>2. i \notin Elements(parked) /\ Elements(parked) \subseteq Inputs
  BY <1>1, ElementsType DEF TypeOK, OneRequestPerCall, ParkedInv
<1>3. admissions[i] = 0 /\ Unique(toLane)
  BY <1>1 DEF OneRequestPerCall, AdmissionInv, UniqueInv
<1>4. wire # "up" => toLane = <<>>
  BY DEF OneRequestPerCall, WireInv
<1>5. CASE PromptNow(i)
  <2> DEFINE cmds == PromptCmds(<<i>>, HasOpenTurn)
  <2>1. /\ call' = [call EXCEPT ![i] = "sent"] /\ Send(cmds)
        /\ UNCHANGED <<parked, wire, seated, admissions, toLane>>
    BY <1>5 DEF PromptNow, prime, hist
  <2>2. /\ call'[i] = "sent" /\ \A j \in Inputs \ {i} : call'[j] = call[j]
        /\ ParkedInv'
    BY <1>2, <2>1, ParkedKept DEF TypeOK, OneRequestPerCall
  <2>3. /\ cmds \in Seq(Commands) /\ Unique(cmds)
        /\ \A x \in Elements(cmds) : x.type = "prompt" /\ x.input = i
    <3>1. /\ <<i>> \in Seq(Inputs) /\ HasOpenTurn \in BOOLEAN
          /\ \A j, k \in DOMAIN <<i>> : j = k
      BY DEF HasOpenTurn
    <3> QED BY <3>1, PromptCmdsType, PromptCmdsHold, ElementsOne
  <2>4. \A x \in Elements(cmds) : Fits(x)' /\ Unread(x)'
    BY <1>3, <2>1, <2>2, <2>3 DEF Fits, Unread
  <2> HIDE DEF cmds
  <2> QED BY <1>1, <1>3, <1>4, <2>1, <2>2, <2>3, <2>4, OneCallMoves
<1>6. CASE Park(i)
  <2>1. /\ call' = [call EXCEPT ![i] = "parked"] /\ parked' = Append(parked, i)
        /\ UNCHANGED <<wire, seated, admissions, toLane, blocked, toDaemon>>
    BY <1>6 DEF Park, prime, hist
  <2>2. call'[i] = "parked" /\ \A j \in Inputs \ {i} : call'[j] = call[j]
    BY <2>1 DEF TypeOK
  <2>3. ParkedInv'
    <3>1. Elements(parked') = Elements(parked) \cup {i}
      BY <2>1, ElementsAppend DEF TypeOK
    <3>2. \A j, k \in DOMAIN parked' : j # k => parked'[j] # parked'[k]
      <4>1. /\ Len(parked) \in Nat /\ DOMAIN parked = 1..Len(parked)
            /\ DOMAIN parked' = 1..(Len(parked) + 1)
            /\ \A k \in 1..Len(parked) : parked'[k] = parked[k]
            /\ parked'[Len(parked) + 1] = i
        BY <2>1, LenProperties, AppendProperties DEF TypeOK
      <4>2. \A k \in 1..Len(parked) : parked[k] # i
        BY <1>2, <4>1 DEF Elements
      <4>3. \A j, k \in 1..Len(parked) : j # k => parked[j] # parked[k]
        BY <4>1 DEF OneRequestPerCall, ParkedInv
      <4>4. \A k \in DOMAIN parked' : k \in 1..Len(parked) \/ k = Len(parked) + 1
        BY <4>1
      <4> QED BY <4>1, <4>2, <4>3, <4>4
    <3>3. \A j \in Elements(parked') : call'[j] = "parked"
      BY <1>2, <2>2, <3>1 DEF OneRequestPerCall, ParkedInv
    <3> QED BY <3>2, <3>3 DEF ParkedInv
  <2>4. /\ Send(<<>>) /\ Unique(<<>>) /\ <<>> \in Seq(Commands)
        /\ Elements(<<>>) = {}
    BY <2>1, SendsNothing
  <2> QED BY <1>1, <1>3, <1>4, <2>1, <2>2, <2>3, <2>4, OneCallMoves
<1>7. CASE AskAttach(i)
  <2> DEFINE cmds == <<Cmd("attach", i)>>
  <2>1. /\ call' = [call EXCEPT ![i] = "asking"] /\ Send(cmds)
        /\ UNCHANGED <<parked, wire, seated, admissions, toLane>>
    BY <1>7 DEF AskAttach, prime, hist
  <2>2. /\ call'[i] = "asking" /\ \A j \in Inputs \ {i} : call'[j] = call[j]
        /\ ParkedInv'
    BY <1>2, <2>1, ParkedKept DEF TypeOK, OneRequestPerCall
  <2>3. /\ cmds \in Seq(Commands) /\ Unique(cmds)
        /\ \A x \in Elements(cmds) : x.input = i /\ x.type = "attach"
    BY CallCmd
  <2> HIDE DEF cmds
  <2>4. \A x \in Elements(cmds) : x.input = i /\ Fits(x)' /\ Unread(x)'
    BY <2>2, <2>3 DEF Fits, Unread
  <2> QED BY <1>1, <1>3, <1>4, <2>1, <2>2, <2>3, <2>4, OneCallMoves
<1> QED BY <1>5, <1>6, <1>7

(* A call that times out gives up its request and makes no other. *)
LEMMA OneRequestOfTimeout ==
  ASSUME TypeOK, TypeOK', OneRequestPerCall, NEW i \in Inputs, PromptTimesOut(i)
  PROVE  OneRequestPerCall'
<1>1. /\ call[i] = "sent" /\ call' = [call EXCEPT ![i] = "failed"]
      /\ UNCHANGED <<parked, wire, seated, admissions, blocked, toDaemon, toLane>>
  BY DEF PromptTimesOut, prime
<1>2. call'[i] = "failed" /\ \A j \in Inputs \ {i} : call'[j] = call[j]
  BY <1>1 DEF TypeOK
<1>3. ParkedInv'
  <2>1. \A j \in Elements(parked) : j \in Inputs \ {i}
    BY <1>1, ElementsType DEF TypeOK, OneRequestPerCall, ParkedInv
  <2> QED BY <1>1, <1>2, <2>1, ParkedKept DEF OneRequestPerCall
<1>4. ASSUME NEW x, Fits(x) PROVE Fits(x)' /\ (Unread(x) => Unread(x)')
  <2>1. CASE x.input = i
    BY <1>1, <1>2, <1>4, <2>1, NoInputIsNone DEF Fits, Unread
  <2>2. CASE x.input # i
    BY <1>1, <1>2, <1>4, <2>2 DEF Fits, Unread
  <2> QED BY <2>1, <2>2
<1>5. FitInv'
  BY <1>1, <1>4 DEF OneRequestPerCall, FitInv
<1>6. AdmissionInv'
  BY <1>1, <1>2 DEF OneRequestPerCall, AdmissionInv
<1>7. WireInv' /\ UniqueInv'
  BY <1>1 DEF OneRequestPerCall, WireInv, UniqueInv
<1> QED BY <1>3, <1>5, <1>6, <1>7 DEF OneRequestPerCall

(* Calls the lane sends on when their gap settles: parked ones, and the one    *)
(* whose attach has just been answered.                                       *)
LEMMA WokenStep ==
  ASSUME TypeOK, TypeOK', OneRequestPerCall,
         NEW own \in Seq(Commands), Unique(own),
         \A x \in Elements(own) : x.input = NoInput /\ Fits(x)' /\ Unread(x)',
         NEW woken \in Seq(Inputs), NEW open \in BOOLEAN,
         Send(own \o PromptCmds(woken, open)),
         \A j, k \in DOMAIN woken : j # k => woken[j] # woken[k],
         call' = MoveCalls(Elements(woken), "sent"),
         \A i \in Elements(woken) : call[i] \in {"parked", "reading"},
         parked' = <<>> \/ (parked' = parked /\ woken = <<>>),
         UNCHANGED <<wire, seated, admissions>>,
         Unique(toLane'), Elements(toLane') \subseteq Elements(toLane),
         wire # "up" => toLane' = <<>>,
         \A x \in Elements(blocked) \cup Elements(toDaemon) \cup Elements(toLane') :
           x.input \notin Elements(woken)
  PROVE  OneRequestPerCall'
<1> DEFINE M == Elements(woken)
           prompts == PromptCmds(woken, open)
           cmds == own \o prompts
<1>1. M \in SUBSET Inputs
  BY ElementsType
<1>2. /\ prompts \in Seq(Commands) /\ Unique(prompts)
      /\ \A x \in Elements(prompts) : x.type = "prompt" /\ x.input \in M
  BY PromptCmdsType, PromptCmdsHold
<1>3. /\ \A i \in Inputs \ M : call'[i] = call[i]
      /\ \A i \in M : call'[i] = "sent"
  BY <1>1 DEF MoveCalls
<1>4. \A i \in M : admissions[i] = 0
  BY <1>1 DEF OneRequestPerCall, AdmissionInv
<1> HIDE DEF M, prompts
<1>5. \A x \in Elements(prompts) : Fits(x)' /\ Unread(x)'
  BY <1>1, <1>2, <1>3, <1>4 DEF Fits, Unread
<1>6. Apart(own, prompts)
  BY DEF Apart
<1>7. /\ cmds \in Seq(Commands) /\ Unique(cmds)
      /\ Elements(cmds) = Elements(own) \cup Elements(prompts)
  BY <1>2, <1>6, ConcatType, UniqueConcat, ElementsConcat
<1>8. \A x \in Elements(cmds) : /\ x.input \in M \cup {NoInput}
                               /\ Fits(x)' /\ Unread(x)'
  BY <1>2, <1>5, <1>7
<1>9. ParkedInv'
  <2>1. CASE parked' = <<>>
    BY <2>1, ParkedGone
  <2>2. CASE parked' = parked /\ woken = <<>>
    <3>1. M = {}
      BY <2>2, ElementsEmpty DEF M
    <3>2. Elements(parked) \subseteq Inputs
      BY ElementsType DEF TypeOK
    <3> QED BY <1>3, <2>2, <3>1, <3>2, ParkedKept DEF OneRequestPerCall
  <2> QED BY <2>1, <2>2
<1>10. Send(cmds)
  BY DEF prompts
<1>11. \A x \in Elements(blocked) \cup Elements(toDaemon) \cup Elements(toLane') :
         x.input \notin M
  BY DEF M
<1> HIDE DEF cmds
<1>12. \A i \in M : call'[i] \in {"new", "parked", "asking", "reading"}
                     => admissions[i] = 0
  BY <1>4
<1> QED BY <1>1, <1>3, <1>7, <1>8, <1>9, <1>10, <1>11, <1>12, LaneStep

(* No channel holds anything of a parked call. *)
LEMMA ParkedOwnNothing ==
  ASSUME TypeOK, OneRequestPerCall
  PROVE  \A x \in Elements(blocked) \cup Elements(toDaemon) \cup Elements(toLane) :
           x.input \notin Elements(parked)
<1>1. \A i \in Elements(parked) : i \in Inputs /\ call[i] = "parked"
  BY ElementsType DEF TypeOK, OneRequestPerCall, ParkedInv
<1> QED BY <1>1, OwnsNothing

(* interrupt() and release() send only what no parked call owned. *)
LEMMA OneRequestOfStops ==
  ASSUME TypeOK, TypeOK', OneRequestPerCall, Interrupt \/ Release
  PROVE  OneRequestPerCall'
<1>1. /\ Unique(toLane) /\ (wire # "up" => toLane = <<>>)
  BY DEF OneRequestPerCall, UniqueInv, WireInv
<1>2. CASE Interrupt
  <2>1. UNCHANGED <<call, parked, wire, seated, admissions, toLane>>
    BY <1>2 DEF Interrupt, prime
  <2>2. CASE HasOpenTurn /\ ~wireDown
    <3>1. Send(<<Cmd("abort", NoInput)>>)
      BY <1>2, <2>2 DEF Interrupt
    <3> QED BY <1>1, <2>1, <3>1, OwnCmd, NoCallMoves
  <2>3. CASE ~(HasOpenTurn /\ ~wireDown)
    <3>1. UNCHANGED <<blocked, toDaemon>>
      BY <1>2, <2>3 DEF Interrupt
    <3>2. /\ Send(<<>>) /\ Unique(<<>>) /\ <<>> \in Seq(Commands)
          /\ Elements(<<>>) = {}
      BY <3>1, SendsNothing
    <3> QED BY <1>1, <2>1, <3>2, NoCallMoves
  <2> QED BY <2>2, <2>3
<1>3. CASE Release
  <2> DEFINE woken == IF connectionGap = "pending" THEN parked ELSE <<>>
             aborts == HasOpenTurn /\ ~wireDown
             own == IF aborts THEN <<Cmd("abort", NoInput)>>
                    ELSE IF wireDown THEN <<>> ELSE <<Cmd("detach", NoInput)>>
             open == HasOpenTurn /\ ~aborts
  <2>1. /\ call' = MoveCalls(Elements(woken), "sent")
        /\ Send(own \o PromptCmds(woken, open))
        /\ parked' = IF connectionGap = "pending" THEN <<>> ELSE parked
        /\ UNCHANGED <<wire, seated, admissions, toLane>>
    BY <1>3 DEF Release, prime
  <2>2. /\ woken \in Seq(Inputs) /\ open \in BOOLEAN
        /\ \A j, k \in DOMAIN woken : j # k => woken[j] # woken[k]
        /\ parked' = <<>> \/ (parked' = parked /\ woken = <<>>)
    BY <2>1, EmptySeq DEF TypeOK, OneRequestPerCall, ParkedInv, HasOpenTurn
  <2>3. Elements(woken) \subseteq Elements(parked)
    BY ElementsEmpty
  <2>4. \A i \in Elements(woken) : call[i] \in {"parked", "reading"}
    BY <2>3 DEF OneRequestPerCall, ParkedInv
  <2>5. \A x \in Elements(blocked) \cup Elements(toDaemon) \cup Elements(toLane') :
          x.input \notin Elements(woken)
    BY <2>1, <2>3, ParkedOwnNothing
  <2>6. /\ own \in Seq(Commands) /\ Unique(own)
        /\ \A x \in Elements(own) : x.input = NoInput /\ Fits(x)' /\ Unread(x)'
    <3>1. own \in {<<Cmd("abort", NoInput)>>, <<Cmd("detach", NoInput)>>, <<>>}
      OBVIOUS
    <3> HIDE DEF own
    <3> QED BY <3>1, OwnCmd, EmptySeq, UniqueEmpty, ElementsEmpty
  <2> HIDE DEF woken, own, open
  <2> QED BY <1>1, <2>1, <2>2, <2>4, <2>5, <2>6, WokenStep
<1> QED BY <1>2, <1>3

(* An answer read makes way for the next request of its call. *)
LEMMA OneRequestOfLaneReads ==
  ASSUME TypeOK, TypeOK', OneRequestPerCall, LaneReads
  PROVE  OneRequestPerCall'
<1> DEFINE head == Head(toLane)
<1>1. toLane # <<>> /\ toLane' = Tail(toLane)
  BY DEF LaneReads, PromptAnswered, AttachAnswered, QueueAnswered, AbortAnswered,
         DetachAnswered, AgentEndDelivered, ClosedDelivered, Receive
<1>2. UNCHANGED <<wire, seated, admissions>>
  BY DEF LaneReads, PromptAnswered, AttachAnswered, QueueAnswered, AbortAnswered,
         DetachAnswered, AgentEndDelivered, ClosedDelivered, prime, hist
<1>3. /\ wire = "up" /\ blocked = <<>> /\ Fits(head)
      /\ Unique(toLane') /\ Elements(toLane') \subseteq Elements(toLane)
      /\ head.input # NoInput =>
           \A x \in Elements(toDaemon) \cup Elements(toLane') : x.input # head.input
  BY <1>1, AnsweredAlone
<1>4. Elements(blocked) = {}
  BY <1>3, ElementsEmpty
<1>5. head.input \in Inputs \cup {NoInput}
  BY <1>3 DEF Fits
<1> HIDE DEF head
<1>6. CASE UNCHANGED <<call, parked, blocked, toDaemon>>
  <2>1. /\ Send(<<>>) /\ Unique(<<>>) /\ <<>> \in Seq(Commands)
        /\ Elements(<<>>) = {}
    BY <1>6, SendsNothing
  <2> QED BY <1>2, <1>3, <1>6, <2>1, NoCallMoves
<1>7. CASE PromptAnswered
  <2>1. /\ UNCHANGED <<parked, blocked, toDaemon>> /\ head.type = "prompt"
        /\ \/ UNCHANGED call
           \/ /\ call[head.input] = "sent"
              /\ \/ call' = [call EXCEPT ![head.input] = "failed"]
                 \/ call' = [call EXCEPT ![head.input] = "done"]
    BY <1>7 DEF PromptAnswered, Receive, head
  <2>2. CASE UNCHANGED call
    BY <1>6, <2>1, <2>2
  <2>3. CASE ~UNCHANGED call
    <3>1. head.input \in Inputs /\ call[head.input] = "sent"
      BY <1>3, <2>1, <2>3 DEF Fits
    <3>2. /\ call'[head.input] \in {"failed", "done"}
          /\ \A j \in Inputs \ {head.input} : call'[j] = call[j]
      BY <2>1, <2>3, <3>1 DEF TypeOK
    <3>3. ParkedInv'
      <4>1. \A j \in Elements(parked) : j \in Inputs \ {head.input}
        BY <3>1, ElementsType DEF TypeOK, OneRequestPerCall, ParkedInv
      <4> QED BY <2>1, <3>2, <4>1, ParkedKept DEF OneRequestPerCall
    <3>4. /\ Send(<<>>) /\ Unique(<<>>) /\ <<>> \in Seq(Commands)
          /\ Elements(<<>>) = {}
      BY <2>1, SendsNothing
    <3>5. \A x \in Elements(blocked) \cup Elements(toDaemon) \cup Elements(toLane') :
            x.input # head.input
      BY <1>3, <1>4, <3>1, NoInputIsNone
    <3> QED BY <1>2, <1>3, <3>1, <3>2, <3>3, <3>4, <3>5, OneCallMoves
  <2> QED BY <2>2, <2>3
<1>8. CASE AttachAnswered
  <2> DEFINE cmds == IF head.ok THEN <<Cmd("get_queue", head.input)>> ELSE <<>>
  <2>1. /\ UNCHANGED parked /\ head.type = "attach" /\ Send(cmds)
        /\ IF head.input = NoInput THEN UNCHANGED call
           ELSE call' = [call EXCEPT ![head.input] = IF head.ok THEN "reading" ELSE "failed"]
    BY <1>8 DEF AttachAnswered, Receive, head
  <2>2. CASE head.input = NoInput
    <3>1. /\ cmds \in Seq(Commands) /\ Unique(cmds)
          /\ \A x \in Elements(cmds) : x.input = NoInput /\ Fits(x)' /\ Unread(x)'
      <4>1. cmds \in {<<Cmd("get_queue", NoInput)>>, <<>>}
        BY <2>2
      <4> HIDE DEF cmds
      <4> QED BY <4>1, OwnCmd, EmptySeq, UniqueEmpty, ElementsEmpty
    <3> HIDE DEF cmds
    <3> QED BY <1>2, <1>3, <2>1, <2>2, <3>1, NoCallMoves
  <2>3. CASE head.input # NoInput
    <3>1. head.input \in Inputs /\ call[head.input] = "asking"
      BY <1>3, <2>1, <2>3 DEF Fits
    <3>2. /\ call'[head.input] = IF head.ok THEN "reading" ELSE "failed"
          /\ \A j \in Inputs \ {head.input} : call'[j] = call[j]
      BY <2>1, <2>3, <3>1 DEF TypeOK
    <3>3. ParkedInv'
      <4>1. \A j \in Elements(parked) : j \in Inputs \ {head.input}
        BY <3>1, ElementsType DEF TypeOK, OneRequestPerCall, ParkedInv
      <4> QED BY <2>1, <3>2, <4>1, ParkedKept DEF OneRequestPerCall
    <3>4. /\ cmds \in Seq(Commands) /\ Unique(cmds)
          /\ \A x \in Elements(cmds) :
               head.ok /\ x.input = head.input /\ x.type = "get_queue"
      <4>1. CASE head.ok
        BY <3>1, <4>1, CallCmd
      <4>2. CASE ~head.ok
        BY <4>2, EmptySeq, UniqueEmpty, ElementsEmpty
      <4> QED BY <4>1, <4>2
    <3> HIDE DEF cmds
    <3>5. \A x \in Elements(cmds) : x.input = head.input /\ Fits(x)' /\ Unread(x)'
      BY <3>1, <3>2, <3>4 DEF Fits, Unread
    <3>6. \A x \in Elements(blocked) \cup Elements(toDaemon) \cup Elements(toLane') :
            x.input # head.input
      BY <1>3, <1>4, <2>3
    <3>7. admissions[head.input] = 0
      BY <3>1 DEF OneRequestPerCall, AdmissionInv
    <3> QED BY <1>2, <1>3, <2>1, <3>1, <3>2, <3>3, <3>4, <3>5, <3>6, <3>7, OneCallMoves
  <2> QED BY <2>2, <2>3
<1>9. CASE QueueAnswered
  <2> DEFINE woken == Woken(head.input)
             open == HasOpenTurn
             prompts == PromptCmds(woken, open)
  <2>1. /\ head.type = "get_queue" /\ Send(prompts) /\ parked' = <<>>
        /\ call' = MoveCalls(Elements(woken), "sent")
    BY <1>9 DEF QueueAnswered, Receive, head
  <2>2. /\ head.input # NoInput => head.input \in Inputs /\ call[head.input] = "reading"
        /\ parked \in Seq(Inputs)
        /\ woken \in Seq(Inputs) /\ open \in BOOLEAN
    BY <1>3, <1>5, <2>1, WokenType DEF TypeOK, Fits, HasOpenTurn
  <2>3. head.input \notin Elements(parked)
    BY <2>2, NoInputIsNone, ElementsType DEF OneRequestPerCall, ParkedInv
  <2>4. /\ \A j, k \in DOMAIN woken : j # k => woken[j] # woken[k]
        /\ Elements(woken) \subseteq Elements(parked) \cup ({head.input} \ {NoInput})
    <3>1. \A j, k \in DOMAIN parked : j # k => parked[j] # parked[k]
      BY DEF OneRequestPerCall, ParkedInv
    <3>2. CASE head.input = NoInput
      BY <3>1, <3>2 DEF Woken
    <3>3. CASE head.input # NoInput
      <4>1. woken = Append(parked, head.input)
        BY <2>2, <3>3, AppendIsConcat DEF Woken
      <4>2. Elements(woken) = Elements(parked) \cup {head.input}
        BY <2>2, <3>3, <4>1, ElementsAppend
      <4>3. /\ Len(parked) \in Nat /\ DOMAIN parked = 1..Len(parked)
            /\ DOMAIN woken = 1..(Len(parked) + 1)
            /\ \A k \in 1..Len(parked) : woken[k] = parked[k]
            /\ woken[Len(parked) + 1] = head.input
        BY <2>2, <3>3, <4>1, LenProperties, AppendProperties
      <4>4. \A k \in 1..Len(parked) : parked[k] # head.input
        BY <2>3, <4>3 DEF Elements
      <4>5. \A k \in DOMAIN woken : k \in 1..Len(parked) \/ k = Len(parked) + 1
        BY <4>3
      <4> HIDE DEF woken
      <4> QED BY <3>1, <3>3, <4>2, <4>3, <4>4, <4>5
    <3> QED BY <3>2, <3>3
  <2>5. \A i \in Elements(woken) : call[i] \in {"parked", "reading"}
    BY <2>2, <2>4 DEF OneRequestPerCall, ParkedInv
  <2>6. \A x \in Elements(blocked) \cup Elements(toDaemon) \cup Elements(toLane') :
          x.input \notin Elements(woken)
    <3>1. \A x \in Elements(blocked) \cup Elements(toDaemon) \cup Elements(toLane') :
            x.input \notin Elements(parked)
      BY <1>3, ParkedOwnNothing
    <3>2. \A x \in Elements(blocked) \cup Elements(toDaemon) \cup Elements(toLane') :
            x.input \notin {head.input} \ {NoInput}
      BY <1>3, <1>4
    <3> HIDE DEF woken
    <3> QED BY <2>4, <3>1, <3>2
  <2>7. Send(<<>> \o prompts)
    <3>1. prompts \in Seq(Commands)
      BY <2>2, PromptCmdsType
    <3> QED BY <2>1, <3>1, ConcatEmptySeq
  <2>8. /\ <<>> \in Seq(Commands) /\ Unique(<<>>)
        /\ \A x \in Elements(<<>>) : x.input = NoInput /\ Fits(x)' /\ Unread(x)'
    BY EmptySeq, UniqueEmpty, ElementsEmpty
  <2> HIDE DEF woken, open
  <2> QED BY <1>2, <1>3, <2>1, <2>2, <2>4, <2>5, <2>6, <2>7, <2>8, WokenStep
<1>10. CASE AbortAnswered
  <2>1. UNCHANGED <<call, parked>>
    BY <1>10 DEF AbortAnswered
  <2>2. CASE stop = "interrupting"
    BY <1>6, <1>10, <2>1, <2>2 DEF AbortAnswered
  <2>3. CASE stop # "interrupting"
    <3>1. Send(<<Cmd("detach", NoInput)>>)
      BY <1>10, <2>3 DEF AbortAnswered
    <3> QED BY <1>2, <1>3, <2>1, <3>1, OwnCmd, NoCallMoves
  <2> QED BY <2>2, <2>3
<1>11. CASE DetachAnswered
  BY <1>6, <1>11 DEF DetachAnswered
<1>12. CASE AgentEndDelivered
  BY <1>6, <1>12 DEF AgentEndDelivered
<1>13. CASE ClosedDelivered
  BY <1>6, <1>13 DEF ClosedDelivered
<1> QED BY <1>7, <1>8, <1>9, <1>10, <1>11, <1>12, <1>13 DEF LaneReads

(* A drop empties the socket and fails or parks whom it served. *)
LEMMA OneRequestOfLoss ==
  ASSUME TypeOK, TypeOK', OneRequestPerCall, ConnectionLost
  PROVE  OneRequestPerCall'
<1> DEFINE turn == IF FailsOpenTurn THEN Settled(openTurn) ELSE openTurn
           open == turn.input # NoInput /\ ~turn.settled
           attached == reattach = "reading" \/ InPhase("reading") # {}
           down == IF attached THEN FALSE ELSE (wireDown \/ HearsLoss)
           then == StopAfterReject(down)
           detach == IF then = "detaching" THEN <<Cmd("detach", NoInput)>> ELSE <<>>
<1>1. PICK readers \in Orderings(InPhase("reading")) :
        LET woken == IF attached THEN parked \o readers ELSE <<>>
        IN /\ call' = [i \in Inputs |->
                         IF i \in Elements(woken) THEN "sent"
                         ELSE IF i \in Rejected THEN "failed" ELSE call[i]]
           /\ parked' = IF attached THEN <<>> ELSE parked
           /\ blocked' = PromptCmds(woken, open) \o detach
  BY DEF ConnectionLost
<1> DEFINE woken == IF attached THEN parked \o readers ELSE <<>>
           prompts == PromptCmds(woken, open)
<1>2. /\ wire' = "recovering" /\ toDaemon' = <<>> /\ toLane' = <<>> /\ seated' = FALSE
      /\ UNCHANGED admissions
  BY DEF ConnectionLost
<1>3. /\ parked \in Seq(Inputs) /\ \A j, k \in DOMAIN parked : j # k => parked[j] # parked[k]
      /\ \A i \in Elements(parked) : i \in Inputs /\ call[i] = "parked"
  BY ElementsType DEF TypeOK, OneRequestPerCall, ParkedInv
<1>4. /\ readers \in Seq(Inputs) /\ Elements(readers) = InPhase("reading")
      /\ \A j, k \in DOMAIN readers : j # k => readers[j] # readers[k]
  BY OrderingsType DEF InPhase, Orderings
<1>5. /\ woken \in Seq(Inputs)
      /\ \A i \in Elements(woken) : i \in Inputs /\ call[i] \in {"parked", "reading"}
      /\ \A j, k \in DOMAIN woken : j # k => woken[j] # woken[k]
  <2> DEFINE both == parked \o readers
  <2>1. both \in Seq(Inputs) /\ Elements(both) = Elements(parked) \cup Elements(readers)
    BY <1>3, <1>4, ConcatType, ElementsConcat
  <2>2. \A i \in Elements(both) : i \in Inputs /\ call[i] \in {"parked", "reading"}
    BY <1>3, <1>4, <2>1 DEF InPhase
  <2>3. \A j, k \in DOMAIN both : j # k => both[j] # both[k]
    <3>1. /\ Len(parked) \in Nat /\ DOMAIN parked = 1..Len(parked)
          /\ Len(readers) \in Nat /\ DOMAIN readers = 1..Len(readers)
          /\ DOMAIN both = 1..(Len(parked) + Len(readers))
          /\ \A k \in 1..(Len(parked) + Len(readers)) :
               both[k] = IF k <= Len(parked) THEN parked[k] ELSE readers[k - Len(parked)]
      BY <1>3, <1>4, <2>1, LenProperties, ConcatProperties
    <3>2. ASSUME NEW j \in DOMAIN parked, NEW k \in DOMAIN readers
          PROVE  parked[j] # readers[k]
      <4>1. parked[j] \in Elements(parked) /\ readers[k] \in Elements(readers)
        BY DEF Elements
      <4> QED BY <1>3, <1>4, <4>1 DEF InPhase
    <3> HIDE DEF both
    <3> SUFFICES ASSUME NEW j \in DOMAIN both, NEW k \in DOMAIN both, j # k,
                        both[j] = both[k]
                 PROVE  FALSE
      OBVIOUS
    <3>3. CASE j <= Len(parked) /\ k <= Len(parked)
      BY <1>3, <3>1, <3>3
    <3>4. CASE ~(j <= Len(parked)) /\ ~(k <= Len(parked))
      <4>1. /\ j - Len(parked) \in DOMAIN readers /\ k - Len(parked) \in DOMAIN readers
            /\ j - Len(parked) # k - Len(parked)
        BY <3>1, <3>4
      <4>2. both[j] = readers[j - Len(parked)] /\ both[k] = readers[k - Len(parked)]
        BY <3>1, <3>4
      <4> QED BY <1>4, <4>1, <4>2
    <3>5. CASE j <= Len(parked) /\ ~(k <= Len(parked))
      <4>1. j \in DOMAIN parked /\ k - Len(parked) \in DOMAIN readers
        BY <3>1, <3>5
      <4>2. both[j] = parked[j] /\ both[k] = readers[k - Len(parked)]
        BY <3>1, <3>5
      <4> QED BY <3>2, <4>1, <4>2
    <3>6. CASE ~(j <= Len(parked)) /\ k <= Len(parked)
      <4>1. k \in DOMAIN parked /\ j - Len(parked) \in DOMAIN readers
        BY <3>1, <3>6
      <4>2. both[k] = parked[k] /\ both[j] = readers[j - Len(parked)]
        BY <3>1, <3>6
      <4> QED BY <3>2, <4>1, <4>2
    <3> QED BY <3>3, <3>4, <3>5, <3>6
  <2> HIDE DEF both
  <2>4. woken = both \/ woken = <<>>
    BY DEF both
  <2> HIDE DEF woken
  <2>5. CASE woken = both
    BY <2>1, <2>2, <2>3, <2>5
  <2>6. CASE woken = <<>>
    <3>1. <<>> \in Seq(Inputs) /\ DOMAIN <<>> = {}
      OBVIOUS
    <3> QED BY <2>6, <3>1, ElementsEmpty
  <2> QED BY <2>4, <2>5, <2>6
<1>6. call' = [i \in Inputs |-> IF i \in Elements(woken) THEN "sent"
                               ELSE IF i \in Rejected THEN "failed" ELSE call[i]]
  BY <1>1
<1>7. blocked' = prompts \o detach
  BY <1>1
<1>8. detach \in Seq(Commands) /\ Unique(detach) /\ \A x \in Elements(detach) :
        x.input = NoInput /\ Fits(x)' /\ Unread(x)'
  <2>1. detach \in {<<Cmd("detach", NoInput)>>, <<>>}
    OBVIOUS
  <2> HIDE DEF detach
  <2> QED BY <2>1, OwnCmd, EmptySeq, UniqueEmpty, ElementsEmpty
<1>9. open \in BOOLEAN
  BY SettledType DEF TypeOK
<1>10. ParkedInv'
  <2>1. CASE attached
    BY <1>1, <2>1, ParkedGone
  <2>2. CASE ~attached
    <3>1. parked' = parked /\ woken = <<>>
      BY <1>1, <2>2
    <3>2. \A i \in Elements(parked) : call'[i] = call[i]
      BY <1>3, <1>6, <3>1, ElementsEmpty DEF Rejected, InPhase
    <3> QED BY <3>1, <3>2, ParkedKept DEF OneRequestPerCall
  <2> QED BY <2>1, <2>2
<1> HIDE DEF woken, detach, open
<1>11. /\ prompts \in Seq(Commands) /\ Unique(prompts)
       /\ \A x \in Elements(prompts) : x.type = "prompt" /\ x.input \in Elements(woken)
  BY <1>5, <1>9, PromptCmdsType, PromptCmdsHold
<1>12. \A x \in Elements(prompts) : Fits(x)' /\ Unread(x)'
  <2>1. \A i \in Elements(woken) : i \in Inputs /\ call'[i] = "sent" /\ admissions'[i] = 0
    BY <1>2, <1>5, <1>6 DEF OneRequestPerCall, AdmissionInv
  <2> HIDE DEF prompts
  <2> QED BY <1>11, <2>1 DEF Fits, Unread
<1> HIDE DEF prompts
<1>13. Apart(prompts, detach)
  BY <1>8 DEF Apart
<1>14. /\ Unique(blocked')
       /\ Elements(blocked') = Elements(prompts) \cup Elements(detach)
  BY <1>7, <1>8, <1>11, <1>13, UniqueConcat, ElementsConcat
<1>15. FitInv'
  BY <1>2, <1>8, <1>12, <1>14, ElementsEmpty DEF FitInv
<1>16. WireInv' /\ UniqueInv'
  BY <1>2, <1>14, UniqueEmpty, ElementsEmpty DEF WireInv, UniqueInv, Apart
<1>17. AdmissionInv'
  BY <1>2, <1>6 DEF OneRequestPerCall, AdmissionInv
<1> QED BY <1>10, <1>15, <1>16, <1>17 DEF OneRequestPerCall

(* A recovery sends what waited, or rejects it; a dial too. *)
LEMMA OneRequestOfRecovery ==
  ASSUME TypeOK, TypeOK', OneRequestPerCall,
         ConnectionRestored \/ ConnectionUnavailable \/ DialSucceeds \/ DialFails
  PROVE  OneRequestPerCall'
<1>1. /\ wire # "up" /\ toDaemon = <<>> /\ toLane = <<>> /\ ~seated
      /\ UNCHANGED <<toLane, seated, admissions>>
  BY DEF ConnectionRestored, ConnectionUnavailable, DialSucceeds, DialFails, prime, hist,
         OneRequestPerCall, WireInv
<1>2. CASE ConnectionRestored \/ DialSucceeds
  <2>1. /\ UNCHANGED <<call, parked>> /\ wire' = "up" /\ blocked' = <<>>
        /\ \/ toDaemon' = blocked
           \/ toDaemon' = blocked \o <<>>
           \/ toDaemon' = blocked \o <<Cmd("attach", NoInput)>>
    BY <1>2 DEF ConnectionRestored, DialSucceeds, lane
  <2>2. blocked \in Seq(Commands) /\ Unique(blocked)
    BY DEF TypeOK, OneRequestPerCall, UniqueInv
  <2>3. /\ Unique(toDaemon')
        /\ \A x \in Elements(toDaemon') :
             x \in Elements(blocked) \/ (Fits(x)' /\ Unread(x)')
    <3>1. CASE toDaemon' = blocked \/ toDaemon' = blocked \o <<>>
      BY <2>2, <3>1, ConcatEmptySeq
    <3>2. CASE toDaemon' = blocked \o <<Cmd("attach", NoInput)>>
      <4> DEFINE own == <<Cmd("attach", NoInput)>>
      <4>1. /\ own \in Seq(Commands) /\ Unique(own)
            /\ \A x \in Elements(own) : x.input = NoInput /\ Fits(x)' /\ Unread(x)'
        BY OwnCmd
      <4> HIDE DEF own
      <4>2. Apart(blocked, own)
        BY <4>1 DEF Apart
      <4>3. toDaemon' = blocked \o own
        BY <3>2 DEF own
      <4> QED BY <2>2, <4>1, <4>2, <4>3, UniqueConcat, ElementsConcat
    <3> QED BY <2>1, <3>1, <3>2
  <2>4. \A x \in Elements(blocked) : Fits(x)' /\ Unread(x)'
    BY <1>1, <2>1 DEF OneRequestPerCall, FitInv, Fits, Unread
  <2>5. FitInv' /\ UniqueInv' /\ WireInv'
    BY <1>1, <2>1, <2>3, <2>4, ElementsEmpty, UniqueEmpty
       DEF FitInv, UniqueInv, WireInv, Apart
  <2>6. ParkedInv' /\ AdmissionInv'
    BY <1>1, <2>1 DEF OneRequestPerCall, ParkedInv, AdmissionInv
  <2> QED BY <2>5, <2>6 DEF OneRequestPerCall
<1>3. CASE ConnectionUnavailable
  <2> DEFINE woken == WokenByUnavailable
             asks == [k \in 1..Len(woken) |-> Cmd("attach", woken[k])]
  <2>1. /\ call' = [i \in Inputs |-> IF i \in Elements(woken) THEN "asking"
                                     ELSE IF i \in Rejected THEN "failed" ELSE call[i]]
        /\ blocked' = asks /\ wire' = "gone" /\ UNCHANGED toDaemon
        /\ parked' = IF woken = parked THEN <<>> ELSE parked
    BY <1>3 DEF ConnectionUnavailable
  <2>2. woken = parked \/ woken = <<>>
    BY DEF WokenByUnavailable
  <2>3. /\ parked \in Seq(Inputs)
        /\ \A j, k \in DOMAIN parked : j # k => parked[j] # parked[k]
        /\ \A i \in Elements(parked) : i \in Inputs /\ call[i] = "parked"
    BY ElementsType DEF TypeOK, OneRequestPerCall, ParkedInv
  <2> HIDE DEF woken
  <2>4. /\ woken \in Seq(Inputs) /\ \A j, k \in DOMAIN woken : j # k => woken[j] # woken[k]
        /\ \A i \in Elements(woken) : i \in Inputs /\ call[i] = "parked"
    <3>1. CASE woken = parked
      BY <2>3, <3>1
    <3>2. CASE woken = <<>>
      <4>1. <<>> \in Seq(Inputs) /\ DOMAIN <<>> = {}
        OBVIOUS
      <4> QED BY <3>2, <4>1, ElementsEmpty
    <3> QED BY <2>2, <3>1, <3>2
  <2>5. /\ Unique(asks)
        /\ \A x \in Elements(asks) :
             x.type = "attach" /\ x.input \in Elements(woken)
    <3>1. DOMAIN asks = DOMAIN woken
      BY <2>4, LenProperties
    <3>2. \A k \in DOMAIN asks : asks[k].type = "attach" /\ asks[k].input = woken[k]
      BY DEF Cmd
    <3> HIDE DEF asks
    <3> QED BY <2>4, <3>1, <3>2 DEF Unique, Elements
  <2> HIDE DEF asks
  <2>6. \A x \in Elements(asks) : Fits(x)' /\ Unread(x)'
    BY <2>1, <2>4, <2>5 DEF Fits, Unread
  <2>7. FitInv' /\ UniqueInv' /\ WireInv'
    BY <1>1, <2>1, <2>5, <2>6, ElementsEmpty, UniqueEmpty
       DEF FitInv, UniqueInv, WireInv, Apart
  <2>8. ParkedInv'
    <3>1. CASE woken = parked
      BY <2>1, <3>1, ParkedGone
    <3>2. CASE woken # parked
      <4>1. parked' = parked /\ woken = <<>>
        BY <2>1, <2>2, <3>2
      <4>2. \A i \in Elements(parked) : call'[i] = call[i]
        BY <2>1, <2>3, <4>1, ElementsEmpty DEF Rejected, InPhase
      <4> QED BY <4>1, <4>2, ParkedKept DEF OneRequestPerCall
    <3> QED BY <3>1, <3>2
  <2>9. AdmissionInv'
    BY <1>1, <2>1, <2>4 DEF OneRequestPerCall, AdmissionInv
  <2> QED BY <2>7, <2>8, <2>9 DEF OneRequestPerCall
<1>4. CASE DialFails
  <2>1. /\ call' = MoveCalls(Rejected, "failed") /\ blocked' = <<>>
        /\ UNCHANGED <<wire, toDaemon, parked>>
    BY <1>4 DEF DialFails
  <2>2. ParkedInv'
    <3>1. \A i \in Elements(parked) : i \in Inputs /\ call[i] = "parked"
      BY ElementsType DEF TypeOK, OneRequestPerCall, ParkedInv
    <3>2. \A i \in Elements(parked) : call'[i] = call[i]
      BY <2>1, <3>1 DEF MoveCalls, Rejected, InPhase
    <3> QED BY <2>1, <3>2, ParkedKept DEF OneRequestPerCall
  <2>3. FitInv' /\ UniqueInv' /\ WireInv'
    BY <1>1, <2>1, ElementsEmpty, UniqueEmpty DEF FitInv, UniqueInv, WireInv, Apart
  <2>4. AdmissionInv'
    BY <1>1, <2>1 DEF OneRequestPerCall, AdmissionInv, MoveCalls
  <2> QED BY <2>2, <2>3, <2>4 DEF OneRequestPerCall
<1> QED BY <1>2, <1>3, <1>4

(* The command read next is the only entry of its input. *)
LEMMA ReadAlone ==
  ASSUME TypeOK, OneRequestPerCall, toDaemon # <<>>
  PROVE  /\ wire = "up" /\ blocked = <<>>
         /\ Fits(Head(toDaemon)) /\ Unread(Head(toDaemon))
         /\ Unique(Tail(toDaemon)) /\ Elements(Tail(toDaemon)) \subseteq Elements(toDaemon)
         /\ Head(toDaemon).input # NoInput =>
              \A x \in Elements(Tail(toDaemon)) \cup Elements(toLane) :
                x.input # Head(toDaemon).input
<1>1. toDaemon \in Seq(Commands)
  BY DEF TypeOK
<1>2. wire = "up" /\ blocked = <<>>
  BY DEF OneRequestPerCall, WireInv
<1>3. /\ Head(toDaemon) \in Elements(toDaemon)
      /\ Elements(Tail(toDaemon)) \subseteq Elements(toDaemon)
  BY <1>1, ElementsHeadTail
<1>4. Fits(Head(toDaemon)) /\ Unread(Head(toDaemon))
  BY <1>3 DEF OneRequestPerCall, FitInv
<1>5. Unique(Tail(toDaemon)) /\ Apart(<<Head(toDaemon)>>, Tail(toDaemon))
  BY <1>1, UniqueHeadTail DEF OneRequestPerCall, UniqueInv
<1>6. ASSUME Head(toDaemon).input # NoInput,
             NEW x \in Elements(Tail(toDaemon)) \cup Elements(toLane)
      PROVE  x.input # Head(toDaemon).input
  <2>1. CASE x \in Elements(toLane)
    BY <1>3, <1>6, <2>1 DEF OneRequestPerCall, UniqueInv, Apart
  <2>2. CASE x \in Elements(Tail(toDaemon))
    BY <1>5, <1>6, <2>2, ElementsOne DEF Apart
  <2> QED BY <2>1, <2>2
<1> QED BY <1>2, <1>3, <1>4, <1>5, <1>6

(* A step of prime that sends new, of the call own whose command it read or of *)
(* none, and may admit own.                                                   *)
LEMMA DaemonStep ==
  ASSUME TypeOK, TypeOK', OneRequestPerCall,
         UNCHANGED <<call, parked, wire, blocked>>,
         NEW new \in Seq(Messages), toLane' = toLane \o new, Unique(new),
         NEW own \in Inputs \cup {NoInput},
         \A x \in Elements(new) : x.input \in {own, NoInput} /\ Fits(x),
         Unique(toDaemon'), Elements(toDaemon') \subseteq Elements(toDaemon),
         wire # "up" => toDaemon' = <<>> /\ toLane' = <<>> /\ ~seated',
         own # NoInput => blocked = <<>>,
         own # NoInput => \A x \in Elements(toDaemon') \cup Elements(toLane) : x.input # own,
         \A i \in Inputs \ {own} : admissions'[i] = admissions[i],
         own # NoInput => call[own] \notin {"new", "parked", "asking", "reading"}
                          \/ admissions'[own] = admissions[own]
  PROVE  OneRequestPerCall'
<1>1. toLane \in Seq(Messages) /\ Unique(toLane)
  BY DEF TypeOK, OneRequestPerCall, UniqueInv
<1>2. Apart(toLane, new)
  <2> SUFFICES ASSUME NEW x \in Elements(toLane), NEW y \in Elements(new),
                      x.input = y.input
               PROVE  x.input = NoInput
    BY DEF Apart
  <2> QED OBVIOUS
<1>3. Unique(toLane') /\ Elements(toLane') = Elements(toLane) \cup Elements(new)
  BY <1>1, <1>2, UniqueConcat, ElementsConcat
<1>4. Apart(toDaemon', toLane')
  <2> SUFFICES ASSUME NEW x \in Elements(toDaemon'), NEW y \in Elements(toLane'),
                      x.input = y.input
               PROVE  x.input = NoInput
    BY DEF Apart
  <2>1. CASE y \in Elements(new)
    BY <2>1
  <2>2. CASE y \in Elements(toLane)
    BY <2>2 DEF OneRequestPerCall, UniqueInv, Apart
  <2> QED BY <1>3, <2>1, <2>2
<1>5. UniqueInv'
  BY <1>3, <1>4 DEF OneRequestPerCall, UniqueInv
<1>6. WireInv'
  BY DEF OneRequestPerCall, WireInv
<1>7. ASSUME NEW x, Fits(x) PROVE Fits(x)'
  BY <1>7 DEF Fits
<1>8. ASSUME NEW x \in Elements(toDaemon') PROVE Unread(x)'
  <2>1. Fits(x) /\ Unread(x)
    BY DEF OneRequestPerCall, FitInv
  <2>2. x.input # own \/ own = NoInput
    OBVIOUS
  <2> QED BY <2>1, <2>2, NoInputIsNone DEF Fits, Unread
<1>9. ASSUME NEW x \in Elements(blocked) PROVE Unread(x)'
  <2>1. Fits(x) /\ Unread(x)
    BY DEF OneRequestPerCall, FitInv
  <2>2. own = NoInput
    BY ElementsEmpty
  <2> QED BY <2>1, <2>2, NoInputIsNone DEF Fits, Unread
<1>10. FitInv'
  <2>1. \A x \in Elements(blocked') : Fits(x)' /\ Unread(x)'
    BY <1>7, <1>9 DEF OneRequestPerCall, FitInv
  <2>2. \A x \in Elements(toDaemon') : Fits(x)' /\ Unread(x)'
    BY <1>7, <1>8 DEF OneRequestPerCall, FitInv
  <2>3. \A x \in Elements(toLane') : Fits(x)'
    BY <1>3, <1>7 DEF OneRequestPerCall, FitInv
  <2> QED BY <2>1, <2>2, <2>3 DEF FitInv
<1>11. ParkedInv'
  BY DEF OneRequestPerCall, ParkedInv
<1>12. AdmissionInv'
  <2> SUFFICES ASSUME NEW i \in Inputs,
                      call[i] \in {"new", "parked", "asking", "reading"}
               PROVE  admissions'[i] = 0
    BY DEF AdmissionInv
  <2>1. admissions[i] = 0
    BY DEF OneRequestPerCall, AdmissionInv
  <2> QED BY <2>1, NoInputIsNone
<1> QED BY <1>5, <1>6, <1>10, <1>11, <1>12 DEF OneRequestPerCall

(* A push belongs to no call, and goes only to a seated client. *)
LEMMA StreamedHolds ==
  ASSUME NEW type \in {"agent_end", "session_closed"}, NEW run \in SUBSET Prompts
  PROVE  /\ Streamed(Push(type, run)) \in Seq(Messages)
         /\ Unique(Streamed(Push(type, run)))
         /\ \A x \in Elements(Streamed(Push(type, run))) : x.input = NoInput /\ Fits(x)
         /\ ~seated => Streamed(Push(type, run)) = <<>>
<1> DEFINE push == Push(type, run)
<1>1. push \in Messages /\ push.input = NoInput /\ Fits(push)
  BY PushType DEF Push, Fits
<1> HIDE DEF push
<1>2. CASE seated
  <2>1. Streamed(push) = <<push>>
    BY <1>2 DEF Streamed
  <2>2. <<push>> \in Seq(Messages)
    BY <1>1
  <2> QED BY <1>1, <1>2, <2>1, <2>2, UniqueOne, ElementsOne DEF push
<1>3. CASE ~seated
  <2>1. Streamed(push) = <<>>
    BY <1>3 DEF Streamed
  <2> QED BY <2>1, EmptySeq, UniqueEmpty, ElementsEmpty DEF push
<1> QED BY <1>2, <1>3

(* The daemon answers a command in the place of its request. *)
LEMMA OneRequestOfDaemonReads ==
  ASSUME TypeOK, TypeOK', OneRequestPerCall, DaemonReads
  PROVE  OneRequestPerCall'
<1> DEFINE cmd == Head(toDaemon)
           own == cmd.input
<1>1. /\ toDaemon # <<>> /\ toDaemon' = Tail(toDaemon)
      /\ UNCHANGED <<call, parked, wire, blocked>>
  BY DEF DaemonReads, DaemonAdmits, DaemonRefuses, DaemonAttaches, DaemonReadsQueue,
         DaemonAborts, DaemonDetaches, Accept, lane
<1>2. /\ wire = "up" /\ blocked = <<>> /\ Fits(cmd) /\ Unread(cmd)
      /\ Unique(toDaemon') /\ Elements(toDaemon') \subseteq Elements(toDaemon)
      /\ own # NoInput =>
           \A x \in Elements(toDaemon') \cup Elements(toLane) : x.input # own
  BY <1>1, ReadAlone
<1>3. cmd \in Commands /\ own \in Inputs \cup {NoInput}
  BY <1>1, HeadTailProperties, SMTT(30) DEF TypeOK, Commands
<1>4. admissions \in [Inputs -> Nat]
  BY DEF TypeOK
<1>5. /\ \A i \in Inputs \ {own} : admissions'[i] = admissions[i]
      /\ own # NoInput => \/ call[own] \notin {"new", "parked", "asking", "reading"}
                          \/ admissions'[own] = admissions[own]
  <2>1. CASE UNCHANGED admissions
    BY <2>1
  <2>2. CASE DaemonAdmits
    <3>1. admissions' = [admissions EXCEPT ![own] = @ + 1] /\ cmd.type = "prompt"
      BY <2>2 DEF DaemonAdmits, Accept
    <3>2. own \in Inputs /\ call[own] \in {"sent", "done", "failed"}
      BY <1>2, <3>1 DEF Fits
    <3> HIDE DEF own
    <3> QED BY <1>4, <3>1, <3>2
  <2> QED BY <2>1, <2>2 DEF DaemonReads, DaemonRefuses, DaemonAttaches,
                            DaemonReadsQueue, DaemonAborts, DaemonDetaches, hist
<1>6. ASSUME NEW ok \in BOOLEAN
      PROVE  /\ Answer(cmd, ok) \in Messages /\ Answer(cmd, ok).input = own
             /\ Fits(Answer(cmd, ok))
             /\ Append(toLane, Answer(cmd, ok)) = toLane \o <<Answer(cmd, ok)>>
             /\ <<Answer(cmd, ok)>> \in Seq(Messages)
             /\ Unique(<<Answer(cmd, ok)>>)
             /\ \A x \in Elements(<<Answer(cmd, ok)>>) : x = Answer(cmd, ok)
  <2>1. Answer(cmd, ok) \in Messages
    BY <1>3, AnswerType
  <2>2. Answer(cmd, ok).input = own /\ Answer(cmd, ok).type = cmd.type
    BY DEF Answer
  <2>3. Fits(Answer(cmd, ok))
    BY <1>2, <2>2 DEF Fits
  <2> DEFINE answer == Answer(cmd, ok)
  <2>4. answer \in Messages /\ answer.input = own /\ Fits(answer)
    BY <2>1, <2>2, <2>3
  <2> HIDE DEF answer
  <2>5. /\ Append(toLane, answer) = toLane \o <<answer>>
        /\ <<answer>> \in Seq(Messages)
    <3>1. toLane \in Seq(Messages)
      BY DEF TypeOK
    <3> QED BY <2>4, <3>1, AppendIsConcat
  <2>6. Unique(<<answer>>) /\ \A x \in Elements(<<answer>>) : x = answer
    BY UniqueOne, ElementsOne
  <2> QED BY <2>4, <2>5, <2>6 DEF answer
<1> HIDE DEF cmd, own
<1>7. CASE \E ok \in BOOLEAN : toLane' = Append(toLane, Answer(cmd, ok))
  <2>1. PICK ok \in BOOLEAN : toLane' = Append(toLane, Answer(cmd, ok))
    BY <1>7
  <2> DEFINE new == <<Answer(cmd, ok)>>
  <2>2. /\ new \in Seq(Messages) /\ toLane' = toLane \o new /\ Unique(new)
        /\ \A x \in Elements(new) : x.input \in {own, NoInput} /\ Fits(x)
    BY <1>6, <2>1
  <2> HIDE DEF new
  <2> QED BY <1>1, <1>2, <1>3, <1>5, <2>2, DaemonStep
<1>8. CASE DaemonAborts /\ toLane' = toLane \o Streamed(Push("agent_end", running))
                                         \o <<Answer(cmd, TRUE)>>
  <2> DEFINE end == Streamed(Push("agent_end", running))
             answer == <<Answer(cmd, TRUE)>>
             new == end \o answer
  <2>1. own = NoInput
    BY <1>2, <1>8 DEF DaemonAborts, Accept, Fits, cmd, own
  <2>2. /\ end \in Seq(Messages) /\ Unique(end)
        /\ \A x \in Elements(end) : x.input = NoInput /\ Fits(x)
    BY StreamedHolds DEF TypeOK
  <2>3. /\ answer \in Seq(Messages) /\ Unique(answer)
        /\ \A x \in Elements(answer) : x.input = NoInput /\ Fits(x)
    BY <1>6, <2>1
  <2> HIDE DEF end, answer
  <2>4. Apart(end, answer)
    BY <2>2 DEF Apart
  <2>5. /\ new \in Seq(Messages) /\ Unique(new)
        /\ \A x \in Elements(new) : x.input \in {own, NoInput} /\ Fits(x)
    BY <2>2, <2>3, <2>4, ConcatType, UniqueConcat, ElementsConcat
  <2>6. toLane' = toLane \o new
    <3>1. toLane' = toLane \o end \o answer
      BY <1>8 DEF end, answer
    <3>2. toLane \in Seq(Messages)
      BY DEF TypeOK
    <3>3. (toLane \o end) \o answer = toLane \o (end \o answer)
      BY <2>2, <2>3, <3>2, ConcatAssociative, SMTT(30)
    <3> QED BY <3>1, <3>3
  <2> HIDE DEF new
  <2> QED BY <1>1, <1>2, <1>3, <1>5, <2>5, <2>6, DaemonStep
<1>9. ASSUME DaemonAdmits \/ DaemonRefuses \/ DaemonAttaches \/ DaemonReadsQueue
               \/ DaemonDetaches
      PROVE  \E ok \in BOOLEAN : toLane' = Append(toLane, Answer(cmd, ok))
  BY <1>9 DEF DaemonAdmits, DaemonRefuses, DaemonAttaches, DaemonReadsQueue,
              DaemonDetaches, cmd
<1>10. CASE DaemonAborts
  <2>1. \/ toLane' = toLane \o Streamed(Push("agent_end", running))
                           \o <<Answer(cmd, TRUE)>>
        \/ toLane' = Append(toLane, Answer(cmd, TRUE))
    BY <1>10 DEF DaemonAborts, cmd
  <2> QED BY <1>7, <1>8, <1>10, <2>1
<1> QED BY <1>7, <1>9, <1>10 DEF DaemonReads

(* What prime does by itself belongs to no call. *)
LEMMA OneRequestOfPrime ==
  ASSUME TypeOK, TypeOK', OneRequestPerCall,
         DaemonEndsRun \/ DaemonRetriesRun \/ ForeignPrompt \/ DaemonClosesSession
  PROVE  OneRequestPerCall'
<1>1. /\ UNCHANGED <<call, parked, wire, blocked, toDaemon, admissions>>
      /\ seated' = seated \/ seated' = FALSE
  BY DEF DaemonEndsRun, DaemonRetriesRun, ForeignPrompt, DaemonClosesSession, lane,
         prime, hist
<1>2. \E new \in Seq(Messages) :
        /\ toLane' = toLane \o new /\ Unique(new)
        /\ \A x \in Elements(new) : x.input = NoInput /\ Fits(x)
        /\ ~seated => new = <<>>
  <2>1. CASE ForeignPrompt
    <3>1. toLane' = toLane \o <<>>
      BY <2>1, ConcatEmptySeq DEF TypeOK, ForeignPrompt
    <3> QED BY <3>1, EmptySeq, UniqueEmpty, ElementsEmpty
  <2>2. CASE DaemonEndsRun \/ DaemonRetriesRun
    <3>1. toLane' = toLane \o Streamed(Push("agent_end", running))
      BY <2>2 DEF DaemonEndsRun, DaemonRetriesRun
    <3>2. running \in SUBSET Prompts
      BY DEF TypeOK
    <3> QED BY <3>1, <3>2, StreamedHolds
  <2>3. CASE DaemonClosesSession
    <3>1. toLane' = toLane \o Streamed(Push("session_closed", {}))
      BY <2>3 DEF DaemonClosesSession
    <3> QED BY <3>1, StreamedHolds
  <2> QED BY <2>1, <2>2, <2>3
<1>3. PICK new \in Seq(Messages) :
        /\ toLane' = toLane \o new /\ Unique(new)
        /\ \A x \in Elements(new) : x.input = NoInput /\ Fits(x)
        /\ ~seated => new = <<>>
  BY <1>2
<1>4. wire # "up" => toDaemon' = <<>> /\ toLane' = <<>> /\ ~seated'
  <2> SUFFICES ASSUME wire # "up"
               PROVE  toDaemon' = <<>> /\ toLane' = <<>> /\ ~seated'
    OBVIOUS
  <2>1. toDaemon = <<>> /\ toLane = <<>> /\ ~seated
    BY DEF OneRequestPerCall, WireInv
  <2>2. toLane' = <<>> \o <<>>
    BY <1>3, <2>1
  <2> QED BY <1>1, <2>1, <2>2
<1>5. Unique(toDaemon') /\ Elements(toDaemon') \subseteq Elements(toDaemon)
  BY <1>1 DEF OneRequestPerCall, UniqueInv
<1> DEFINE own == NoInput
<1>6. /\ own \in Inputs \cup {NoInput}
      /\ \A x \in Elements(new) : x.input \in {own, NoInput} /\ Fits(x)
      /\ \A i \in Inputs \ {own} : admissions'[i] = admissions[i]
      /\ own = NoInput
  BY <1>1, <1>3
<1> HIDE DEF own
<1> QED BY <1>1, <1>3, <1>4, <1>5, <1>6, DaemonStep

(* A call owns one request at most, and where the request is tells where the  *)
(* call stands: over drops, failed recoveries, timeouts and a release.        *)
THEOREM OneRequestPerCallHolds == Spec => []OneRequestPerCall
<1>1. Init => OneRequestPerCall
  <2> SUFFICES ASSUME Init PROVE OneRequestPerCall
    OBVIOUS
  <2>1. WireInv /\ AdmissionInv
    BY DEF Init, WireInv, AdmissionInv
  <2>2. FitInv /\ UniqueInv
    BY ElementsEmpty, UniqueEmpty DEF Init, FitInv, UniqueInv, Apart
  <2>3. ParkedInv
    BY ElementsEmpty DEF Init, ParkedInv
  <2> QED BY <2>1, <2>2, <2>3 DEF OneRequestPerCall
<1>2. TypeOK /\ TypeOK' /\ OneRequestPerCall /\ [Next]_vars => OneRequestPerCall'
  <2> SUFFICES ASSUME TypeOK, TypeOK', OneRequestPerCall, [Next]_vars
               PROVE  OneRequestPerCall'
    OBVIOUS
  <2>1. CASE Next
    BY <2>1, OneRequestOfInputActions, OneRequestOfTimeout, OneRequestOfStops,
       OneRequestOfLaneReads, OneRequestOfLoss, OneRequestOfRecovery,
       OneRequestOfDaemonReads, OneRequestOfPrime DEF Next
  <2>2. CASE UNCHANGED vars
    <3>1. UNCHANGED <<call, parked, wire, blocked, toDaemon, toLane, seated, admissions>>
      BY <2>2 DEF vars, lane, prime, hist
    <3> QED BY <3>1 DEF OneRequestPerCall, WireInv, ParkedInv, FitInv, UniqueInv,
                        AdmissionInv, Fits, Unread
  <2> QED BY <2>1, <2>2
<1> QED BY <1>1, <1>2, TypeCorrect, PTL DEF Spec

-----------------------------------------------------------------------------
(* The lane implements PromptOnce. *)

(* How a call may move in one step. *)
MoveOK(i) ==
  \/ call'[i] = call[i]
  \/ call[i] = "new" /\ call'[i] \in {"parked", "asking", "sent"}
  \/ /\ call[i] \in {"parked", "asking", "reading"}
     /\ call'[i] \in {"parked", "asking", "reading", "sent", "failed"}
  \/ call[i] = "sent" /\ call'[i] \in {"done", "failed"}

(* Each step moves a call forward along turn() or steer(), or not at all. *)
LEMMA CallsMove ==
  ASSUME TypeOK, OneRequestPerCall, Next, NEW i \in Inputs
  PROVE  MoveOK(i)
<1>1. call \in [Inputs -> CallPhases]
  BY DEF TypeOK
<1>2. \A j \in Elements(parked) : call[j] = "parked"
  BY DEF OneRequestPerCall, ParkedInv
<1>3. CASE UNCHANGED call
  BY <1>3 DEF MoveOK
<1>4. ASSUME NEW j \in Inputs,
             PromptNow(j) \/ Park(j) \/ AskAttach(j) \/ PromptTimesOut(j)
      PROVE  MoveOK(i)
  BY <1>1, <1>4 DEF PromptNow, Park, AskAttach, PromptTimesOut, MoveOK
<1>5. ASSUME NEW S, \A j \in S : j \in Inputs => call[j] \in {"parked", "reading"},
             call' = MoveCalls(S, "sent")
      PROVE  MoveOK(i)
  BY <1>5 DEF MoveCalls, MoveOK
<1>6. CASE Release
  <2> DEFINE woken == IF connectionGap = "pending" THEN parked ELSE <<>>
  <2>1. call' = MoveCalls(Elements(woken), "sent")
    BY <1>6 DEF Release
  <2>2. Elements(woken) \subseteq Elements(parked)
    BY ElementsEmpty
  <2> HIDE DEF woken
  <2> QED BY <1>2, <1>5, <2>1, <2>2
<1>7. CASE LaneReads /\ ~UNCHANGED call
  <2> DEFINE head == Head(toLane)
  <2>1. toLane # <<>> /\ Fits(head)
    <3>1. toLane # <<>>
      BY <1>7 DEF LaneReads, PromptAnswered, AttachAnswered, QueueAnswered,
                  AbortAnswered, DetachAnswered, AgentEndDelivered, ClosedDelivered,
                  Receive
    <3> QED BY <3>1, AnsweredAlone
  <2>2. CASE PromptAnswered
    <3>1. /\ call[head.input] = "sent"
          /\ \/ call' = [call EXCEPT ![head.input] = "failed"]
             \/ call' = [call EXCEPT ![head.input] = "done"]
      BY <1>7, <2>2 DEF PromptAnswered
    <3> HIDE DEF head
    <3> QED BY <1>1, <3>1 DEF MoveOK
  <2>3. CASE AttachAnswered
    <3>1. /\ head.type = "attach" /\ head.input # NoInput
          /\ call' = [call EXCEPT ![head.input] = IF head.ok THEN "reading" ELSE "failed"]
      BY <1>7, <2>3 DEF AttachAnswered, Receive
    <3>2. call[head.input] = "asking"
      BY <2>1, <3>1 DEF Fits
    <3> HIDE DEF head
    <3> QED BY <1>1, <3>1, <3>2 DEF MoveOK
  <2>4. CASE QueueAnswered
    <3>1. head.type = "get_queue" /\ call' = MoveCalls(Elements(Woken(head.input)), "sent")
      BY <2>4 DEF QueueAnswered, Receive
    <3>2. head.input # NoInput => head.input \in Inputs /\ call[head.input] = "reading"
      BY <2>1, <3>1 DEF Fits
    <3>3. Elements(Woken(head.input))
            \subseteq Elements(parked) \cup ({head.input} \ {NoInput})
      <4>1. parked \in Seq(Inputs)
        BY DEF TypeOK
      <4>2. CASE head.input = NoInput
        BY <4>2 DEF Woken
      <4>3. CASE head.input # NoInput
        <5> HIDE DEF head
        <5>1. <<head.input>> \in Seq(Inputs)
          BY <3>2, <4>3
        <5>2. Elements(parked \o <<head.input>>) = Elements(parked) \cup {head.input}
          <6>1. Elements(parked \o <<head.input>>)
                  = Elements(parked) \cup Elements(<<head.input>>)
            BY <4>1, <5>1, ElementsConcat, ZenonT(30)
          <6> QED BY <6>1, ElementsOne
        <5> QED BY <4>3, <5>2 DEF Woken
      <4> QED BY <4>2, <4>3
    <3> HIDE DEF head
    <3> QED BY <1>2, <1>5, <3>1, <3>2, <3>3
  <2> QED BY <1>7, <2>2, <2>3, <2>4
          DEF LaneReads, AbortAnswered, DetachAnswered, AgentEndDelivered, ClosedDelivered
<1>8. CASE ConnectionLost
  <2> DEFINE attached == reattach = "reading" \/ InPhase("reading") # {}
  <2>1. PICK readers \in Orderings(InPhase("reading")) :
          call' = [j \in Inputs |->
                    IF j \in Elements(IF attached THEN parked \o readers ELSE <<>>)
                    THEN "sent" ELSE IF j \in Rejected THEN "failed" ELSE call[j]]
    BY <1>8 DEF ConnectionLost
  <2> DEFINE woken == IF attached THEN parked \o readers ELSE <<>>
  <2>2. \A j \in Elements(woken) : call[j] \in {"parked", "reading"}
    <3>1. /\ readers \in Seq(Inputs) /\ Elements(readers) = InPhase("reading")
          /\ parked \in Seq(Inputs)
      BY OrderingsType DEF InPhase, Orderings, TypeOK
    <3>2. Elements(parked \o readers) = Elements(parked) \cup Elements(readers)
      BY <3>1, ElementsConcat
    <3> QED BY <1>2, <3>1, <3>2, ElementsEmpty DEF InPhase
  <2> HIDE DEF woken
  <2>3. call' = [j \in Inputs |-> IF j \in Elements(woken) THEN "sent"
                                 ELSE IF j \in Rejected THEN "failed" ELSE call[j]]
    BY <2>1 DEF woken
  <2> QED BY <2>2, <2>3 DEF MoveOK, Rejected, InPhase
<1>9. CASE ConnectionUnavailable
  <2> DEFINE woken == WokenByUnavailable
  <2>1. call' = [j \in Inputs |-> IF j \in Elements(woken) THEN "asking"
                                 ELSE IF j \in Rejected THEN "failed" ELSE call[j]]
    BY <1>9 DEF ConnectionUnavailable
  <2>2. Elements(woken) \subseteq Elements(parked)
    BY ElementsEmpty DEF WokenByUnavailable
  <2> HIDE DEF woken
  <2> QED BY <1>2, <2>1, <2>2 DEF MoveOK, Rejected, InPhase
<1>10. CASE DialFails
  BY <1>10 DEF DialFails, MoveCalls, Rejected, InPhase, MoveOK
<1>11. UNCHANGED call \/ ~(Interrupt \/ ConnectionRestored \/ DialSucceeds \/ DaemonReads
                          \/ DaemonEndsRun \/ DaemonRetriesRun \/ ForeignPrompt
                          \/ DaemonClosesSession)
  BY DEF Interrupt, ConnectionRestored, DialSucceeds, DaemonReads, DaemonAdmits,
         DaemonRefuses, DaemonAttaches, DaemonReadsQueue, DaemonAborts, DaemonDetaches,
         Accept, DaemonEndsRun, DaemonRetriesRun, ForeignPrompt, DaemonClosesSession, lane
<1> QED BY <1>3, <1>4, <1>6, <1>7, <1>8, <1>9, <1>10, <1>11 DEF Next

(* Seen through the ledger, those are moves PromptOnce allows. *)
LEMMA LedgerMoves ==
  ASSUME TypeOK, TypeOK', NEW i \in Inputs, MoveOK(i)
  PROVE  /\ Ledger[i]' = Ledger[i] \/ <<Ledger[i], Ledger[i]'>> \in Once!Moves
         /\ Ledger[i]' \in {"new", "waiting", "sent", "done", "failed"}
<1>1. call[i] \in CallPhases /\ call'[i] \in CallPhases
  BY DEF TypeOK
<1>2. /\ Ledger[i] = IF call[i] \in {"parked", "asking", "reading"} THEN "waiting" ELSE call[i]
      /\ Ledger[i]' = IF call'[i] \in {"parked", "asking", "reading"} THEN "waiting" ELSE call'[i]
  BY DEF Ledger
<1> QED BY <1>1, <1>2 DEF MoveOK, Once!Moves, CallPhases

(* The lane implements PromptOnce: an input is sent and admitted once at most, *)
(* however often the wire drops and whatever prime refuses.                   *)
THEOREM LaneImplementsPromptOnce == Spec => ImplementsPromptOnce
<1>1. Init => Once!Init
  BY DEF Init, Once!Init, Ledger
<1>2. TypeOK /\ TypeOK' /\ OneRequestPerCall /\ [Next]_vars
        => [Once!Next]_<<Ledger, admissions>>
  <2> SUFFICES ASSUME TypeOK, TypeOK', OneRequestPerCall, [Next]_vars
               PROVE  [Once!Next]_<<Ledger, admissions>>
    OBVIOUS
  <2>1. CASE UNCHANGED vars
    <3>1. UNCHANGED <<call, admissions>>
      BY <2>1 DEF vars, lane, hist
    <3> QED BY <3>1 DEF Ledger
  <2>2. CASE Next /\ UNCHANGED admissions
    <3>1. \A i \in Inputs :
            /\ Ledger[i]' = Ledger[i] \/ <<Ledger[i], Ledger[i]'>> \in Once!Moves
            /\ Ledger[i]' \in {"new", "waiting", "sent", "done", "failed"}
      BY <2>2, CallsMove, LedgerMoves
    <3>2. Ledger' \in [Inputs -> {"new", "waiting", "sent", "done", "failed"}]
      BY <3>1 DEF Ledger
    <3> QED BY <2>2, <3>1, <3>2 DEF Once!Next, Once!Advance
  <2>3. CASE Next /\ ~UNCHANGED admissions
    <3>1. DaemonAdmits
      BY <2>3 DEF Next, PromptNow, Park, AskAttach, PromptTimesOut, Interrupt, Release,
                  LaneReads, PromptAnswered, AttachAnswered, QueueAnswered, AbortAnswered,
                  DetachAnswered, AgentEndDelivered, ClosedDelivered, ConnectionLost,
                  ConnectionRestored, ConnectionUnavailable, DialSucceeds, DialFails,
                  DaemonReads, DaemonRefuses, DaemonAttaches, DaemonReadsQueue,
                  DaemonAborts, DaemonDetaches, DaemonEndsRun, DaemonRetriesRun,
                  ForeignPrompt, DaemonClosesSession, hist
    <3> DEFINE i == Head(toDaemon).input
    <3>2. /\ toDaemon # <<>> /\ Head(toDaemon).type = "prompt" /\ UNCHANGED call
          /\ admissions' = [admissions EXCEPT ![i] = @ + 1]
      BY <3>1 DEF DaemonAdmits, Accept, lane
    <3>3. i \in Inputs /\ call[i] \in {"sent", "failed"} /\ admissions[i] = 0
      BY <3>2, ReadAlone DEF Fits, Unread
    <3>4. Ledger[i] \in {"sent", "failed"} /\ Ledger' = Ledger
      BY <3>2, <3>3 DEF Ledger
    <3>5. admissions' = [admissions EXCEPT ![i] = 1]
      <4> HIDE DEF i
      <4> QED BY <3>2, <3>3 DEF TypeOK
    <3> HIDE DEF i
    <3> QED BY <3>3, <3>4, <3>5 DEF Once!Next, Once!Admit
  <2> QED BY <2>1, <2>2, <2>3
<1> QED BY <1>1, <1>2, TypeCorrect, OneRequestPerCallHolds, PTL
        DEF Spec, ImplementsPromptOnce, Once!Spec

-----------------------------------------------------------------------------
(* TURNS, ANCHORS AND THE SEAT. *)
-----------------------------------------------------------------------------
(* Lemmas about sequences without repetition. *)

Distinct(s) == \A j, k \in DOMAIN s : j # k => s[j] # s[k]

(* One entry, or none, is no repetition. *)
LEMMA DistinctShort ==
  /\ Distinct(<<>>)
  /\ \A x : Distinct(<<x>>)
BY DEF Distinct

(* Joining what shares nothing repeats nothing. *)
LEMMA DistinctConcat ==
  ASSUME NEW S, NEW s \in Seq(S), NEW t \in Seq(S), Distinct(s), Distinct(t),
         Elements(s) \cap Elements(t) = {}
  PROVE  Distinct(s \o t)
<1>1. /\ Len(s) \in Nat /\ DOMAIN s = 1..Len(s)
      /\ Len(t) \in Nat /\ DOMAIN t = 1..Len(t)
      /\ DOMAIN (s \o t) = 1..(Len(s) + Len(t))
      /\ \A k \in 1..(Len(s) + Len(t)) :
           (s \o t)[k] = IF k <= Len(s) THEN s[k] ELSE t[k - Len(s)]
  BY ConcatProperties, LenProperties
<1> DEFINE u == s \o t
<1> HIDE DEF u
<1> SUFFICES ASSUME NEW j \in DOMAIN u, NEW k \in DOMAIN u, j < k, u[j] = u[k]
             PROVE  FALSE
  BY <1>1 DEF Distinct, u
<1>2. CASE k <= Len(s)
  BY <1>1, <1>2 DEF Distinct, u
<1>3. CASE ~(j <= Len(s))
  <2>1. j - Len(s) \in DOMAIN t /\ k - Len(s) \in DOMAIN t /\ j - Len(s) # k - Len(s)
    BY <1>1, <1>3 DEF u
  <2>2. u[j] = t[j - Len(s)] /\ u[k] = t[k - Len(s)]
    BY <1>1, <1>3 DEF u
  <2> QED BY <2>1, <2>2 DEF Distinct
<1>4. CASE j <= Len(s) /\ ~(k <= Len(s))
  <2>1. j \in DOMAIN s /\ k - Len(s) \in DOMAIN t
    BY <1>1, <1>4 DEF u
  <2>2. u[j] = s[j] /\ u[k] = t[k - Len(s)]
    BY <1>1, <1>4 DEF u
  <2>3. s[j] \in Elements(s) /\ t[k - Len(s)] \in Elements(t)
    BY <2>1, ElementsAt
  <2> QED BY <2>2, <2>3
<1> QED BY <1>2, <1>3, <1>4

(* What is left of a sequence after its head repeats nothing, nor the head. *)
LEMMA DistinctTail ==
  ASSUME NEW S, NEW s \in Seq(S), s # <<>>
  PROVE  /\ Head(s) \in Elements(s) /\ Elements(Tail(s)) \subseteq Elements(s)
         /\ Tail(s) \in Seq(S)
         /\ Distinct(s) => Distinct(Tail(s)) /\ Head(s) \notin Elements(Tail(s))
<1>1. /\ Len(s) \in Nat /\ Len(s) # 0 /\ DOMAIN s = 1..Len(s)
      /\ Tail(s) \in Seq(S) /\ Len(Tail(s)) = Len(s) - 1
      /\ \A k \in 1..Len(Tail(s)) : Tail(s)[k] = s[k + 1]
  BY LenProperties, HeadTailProperties, EmptySeq
<1>2. DOMAIN Tail(s) = 1..(Len(s) - 1) /\ Head(s) = s[1] /\ 1 \in DOMAIN s
  BY <1>1, LenProperties
<1>3. \A k \in DOMAIN Tail(s) : k + 1 \in DOMAIN s /\ k + 1 # 1 /\ Tail(s)[k] = s[k + 1]
  BY <1>1, <1>2
<1>4. ASSUME Distinct(s) PROVE Distinct(Tail(s))
  <2>1. \A j, k \in DOMAIN Tail(s) : j # k => j + 1 # k + 1
    BY <1>2
  <2> QED BY <1>3, <1>4, <2>1 DEF Distinct
<1>5. ASSUME Distinct(s) PROVE Head(s) \notin Elements(Tail(s))
  BY <1>2, <1>3, <1>5 DEF Distinct, Elements
<1> QED BY <1>1, <1>4, <1>5, ElementsHeadTail

(* Nor does what is left after taking the newest entries back. *)
LEMMA DistinctPop ==
  ASSUME NEW S, NEW s \in Seq(S), NEW n \in Nat
  PROVE  /\ PopCheckpoints(s, n) \in Seq(S)
         /\ Elements(PopCheckpoints(s, n)) \subseteq Elements(s)
         /\ Distinct(s) => Distinct(PopCheckpoints(s, n))
<1> DEFINE m == IF n > Len(s) THEN 0 ELSE Len(s) - n
           p == SubSeq(s, 1, m)
<1>1. Len(s) \in Nat /\ DOMAIN s = 1..Len(s) /\ m \in Nat /\ m <= Len(s)
  BY LenProperties
<1>2. \A i \in 1..m : s[i] \in S
  BY <1>1, ElementOfSeq
<1> HIDE DEF m
<1>3. p \in Seq(S) /\ Len(p) = m /\ \A i \in 1..m : p[i] = s[i]
  BY <1>1, <1>2, SubSeqProperties
<1>4. DOMAIN p = 1..m /\ \A i \in 1..m : i \in DOMAIN s
  BY <1>1, <1>3, LenProperties
<1> HIDE DEF p
<1>5. Elements(p) \subseteq Elements(s) /\ (Distinct(s) => Distinct(p))
  BY <1>3, <1>4 DEF Elements, Distinct
<1> QED BY <1>3, <1>5 DEF PopCheckpoints, p, m

-----------------------------------------------------------------------------
(* While the wire is down no turn is open, unless bb releases the thread.    *)

DownInv ==
  wireDown /\ stop \in {"none", "interrupting"} => connectionGap # "none" /\ ~HasOpenTurn

LEMMA DownStep ==
  ASSUME TypeOK, DownInv, [Next]_vars
  PROVE  DownInv'
<1>0. openTurn.settled \in BOOLEAN
  BY DEF TypeOK
<1>1. CASE UNCHANGED vars
  BY <1>1 DEF vars, lane, DownInv, HasOpenTurn
<1>2. ASSUME NEW i \in Inputs, PromptNow(i) PROVE DownInv'
  BY <1>2 DEF PromptNow, IsLive, DownInv
<1>3. ASSUME NEW i \in Inputs, Park(i) \/ AskAttach(i) \/ PromptTimesOut(i)
      PROVE  DownInv'
  BY <1>3 DEF Park, AskAttach, PromptTimesOut, DownInv, HasOpenTurn
<1>4. CASE Interrupt
  BY <1>4 DEF Interrupt, DownInv, HasOpenTurn
<1>5. CASE Release
  BY <1>5 DEF Release, DownInv
<1>6. CASE LaneReads
  <2>1. CASE PromptAnswered \/ AttachAnswered \/ ClosedDelivered
    BY <2>1 DEF PromptAnswered, AttachAnswered, ClosedDelivered, DownInv, HasOpenTurn
  <2>2. CASE QueueAnswered
    BY <2>2 DEF QueueAnswered, DownInv
  <2>3. CASE AbortAnswered \/ DetachAnswered
    BY <2>3 DEF AbortAnswered, DetachAnswered, DownInv, HasOpenTurn
  <2>4. CASE AgentEndDelivered
    <3>1. UNCHANGED <<wireDown, stop, connectionGap>>
      BY <2>4 DEF AgentEndDelivered
    <3>2. openTurn' = openTurn \/ openTurn' = Settled(openTurn)
      BY <2>4 DEF AgentEndDelivered
    <3> QED BY <3>1, <3>2 DEF DownInv, HasOpenTurn, Settled
  <2> QED BY <1>6, <2>1, <2>2, <2>3, <2>4 DEF LaneReads
<1>7. CASE ConnectionLost
  <2> DEFINE turn == IF FailsOpenTurn THEN Settled(openTurn) ELSE openTurn
             attached == reattach = "reading" \/ InPhase("reading") # {}
  <2>1. CASE attached
    BY <1>7, <2>1 DEF ConnectionLost, DownInv
  <2>2. CASE ~attached
    <3>1. /\ openTurn' = turn
          /\ wireDown' = (wireDown \/ HearsLoss)
          /\ connectionGap' = IF HearsLoss THEN "pending" ELSE connectionGap
          /\ stop' = StopAfterReject(wireDown \/ HearsLoss)
      BY <1>7, <2>2 DEF ConnectionLost, TurnAfter
    <3>2. stop' \in {"none", "interrupting"} => stop \in {"none", "interrupting"}
      BY <3>1 DEF StopAfterReject
    <3>3. CASE HearsLoss
      BY <1>0, <3>1, <3>3 DEF DownInv, HasOpenTurn, FailsOpenTurn, Settled
    <3>4. CASE ~HearsLoss
      BY <3>1, <3>2, <3>4 DEF DownInv, HasOpenTurn, FailsOpenTurn
    <3> QED BY <3>3, <3>4
  <2> QED BY <2>1, <2>2
<1>8. CASE ConnectionUnavailable \/ DialFails
  <2>1. /\ UNCHANGED <<openTurn, wireDown>>
        /\ connectionGap # "none" => connectionGap' # "none"
        /\ stop' = StopAfterReject(TRUE)
    BY <1>8 DEF ConnectionUnavailable, DialFails
  <2>2. stop' \in {"none", "interrupting"} => stop \in {"none", "interrupting"}
    BY <2>1 DEF StopAfterReject
  <2> QED BY <2>1, <2>2 DEF DownInv, HasOpenTurn
<1>9. CASE \/ ConnectionRestored \/ DialSucceeds \/ DaemonReads
           \/ DaemonEndsRun \/ DaemonRetriesRun \/ ForeignPrompt \/ DaemonClosesSession
  <2>1. UNCHANGED <<openTurn, wireDown, connectionGap, stop>>
    BY <1>9 DEF ConnectionRestored, DialSucceeds, DaemonReads, DaemonAdmits, DaemonRefuses,
                DaemonAttaches, DaemonReadsQueue, DaemonAborts, DaemonDetaches, Accept,
                DaemonEndsRun, DaemonRetriesRun, ForeignPrompt, DaemonClosesSession, lane
  <2> QED BY <2>1 DEF DownInv, HasOpenTurn
<1> QED BY <1>1, <1>2, <1>3, <1>4, <1>5, <1>6, <1>7, <1>8, <1>9 DEF Next

LEMMA DownInvHolds == Spec => []DownInv
<1>1. Init => DownInv
  BY DEF Init, DownInv
<1>2. TypeOK /\ DownInv /\ [Next]_vars => DownInv'
  BY DownStep
<1> QED BY <1>1, <1>2, TypeCorrect, PTL DEF Spec

-----------------------------------------------------------------------------
(* A step of the lane as one move. *)

(* The call of i has sent its prompt, or failed. *)
Left(i) == call[i] \in {"sent", "done", "failed"}

(* The calls in s prompt in this step. *)
Prompt(s) ==
  /\ s \in Seq(Inputs) /\ Distinct(s)
  /\ \A i \in Elements(s) : ~Left(i) /\ Left(i)'

(* The anchors in q are what this step leaves of those queued before. *)
Keep(q) ==
  /\ q \in Seq(Inputs) /\ Elements(q) \subseteq Elements(pendingCheckpoints)
  /\ Distinct(pendingCheckpoints) => Distinct(q)

(* A boundary that closes no turn and spends no anchor, *)
Aside(b) == b.turn = NoInput /\ b.anchor = NoInput

(* and one that closes the turn that was open and spends an anchor not kept. *)
Closing(b, turn, q) ==
  /\ b.turn = openTurn.input /\ ~openTurn.settled
  /\ b.turn = NoInput \/ turn = Settled(openTurn)
  /\ \/ b.anchor = NoInput
     \/ /\ b.anchor \in Elements(pendingCheckpoints)
        /\ Distinct(pendingCheckpoints) => b.anchor \notin Elements(q)

(* The boundaries of this step: one of them closes a turn at most. *)
Emit(turn, q) ==
  /\ \A k \in DOMAIN boundaries :
       k \in DOMAIN boundaries' /\ boundaries'[k] = boundaries[k]
  /\ \A k \in DOMAIN boundaries' \ DOMAIN boundaries :
       \/ Aside(boundaries'[k])
       \/ k = Len(boundaries) + 1 /\ Closing(boundaries'[k], turn, q)

MoveOf(s, q, turn) ==
  /\ Prompt(s) /\ Keep(q) /\ turn \in {openTurn, Settled(openTurn)}
  /\ openTurn' = TurnAfter(s, turn)
  /\ pendingCheckpoints' = q \o s
  /\ Emit(turn, q)

LaneMove ==
  /\ \A i \in Inputs : Left(i) => Left(i)'
  /\ \E s, q \in Seq(Inputs), turn \in {openTurn, Settled(openTurn)} : MoveOf(s, q, turn)

(* A step that emits one boundary that closes no turn or the open one, and   *)
(* one that emits nothing.                                                   *)
LEMMA EmitOne ==
  ASSUME TypeOK, NEW turn, NEW q, NEW b \in Boundaries,
         boundaries' = Append(boundaries, b), Aside(b) \/ Closing(b, turn, q)
  PROVE  Emit(turn, q)
<1>1. boundaries \in Seq(Boundaries)
  BY DEF TypeOK
<1>2. /\ Len(boundaries) \in Nat /\ DOMAIN boundaries = 1..Len(boundaries)
      /\ DOMAIN boundaries' = 1..(Len(boundaries) + 1)
      /\ \A k \in 1..Len(boundaries) : boundaries'[k] = boundaries[k]
      /\ boundaries'[Len(boundaries) + 1] = b
  BY <1>1, AppendProperties, LenProperties
<1> QED BY <1>2 DEF Emit

LEMMA EmitNothing ==
  ASSUME NEW turn, NEW q, boundaries' = boundaries
  PROVE  Emit(turn, q)
BY DEF Emit

(* What a step that leaves turn and anchors alone does to them. *)
LEMMA StillMove ==
  ASSUME TypeOK, UNCHANGED <<openTurn, pendingCheckpoints>>, Emit(openTurn, pendingCheckpoints)
  PROVE  MoveOf(<<>>, pendingCheckpoints, openTurn)
<1>1. pendingCheckpoints \in Seq(Inputs) /\ <<>> \in Seq(Inputs)
  BY DEF TypeOK
<1>2. pendingCheckpoints \o <<>> = pendingCheckpoints
  BY <1>1, ConcatEmptySeq
<1> QED BY <1>1, <1>2, DistinctShort, ElementsEmpty DEF MoveOf, Prompt, Keep, TurnAfter

(* A move that prompts nothing. *)
LEMMA QuietMove ==
  ASSUME NEW q, NEW turn \in {openTurn, Settled(openTurn)},
         Keep(q), Emit(turn, q), openTurn' = turn, pendingCheckpoints' = q
  PROVE  MoveOf(<<>>, q, turn)
<1>1. q \in Seq(Inputs) /\ <<>> \in Seq(Inputs)
  BY DEF Keep
<1>2. q \o <<>> = q
  BY <1>1, ConcatEmptySeq
<1> QED BY <1>1, <1>2, DistinctShort, ElementsEmpty DEF MoveOf, Prompt, TurnAfter

(* What is queued can be kept, in whole or after pops. *)
LEMMA KeepSome ==
  ASSUME TypeOK, NEW n \in Nat
  PROVE  Keep(pendingCheckpoints) /\ Keep(PopCheckpoints(pendingCheckpoints, n))
BY DistinctPop DEF TypeOK, Keep

(* Calls that prompted never wait again. *)
LEMMA LeftStays ==
  ASSUME TypeOK, OneRequestPerCall, Next
  PROVE  \A i \in Inputs : Left(i) => Left(i)'
BY CallsMove DEF MoveOK, Left

(* A move names its parts. *)
LEMMA MoveMakes ==
  ASSUME TypeOK, OneRequestPerCall, Next, NEW s, NEW q, NEW turn, MoveOf(s, q, turn)
  PROVE  LaneMove
<1>1. s \in Seq(Inputs) /\ q \in Seq(Inputs) /\ turn \in {openTurn, Settled(openTurn)}
  BY DEF MoveOf, Prompt, Keep
<1> QED BY <1>1, LeftStays DEF LaneMove

(* The calls a step wakes: those parked, then some that were reading. *)
LEMMA WokenApart ==
  ASSUME TypeOK, OneRequestPerCall, NEW r \in Seq(Inputs), Distinct(r),
         \A i \in Elements(r) : call[i] = "reading"
  PROVE  /\ parked \o r \in Seq(Inputs) /\ Distinct(parked \o r)
         /\ \A i \in Elements(parked \o r) : i \in Inputs /\ call[i] \in {"parked", "reading"}
<1>1. /\ parked \in Seq(Inputs) /\ Distinct(parked)
      /\ \A i \in Elements(parked) : call[i] = "parked"
  BY DEF TypeOK, OneRequestPerCall, ParkedInv, Distinct
<1>2. Elements(parked \o r) = Elements(parked) \cup Elements(r)
  BY <1>1, ElementsConcat
<1>3. parked \o r \in Seq(Inputs)
  BY <1>1, ConcatType
<1>4. Distinct(parked \o r)
  BY <1>1, DistinctConcat
<1>5. \A i \in Elements(parked \o r) : i \in Inputs
  BY <1>3, ElementsType
<1> QED BY <1>1, <1>2, <1>3, <1>4, <1>5

(* What bb asks of the lane is one move. *)
LEMMA InputIsMove ==
  ASSUME TypeOK, OneRequestPerCall, Next, NEW i \in Inputs,
         PromptNow(i) \/ Park(i) \/ AskAttach(i) \/ PromptTimesOut(i)
  PROVE  LaneMove
<1>1. CASE PromptNow(i)
  <2> DEFINE s == <<i>>
  <2>1. /\ call[i] = "new" /\ call' = [call EXCEPT ![i] = "sent"]
        /\ openTurn' = TurnAfter(s, openTurn)
        /\ pendingCheckpoints' = Append(pendingCheckpoints, i)
        /\ boundaries' = boundaries
    BY <1>1 DEF PromptNow, hist
  <2>2. pendingCheckpoints' = pendingCheckpoints \o s
    BY <2>1, AppendIsConcat DEF TypeOK
  <2>3. Prompt(s)
    <3>1. s \in Seq(Inputs) /\ Distinct(s) /\ Elements(s) = {i}
      BY DistinctShort, ElementsOne
    <3>2. ~Left(i) /\ Left(i)'
      BY <2>1 DEF Left, TypeOK
    <3> HIDE DEF s
    <3> QED BY <3>1, <3>2 DEF Prompt
  <2>4. Keep(pendingCheckpoints) /\ Emit(openTurn, pendingCheckpoints)
    BY <2>1, KeepSome, EmitNothing
  <2> HIDE DEF s
  <2>5. MoveOf(s, pendingCheckpoints, openTurn)
    BY <2>1, <2>2, <2>3, <2>4 DEF MoveOf
  <2> QED BY <2>5, MoveMakes
<1>2. CASE Park(i) \/ AskAttach(i)
  <2>1. UNCHANGED <<openTurn, pendingCheckpoints, boundaries>>
    BY <1>2 DEF Park, AskAttach, hist
  <2> QED BY <2>1, EmitNothing, StillMove, MoveMakes
<1>3. CASE PromptTimesOut(i)
  <2>1. /\ pendingCheckpoints' = PopCheckpoints(pendingCheckpoints, 1)
        /\ UNCHANGED <<openTurn, boundaries>>
    BY <1>3 DEF PromptTimesOut
  <2> QED BY <2>1, KeepSome, EmitNothing, QuietMove, MoveMakes
<1> QED BY <1>1, <1>2, <1>3

(* So is an interrupt, and a release. *)
LEMMA StopIsMove ==
  ASSUME TypeOK, OneRequestPerCall, DownInv, Next, Interrupt \/ Release
  PROVE  LaneMove
<1>0. openTurn.input \in Inputs \cup {NoInput}
  BY DEF TypeOK
<1>1. CASE Interrupt
  <2> DEFINE t == IF HasOpenTurn THEN openTurn.input ELSE NoInput
             b == Boundary("interrupted", NoInput, {}, t)
  <2>1. /\ boundaries' = Append(boundaries, b)
        /\ pendingCheckpoints' = pendingCheckpoints
        /\ openTurn' = IF HasOpenTurn /\ ~wireDown THEN Settled(openTurn) ELSE openTurn
    BY <1>1 DEF Interrupt
  <2>2. HasOpenTurn => ~wireDown
    BY <1>1 DEF DownInv, Interrupt
  <2>3. b \in Boundaries /\ b.turn = t /\ b.anchor = NoInput
    <3>1. t \in Inputs \cup {NoInput}
      BY <1>0
    <3> HIDE DEF t
    <3> QED BY <3>1, BoundaryType DEF Boundary
  <2> HIDE DEF b
  <2>4. Keep(pendingCheckpoints)
    BY KeepSome
  <2>5. CASE HasOpenTurn
    <3>1. Closing(b, Settled(openTurn), pendingCheckpoints)
      BY <2>3, <2>5 DEF Closing, HasOpenTurn
    <3>2. Emit(Settled(openTurn), pendingCheckpoints)
      BY <2>1, <2>3, <3>1, EmitOne
    <3> QED BY <2>1, <2>2, <2>4, <2>5, <3>2, QuietMove, MoveMakes
  <2>6. CASE ~HasOpenTurn
    <3>1. Emit(openTurn, pendingCheckpoints)
      BY <2>1, <2>3, <2>6, EmitOne DEF Aside
    <3> QED BY <2>1, <2>4, <2>6, <3>1, QuietMove, MoveMakes
  <2> QED BY <2>5, <2>6
<1>2. CASE Release
  <2> DEFINE aborts == HasOpenTurn /\ ~wireDown
             s == IF connectionGap = "pending" THEN parked ELSE <<>>
             turn == IF aborts THEN Settled(openTurn) ELSE openTurn
  <2>1. /\ call' = MoveCalls(Elements(s), "sent")
        /\ openTurn' = TurnAfter(s, turn)
        /\ pendingCheckpoints' = pendingCheckpoints \o s
        /\ boundaries' = boundaries
    BY <1>2 DEF Release
  <2>2. turn \in {openTurn, Settled(openTurn)}
    OBVIOUS
  <2>3. /\ parked \in Seq(Inputs) /\ Distinct(parked)
        /\ \A i \in Elements(parked) : i \in Inputs /\ call[i] = "parked"
    BY ElementsType DEF TypeOK, OneRequestPerCall, ParkedInv, Distinct
  <2>4. /\ s \in Seq(Inputs) /\ Distinct(s)
        /\ \A i \in Elements(s) : i \in Inputs /\ call[i] = "parked"
    <3>1. CASE connectionGap = "pending"
      BY <2>3, <3>1
    <3>2. CASE connectionGap # "pending"
      BY <3>2, DistinctShort, ElementsEmpty
    <3> QED BY <3>1, <3>2
  <2> HIDE DEF s, turn
  <2>5. Prompt(s)
    BY <2>1, <2>4 DEF Prompt, Left, MoveCalls
  <2>6. MoveOf(s, pendingCheckpoints, turn)
    BY <2>1, <2>2, <2>5, KeepSome, EmitNothing DEF MoveOf
  <2> QED BY <2>6, MoveMakes
<1> QED BY <1>1, <1>2

(* What the lane reads off the socket. *)
LEMMA ReadIsMove ==
  ASSUME TypeOK, OneRequestPerCall, Next, LaneReads
  PROVE  LaneMove
<1> DEFINE head == Head(toLane)
<1>0. openTurn.input \in Inputs \cup {NoInput} /\ pendingCheckpoints \in Seq(Inputs)
  BY DEF TypeOK
<1>1. CASE PromptAnswered
  <2>1. /\ UNCHANGED <<openTurn, boundaries>>
        /\ \/ pendingCheckpoints' = pendingCheckpoints
           \/ pendingCheckpoints' = PopCheckpoints(pendingCheckpoints, 1)
           \/ pendingCheckpoints' = PopCheckpoints(pendingCheckpoints, 0)
    BY <1>1 DEF PromptAnswered, hist
  <2> QED BY <2>1, KeepSome, EmitNothing, QuietMove, MoveMakes
<1>2. CASE AttachAnswered \/ DetachAnswered \/ ClosedDelivered
  <2>1. UNCHANGED <<openTurn, pendingCheckpoints, boundaries>>
    BY <1>2 DEF AttachAnswered, DetachAnswered, ClosedDelivered, hist
  <2> QED BY <2>1, EmitNothing, StillMove, MoveMakes
<1>3. CASE QueueAnswered
  <2> DEFINE s == Woken(head.input)
  <2>1. /\ head.type = "get_queue" /\ toLane # <<>>
        /\ call' = MoveCalls(Elements(s), "sent")
        /\ openTurn' = TurnAfter(s, openTurn)
        /\ pendingCheckpoints' = pendingCheckpoints \o s
        /\ boundaries' = boundaries
    BY <1>3 DEF QueueAnswered, Receive, hist
  <2>2. head.input # NoInput => head.input \in Inputs /\ call[head.input] = "reading"
    <3>1. Fits(head)
      BY <2>1, AnsweredAlone
    <3> QED BY <2>1, <3>1 DEF Fits
  <2> HIDE DEF head
  <2>3. /\ s \in Seq(Inputs) /\ Distinct(s)
        /\ \A i \in Elements(s) : i \in Inputs /\ call[i] \in {"parked", "reading"}
    <3>1. CASE head.input = NoInput
      <4>1. <<>> \in Seq(Inputs) /\ parked \o <<>> = parked
        BY ConcatEmptySeq DEF TypeOK
      <4> QED BY <3>1, <4>1, WokenApart, DistinctShort, ElementsEmpty DEF Woken
    <3>2. CASE head.input # NoInput
      <4>1. /\ <<head.input>> \in Seq(Inputs) /\ Distinct(<<head.input>>)
            /\ Elements(<<head.input>>) = {head.input}
        BY <2>2, <3>2, DistinctShort, ElementsOne
      <4> DEFINE r == <<head.input>>
      <4> HIDE DEF r
      <4>2. /\ r \in Seq(Inputs) /\ Distinct(r)
            /\ \A i \in Elements(r) : call[i] = "reading"
        BY <2>2, <3>2, <4>1 DEF r
      <4>3. s = parked \o r
        BY <3>2 DEF Woken, r
      <4> QED BY <4>2, <4>3, WokenApart
    <3> QED BY <3>1, <3>2
  <2> HIDE DEF s
  <2>4. Prompt(s)
    BY <2>1, <2>3 DEF Prompt, Left, MoveCalls
  <2>5. MoveOf(s, pendingCheckpoints, openTurn)
    BY <2>1, <2>4, KeepSome, EmitNothing DEF MoveOf
  <2> QED BY <2>5, MoveMakes
<1>4. CASE AbortAnswered
  <2>1. UNCHANGED <<openTurn, pendingCheckpoints, boundaries>>
    BY <1>4 DEF AbortAnswered, hist
  <2> QED BY <2>1, EmitNothing, StillMove, MoveMakes
<1>5. CASE AgentEndDelivered
  <2> DEFINE q == ShiftCheckpoints(pendingCheckpoints, openTurn.settled)
             anchor == IF pendingCheckpoints = <<>> THEN NoInput ELSE Head(pendingCheckpoints)
             b == Boundary("ended", anchor, head.run, openTurn.input)
             turn == IF openTurn.input = NoInput THEN openTurn ELSE Settled(openTurn)
  <2>1. CASE closed
    <3>1. UNCHANGED <<openTurn, pendingCheckpoints, boundaries>>
      BY <1>5, <2>1 DEF AgentEndDelivered
    <3> QED BY <3>1, EmitNothing, StillMove, MoveMakes
  <2>2. /\ Keep(q)
        /\ anchor # NoInput => /\ anchor \in Elements(pendingCheckpoints)
                               /\ Distinct(pendingCheckpoints) => anchor \notin Elements(q)
    <3>1. CASE pendingCheckpoints = <<>>
      BY <1>0, <3>1 DEF ShiftCheckpoints, Keep
    <3>2. CASE pendingCheckpoints # <<>>
      BY <1>0, <3>2, DistinctTail DEF ShiftCheckpoints, Keep
    <3> QED BY <3>1, <3>2
  <2>3. CASE ~closed /\ openTurn.settled
    <3>1. pendingCheckpoints' = q /\ UNCHANGED <<openTurn, boundaries>>
      BY <1>5, <2>3 DEF AgentEndDelivered
    <3> HIDE DEF q
    <3> QED BY <2>2, <3>1, EmitNothing, QuietMove, MoveMakes
  <2>4. CASE ~closed /\ ~openTurn.settled
    <3>1. /\ pendingCheckpoints' = q /\ boundaries' = Append(boundaries, b)
          /\ openTurn' = turn
      BY <1>5, <2>4 DEF AgentEndDelivered
    <3>2. b \in Boundaries
      <4>1. anchor \in Inputs \cup {NoInput}
        BY <1>0, DistinctTail, ElementsType
      <4>2. head.run \in SUBSET Prompts
        <5>1. head \in Messages
          BY <1>5, ReceiveType DEF AgentEndDelivered, TypeOK
        <5> QED BY <5>1 DEF Messages
      <4> HIDE DEF head, anchor
      <4> QED BY <1>0, <4>1, <4>2, BoundaryType
    <3>3. Closing(b, turn, q)
      <4>1. b.turn = openTurn.input /\ b.anchor = anchor
        BY DEF Boundary
      <4> HIDE DEF b, anchor, q
      <4> QED BY <2>2, <2>4, <4>1 DEF Closing
    <3> HIDE DEF b, q, turn
    <3>4. Emit(turn, q)
      BY <3>1, <3>2, <3>3, EmitOne
    <3>5. turn \in {openTurn, Settled(openTurn)}
      BY DEF turn
    <3> QED BY <2>2, <3>1, <3>4, <3>5, QuietMove, MoveMakes
  <2> QED BY <2>1, <2>3, <2>4 DEF TypeOK
<1> QED BY <1>1, <1>2, <1>3, <1>4, <1>5 DEF LaneReads

(* The loss of the wire. *)
LEMMA LossIsMove ==
  ASSUME TypeOK, OneRequestPerCall, Next, ConnectionLost
  PROVE  LaneMove
<1> DEFINE turn == IF FailsOpenTurn THEN Settled(openTurn) ELSE openTurn
           attached == reattach = "reading" \/ InPhase("reading") # {}
           b == Boundary("failed", NoInput, {}, openTurn.input)
<1>0. openTurn.input \in Inputs \cup {NoInput} /\ boundaries \in Seq(Boundaries)
  BY DEF TypeOK
<1>1. PICK readers \in Orderings(InPhase("reading")) :
        LET woken == IF attached THEN parked \o readers ELSE <<>>
        IN /\ openTurn' = TurnAfter(woken, turn)
           /\ call' = [i \in Inputs |->
                         IF i \in Elements(woken) THEN "sent"
                         ELSE IF i \in Rejected THEN "failed" ELSE call[i]]
           /\ pendingCheckpoints' = PoppedByReject \o woken
           /\ boundaries' = IF FailsOpenTurn THEN Append(boundaries, b) ELSE boundaries
  BY DEF ConnectionLost
<1> DEFINE s == IF attached THEN parked \o readers ELSE <<>>
<1>2. /\ openTurn' = TurnAfter(s, turn)
      /\ call' = [i \in Inputs |-> IF i \in Elements(s) THEN "sent"
                                  ELSE IF i \in Rejected THEN "failed" ELSE call[i]]
      /\ pendingCheckpoints' = PoppedByReject \o s
      /\ boundaries' = IF FailsOpenTurn THEN Append(boundaries, b) ELSE boundaries
  BY <1>1
<1>3. /\ s \in Seq(Inputs) /\ Distinct(s)
      /\ \A i \in Elements(s) : i \in Inputs /\ call[i] \in {"parked", "reading"}
  <2>1. /\ readers \in Seq(Inputs) /\ Elements(readers) = InPhase("reading")
        /\ Distinct(readers)
    BY OrderingsType DEF InPhase, Orderings, Distinct
  <2>2. CASE attached
    BY <2>1, <2>2, WokenApart DEF InPhase
  <2>3. CASE ~attached
    BY <2>3, DistinctShort, ElementsEmpty
  <2> QED BY <2>2, <2>3
<1> HIDE DEF s
<1>4. Prompt(s)
  BY <1>2, <1>3 DEF Prompt, Left
<1>5. Keep(PoppedByReject)
  BY KeepSome, CountType DEF PoppedByReject
<1>6. Emit(turn, PoppedByReject)
  <2>1. b \in Boundaries
    BY <1>0, BoundaryType
  <2>2. FailsOpenTurn => Closing(b, turn, PoppedByReject)
    BY DEF Closing, Boundary, FailsOpenTurn, HasOpenTurn
  <2> HIDE DEF b, turn
  <2> QED BY <1>2, <2>1, <2>2, EmitOne, EmitNothing
<1>7. turn \in {openTurn, Settled(openTurn)}
  OBVIOUS
<1> HIDE DEF turn
<1>8. MoveOf(s, PoppedByReject, turn)
  BY <1>2, <1>4, <1>5, <1>6, <1>7 DEF MoveOf
<1> QED BY <1>8, MoveMakes

(* Every step is one move. *)
LEMMA EveryStepIsOneMove ==
  ASSUME TypeOK, OneRequestPerCall, DownInv, Next
  PROVE  LaneMove
<1>1. CASE ConnectionUnavailable \/ DialFails
  <2>1. UNCHANGED <<openTurn, boundaries>> /\ pendingCheckpoints' = PoppedByReject
    BY <1>1 DEF ConnectionUnavailable, DialFails, hist
  <2>2. Keep(PoppedByReject)
    BY KeepSome, CountType DEF PoppedByReject
  <2> QED BY <2>1, <2>2, EmitNothing, QuietMove, MoveMakes
<1>2. CASE \/ ConnectionRestored \/ DialSucceeds \/ DaemonReads
           \/ DaemonEndsRun \/ DaemonRetriesRun \/ ForeignPrompt \/ DaemonClosesSession
  <2>1. UNCHANGED <<openTurn, pendingCheckpoints, boundaries>>
    BY <1>2 DEF ConnectionRestored, DialSucceeds, DaemonReads, DaemonAdmits, DaemonRefuses,
                DaemonAttaches, DaemonReadsQueue, DaemonAborts, DaemonDetaches, Accept,
                DaemonEndsRun, DaemonRetriesRun, ForeignPrompt, DaemonClosesSession, lane, hist
  <2> QED BY <2>1, EmitNothing, StillMove, MoveMakes
<1> QED BY <1>1, <1>2, InputIsMove, StopIsMove, ReadIsMove, LossIsMove DEF Next

-----------------------------------------------------------------------------
(* Turns. *)

(* A turn that a boundary closed has prompted, and is not open any more.     *)
TurnInv ==
  /\ openTurn.input # NoInput => Left(openTurn.input)
  /\ \A k \in DOMAIN boundaries :
       boundaries[k].turn # NoInput =>
         /\ boundaries[k].turn \in Inputs /\ Left(boundaries[k].turn)
         /\ boundaries[k].turn = openTurn.input => openTurn.settled

(* Left, after the step. *)
LeftThen(i) == call'[i] \in {"sent", "done", "failed"}

(* The turn a move leaves open. *)
LEMMA TurnLeft ==
  ASSUME TypeOK, NEW s, NEW q, NEW turn, MoveOf(s, q, turn)
  PROVE  /\ turn.input = openTurn.input /\ (openTurn.settled => turn.settled)
         /\ turn \in [input : Inputs \cup {NoInput}, settled : BOOLEAN]
         /\ \/ openTurn' = turn
            \/ openTurn'.input \in Inputs /\ ~Left(openTurn'.input) /\ LeftThen(openTurn'.input)
<1>1. /\ turn.input = openTurn.input /\ (openTurn.settled => turn.settled)
      /\ turn \in [input : Inputs \cup {NoInput}, settled : BOOLEAN]
  <2>1. CASE turn = openTurn
    BY <2>1 DEF TypeOK
  <2>2. CASE turn = Settled(openTurn)
    BY <2>2, SettledType DEF Settled, TypeOK
  <2> QED BY <2>1, <2>2 DEF MoveOf
<1>2. CASE s = <<>>
  BY <1>1, <1>2 DEF MoveOf, TurnAfter
<1>3. CASE s # <<>>
  <2>1. s \in Seq(Inputs) /\ openTurn'.input = s[Len(s)]
    BY <1>3 DEF MoveOf, Prompt, TurnAfter
  <2>2. Len(s) \in DOMAIN s /\ s[Len(s)] \in Inputs
    BY <1>3, <2>1, EmptySeq, LenProperties, ElementOfSeq
  <2>3. openTurn'.input \in Elements(s)
    BY <2>1, <2>2, ElementsAt
  <2> QED BY <1>1, <2>1, <2>2, <2>3 DEF MoveOf, Prompt, Left, LeftThen
<1> QED BY <1>1, <1>2, <1>3

(* No move closes a turn that was closed. *)
LEMMA TurnStep ==
  ASSUME TypeOK, TurnInv, TurnClosedOnce, LaneMove
  PROVE  TurnInv' /\ TurnClosedOnce'
<1>1. \A i \in Inputs : Left(i) => Left(i)'
  BY DEF LaneMove
<1>2. PICK s, q \in Seq(Inputs), turn \in {openTurn, Settled(openTurn)} : MoveOf(s, q, turn)
  BY DEF LaneMove
<1>3. /\ turn.input = openTurn.input /\ (openTurn.settled => turn.settled)
      /\ \/ openTurn' = turn
         \/ openTurn'.input \in Inputs /\ ~Left(openTurn'.input) /\ LeftThen(openTurn'.input)
  BY <1>2, TurnLeft
<1>4. openTurn.input \in Inputs \cup {NoInput}
  BY DEF TypeOK
<1>5. /\ \A k \in DOMAIN boundaries :
           k \in DOMAIN boundaries' /\ boundaries'[k] = boundaries[k]
      /\ \A k \in DOMAIN boundaries' \ DOMAIN boundaries :
           boundaries'[k].turn # NoInput =>
             k = Len(boundaries) + 1 /\ Closing(boundaries'[k], turn, q)
  BY <1>2 DEF MoveOf, Emit, Aside
<1>6. openTurn'.input # NoInput => LeftThen(openTurn'.input)
  BY <1>1, <1>3, <1>4 DEF TurnInv, Left, LeftThen
<1>7. ASSUME NEW k \in DOMAIN boundaries', boundaries'[k].turn # NoInput
      PROVE  /\ boundaries'[k].turn \in Inputs /\ Left(boundaries'[k].turn)
             /\ LeftThen(boundaries'[k].turn)
             /\ boundaries'[k].turn = openTurn'.input => openTurn'.settled
  <2> DEFINE t == boundaries'[k].turn
  <2>1. t \in Inputs /\ Left(t) /\ (t = turn.input => turn.settled)
    <3>1. CASE k \in DOMAIN boundaries
      BY <1>3, <1>5, <1>7, <3>1 DEF TurnInv
    <3>2. CASE k \notin DOMAIN boundaries
      <4>1. Closing(boundaries'[k], turn, q)
        BY <1>5, <1>7, <3>2
      <4>2. t = openTurn.input /\ turn = Settled(openTurn)
        BY <1>7, <4>1 DEF Closing
      <4> QED BY <1>4, <1>7, <4>2 DEF TurnInv, Settled
    <3> QED BY <3>1, <3>2
  <2> HIDE DEF t
  <2>2. t = openTurn'.input => openTurn'.settled
    BY <1>3, <2>1
  <2>3. LeftThen(t)
    BY <1>1, <2>1 DEF Left, LeftThen
  <2> QED BY <2>1, <2>2, <2>3 DEF t
<1>8. TurnInv'
  BY <1>6, <1>7 DEF TurnInv, Left, LeftThen
<1>9. TurnClosedOnce'
  <2> SUFFICES ASSUME NEW j \in DOMAIN boundaries', NEW k \in DOMAIN boundaries', j # k,
                      boundaries'[j].turn = boundaries'[k].turn,
                      boundaries'[j].turn # NoInput
               PROVE  FALSE
    BY DEF TurnClosedOnce
  <2>1. j \in DOMAIN boundaries \/ k \in DOMAIN boundaries
    BY <1>5
  <2>2. ~(j \in DOMAIN boundaries /\ k \in DOMAIN boundaries)
    BY <1>5 DEF TurnClosedOnce
  <2>3. ASSUME NEW m \in DOMAIN boundaries, NEW n \in DOMAIN boundaries' \ DOMAIN boundaries,
               boundaries[m].turn = boundaries'[n].turn, boundaries[m].turn # NoInput
        PROVE  FALSE
    <3>1. Closing(boundaries'[n], turn, q)
      BY <1>5, <2>3
    <3> QED BY <2>3, <3>1 DEF Closing, TurnInv
  <2> QED BY <1>5, <2>1, <2>2, <2>3
<1> QED BY <1>8, <1>9

(* What every step is shown to keep is kept by a step that changes nothing.  *)
LEMMA TurnStutter ==
  ASSUME TurnInv, TurnClosedOnce, UNCHANGED vars
  PROVE  TurnInv' /\ TurnClosedOnce'
<1>1. UNCHANGED <<call, openTurn, boundaries>>
  BY DEF vars, lane, hist
<1> QED BY <1>1 DEF TurnInv, TurnClosedOnce, Left

(* No turn of the lane is closed twice by runs that end, by interrupts or by *)
(* the wire's loss, whatever is woken, refused, timed out and released.      *)
THEOREM TurnIsClosedOnce == Spec => []TurnClosedOnce
<1>1. Init => TurnInv /\ TurnClosedOnce
  BY DEF Init, TurnInv, TurnClosedOnce, NoTurn
<1>2. /\ TypeOK /\ OneRequestPerCall /\ DownInv /\ TurnInv /\ TurnClosedOnce
      /\ [Next]_vars
      => TurnInv' /\ TurnClosedOnce'
  BY EveryStepIsOneMove, TurnStep, TurnStutter
<1> QED BY <1>1, <1>2, TypeCorrect, OneRequestPerCallHolds, DownInvHolds, PTL DEF Spec

-----------------------------------------------------------------------------
(* Anchors. *)

(* Anchors are queued once, and those on a boundary are queued no more.      *)
SpentInv ==
  /\ Distinct(pendingCheckpoints)
  /\ \A i \in Elements(pendingCheckpoints) : Left(i)
  /\ \A k \in DOMAIN boundaries :
       boundaries[k].anchor # NoInput =>
         /\ boundaries[k].anchor \in Inputs /\ Left(boundaries[k].anchor)
         /\ boundaries[k].anchor \notin Elements(pendingCheckpoints)
  /\ \A j, k \in DOMAIN boundaries :
       j # k /\ boundaries[j].anchor = boundaries[k].anchor => boundaries[j].anchor = NoInput

(* No move stamps an anchor that is queued still, or was stamped.            *)
LEMMA SpentStep ==
  ASSUME TypeOK, SpentInv, LaneMove
  PROVE  SpentInv'
<1>1. \A i \in Inputs : Left(i) => Left(i)'
  BY DEF LaneMove
<1>2. PICK s, q \in Seq(Inputs), turn \in {openTurn, Settled(openTurn)} : MoveOf(s, q, turn)
  BY DEF LaneMove
<1>3. /\ Distinct(s) /\ Distinct(q) /\ Elements(q) \subseteq Elements(pendingCheckpoints)
      /\ \A i \in Elements(s) : ~Left(i) /\ Left(i)'
      /\ pendingCheckpoints' = q \o s
  BY <1>2 DEF MoveOf, Prompt, Keep, SpentInv
<1>4. \A i \in Elements(pendingCheckpoints) : i \in Inputs /\ Left(i)
  BY ElementsType DEF TypeOK, SpentInv
<1>5. Elements(pendingCheckpoints') = Elements(q) \cup Elements(s)
  BY <1>3, ElementsConcat
<1>6. Distinct(pendingCheckpoints')
  BY <1>3, <1>4, DistinctConcat
<1>7. \A i \in Elements(pendingCheckpoints') : Left(i)'
  BY <1>1, <1>3, <1>4, <1>5
<1>8. /\ \A k \in DOMAIN boundaries :
           k \in DOMAIN boundaries' /\ boundaries'[k] = boundaries[k]
      /\ \A k \in DOMAIN boundaries' \ DOMAIN boundaries :
           boundaries'[k].anchor # NoInput =>
             /\ k = Len(boundaries) + 1
             /\ boundaries'[k].anchor \in Elements(pendingCheckpoints)
             /\ boundaries'[k].anchor \notin Elements(q)
  BY <1>2 DEF MoveOf, Emit, Aside, Closing, SpentInv
<1>9. ASSUME NEW k \in DOMAIN boundaries', boundaries'[k].anchor # NoInput
      PROVE  /\ boundaries'[k].anchor \in Inputs /\ Left(boundaries'[k].anchor)
             /\ boundaries'[k].anchor \notin Elements(q)
             /\ k \in DOMAIN boundaries =>
                  boundaries'[k].anchor \notin Elements(pendingCheckpoints)
  <2>1. CASE k \in DOMAIN boundaries
    BY <1>3, <1>8, <1>9, <2>1 DEF SpentInv
  <2>2. CASE k \notin DOMAIN boundaries
    BY <1>4, <1>8, <1>9, <2>2
  <2> QED BY <2>1, <2>2
<1>10. ASSUME NEW k \in DOMAIN boundaries', boundaries'[k].anchor # NoInput
       PROVE  /\ boundaries'[k].anchor \in Inputs /\ LeftThen(boundaries'[k].anchor)
              /\ boundaries'[k].anchor \notin Elements(pendingCheckpoints')
  <2> DEFINE a == boundaries'[k].anchor
  <2>1. a \in Inputs /\ Left(a) /\ a \notin Elements(q)
    BY <1>9, <1>10
  <2> HIDE DEF a
  <2>2. LeftThen(a) /\ a \notin Elements(s)
    BY <1>1, <1>3, <2>1 DEF Left, LeftThen
  <2> QED BY <1>5, <2>1, <2>2 DEF a
<1>11. ASSUME NEW j \in DOMAIN boundaries', NEW k \in DOMAIN boundaries', j # k,
              boundaries'[j].anchor = boundaries'[k].anchor, boundaries'[j].anchor # NoInput
       PROVE  FALSE
  <2>1. j \in DOMAIN boundaries \/ k \in DOMAIN boundaries
    BY <1>8, <1>11
  <2>2. ~(j \in DOMAIN boundaries /\ k \in DOMAIN boundaries)
    BY <1>8, <1>11 DEF SpentInv
  <2> QED BY <1>8, <1>9, <1>11, <2>1, <2>2
<1> QED BY <1>6, <1>7, <1>10, <1>11 DEF SpentInv, Distinct, Left, LeftThen

(* An anchor is in one place at most: queued once, or stamped on one         *)
(* boundary.                                                                 *)
THEOREM AnchorIsSpentOnce == Spec => []AnchorSpentOnce
<1>1. Init => SpentInv
  BY DistinctShort, ElementsEmpty DEF Init, SpentInv
<1>2. TypeOK /\ OneRequestPerCall /\ DownInv /\ SpentInv /\ [Next]_vars => SpentInv'
  <2>1. ASSUME SpentInv, UNCHANGED vars PROVE SpentInv'
    <3>1. UNCHANGED <<call, pendingCheckpoints, boundaries>>
      BY <2>1 DEF vars, lane, hist
    <3> QED BY <2>1, <3>1 DEF SpentInv, Left, Distinct
  <2> QED BY <2>1, EveryStepIsOneMove, SpentStep
<1>3. SpentInv => AnchorSpentOnce
  <2> SUFFICES ASSUME SpentInv, NEW i \in Inputs
               PROVE  Cardinality({k \in DOMAIN boundaries : boundaries[k].anchor = i})
                        + Cardinality({k \in DOMAIN pendingCheckpoints :
                                         pendingCheckpoints[k] = i}) <= 1
    BY DEF AnchorSpentOnce
  <2> DEFINE stamped == {k \in DOMAIN boundaries : boundaries[k].anchor = i}
             queued == {k \in DOMAIN pendingCheckpoints : pendingCheckpoints[k] = i}
  <2>1. i # NoInput
    BY NoInputIsNone
  <2>2. stamped = {} \/ \E k : stamped = {k}
    BY <2>1 DEF SpentInv
  <2>3. queued = {} \/ \E k : queued = {k}
    BY DEF SpentInv, Distinct
  <2>4. stamped = {} \/ queued = {}
    BY <2>1, ElementsAt DEF SpentInv
  <2> HIDE DEF stamped, queued
  <2>5. \A S : S = {} \/ (\E k : S = {k}) => Cardinality(S) \in {0, 1}
                 /\ (S = {} => Cardinality(S) = 0)
    BY FS_EmptySet, FS_Singleton
  <2>6. /\ Cardinality(stamped) \in {0, 1} /\ Cardinality(queued) \in {0, 1}
        /\ Cardinality(stamped) = 0 \/ Cardinality(queued) = 0
    BY <2>2, <2>3, <2>4, <2>5
  <2>7. Cardinality(stamped) + Cardinality(queued) <= 1
    BY <2>6
  <2> QED BY <2>7 DEF stamped, queued
<1> QED BY <1>1, <1>2, <1>3, TypeCorrect, OneRequestPerCallHolds, DownInvHolds, PTL DEF Spec

-----------------------------------------------------------------------------
(* The order of the anchors.                                                 *)
(*                                                                           *)
(* An anchor queued is of a prompt on its way: in toDaemon, in prime's       *)
(* follow-up queue, running, or ended with its agent_end in toLane.  Its     *)
(* rank is its place in that line, 0 being the run under way.                *)

Rank(l, R, q, d, i, r) ==
  \/ \E k \in DOMAIN l : l[k].type = "agent_end" /\ i \in l[k].run /\ r = k - Len(l) - 1
  \/ i \in R /\ r = 0
  \/ \E k \in DOMAIN q : q[k] = i /\ r = k
  \/ \E k \in DOMAIN d : d[k].type = "prompt" /\ d[k].input = i /\ r = Len(q) + k

(* The anchors p are of the prompts in line, in their order. *)
Chain(p, l, R, q, d) ==
  /\ \A i \in Inputs, r \in Int : Rank(l, R, q, d, i, r) => i \in Elements(p)
  /\ \A i \in Elements(p) : \E r \in Int : Rank(l, R, q, d, i, r)
  /\ \A m, n \in DOMAIN p, a, b \in Int :
       m < n /\ Rank(l, R, q, d, p[m], a) /\ Rank(l, R, q, d, p[n], b) => a < b
  /\ \A i \in Inputs, a, b \in Int :
       Rank(l, R, q, d, i, a) /\ Rank(l, R, q, d, i, b) => a = b

Line(l, R, q, d) ==
  l \in Seq(Messages) /\ R \in SUBSET Inputs /\ q \in Seq(Inputs) /\ d \in Seq(Commands)

(* The positions of a line. *)
LEMMA LineLengths ==
  ASSUME NEW l, NEW R, NEW q, NEW d, Line(l, R, q, d)
  PROVE  /\ Len(l) \in Nat /\ DOMAIN l = 1..Len(l)
         /\ Len(q) \in Nat /\ DOMAIN q = 1..Len(q)
         /\ Len(d) \in Nat /\ DOMAIN d = 1..Len(d)
BY LenProperties DEF Line

(* f moves every rank of one line to the other's, and nobody overtakes. *)
Shifts(f, l, R, q, d, l2, R2, q2, d2) ==
  /\ f \in [Int -> Int]
  /\ \A i \in Inputs, r \in Int : Rank(l, R, q, d, i, r) => Rank(l2, R2, q2, d2, i, f[r])
  /\ \A i \in Inputs, r \in Int :
       Rank(l2, R2, q2, d2, i, r) => \E a \in Int : Rank(l, R, q, d, i, a) /\ r = f[a]
  /\ \A i, j \in Inputs, a, b \in Int :
       Rank(l, R, q, d, i, a) /\ Rank(l, R, q, d, j, b) /\ a < b => f[a] < f[b]

(* A line that moves on without overtaking keeps the anchors' order. *)
LEMMA ChainShifts ==
  ASSUME NEW p \in Seq(Inputs), NEW l, NEW R, NEW q, NEW d,
         NEW l2, NEW R2, NEW q2, NEW d2, NEW f,
         Chain(p, l, R, q, d), Shifts(f, l, R, q, d, l2, R2, q2, d2)
  PROVE  Chain(p, l2, R2, q2, d2)
<1> USE DEF Shifts
<1>1. \A i \in Elements(p) : i \in Inputs
  BY ElementsType
<1>2. \A m \in DOMAIN p : p[m] \in Inputs
  BY <1>1, ElementsAt
<1>3. \A i \in Inputs, r \in Int : Rank(l2, R2, q2, d2, i, r) => i \in Elements(p)
  BY DEF Chain
<1>4. \A i \in Elements(p) : \E r \in Int : Rank(l2, R2, q2, d2, i, r)
  <2> TAKE i \in Elements(p)
  <2>1. PICK a \in Int : Rank(l, R, q, d, i, a)
    BY DEF Chain
  <2>2. f[a] \in Int /\ Rank(l2, R2, q2, d2, i, f[a])
    BY <1>1, <2>1
  <2> QED BY <2>2
<1>5. ASSUME NEW m \in DOMAIN p, NEW n \in DOMAIN p, NEW a \in Int, NEW b \in Int, m < n,
             Rank(l2, R2, q2, d2, p[m], a), Rank(l2, R2, q2, d2, p[n], b)
      PROVE  a < b
  <2>1. PICK x \in Int : Rank(l, R, q, d, p[m], x) /\ a = f[x]
    BY <1>2, <1>5
  <2>2. PICK y \in Int : Rank(l, R, q, d, p[n], y) /\ b = f[y]
    BY <1>2, <1>5
  <2>3. x < y
    BY <1>5, <2>1, <2>2 DEF Chain
  <2> QED BY <1>2, <2>1, <2>2, <2>3
<1>6. ASSUME NEW i \in Inputs, NEW a \in Int, NEW b \in Int,
             Rank(l2, R2, q2, d2, i, a), Rank(l2, R2, q2, d2, i, b)
      PROVE  a = b
  <2>1. PICK x \in Int : Rank(l, R, q, d, i, x) /\ a = f[x]
    BY <1>6
  <2>2. PICK y \in Int : Rank(l, R, q, d, i, y) /\ b = f[y]
    BY <1>6
  <2> QED BY <2>1, <2>2 DEF Chain
<1> QED BY <1>3, <1>4, <1>5, <1>6 DEF Chain

(* One answer more on its way to the lane. *)
LEMMA ChainAnswers ==
  ASSUME NEW p \in Seq(Inputs), NEW l, NEW R, NEW q, NEW d, Line(l, R, q, d),
         Chain(p, l, R, q, d), NEW x \in Messages, x.type # "agent_end"
  PROVE  Chain(p, Append(l, x), R, q, d) /\ Line(Append(l, x), R, q, d)
<1> DEFINE l2 == Append(l, x)
           f == [r \in Int |-> IF r < 0 THEN r - 1 ELSE r]
<1>0. /\ Len(l) \in Nat /\ DOMAIN l = 1..Len(l) /\ Len(q) \in Nat /\ DOMAIN q = 1..Len(q)
      /\ Len(d) \in Nat /\ DOMAIN d = 1..Len(d)
  BY LineLengths
<1>1. /\ l2 \in Seq(Messages) /\ Len(l2) = Len(l) + 1 /\ DOMAIN l2 = 1..(Len(l) + 1)
      /\ \A k \in 1..Len(l) : l2[k] = l[k]
      /\ l2[Len(l) + 1] = x
  BY AppendProperties, LenProperties DEF Line
<1>2. f \in [Int -> Int] /\ \A r \in Int : f[r] = IF r < 0 THEN r - 1 ELSE r
  OBVIOUS
<1> HIDE DEF l2, f
<1>3. ASSUME NEW i \in Inputs, NEW r \in Int, Rank(l, R, q, d, i, r)
      PROVE  Rank(l2, R, q, d, i, f[r])
  <2>1. CASE \E k \in DOMAIN l : l[k].type = "agent_end" /\ i \in l[k].run
                                 /\ r = k - Len(l) - 1
    <3>1. PICK k \in DOMAIN l : /\ l[k].type = "agent_end" /\ i \in l[k].run
                                /\ r = k - Len(l) - 1
      BY <2>1
    <3>2. k \in DOMAIN l2 /\ l2[k] = l[k] /\ k \in Int
      BY <1>0, <1>1
    <3>3. f[r] = k - Len(l2) - 1
      BY <1>0, <1>1, <1>2, <3>1, <3>2
    <3> QED BY <3>1, <3>2, <3>3 DEF Rank
  <2>2. CASE ~\E k \in DOMAIN l : l[k].type = "agent_end" /\ i \in l[k].run
                                  /\ r = k - Len(l) - 1
    <3>1. r >= 0
      BY <1>0, <1>3, <2>2 DEF Rank
    <3>2. f[r] = r
      BY <1>2, <3>1
    <3> QED BY <1>3, <2>2, <3>2 DEF Rank
  <2> QED BY <2>1, <2>2
<1>4. ASSUME NEW i \in Inputs, NEW r \in Int, Rank(l2, R, q, d, i, r)
      PROVE  \E a \in Int : Rank(l, R, q, d, i, a) /\ r = f[a]
  <2>1. CASE \E k \in DOMAIN l2 : l2[k].type = "agent_end" /\ i \in l2[k].run
                                  /\ r = k - Len(l2) - 1
    <3>1. PICK k \in DOMAIN l2 : /\ l2[k].type = "agent_end" /\ i \in l2[k].run
                                 /\ r = k - Len(l2) - 1
      BY <2>1
    <3>2. k \in DOMAIN l /\ l2[k] = l[k] /\ k \in Int
      <4>1. k # Len(l) + 1
        BY <1>1, <3>1
      <4> QED BY <1>0, <1>1, <4>1
    <3>3. Rank(l, R, q, d, i, k - Len(l) - 1)
      BY <3>1, <3>2 DEF Rank
    <3>4. k - Len(l) - 1 \in Int /\ k - Len(l) - 1 < 0
      BY <1>0, <3>2
    <3>5. f[k - Len(l) - 1] = r
      BY <1>0, <1>1, <1>2, <3>1, <3>2, <3>4
    <3> QED BY <3>3, <3>4, <3>5
  <2>2. CASE ~\E k \in DOMAIN l2 : l2[k].type = "agent_end" /\ i \in l2[k].run
                                   /\ r = k - Len(l2) - 1
    <3>1. r >= 0
      BY <1>0, <1>4, <2>2 DEF Rank
    <3>2. f[r] = r
      BY <1>2, <3>1
    <3>3. Rank(l, R, q, d, i, r)
      BY <1>4, <2>2 DEF Rank
    <3> QED BY <3>2, <3>3
  <2> QED BY <2>1, <2>2
<1>5. ASSUME NEW a \in Int, NEW b \in Int, a < b
      PROVE  f[a] < f[b]
  <2>1. f[a] = IF a < 0 THEN a - 1 ELSE a
    BY <1>2
  <2>2. f[b] = IF b < 0 THEN b - 1 ELSE b
    BY <1>2
  <2> QED BY <1>5, <2>1, <2>2
<1>6. Chain(p, l2, R, q, d)
  <2>1. Shifts(f, l, R, q, d, l2, R, q, d)
    BY <1>2, <1>3, <1>4, <1>5 DEF Shifts
  <2> QED BY <2>1, ChainShifts
<1> QED BY <1>1, <1>6 DEF Line, l2

(* The same ranks, the same chain. *)
LEMMA ChainSame ==
  ASSUME NEW p \in Seq(Inputs), NEW l, NEW R, NEW q, NEW d,
         NEW l2, NEW R2, NEW q2, NEW d2, Chain(p, l, R, q, d),
         \A i \in Inputs, r \in Int : Rank(l, R, q, d, i, r) <=> Rank(l2, R2, q2, d2, i, r)
  PROVE  Chain(p, l2, R2, q2, d2)
<1>1. \A i \in Elements(p) : i \in Inputs
  BY ElementsType
<1>2. \A m \in DOMAIN p : p[m] \in Inputs
  BY <1>1, ElementsAt
<1> QED BY <1>1, <1>2 DEF Chain

(* An abort more on its way to prime. *)
LEMMA ChainSends ==
  ASSUME NEW p \in Seq(Inputs), NEW l, NEW R, NEW q, NEW d, Line(l, R, q, d),
         Chain(p, l, R, q, d), NEW c \in Commands, c.type # "prompt"
  PROVE  Chain(p, l, R, q, Append(d, c)) /\ Line(l, R, q, Append(d, c))
<1> DEFINE d2 == Append(d, c)
<1>0. Len(d) \in Nat /\ DOMAIN d = 1..Len(d)
  BY LineLengths
<1>1. /\ d2 \in Seq(Commands) /\ DOMAIN d2 = 1..(Len(d) + 1)
      /\ \A k \in 1..Len(d) : d2[k] = d[k]
      /\ d2[Len(d) + 1] = c
  BY AppendProperties, LenProperties DEF Line
<1> HIDE DEF d2
<1>2. ASSUME NEW i \in Inputs, NEW r \in Int
      PROVE  (\E k \in DOMAIN d2 : d2[k].type = "prompt" /\ d2[k].input = i /\ r = Len(q) + k)
         <=> (\E k \in DOMAIN d : d[k].type = "prompt" /\ d[k].input = i /\ r = Len(q) + k)
  <2>1. \A k \in DOMAIN d : k \in DOMAIN d2 /\ d2[k] = d[k]
    BY <1>0, <1>1
  <2>2. \A k \in DOMAIN d2 : d2[k].type = "prompt" => k \in DOMAIN d /\ d2[k] = d[k]
    BY <1>0, <1>1
  <2> QED BY <2>1, <2>2
<1>3. \A i \in Inputs, r \in Int : Rank(l, R, q, d, i, r) <=> Rank(l, R, q, d2, i, r)
  BY <1>2 DEF Rank
<1>4. Chain(p, l, R, q, d2)
  BY <1>3, ChainSame
<1> QED BY <1>1, <1>4 DEF Line, d2

(* Prime reads a command that is no prompt. *)
LEMMA ChainTakes ==
  ASSUME NEW p \in Seq(Inputs), NEW l, NEW R, NEW q, NEW d, Line(l, R, q, d),
         Chain(p, l, R, q, d), d # <<>>, Head(d).type # "prompt"
  PROVE  Chain(p, l, R, q, Tail(d)) /\ Line(l, R, q, Tail(d))
<1> DEFINE d2 == Tail(d)
           f == [r \in Int |-> IF r > Len(q) THEN r - 1 ELSE r]
<1>0. /\ Len(q) \in Nat /\ DOMAIN q = 1..Len(q) /\ Len(d) \in Nat /\ DOMAIN d = 1..Len(d)
      /\ Len(l) \in Nat /\ DOMAIN l = 1..Len(l)
  BY LineLengths
<1>1. /\ d2 \in Seq(Commands) /\ DOMAIN d2 = 1..(Len(d) - 1)
      /\ \A k \in 1..(Len(d) - 1) : d2[k] = d[k + 1]
      /\ d[1] = Head(d) /\ Len(d) > 0
  BY HeadTailProperties, LenProperties, EmptySeq DEF Line
<1>2. \A r \in Int : f[r] = IF r > Len(q) THEN r - 1 ELSE r
  OBVIOUS
<1>2a. f \in [Int -> Int]
  BY <1>0
<1> HIDE DEF d2, f
<1>3. ASSUME NEW i \in Inputs, NEW r \in Int, Rank(l, R, q, d, i, r)
      PROVE  Rank(l, R, q, d2, i, f[r])
  <2>1. CASE \E k \in DOMAIN d : d[k].type = "prompt" /\ d[k].input = i /\ r = Len(q) + k
    <3>1. PICK k \in DOMAIN d : d[k].type = "prompt" /\ d[k].input = i /\ r = Len(q) + k
      BY <2>1
    <3>2. k # 1
      BY <1>1, <3>1
    <3>3. k - 1 \in DOMAIN d2 /\ d2[k - 1] = d[k] /\ k \in Int
      BY <1>0, <1>1, <3>2
    <3>4. f[r] = Len(q) + (k - 1)
      BY <1>0, <1>2, <3>1, <3>2
    <3> QED BY <3>1, <3>3, <3>4 DEF Rank
  <2>2. CASE ~\E k \in DOMAIN d : d[k].type = "prompt" /\ d[k].input = i /\ r = Len(q) + k
    <3>1. r <= Len(q)
      BY <1>0, <1>3, <2>2 DEF Rank
    <3>2. f[r] = r
      BY <1>0, <1>2, <3>1
    <3> QED BY <1>3, <2>2, <3>2 DEF Rank
  <2> QED BY <2>1, <2>2
<1>4. ASSUME NEW i \in Inputs, NEW r \in Int, Rank(l, R, q, d2, i, r)
      PROVE  \E a \in Int : Rank(l, R, q, d, i, a) /\ r = f[a]
  <2>1. CASE \E k \in DOMAIN d2 : d2[k].type = "prompt" /\ d2[k].input = i /\ r = Len(q) + k
    <3>1. PICK k \in DOMAIN d2 : d2[k].type = "prompt" /\ d2[k].input = i /\ r = Len(q) + k
      BY <2>1
    <3>2. k + 1 \in DOMAIN d /\ d[k + 1] = d2[k] /\ k \in Int /\ k > 0
      BY <1>0, <1>1
    <3>3. Rank(l, R, q, d, i, Len(q) + (k + 1))
      BY <3>1, <3>2 DEF Rank
    <3>4. Len(q) + (k + 1) \in Int /\ Len(q) + (k + 1) > Len(q)
      BY <1>0, <3>2
    <3>5. f[Len(q) + (k + 1)] = (Len(q) + (k + 1)) - 1
      BY <1>2, <3>4
    <3>6. f[Len(q) + (k + 1)] = r
      BY <1>0, <3>1, <3>2, <3>5
    <3> QED BY <3>3, <3>4, <3>6
  <2>2. CASE ~\E k \in DOMAIN d2 : d2[k].type = "prompt" /\ d2[k].input = i /\ r = Len(q) + k
    <3>1. r <= Len(q)
      BY <1>0, <1>4, <2>2 DEF Rank
    <3>2. f[r] = r
      BY <1>0, <1>2, <3>1
    <3>3. Rank(l, R, q, d, i, r)
      BY <1>4, <2>2 DEF Rank
    <3> QED BY <3>2, <3>3
  <2> QED BY <2>1, <2>2
<1>5. ASSUME NEW i \in Inputs, NEW j \in Inputs, NEW a \in Int, NEW b \in Int, a < b,
             Rank(l, R, q, d, i, a), Rank(l, R, q, d, j, b)
      PROVE  f[a] < f[b]
  <2>1. f[a] = IF a > Len(q) THEN a - 1 ELSE a
    BY <1>2
  <2>2. f[b] = IF b > Len(q) THEN b - 1 ELSE b
    BY <1>2
  <2>3. CASE a > Len(q)
    BY <1>0, <1>5, <2>1, <2>2, <2>3
  <2>4. CASE a <= Len(q) /\ b > Len(q)
    <3>1. PICK k \in DOMAIN d : d[k].type = "prompt" /\ b = Len(q) + k
      BY <1>0, <1>5, <2>4 DEF Rank
    <3>2. k # 1
      BY <1>1, <3>1
    <3> QED BY <1>0, <2>1, <2>2, <2>4, <3>1, <3>2
  <2>5. CASE b <= Len(q)
    BY <1>0, <1>5, <2>1, <2>2, <2>5
  <2> QED BY <1>0, <2>3, <2>4, <2>5
<1>6. Chain(p, l, R, q, d2)
  <2>1. Shifts(f, l, R, q, d, l, R, q, d2)
    BY <1>2a, <1>3, <1>4, <1>5 DEF Shifts
  <2> QED BY <2>1, ChainShifts
<1> QED BY <1>1, <1>6 DEF Line, d2

(* Prime, idle, runs the prompt it reads. *)
LEMMA ChainRuns ==
  ASSUME NEW p \in Seq(Inputs), NEW l, NEW d, Line(l, {}, <<>>, d),
         Chain(p, l, {}, <<>>, d), d # <<>>, Head(d).type = "prompt"
  PROVE  /\ Chain(p, l, {Head(d).input}, <<>>, Tail(d))
         /\ Line(l, {Head(d).input}, <<>>, Tail(d))
<1> DEFINE d2 == Tail(d)
           R2 == {Head(d).input}
           f == [r \in Int |-> IF r > 0 THEN r - 1 ELSE r]
<1>0. /\ Len(<<>>) = 0 /\ DOMAIN <<>> = {} /\ Len(d) \in Nat /\ DOMAIN d = 1..Len(d)
      /\ Len(l) \in Nat /\ DOMAIN l = 1..Len(l)
  <2>1. Len(d) \in Nat /\ DOMAIN d = 1..Len(d) /\ Len(l) \in Nat /\ DOMAIN l = 1..Len(l)
    BY LineLengths
  <2> QED BY <2>1
<1>1. /\ d2 \in Seq(Commands) /\ DOMAIN d2 = 1..(Len(d) - 1)
      /\ \A k \in 1..(Len(d) - 1) : d2[k] = d[k + 1]
      /\ d[1] = Head(d) /\ Len(d) > 0 /\ Head(d).input \in Inputs
  <2>1. /\ d2 \in Seq(Commands) /\ DOMAIN d2 = 1..(Len(d) - 1)
        /\ \A k \in 1..(Len(d) - 1) : d2[k] = d[k + 1]
        /\ d[1] = Head(d) /\ Len(d) > 0
    BY HeadTailProperties, LenProperties, EmptySeq DEF Line
  <2>2. Head(d) \in Commands
    BY <2>1, <1>0 DEF Line
  <2> QED BY <2>1, <2>2 DEF Commands
<1>2. \A r \in Int : f[r] = IF r > 0 THEN r - 1 ELSE r
  OBVIOUS
<1>2a. f \in [Int -> Int]
  OBVIOUS
<1>2b. \A i \in Inputs : i \in R2 <=> i = d[1].input
  BY <1>1
<1> HIDE DEF d2, f, R2
<1>3. ASSUME NEW i \in Inputs, NEW r \in Int, Rank(l, {}, <<>>, d, i, r)
      PROVE  Rank(l, R2, <<>>, d2, i, f[r])
  <2>1. CASE \E k \in DOMAIN d : d[k].type = "prompt" /\ d[k].input = i /\ r = Len(<<>>) + k
    <3>1. PICK k \in DOMAIN d : d[k].type = "prompt" /\ d[k].input = i /\ r = Len(<<>>) + k
      BY <2>1
    <3>2. r = k /\ k \in Int /\ k > 0 /\ f[r] = k - 1
      BY <1>0, <1>2, <3>1
    <3>3. CASE k = 1
      <4>1. i \in R2 /\ f[r] = 0
        BY <1>2b, <3>1, <3>2, <3>3
      <4> QED BY <4>1 DEF Rank
    <3>4. CASE k # 1
      <4>1. k - 1 \in DOMAIN d2 /\ d2[k - 1] = d[k]
        BY <1>0, <1>1, <3>2, <3>4
      <4>2. f[r] = Len(<<>>) + (k - 1)
        BY <1>0, <3>2
      <4> QED BY <3>1, <4>1, <4>2 DEF Rank
    <3> QED BY <3>3, <3>4
  <2>2. CASE ~\E k \in DOMAIN d : d[k].type = "prompt" /\ d[k].input = i /\ r = Len(<<>>) + k
    <3>1. \E k \in DOMAIN l : l[k].type = "agent_end" /\ i \in l[k].run /\ r = k - Len(l) - 1
      BY <1>0, <1>3, <2>2 DEF Rank
    <3>2. f[r] = r
      BY <1>0, <1>2, <3>1
    <3> QED BY <3>1, <3>2 DEF Rank
  <2> QED BY <2>1, <2>2
<1>4. ASSUME NEW i \in Inputs, NEW r \in Int, Rank(l, R2, <<>>, d2, i, r)
      PROVE  \E a \in Int : Rank(l, {}, <<>>, d, i, a) /\ r = f[a]
  <2>1. CASE \E k \in DOMAIN d2 : d2[k].type = "prompt" /\ d2[k].input = i /\ r = Len(<<>>) + k
    <3>1. PICK k \in DOMAIN d2 : d2[k].type = "prompt" /\ d2[k].input = i /\ r = Len(<<>>) + k
      BY <2>1
    <3>2. k + 1 \in DOMAIN d /\ d[k + 1] = d2[k] /\ k \in Int /\ k > 0
      BY <1>0, <1>1
    <3>3. k + 1 = Len(<<>>) + (k + 1) /\ k + 1 \in Int
      BY <1>0, <3>2
    <3>4. Rank(l, {}, <<>>, d, i, k + 1)
      BY <3>1, <3>2, <3>3 DEF Rank
    <3>5. f[k + 1] = r
      BY <1>0, <1>2, <3>1, <3>2
    <3> QED BY <3>3, <3>4, <3>5
  <2>2. CASE i \in R2 /\ r = 0
    <3>1. d[1].type = "prompt" /\ d[1].input = i /\ 1 \in DOMAIN d
      BY <1>0, <1>1, <1>2b, <2>2
    <3>2. 1 = Len(<<>>) + 1
      BY <1>0
    <3>3. Rank(l, {}, <<>>, d, i, 1)
      BY <3>1, <3>2 DEF Rank
    <3>4. f[1] = 0
      BY <1>2
    <3> QED BY <2>2, <3>3, <3>4
  <2>3. CASE \E k \in DOMAIN l : l[k].type = "agent_end" /\ i \in l[k].run /\ r = k - Len(l) - 1
    <3>1. f[r] = r
      BY <1>0, <1>2, <2>3
    <3>2. Rank(l, {}, <<>>, d, i, r)
      BY <2>3 DEF Rank
    <3> QED BY <3>1, <3>2
  <2> QED BY <1>0, <1>4, <2>1, <2>2, <2>3 DEF Rank
<1>5. ASSUME NEW i \in Inputs, NEW j \in Inputs, NEW a \in Int, NEW b \in Int, a < b,
             Rank(l, {}, <<>>, d, i, a), Rank(l, {}, <<>>, d, j, b)
      PROVE  f[a] < f[b]
  <2>1. f[a] = IF a > 0 THEN a - 1 ELSE a
    BY <1>2
  <2>2. f[b] = IF b > 0 THEN b - 1 ELSE b
    BY <1>2
  <2>3. a # 0
    BY <1>0, <1>5 DEF Rank
  <2> QED BY <1>5, <2>1, <2>2, <2>3
<1>6. Chain(p, l, R2, <<>>, d2)
  <2>1. Shifts(f, l, {}, <<>>, d, l, R2, <<>>, d2)
    BY <1>2a, <1>3, <1>4, <1>5 DEF Shifts
  <2> QED BY <2>1, ChainShifts
<1> QED BY <1>1, <1>6 DEF Line, d2, R2

(* Prime, running, keeps the prompt it reads for later. *)
LEMMA ChainWaits ==
  ASSUME NEW p \in Seq(Inputs), NEW l, NEW R, NEW q, NEW d, Line(l, R, q, d),
         Chain(p, l, R, q, d), d # <<>>, Head(d).type = "prompt"
  PROVE  /\ Chain(p, l, R, Append(q, Head(d).input), Tail(d))
         /\ Line(l, R, Append(q, Head(d).input), Tail(d))
<1> DEFINE d2 == Tail(d)
           q2 == Append(q, Head(d).input)
<1>0. /\ Len(q) \in Nat /\ DOMAIN q = 1..Len(q) /\ Len(d) \in Nat /\ DOMAIN d = 1..Len(d)
  BY LineLengths
<1>1. /\ d2 \in Seq(Commands) /\ DOMAIN d2 = 1..(Len(d) - 1)
      /\ \A k \in 1..(Len(d) - 1) : d2[k] = d[k + 1]
      /\ d[1] = Head(d) /\ Len(d) > 0 /\ Head(d).input \in Inputs
  <2>1. /\ d2 \in Seq(Commands) /\ DOMAIN d2 = 1..(Len(d) - 1)
        /\ \A k \in 1..(Len(d) - 1) : d2[k] = d[k + 1]
        /\ d[1] = Head(d) /\ Len(d) > 0
    BY HeadTailProperties, LenProperties, EmptySeq DEF Line
  <2>2. Head(d) \in Commands
    BY <2>1, <1>0 DEF Line
  <2> QED BY <2>1, <2>2 DEF Commands
<1>2. /\ q2 \in Seq(Inputs) /\ Len(q2) = Len(q) + 1 /\ DOMAIN q2 = 1..(Len(q) + 1)
      /\ \A k \in 1..Len(q) : q2[k] = q[k]
      /\ q2[Len(q) + 1] = d[1].input
  BY <1>1, AppendProperties, LenProperties DEF Line
<1> HIDE DEF d2, q2
<1>3. ASSUME NEW i \in Inputs, NEW r \in Int, Rank(l, R, q, d, i, r)
      PROVE  Rank(l, R, q2, d2, i, r)
  <2>1. CASE \E k \in DOMAIN q : q[k] = i /\ r = k
    <3>1. \E k \in DOMAIN q2 : q2[k] = i /\ r = k
      BY <1>0, <1>2, <2>1
    <3> QED BY <3>1 DEF Rank
  <2>2. CASE \E k \in DOMAIN d : d[k].type = "prompt" /\ d[k].input = i /\ r = Len(q) + k
    <3>1. PICK k \in DOMAIN d : d[k].type = "prompt" /\ d[k].input = i /\ r = Len(q) + k
      BY <2>2
    <3>2. CASE k = 1
      <4>1. q2[r] = i /\ r \in DOMAIN q2
        BY <1>0, <1>2, <3>1, <3>2
      <4> QED BY <4>1 DEF Rank
    <3>3. CASE k # 1
      <4>1. k - 1 \in DOMAIN d2 /\ d2[k - 1] = d[k] /\ k \in Int
        BY <1>0, <1>1, <3>3
      <4>2. r = Len(q2) + (k - 1)
        BY <1>0, <1>2, <3>1, <4>1
      <4> QED BY <3>1, <4>1, <4>2 DEF Rank
    <3> QED BY <3>2, <3>3
  <2> QED BY <1>3, <2>1, <2>2 DEF Rank
<1>4. ASSUME NEW i \in Inputs, NEW r \in Int, Rank(l, R, q2, d2, i, r)
      PROVE  Rank(l, R, q, d, i, r)
  <2>1. CASE \E k \in DOMAIN q2 : q2[k] = i /\ r = k
    <3>1. q2[r] = i /\ r \in DOMAIN q2
      BY <2>1
    <3>2. CASE r = Len(q) + 1
      <4>1. d[1].type = "prompt" /\ d[1].input = i /\ 1 \in DOMAIN d
        BY <1>0, <1>1, <1>2, <3>1, <3>2
      <4> QED BY <3>2, <4>1 DEF Rank
    <3>3. CASE r # Len(q) + 1
      <4>1. q[r] = i /\ r \in DOMAIN q
        BY <1>0, <1>2, <3>1, <3>3
      <4> QED BY <4>1 DEF Rank
    <3> QED BY <3>2, <3>3
  <2>2. CASE \E k \in DOMAIN d2 : d2[k].type = "prompt" /\ d2[k].input = i /\ r = Len(q2) + k
    <3>1. PICK k \in DOMAIN d2 : d2[k].type = "prompt" /\ d2[k].input = i /\ r = Len(q2) + k
      BY <2>2
    <3>2. k + 1 \in DOMAIN d /\ d[k + 1] = d2[k] /\ k \in Int
      BY <1>0, <1>1
    <3>3. r = Len(q) + (k + 1)
      BY <1>0, <1>2, <3>1, <3>2
    <3> QED BY <3>1, <3>2, <3>3 DEF Rank
  <2> QED BY <1>4, <2>1, <2>2 DEF Rank
<1>5. Chain(p, l, R, q2, d2)
  BY <1>3, <1>4, ChainSame
<1> QED BY <1>1, <1>2, <1>5 DEF Line, d2, q2

(* The run under way ends and the next one starts. *)
LEMMA ChainGoesOn ==
  ASSUME NEW p \in Seq(Inputs), NEW l, NEW R, NEW q, NEW d, Line(l, R, q, d),
         Chain(p, l, R, q, d), q # <<>>, NEW x \in Messages, x.type = "agent_end", x.run = R
  PROVE  /\ Chain(p, Append(l, x), {Head(q)}, Tail(q), d)
         /\ Line(Append(l, x), {Head(q)}, Tail(q), d)
<1> DEFINE l2 == Append(l, x)
           q2 == Tail(q)
           R2 == {Head(q)}
           f == [r \in Int |-> r - 1]
<1>0. /\ Len(l) \in Nat /\ DOMAIN l = 1..Len(l) /\ Len(q) \in Nat /\ DOMAIN q = 1..Len(q)
      /\ Len(d) \in Nat /\ DOMAIN d = 1..Len(d)
  BY LineLengths
<1>1. /\ l2 \in Seq(Messages) /\ Len(l2) = Len(l) + 1 /\ DOMAIN l2 = 1..(Len(l) + 1)
      /\ \A k \in 1..Len(l) : l2[k] = l[k]
      /\ l2[Len(l) + 1] = x
  BY AppendProperties, LenProperties DEF Line
<1>2. /\ q2 \in Seq(Inputs) /\ Len(q2) = Len(q) - 1 /\ DOMAIN q2 = 1..(Len(q) - 1)
      /\ \A k \in 1..(Len(q) - 1) : q2[k] = q[k + 1]
      /\ q[1] = Head(q) /\ Len(q) > 0
  BY HeadTailProperties, LenProperties, EmptySeq DEF Line
<1>2a. R2 \in SUBSET Inputs /\ \A i \in Inputs : i \in R2 <=> i = q[1]
  <2>1. q[1] \in Inputs
    BY <1>0, <1>2 DEF Line
  <2> QED BY <1>2, <2>1
<1>2b. \A r \in Int : f[r] = r - 1
  OBVIOUS
<1>2c. f \in [Int -> Int]
  OBVIOUS
<1> HIDE DEF l2, q2, R2, f
<1>3. ASSUME NEW i \in Inputs, NEW r \in Int, Rank(l, R, q, d, i, r)
      PROVE  Rank(l2, R2, q2, d, i, f[r])
  <2>0. f[r] = r - 1
    BY <1>2b
  <2>1. CASE \E k \in DOMAIN l : l[k].type = "agent_end" /\ i \in l[k].run
                                 /\ r = k - Len(l) - 1
    <3>1. PICK k \in DOMAIN l : /\ l[k].type = "agent_end" /\ i \in l[k].run
                                /\ r = k - Len(l) - 1
      BY <2>1
    <3>2. k \in DOMAIN l2 /\ l2[k] = l[k] /\ k \in Int
      BY <1>0, <1>1
    <3>3. f[r] = k - Len(l2) - 1
      BY <1>0, <1>1, <2>0, <3>1, <3>2
    <3> QED BY <3>1, <3>2, <3>3 DEF Rank
  <2>2. CASE i \in R /\ r = 0
    <3>1. /\ Len(l) + 1 \in DOMAIN l2 /\ l2[Len(l) + 1].type = "agent_end"
          /\ i \in l2[Len(l) + 1].run
      BY <1>0, <1>1, <2>2
    <3>2. f[r] = (Len(l) + 1) - Len(l2) - 1
      BY <1>0, <1>1, <2>0, <2>2
    <3> QED BY <3>1, <3>2 DEF Rank
  <2>3. CASE \E k \in DOMAIN q : q[k] = i /\ r = k
    <3>1. q[r] = i /\ r \in DOMAIN q
      BY <2>3
    <3>2. CASE r = 1
      <4>1. i \in R2 /\ f[r] = 0
        BY <1>2a, <2>0, <3>1, <3>2
      <4> QED BY <4>1 DEF Rank
    <3>3. CASE r # 1
      <4>1. r - 1 \in DOMAIN q2 /\ q2[r - 1] = i
        BY <1>0, <1>2, <3>1, <3>3
      <4> QED BY <2>0, <4>1 DEF Rank
    <3> QED BY <3>2, <3>3
  <2>4. CASE \E k \in DOMAIN d : d[k].type = "prompt" /\ d[k].input = i /\ r = Len(q) + k
    <3>1. PICK k \in DOMAIN d : d[k].type = "prompt" /\ d[k].input = i /\ r = Len(q) + k
      BY <2>4
    <3>2. f[r] = Len(q2) + k
      BY <1>0, <1>2, <2>0, <3>1
    <3> QED BY <3>1, <3>2 DEF Rank
  <2> QED BY <1>3, <2>1, <2>2, <2>3, <2>4 DEF Rank
<1>4. ASSUME NEW i \in Inputs, NEW r \in Int, Rank(l2, R2, q2, d, i, r)
      PROVE  \E a \in Int : Rank(l, R, q, d, i, a) /\ r = f[a]
  <2>0. r + 1 \in Int /\ f[r + 1] = r
    <3>1. r + 1 \in Int
      OBVIOUS
    <3>2. f[r + 1] = (r + 1) - 1
      BY <1>2b, <3>1
    <3> QED BY <3>1, <3>2
  <2> SUFFICES Rank(l, R, q, d, i, r + 1)
    BY <2>0
  <2>1. CASE \E k \in DOMAIN l2 : l2[k].type = "agent_end" /\ i \in l2[k].run
                                  /\ r = k - Len(l2) - 1
    <3>1. PICK k \in DOMAIN l2 : /\ l2[k].type = "agent_end" /\ i \in l2[k].run
                                 /\ r = k - Len(l2) - 1
      BY <2>1
    <3>2. CASE k = Len(l) + 1
      <4>1. i \in R /\ r + 1 = 0
        BY <1>0, <1>1, <3>1, <3>2
      <4> QED BY <4>1 DEF Rank
    <3>3. CASE k # Len(l) + 1
      <4>1. k \in DOMAIN l /\ l2[k] = l[k] /\ r + 1 = k - Len(l) - 1
        BY <1>0, <1>1, <3>1, <3>3
      <4> QED BY <3>1, <4>1 DEF Rank
    <3> QED BY <3>2, <3>3
  <2>2. CASE i \in R2 /\ r = 0
    <3>1. q[1] = i /\ 1 \in DOMAIN q /\ r + 1 = 1
      BY <1>0, <1>2, <1>2a, <2>2
    <3> QED BY <3>1 DEF Rank
  <2>3. CASE \E k \in DOMAIN q2 : q2[k] = i /\ r = k
    <3>1. q[r + 1] = i /\ r + 1 \in DOMAIN q
      BY <1>0, <1>2, <2>3
    <3> QED BY <3>1 DEF Rank
  <2>4. CASE \E k \in DOMAIN d : d[k].type = "prompt" /\ d[k].input = i /\ r = Len(q2) + k
    <3>1. PICK k \in DOMAIN d : d[k].type = "prompt" /\ d[k].input = i /\ r = Len(q2) + k
      BY <2>4
    <3>2. r + 1 = Len(q) + k
      BY <1>0, <1>2, <3>1
    <3> QED BY <3>1, <3>2 DEF Rank
  <2> QED BY <1>4, <2>1, <2>2, <2>3, <2>4 DEF Rank
<1>5. ASSUME NEW i \in Inputs, NEW j \in Inputs, NEW a \in Int, NEW b \in Int, a < b,
             Rank(l, R, q, d, i, a), Rank(l, R, q, d, j, b)
      PROVE  f[a] < f[b]
  <2>1. f[a] = a - 1 /\ f[b] = b - 1
    BY <1>2b
  <2> QED BY <1>5, <2>1
<1>6. Chain(p, l2, R2, q2, d)
  <2>1. Shifts(f, l, R, q, d, l2, R2, q2, d)
    BY <1>2c, <1>3, <1>4, <1>5 DEF Shifts
  <2> QED BY <2>1, ChainShifts
<1> QED BY <1>1, <1>2, <1>2a, <1>6 DEF Line, l2, q2, R2

(* The last run under way ends. *)
LEMMA ChainRests ==
  ASSUME NEW p \in Seq(Inputs), NEW l, NEW R, NEW d, Line(l, R, <<>>, d),
         Chain(p, l, R, <<>>, d), NEW x \in Messages, x.type = "agent_end", x.run = R
  PROVE  Chain(p, Append(l, x), {}, <<>>, d) /\ Line(Append(l, x), {}, <<>>, d)
<1> DEFINE l2 == Append(l, x)
           f == [r \in Int |-> IF r <= 0 THEN r - 1 ELSE r]
<1>0. /\ Len(l) \in Nat /\ DOMAIN l = 1..Len(l) /\ Len(<<>>) = 0 /\ DOMAIN <<>> = {}
      /\ Len(d) \in Nat /\ DOMAIN d = 1..Len(d)
  <2>1. Len(d) \in Nat /\ DOMAIN d = 1..Len(d) /\ Len(l) \in Nat /\ DOMAIN l = 1..Len(l)
    BY LineLengths
  <2> QED BY <2>1
<1>1. /\ l2 \in Seq(Messages) /\ Len(l2) = Len(l) + 1 /\ DOMAIN l2 = 1..(Len(l) + 1)
      /\ \A k \in 1..Len(l) : l2[k] = l[k]
      /\ l2[Len(l) + 1] = x
  BY AppendProperties, LenProperties DEF Line
<1>2. \A r \in Int : f[r] = IF r <= 0 THEN r - 1 ELSE r
  OBVIOUS
<1>2a. f \in [Int -> Int]
  OBVIOUS
<1> HIDE DEF l2, f
<1>3. ASSUME NEW i \in Inputs, NEW r \in Int, Rank(l, R, <<>>, d, i, r)
      PROVE  Rank(l2, {}, <<>>, d, i, f[r])
  <2>1. CASE \E k \in DOMAIN l : l[k].type = "agent_end" /\ i \in l[k].run
                                 /\ r = k - Len(l) - 1
    <3>1. PICK k \in DOMAIN l : /\ l[k].type = "agent_end" /\ i \in l[k].run
                                /\ r = k - Len(l) - 1
      BY <2>1
    <3>2. k \in DOMAIN l2 /\ l2[k] = l[k] /\ k \in Int
      BY <1>0, <1>1
    <3>3. f[r] = k - Len(l2) - 1
      BY <1>0, <1>1, <1>2, <3>1, <3>2
    <3> QED BY <3>1, <3>2, <3>3 DEF Rank
  <2>2. CASE i \in R /\ r = 0
    <3>1. /\ Len(l) + 1 \in DOMAIN l2 /\ l2[Len(l) + 1].type = "agent_end"
          /\ i \in l2[Len(l) + 1].run
      BY <1>0, <1>1, <2>2
    <3>2. f[r] = (Len(l) + 1) - Len(l2) - 1
      BY <1>0, <1>1, <1>2, <2>2
    <3> QED BY <3>1, <3>2 DEF Rank
  <2>3. CASE \E k \in DOMAIN d : d[k].type = "prompt" /\ d[k].input = i /\ r = Len(<<>>) + k
    <3>1. f[r] = r
      BY <1>0, <1>2, <2>3
    <3> QED BY <2>3, <3>1 DEF Rank
  <2> QED BY <1>0, <1>3, <2>1, <2>2, <2>3 DEF Rank
<1>4. ASSUME NEW i \in Inputs, NEW r \in Int, Rank(l2, {}, <<>>, d, i, r)
      PROVE  \E a \in Int : Rank(l, R, <<>>, d, i, a) /\ r = f[a]
  <2>1. CASE \E k \in DOMAIN l2 : l2[k].type = "agent_end" /\ i \in l2[k].run
                                  /\ r = k - Len(l2) - 1
    <3>1. PICK k \in DOMAIN l2 : /\ l2[k].type = "agent_end" /\ i \in l2[k].run
                                 /\ r = k - Len(l2) - 1
      BY <2>1
    <3>2. r + 1 \in Int /\ r + 1 <= 0 /\ k \in Int
      BY <1>0, <1>1, <3>1
    <3>3. f[r + 1] = r
      BY <1>2, <3>2
    <3>4. CASE k = Len(l) + 1
      <4>1. i \in R /\ r + 1 = 0
        BY <1>0, <1>1, <3>1, <3>4
      <4> QED BY <3>2, <3>3, <4>1 DEF Rank
    <3>5. CASE k # Len(l) + 1
      <4>1. k \in DOMAIN l /\ l2[k] = l[k] /\ r + 1 = k - Len(l) - 1
        BY <1>0, <1>1, <3>1, <3>5
      <4>2. Rank(l, R, <<>>, d, i, r + 1)
        BY <3>1, <4>1 DEF Rank
      <4> QED BY <3>2, <3>3, <4>2
    <3> QED BY <3>4, <3>5
  <2>2. CASE \E k \in DOMAIN d : d[k].type = "prompt" /\ d[k].input = i /\ r = Len(<<>>) + k
    <3>1. f[r] = r
      BY <1>0, <1>2, <2>2
    <3>2. Rank(l, R, <<>>, d, i, r)
      BY <2>2 DEF Rank
    <3> QED BY <3>1, <3>2
  <2> QED BY <1>0, <1>4, <2>1, <2>2 DEF Rank
<1>5. ASSUME NEW i \in Inputs, NEW j \in Inputs, NEW a \in Int, NEW b \in Int, a < b,
             Rank(l, R, <<>>, d, i, a), Rank(l, R, <<>>, d, j, b)
      PROVE  f[a] < f[b]
  <2>1. f[a] = IF a <= 0 THEN a - 1 ELSE a
    BY <1>2
  <2>2. f[b] = IF b <= 0 THEN b - 1 ELSE b
    BY <1>2
  <2> QED BY <1>5, <2>1, <2>2
<1>6. Chain(p, l2, {}, <<>>, d)
  <2>1. Shifts(f, l, R, <<>>, d, l2, {}, <<>>, d)
    BY <1>2a, <1>3, <1>4, <1>5 DEF Shifts
  <2> QED BY <2>1, ChainShifts
<1> QED BY <1>1, <1>6 DEF Line, l2

(* The lane reads an answer. *)
LEMMA ChainReads ==
  ASSUME NEW p \in Seq(Inputs), NEW l, NEW R, NEW q, NEW d, Line(l, R, q, d),
         Chain(p, l, R, q, d), l # <<>>, Head(l).type # "agent_end"
  PROVE  Chain(p, Tail(l), R, q, d) /\ Line(Tail(l), R, q, d)
<1> DEFINE l2 == Tail(l)
<1>0. Len(l) \in Nat /\ DOMAIN l = 1..Len(l)
  BY LineLengths
<1>1. /\ l2 \in Seq(Messages) /\ Len(l2) = Len(l) - 1 /\ DOMAIN l2 = 1..(Len(l) - 1)
      /\ \A k \in 1..(Len(l) - 1) : l2[k] = l[k + 1]
      /\ l[1] = Head(l) /\ Len(l) > 0
  BY HeadTailProperties, LenProperties, EmptySeq DEF Line
<1> HIDE DEF l2
<1>2. ASSUME NEW i \in Inputs, NEW r \in Int
      PROVE  (\E k \in DOMAIN l : l[k].type = "agent_end" /\ i \in l[k].run
                                  /\ r = k - Len(l) - 1)
         <=> (\E k \in DOMAIN l2 : l2[k].type = "agent_end" /\ i \in l2[k].run
                                   /\ r = k - Len(l2) - 1)
  <2>1. ASSUME NEW k \in DOMAIN l, l[k].type = "agent_end", r = k - Len(l) - 1
        PROVE  k - 1 \in DOMAIN l2 /\ l2[k - 1] = l[k] /\ r = (k - 1) - Len(l2) - 1
    <3>1. k # 1
      BY <1>1, <2>1
    <3> QED BY <1>0, <1>1, <2>1, <3>1
  <2>2. ASSUME NEW k \in DOMAIN l2, r = k - Len(l2) - 1
        PROVE  k + 1 \in DOMAIN l /\ l[k + 1] = l2[k] /\ r = (k + 1) - Len(l) - 1
    BY <1>0, <1>1, <2>2
  <2> QED BY <2>1, <2>2
<1>3. \A i \in Inputs, r \in Int : Rank(l, R, q, d, i, r) <=> Rank(l2, R, q, d, i, r)
  BY <1>2 DEF Rank
<1>4. Chain(p, l2, R, q, d)
  BY <1>3, ChainSame
<1> QED BY <1>1, <1>4 DEF Line, l2

(* The lane reads the end of a run: it was the oldest anchor's. *)
LEMMA ChainEnds ==
  ASSUME NEW p \in Seq(Inputs), NEW l, NEW R, NEW q, NEW d, Line(l, R, q, d),
         Chain(p, l, R, q, d), l # <<>>, Head(l).type = "agent_end",
         NEW i \in Inputs, Head(l).run = {i}
  PROVE  /\ p # <<>> /\ Head(p) = i
         /\ Chain(Tail(p), Tail(l), R, q, d) /\ Line(Tail(l), R, q, d)
<1> DEFINE l2 == Tail(l)
           p2 == Tail(p)
<1>0. /\ Len(l) \in Nat /\ DOMAIN l = 1..Len(l) /\ Len(q) \in Nat /\ DOMAIN q = 1..Len(q)
      /\ Len(d) \in Nat /\ DOMAIN d = 1..Len(d)
  BY LineLengths
<1>1. /\ l2 \in Seq(Messages) /\ Len(l2) = Len(l) - 1 /\ DOMAIN l2 = 1..(Len(l) - 1)
      /\ \A k \in 1..(Len(l) - 1) : l2[k] = l[k + 1]
      /\ l[1] = Head(l) /\ Len(l) > 0
  BY HeadTailProperties, LenProperties, EmptySeq DEF Line
<1>2. \A j \in Elements(p) : j \in Inputs
  BY ElementsType
<1>3. \A m \in DOMAIN p : p[m] \in Elements(p) /\ p[m] \in Inputs
  BY <1>2, ElementsAt
<1>4. Rank(l, R, q, d, i, -Len(l)) /\ -Len(l) \in Int
  <2>1. 1 \in DOMAIN l /\ l[1].type = "agent_end" /\ i \in l[1].run
    BY <1>0, <1>1
  <2>2. -Len(l) = 1 - Len(l) - 1 /\ -Len(l) \in Int
    BY <1>0
  <2> QED BY <2>1, <2>2 DEF Rank
<1>5. \A j \in Inputs, r \in Int : Rank(l, R, q, d, j, r) => r >= -Len(l)
  BY <1>0 DEF Rank
<1>6. i \in Elements(p)
  BY <1>4 DEF Chain
<1>7. PICK m \in DOMAIN p : p[m] = i
  BY <1>6 DEF Elements
<1>8. ASSUME NEW n \in DOMAIN p, p[n] = i
      PROVE  n = 1
  <2>0. Len(p) \in Nat /\ DOMAIN p = 1..Len(p)
    BY LenProperties
  <2>1. SUFFICES ASSUME n # 1 PROVE FALSE
    OBVIOUS
  <2>2. 1 \in DOMAIN p /\ 1 < n
    BY <2>0, <2>1
  <2>3. PICK a \in Int : Rank(l, R, q, d, p[1], a)
    BY <1>3, <2>2 DEF Chain
  <2>4. a < -Len(l)
    BY <1>4, <1>8, <2>2, <2>3 DEF Chain
  <2>5. a >= -Len(l)
    BY <1>3, <1>5, <2>2, <2>3
  <2> QED BY <1>0, <2>4, <2>5
<1>9. m = 1
  BY <1>7, <1>8
<1>10. /\ p # <<>> /\ Head(p) = i /\ p2 \in Seq(Inputs)
       /\ Len(p) \in Nat /\ DOMAIN p = 1..Len(p) /\ DOMAIN p2 = 1..(Len(p) - 1)
       /\ \A k \in 1..(Len(p) - 1) : p2[k] = p[k + 1]
  <2>1. p # <<>>
    BY <1>7, <1>9, EmptySeq
  <2> QED BY <1>7, <1>9, <2>1, HeadTailProperties, LenProperties
<1> HIDE DEF l2, p2
<1>11. ASSUME NEW j \in Inputs, NEW r \in Int, Rank(l2, R, q, d, j, r)
       PROVE  Rank(l, R, q, d, j, r) /\ r # -Len(l)
  <2>1. CASE \E k \in DOMAIN l2 : l2[k].type = "agent_end" /\ j \in l2[k].run
                                  /\ r = k - Len(l2) - 1
    <3>1. PICK k \in DOMAIN l2 : /\ l2[k].type = "agent_end" /\ j \in l2[k].run
                                 /\ r = k - Len(l2) - 1
      BY <2>1
    <3>2. k + 1 \in DOMAIN l /\ l[k + 1] = l2[k] /\ r = (k + 1) - Len(l) - 1 /\ k > 0
      BY <1>0, <1>1, <3>1
    <3> QED BY <1>0, <3>1, <3>2 DEF Rank
  <2>2. CASE ~\E k \in DOMAIN l2 : l2[k].type = "agent_end" /\ j \in l2[k].run
                                   /\ r = k - Len(l2) - 1
    <3>1. r >= 0
      BY <1>0, <1>11, <2>2 DEF Rank
    <3>2. Rank(l, R, q, d, j, r)
      BY <1>11, <2>2 DEF Rank
    <3> QED BY <1>0, <1>1, <3>1, <3>2
  <2> QED BY <2>1, <2>2
<1>12. ASSUME NEW j \in Inputs, NEW r \in Int, Rank(l, R, q, d, j, r), j # i
       PROVE  Rank(l2, R, q, d, j, r)
  <2>1. CASE \E k \in DOMAIN l : l[k].type = "agent_end" /\ j \in l[k].run
                                 /\ r = k - Len(l) - 1
    <3>1. PICK k \in DOMAIN l : /\ l[k].type = "agent_end" /\ j \in l[k].run
                                /\ r = k - Len(l) - 1
      BY <2>1
    <3>2. k # 1
      BY <1>1, <1>12, <3>1
    <3>3. k - 1 \in DOMAIN l2 /\ l2[k - 1] = l[k] /\ r = (k - 1) - Len(l2) - 1
      BY <1>0, <1>1, <3>1, <3>2
    <3> QED BY <3>1, <3>3 DEF Rank
  <2>2. CASE ~\E k \in DOMAIN l : l[k].type = "agent_end" /\ j \in l[k].run
                                  /\ r = k - Len(l) - 1
    BY <1>12, <2>2 DEF Rank
  <2> QED BY <2>1, <2>2
<1>13. ASSUME NEW r \in Int
       PROVE  ~Rank(l2, R, q, d, i, r)
  BY <1>4, <1>11 DEF Chain
<1>14. \A j : j \in Elements(p2) <=> j \in Elements(p) /\ j # i
  <2>1. ASSUME NEW k \in DOMAIN p2
        PROVE  p2[k] \in Elements(p) /\ p2[k] # i
    <3>1. k + 1 \in DOMAIN p /\ p2[k] = p[k + 1] /\ k + 1 # 1
      BY <1>10, <2>1
    <3> QED BY <1>3, <1>8, <3>1
  <2>2. ASSUME NEW n \in DOMAIN p, p[n] # i
        PROVE  p[n] \in Elements(p2)
    <3>1. n # 1
      BY <1>7, <1>9, <2>2
    <3>2. n - 1 \in DOMAIN p2 /\ p2[n - 1] = p[n]
      BY <1>10, <2>2, <3>1
    <3> QED BY <3>2 DEF Elements
  <2> QED BY <2>1, <2>2 DEF Elements
<1>15. Chain(p2, l2, R, q, d)
  <2>1. \A j \in Inputs, r \in Int : Rank(l2, R, q, d, j, r) => j \in Elements(p2)
    BY <1>11, <1>13, <1>14 DEF Chain
  <2>2. \A j \in Elements(p2) : \E r \in Int : Rank(l2, R, q, d, j, r)
    BY <1>2, <1>12, <1>14 DEF Chain
  <2>3. ASSUME NEW u \in DOMAIN p2, NEW v \in DOMAIN p2, NEW a \in Int, NEW b \in Int, u < v,
               Rank(l2, R, q, d, p2[u], a), Rank(l2, R, q, d, p2[v], b)
        PROVE  a < b
    <3>1. /\ u + 1 \in DOMAIN p /\ p2[u] = p[u + 1] /\ v + 1 \in DOMAIN p /\ p2[v] = p[v + 1]
          /\ u + 1 < v + 1
      BY <1>10, <2>3
    <3>2. Rank(l, R, q, d, p[u + 1], a) /\ Rank(l, R, q, d, p[v + 1], b)
      BY <1>3, <1>11, <2>3, <3>1
    <3> QED BY <3>1, <3>2 DEF Chain
  <2>4. ASSUME NEW j \in Inputs, NEW a \in Int, NEW b \in Int,
               Rank(l2, R, q, d, j, a), Rank(l2, R, q, d, j, b)
        PROVE  a = b
    BY <1>11, <2>4 DEF Chain
  <2> QED BY <2>1, <2>2, <2>3, <2>4 DEF Chain
<1> QED BY <1>1, <1>10, <1>15 DEF Line, l2, p2

(* The lane prompts: a new anchor, last in line. *)
LEMMA ChainPrompts ==
  ASSUME NEW p \in Seq(Inputs), NEW l, NEW R, NEW q, NEW d, Line(l, R, q, d),
         Chain(p, l, R, q, d), NEW c \in Commands, c.type = "prompt",
         c.input \notin Elements(p)
  PROVE  /\ Chain(Append(p, c.input), l, R, q, Append(d, c))
         /\ Line(l, R, q, Append(d, c))
<1> DEFINE d2 == Append(d, c)
           p2 == Append(p, c.input)
           top == Len(q) + Len(d) + 1
<1>a. c.input \in Inputs
  BY DEF Commands
<1>0. /\ Len(l) \in Nat /\ DOMAIN l = 1..Len(l) /\ Len(q) \in Nat /\ DOMAIN q = 1..Len(q)
      /\ Len(d) \in Nat /\ DOMAIN d = 1..Len(d) /\ Len(p) \in Nat /\ DOMAIN p = 1..Len(p)
  BY LineLengths, LenProperties
<1>1. /\ d2 \in Seq(Commands) /\ DOMAIN d2 = 1..(Len(d) + 1)
      /\ \A k \in 1..Len(d) : d2[k] = d[k]
      /\ d2[Len(d) + 1] = c
  BY AppendProperties, LenProperties DEF Line
<1>2. /\ p2 \in Seq(Inputs) /\ DOMAIN p2 = 1..(Len(p) + 1)
      /\ \A k \in 1..Len(p) : p2[k] = p[k]
      /\ p2[Len(p) + 1] = c.input
  BY <1>a, AppendProperties, LenProperties
<1>3. top \in Int /\ top > Len(q) + Len(d) /\ top = Len(q) + (Len(d) + 1) /\ top > 0
  BY <1>0
<1> HIDE DEF d2, p2, top
<1>4. \A j \in Elements(p) : j \in Inputs
  BY ElementsType
<1>5. \A m \in DOMAIN p : p[m] \in Elements(p) /\ p[m] \in Inputs
  BY <1>4, ElementsAt
<1>6. ASSUME NEW j \in Inputs, NEW r \in Int
      PROVE  Rank(l, R, q, d2, j, r) <=> Rank(l, R, q, d, j, r) \/ (j = c.input /\ r = top)
  <2>1. (\E k \in DOMAIN d2 : d2[k].type = "prompt" /\ d2[k].input = j /\ r = Len(q) + k)
        <=> \/ \E k \in DOMAIN d : d[k].type = "prompt" /\ d[k].input = j /\ r = Len(q) + k
            \/ j = c.input /\ r = top
    <3>1. ASSUME NEW k \in DOMAIN d2, d2[k].type = "prompt", d2[k].input = j, r = Len(q) + k
          PROVE  \/ k \in DOMAIN d /\ d[k] = d2[k]
                 \/ j = c.input /\ r = top
      <4>1. (k \in DOMAIN d /\ d[k] = d2[k]) \/ k = Len(d) + 1
        BY <1>0, <1>1
      <4> QED BY <1>1, <1>3, <3>1, <4>1
    <3>2. \A k \in DOMAIN d : k \in DOMAIN d2 /\ d2[k] = d[k]
      BY <1>0, <1>1
    <3>3. Len(d) + 1 \in DOMAIN d2
      BY <1>0, <1>1
    <3> QED BY <1>1, <1>3, <3>1, <3>2, <3>3
  <2> QED BY <2>1 DEF Rank
<1>7. \A j \in Inputs, r \in Int : Rank(l, R, q, d, j, r) => j \in Elements(p) /\ r < top
  <2>1. \A j \in Inputs, r \in Int : Rank(l, R, q, d, j, r) => r < top
    BY <1>0, <1>3 DEF Rank
  <2> QED BY <2>1 DEF Chain
<1>8. \A j : j \in Elements(p2) <=> j \in Elements(p) \/ j = c.input
  <2>1. ASSUME NEW k \in DOMAIN p2
        PROVE  p2[k] \in Elements(p) \/ p2[k] = c.input
    <3>1. (k \in DOMAIN p /\ p2[k] = p[k]) \/ k = Len(p) + 1
      BY <1>0, <1>2
    <3> QED BY <1>2, <1>5, <3>1
  <2>2. \A k \in DOMAIN p : k \in DOMAIN p2 /\ p2[k] = p[k]
    BY <1>0, <1>2
  <2>3. Len(p) + 1 \in DOMAIN p2
    BY <1>0, <1>2
  <2> QED BY <1>2, <2>1, <2>2, <2>3 DEF Elements
<1>9. Chain(p2, l, R, q, d2)
  <2>1. \A j \in Inputs, r \in Int : Rank(l, R, q, d2, j, r) => j \in Elements(p2)
    BY <1>6, <1>7, <1>8
  <2>2. ASSUME NEW j \in Elements(p2)
        PROVE  \E r \in Int : Rank(l, R, q, d2, j, r)
    <3>1. CASE j \in Elements(p)
      <4>1. PICK r \in Int : Rank(l, R, q, d, j, r)
        BY <3>1 DEF Chain
      <4> QED BY <1>4, <1>6, <3>1, <4>1
    <3>2. CASE j = c.input
      BY <1>a, <1>3, <1>6, <3>2
    <3> QED BY <1>8, <2>2, <3>1, <3>2
  <2>3. ASSUME NEW u \in DOMAIN p2, NEW v \in DOMAIN p2, NEW a \in Int, NEW b \in Int, u < v,
               Rank(l, R, q, d2, p2[u], a), Rank(l, R, q, d2, p2[v], b)
        PROVE  a < b
    <3>1. u \in DOMAIN p /\ p2[u] = p[u] /\ p[u] # c.input /\ p[u] \in Inputs
      <4>1. u \in DOMAIN p /\ p2[u] = p[u]
        BY <1>0, <1>2, <2>3
      <4> QED BY <1>5, <4>1
    <3>2. Rank(l, R, q, d, p[u], a) /\ a < top
      BY <1>6, <1>7, <2>3, <3>1
    <3>3. CASE v = Len(p) + 1
      <4>1. p2[v] = c.input
        BY <1>2, <3>3
      <4>2. ~Rank(l, R, q, d, c.input, b)
        BY <1>a, <1>7
      <4>3. b = top
        BY <1>a, <1>6, <2>3, <4>1, <4>2
      <4> QED BY <3>2, <4>3
    <3>4. CASE v # Len(p) + 1
      <4>1. v \in DOMAIN p /\ p2[v] = p[v]
        BY <1>0, <1>2, <3>4
      <4>2. p[v] # c.input /\ p[v] \in Inputs
        BY <1>5, <4>1
      <4>3. Rank(l, R, q, d, p[v], b)
        BY <1>6, <2>3, <4>1, <4>2
      <4> QED BY <2>3, <3>1, <3>2, <4>1, <4>3 DEF Chain
    <3> QED BY <3>3, <3>4
  <2>4. ASSUME NEW j \in Inputs, NEW a \in Int, NEW b \in Int,
               Rank(l, R, q, d2, j, a), Rank(l, R, q, d2, j, b)
        PROVE  a = b
    <3>1. CASE j = c.input
      BY <1>6, <1>7, <2>4, <3>1
    <3>2. CASE j # c.input
      BY <1>6, <2>4, <3>2 DEF Chain
    <3> QED BY <3>1, <3>2
  <2> QED BY <2>1, <2>2, <2>3, <2>4 DEF Chain
<1> QED BY <1>1, <1>9 DEF Line, d2, p2

(* Aborts on a channel: none, or one at most. *)
NoAbort(s)  == \A k \in DOMAIN s : s[k].type # "abort"
OneAbort(s) == \A j, k \in DOMAIN s : s[j].type = "abort" /\ s[k].type = "abort" => j = k

LEMMA AbortsAppend ==
  ASSUME NEW S, NEW s \in Seq(S), NEW x \in S
  PROVE  /\ NoAbort(s) /\ x.type # "abort" => NoAbort(Append(s, x))
         /\ OneAbort(s) /\ x.type # "abort" => OneAbort(Append(s, x))
         /\ NoAbort(s) => OneAbort(Append(s, x))
<1> DEFINE t == Append(s, x)
<1>1. /\ Len(s) \in Nat /\ DOMAIN s = 1..Len(s) /\ DOMAIN t = 1..(Len(s) + 1)
      /\ \A k \in 1..Len(s) : t[k] = s[k]
      /\ t[Len(s) + 1] = x
  BY AppendProperties, LenProperties
<1> HIDE DEF t
<1>2. \A k \in DOMAIN t : (k \in DOMAIN s /\ t[k] = s[k]) \/ (k = Len(s) + 1 /\ t[k] = x)
  BY <1>1
<1>3. /\ NoAbort(s) /\ x.type # "abort" => NoAbort(t)
      /\ OneAbort(s) /\ x.type # "abort" => OneAbort(t)
      /\ NoAbort(s) => OneAbort(t)
  BY <1>2 DEF NoAbort, OneAbort
<1> QED BY <1>3 DEF t

LEMMA AbortsTail ==
  ASSUME NEW S, NEW s \in Seq(S), s # <<>>
  PROVE  /\ NoAbort(s) => NoAbort(Tail(s))
         /\ OneAbort(s) => OneAbort(Tail(s))
         /\ OneAbort(s) /\ Head(s).type = "abort" => NoAbort(Tail(s))
         /\ NoAbort(s) => Head(s).type # "abort"
<1> DEFINE t == Tail(s)
<1>1. /\ Len(s) \in Nat /\ Len(s) # 0 /\ DOMAIN s = 1..Len(s) /\ DOMAIN t = 1..(Len(s) - 1)
      /\ \A k \in 1..(Len(s) - 1) : t[k] = s[k + 1]
      /\ Head(s) = s[1]
  BY HeadTailProperties, LenProperties, EmptySeq
<1> HIDE DEF t
<1>2. \A k \in DOMAIN t : k + 1 \in DOMAIN s /\ t[k] = s[k + 1] /\ k + 1 # 1 /\ k \in Int
  BY <1>1
<1>3. 1 \in DOMAIN s
  BY <1>1
<1>4. NoAbort(s) => NoAbort(t) /\ Head(s).type # "abort"
  BY <1>1, <1>2, <1>3 DEF NoAbort
<1>5. ASSUME OneAbort(s) PROVE OneAbort(t)
  <2> SUFFICES ASSUME NEW j \in DOMAIN t, NEW k \in DOMAIN t, t[j].type = "abort",
                      t[k].type = "abort"
               PROVE  j = k
    BY DEF OneAbort
  <2>1. j + 1 = k + 1
    BY <1>2, <1>5 DEF OneAbort
  <2> QED BY <1>2, <2>1
<1>6. OneAbort(s) /\ Head(s).type = "abort" => NoAbort(t)
  BY <1>1, <1>2, <1>3 DEF OneAbort, NoAbort
<1> QED BY <1>4, <1>5, <1>6 DEF t

(* What is under way while nothing disturbs the lane. *)
CalmMessage(m) ==
  \/ m.type = "prompt" /\ m.ok
  \/ m.type = "abort"
  \/ m.type = "agent_end" /\ \E i \in Inputs : m.run = {i}

CalmLane ==
  /\ wire = "up" /\ seated /\ resident /\ ~closed /\ connectionGap = "none"
  /\ stop \in {"none", "interrupting"}

CalmWire ==
  /\ \A m \in Elements(toLane) : CalmMessage(m)
  /\ \A c \in Elements(toDaemon) : c.type \in {"prompt", "abort"}

CalmRun ==
  /\ running = {} \/ \E i \in Inputs : running = {i}
  /\ running = {} => queue = <<>>

CalmStop ==
  \/ NoAbort(toDaemon) /\ NoAbort(toLane)
  \/ /\ stop = "interrupting"
     /\ \/ OneAbort(toDaemon) /\ NoAbort(toLane)
        \/ NoAbort(toDaemon) /\ OneAbort(toLane)

CalmLine ==
  /\ Line(toLane, running, queue, toDaemon)
  /\ Chain(pendingCheckpoints, toLane, running, queue, toDaemon)

Calm == CalmLane /\ CalmWire /\ CalmRun /\ CalmStop /\ CalmLine /\ AnchorIsOfItsRun

(* The lane starts calm. *)
LEMMA CalmInit == Init => Calm
<1> SUFFICES ASSUME Init PROVE Calm
  OBVIOUS
<1>1. /\ toLane = <<>> /\ toDaemon = <<>> /\ queue = <<>> /\ running = {}
      /\ pendingCheckpoints = <<>> /\ boundaries = <<>>
  BY DEF Init
<1>2. CalmLane /\ CalmRun
  BY DEF Init, CalmLane, CalmRun
<1>3. CalmWire
  BY <1>1, ElementsEmpty DEF CalmWire
<1>4. CalmStop
  BY <1>1 DEF CalmStop, NoAbort
<1>5. Line(<<>>, {}, <<>>, <<>>)
  BY DEF Line
<1>6. \A i \in Inputs, r \in Int : ~Rank(<<>>, {}, <<>>, <<>>, i, r)
  BY DEF Rank
<1>7. Chain(<<>>, <<>>, {}, <<>>, <<>>)
  BY <1>6, ElementsEmpty DEF Chain
<1>8. AnchorIsOfItsRun
  BY <1>1 DEF AnchorIsOfItsRun, Ends
<1> QED BY <1>1, <1>2, <1>3, <1>4, <1>5, <1>7, <1>8 DEF Calm, CalmLine

(* A step either leaves the faults alone or one more happens. *)
LEMMA FaultsMove ==
  ASSUME [Next]_vars
  PROVE  UNCHANGED faults \/ \E f \in Faults : Happens(f)
<1> USE DEF Fault, Faults
<1>1. ASSUME NEW i \in Inputs, PromptNow(i) \/ Park(i) \/ AskAttach(i) \/ PromptTimesOut(i)
      PROVE  UNCHANGED faults \/ \E f \in Faults : Happens(f)
  BY <1>1 DEF PromptNow, Park, AskAttach, PromptTimesOut, hist
<1>2. CASE Interrupt \/ Release
  BY <1>2 DEF Interrupt, Release
<1>3. CASE LaneReads
  BY <1>3 DEF LaneReads, PromptAnswered, AttachAnswered, QueueAnswered, AbortAnswered,
              DetachAnswered, AgentEndDelivered, ClosedDelivered, hist
<1>4. CASE ConnectionLost \/ ConnectionRestored \/ ConnectionUnavailable
  BY <1>4 DEF ConnectionLost, ConnectionRestored, ConnectionUnavailable, hist
<1>5. CASE DialSucceeds \/ DialFails
  BY <1>5 DEF DialSucceeds, DialFails, hist
<1>6. CASE DaemonReads
  <2>1. CASE DaemonAdmits
    BY <2>1 DEF DaemonAdmits
  <2>2. CASE DaemonRefuses
    BY <2>2 DEF DaemonRefuses
  <2>3. CASE DaemonAttaches
    BY <2>3 DEF DaemonAttaches
  <2>4. CASE DaemonReadsQueue \/ DaemonAborts \/ DaemonDetaches
    BY <2>4 DEF DaemonReadsQueue, DaemonAborts, DaemonDetaches
  <2> QED BY <1>6, <2>1, <2>2, <2>3, <2>4 DEF DaemonReads
<1>7. CASE DaemonEndsRun \/ DaemonRetriesRun \/ ForeignPrompt \/ DaemonClosesSession
  BY <1>7 DEF DaemonEndsRun, DaemonRetriesRun, ForeignPrompt, DaemonClosesSession, hist
<1>8. CASE UNCHANGED vars
  BY <1>8 DEF vars, hist
<1> QED BY <1>1, <1>2, <1>3, <1>4, <1>5, <1>6, <1>7, <1>8 DEF Next

(* A step that leaves the lane undisturbed finds it so, and no fault happens. *)
LEMMA NothingHappened ==
  ASSUME TypeOK, [Next]_vars, Undisturbed'
  PROVE  Undisturbed /\ \A f \in Faults : ~Happens(f)
<1>1. \A f \in Faults : faults[f] \in Nat /\ faults'[f] = 0
  BY DEF TypeOK, Undisturbed
<1>2. ASSUME NEW f \in Faults, Happens(f) PROVE FALSE
  <2>1. faults'[f] = faults[f] + 1
    BY <1>2 DEF Happens, TypeOK
  <2> QED BY <1>1, <2>1
<1>3. faults' = faults
  BY <1>2, FaultsMove
<1> QED BY <1>2, <1>3 DEF Undisturbed

(* A boundary more, of no run or of its anchor's. *)
LEMMA BoundaryAligned ==
  ASSUME TypeOK, AnchorIsOfItsRun, NEW b \in Boundaries,
         b.status = "ended" => b.anchor \in b.run,
         boundaries' = Append(boundaries, b)
  PROVE  AnchorIsOfItsRun'
<1>1. /\ Len(boundaries) \in Nat /\ DOMAIN boundaries = 1..Len(boundaries)
      /\ DOMAIN boundaries' = 1..(Len(boundaries) + 1)
      /\ \A k \in 1..Len(boundaries) : boundaries'[k] = boundaries[k]
      /\ boundaries'[Len(boundaries) + 1] = b
  BY AppendProperties, LenProperties DEF TypeOK
<1>2. ASSUME NEW k \in DOMAIN boundaries', boundaries'[k].status = "ended"
      PROVE  boundaries'[k].anchor \in boundaries'[k].run
  <2>1. (k \in DOMAIN boundaries /\ boundaries'[k] = boundaries[k])
        \/ boundaries'[k] = b
    BY <1>1
  <2> QED BY <1>2, <2>1 DEF AnchorIsOfItsRun, Ends
<1> QED BY <1>2 DEF AnchorIsOfItsRun, Ends

(* A prompt is one command. *)
LEMMA OnePrompt ==
  ASSUME NEW i \in Inputs, NEW open \in BOOLEAN
  PROVE  \E c \in Commands : /\ c.type = "prompt" /\ c.input = i
                             /\ PromptCmds(<<i>>, open) = <<c>>
<1> DEFINE c == [type |-> "prompt", input |-> i, steer |-> i \in Steers /\ (open \/ 1 > 1)]
<1>1. c \in Commands /\ c.type = "prompt" /\ c.input = i
  BY DEF Commands, CommandTypes
<1>2. Len(<<i>>) = 1 /\ <<i>>[1] = i
  OBVIOUS
<1>3. PromptCmds(<<i>>, open) = [k \in 1..1 |-> c]
  BY <1>2 DEF PromptCmds
<1> HIDE DEF c
<1>4. [k \in 1..1 |-> c] = <<c>>
  OBVIOUS
<1> QED BY <1>1, <1>3, <1>4

(* While the wire is up, a command joins those on the socket. *)
LEMMA SendsOne ==
  ASSUME TypeOK, wire = "up", NEW c \in Commands, Send(<<c>>)
  PROVE  toDaemon' = Append(toDaemon, c) /\ UNCHANGED blocked
BY AppendIsConcat DEF Send, TypeOK

(* What the lane sends keeps it calm. *)
LEMMA CalmOfPrompt ==
  ASSUME TypeOK, SpentInv, Calm, NEW i \in Inputs, PromptNow(i)
  PROVE  Calm'
<1>1. HasOpenTurn \in BOOLEAN
  BY DEF HasOpenTurn, TypeOK
<1>2. PICK c \in Commands : /\ c.type = "prompt" /\ c.input = i
                            /\ PromptCmds(<<i>>, HasOpenTurn) = <<c>>
  BY <1>1, OnePrompt
<1>3. toDaemon' = Append(toDaemon, c)
  BY <1>2, SendsOne DEF PromptNow, Calm, CalmLane
<1>4. /\ UNCHANGED <<connectionGap, closed, stop, wire, toLane, seated, resident, running,
                     queue, boundaries>>
      /\ pendingCheckpoints' = Append(pendingCheckpoints, i) /\ call[i] = "new"
  BY DEF PromptNow, prime, hist
<1>5. i \notin Elements(pendingCheckpoints)
  BY <1>4 DEF SpentInv, Left
<1>6. CalmLane' /\ CalmRun' /\ AnchorIsOfItsRun'
  BY <1>4 DEF Calm, CalmLane, CalmRun, AnchorIsOfItsRun, Ends
<1>7. toDaemon \in Seq(Commands) /\ pendingCheckpoints \in Seq(Inputs)
  BY DEF TypeOK
<1>8. CalmWire'
  <2>1. Elements(toDaemon') = Elements(toDaemon) \cup {c}
    BY <1>3, <1>7, ElementsAppend
  <2> QED BY <1>2, <1>4, <2>1 DEF Calm, CalmWire
<1>9. CalmStop'
  <2>1. /\ NoAbort(toDaemon) => NoAbort(toDaemon')
        /\ OneAbort(toDaemon) => OneAbort(toDaemon')
    BY <1>2, <1>3, <1>7, AbortsAppend
  <2> QED BY <1>4, <2>1 DEF Calm, CalmStop
<1>10. CalmLine'
  <2>1. /\ Line(toLane, running, queue, toDaemon)
        /\ Chain(pendingCheckpoints, toLane, running, queue, toDaemon)
    BY DEF Calm, CalmLine
  <2>2. /\ Chain(Append(pendingCheckpoints, i), toLane, running, queue, Append(toDaemon, c))
        /\ Line(toLane, running, queue, Append(toDaemon, c))
    BY <1>2, <1>5, <1>7, <2>1, ChainPrompts
  <2> QED BY <1>3, <1>4, <2>2 DEF CalmLine
<1> QED BY <1>6, <1>8, <1>9, <1>10 DEF Calm

(* An interrupt computes its boundary, and sends one abort at most. *)
LEMMA CalmOfInterrupt ==
  ASSUME TypeOK, Calm, Interrupt
  PROVE  Calm'
<1>0. AnchorIsOfItsRun'
  <2> DEFINE t == IF HasOpenTurn THEN openTurn.input ELSE NoInput
             b == Boundary("interrupted", NoInput, {}, t)
  <2>1. t \in Inputs \cup {NoInput}
    BY DEF TypeOK
  <2>2. boundaries' = Append(boundaries, b)
    BY DEF Interrupt
  <2> HIDE DEF t
  <2>3. b \in Boundaries /\ b.status # "ended"
    BY <2>1, BoundaryType DEF Boundary
  <2> HIDE DEF b
  <2> QED BY <2>2, <2>3, BoundaryAligned DEF Calm
<1>1. /\ UNCHANGED <<connectionGap, closed, wire, toLane, seated, resident, running, queue,
                     pendingCheckpoints>>
      /\ stop = "none"
  BY DEF Interrupt, prime
<1>2. NoAbort(toDaemon) /\ NoAbort(toLane)
  BY <1>1 DEF Calm, CalmStop
<1>3. CASE HasOpenTurn /\ ~wireDown
  <2> DEFINE c == Cmd("abort", NoInput)
  <2>1. c \in Commands /\ c.type = "abort"
    BY CmdType DEF Cmd, CommandTypes
  <2>2. Send(<<Cmd("abort", NoInput)>>) /\ stop' = "interrupting"
    BY <1>3 DEF Interrupt
  <2> HIDE DEF c
  <2>3. toDaemon' = Append(toDaemon, c)
    BY <2>1, <2>2, SendsOne DEF Calm, CalmLane, c
  <2>4. toDaemon \in Seq(Commands) /\ pendingCheckpoints \in Seq(Inputs)
    BY DEF TypeOK
  <2>5. CalmLane' /\ CalmRun' /\ AnchorIsOfItsRun'
    BY <1>0, <1>1, <2>2 DEF Calm, CalmLane, CalmRun
  <2>6. CalmWire'
    <3>1. Elements(toDaemon') = Elements(toDaemon) \cup {c}
      BY <2>1, <2>3, <2>4, ElementsAppend
    <3> QED BY <1>1, <2>1, <3>1 DEF Calm, CalmWire
  <2>7. CalmStop'
    <3>1. OneAbort(toDaemon')
      BY <1>2, <2>1, <2>3, <2>4, AbortsAppend
    <3> QED BY <1>1, <1>2, <2>2, <3>1 DEF CalmStop
  <2>8. CalmLine'
    <3>1. /\ Line(toLane, running, queue, toDaemon)
          /\ Chain(pendingCheckpoints, toLane, running, queue, toDaemon)
      BY DEF Calm, CalmLine
    <3>2. c.type # "prompt"
      BY <2>1
    <3>3. /\ Chain(pendingCheckpoints, toLane, running, queue, Append(toDaemon, c))
          /\ Line(toLane, running, queue, Append(toDaemon, c))
      BY <2>1, <2>4, <3>1, <3>2, ChainSends
    <3> QED BY <1>1, <2>3, <3>3 DEF CalmLine
  <2> QED BY <2>5, <2>6, <2>7, <2>8 DEF Calm
<1>4. CASE ~(HasOpenTurn /\ ~wireDown)
  <2>1. UNCHANGED <<stop, toDaemon>>
    BY <1>4 DEF Interrupt
  <2> QED BY <1>0, <1>1, <2>1 DEF Calm, CalmLane, CalmWire, CalmRun, CalmStop, CalmLine
<1> QED BY <1>3, <1>4

(* What the lane reads while it is calm. *)
LEMMA CalmHead ==
  ASSUME TypeOK, Calm, toLane # <<>>
  PROVE  /\ Head(toLane) \in Messages /\ CalmMessage(Head(toLane))
         /\ Elements(Tail(toLane)) \subseteq Elements(toLane)
         /\ Tail(toLane) \in Seq(Messages)
<1>1. toLane \in Seq(Messages)
  BY DEF TypeOK
<1>2. Head(toLane) \in Messages /\ Tail(toLane) \in Seq(Messages)
  BY <1>1, HeadTailProperties
<1> QED BY <1>1, <1>2, ElementsHeadTail DEF Calm, CalmWire

(* An answer read, other than a run's end, keeps the line. *)
LEMMA CalmOfAnswer ==
  ASSUME TypeOK, Calm, toLane # <<>>, Head(toLane).type # "agent_end",
         toLane' = Tail(toLane), UNCHANGED <<running, queue, toDaemon, pendingCheckpoints>>
  PROVE  CalmLine' /\ CalmWire' /\ CalmRun'
<1>1. /\ Line(toLane, running, queue, toDaemon)
      /\ Chain(pendingCheckpoints, toLane, running, queue, toDaemon)
      /\ pendingCheckpoints \in Seq(Inputs)
  BY DEF Calm, CalmLine, TypeOK
<1>2. /\ Line(Tail(toLane), running, queue, toDaemon)
      /\ Chain(pendingCheckpoints, Tail(toLane), running, queue, toDaemon)
  BY <1>1, ChainReads
<1> QED BY <1>2, CalmHead DEF Calm, CalmLine, CalmWire, CalmRun

LEMMA CalmOfPromptAnswer ==
  ASSUME TypeOK, Calm, PromptAnswered
  PROVE  Calm'
<1>1. /\ toLane # <<>> /\ Head(toLane).type = "prompt" /\ toLane' = Tail(toLane)
      /\ UNCHANGED <<connectionGap, closed, stop, wire, toDaemon, seated, resident, running,
                     queue, boundaries>>
  BY DEF PromptAnswered, Receive, prime, hist
<1>2. Head(toLane).ok
  BY <1>1, CalmHead DEF CalmMessage
<1>3. pendingCheckpoints \in Seq(Inputs) /\ Len(pendingCheckpoints) \in Nat
  BY LenProperties DEF TypeOK
<1>4. PopCheckpoints(pendingCheckpoints, 0) = pendingCheckpoints
  <2>1. PopCheckpoints(pendingCheckpoints, 0)
          = SubSeq(pendingCheckpoints, 1, Len(pendingCheckpoints))
    BY <1>3 DEF PopCheckpoints
  <2> QED BY <1>3, <2>1
<1>5. pendingCheckpoints' = pendingCheckpoints
  BY <1>2, <1>4 DEF PromptAnswered
<1>6. CalmLine' /\ CalmWire' /\ CalmRun'
  BY <1>1, <1>5, CalmOfAnswer
<1>7. CalmStop'
  <2>1. toLane \in Seq(Messages)
    BY DEF TypeOK
  <2>2. /\ NoAbort(toLane) => NoAbort(toLane')
        /\ OneAbort(toLane) => OneAbort(toLane')
    BY <1>1, <2>1, AbortsTail
  <2> QED BY <1>1, <2>2 DEF Calm, CalmStop
<1> QED BY <1>1, <1>6, <1>7 DEF Calm, CalmLane, AnchorIsOfItsRun, Ends

LEMMA CalmOfAbortAnswer ==
  ASSUME TypeOK, Calm, AbortAnswered
  PROVE  Calm'
<1>1. /\ toLane # <<>> /\ Head(toLane).type = "abort" /\ toLane' = Tail(toLane)
      /\ UNCHANGED <<connectionGap, closed, wire, seated, resident, running, queue,
                     pendingCheckpoints, boundaries>>
  BY DEF AbortAnswered, Receive, prime, hist
<1>2. toLane \in Seq(Messages)
  BY DEF TypeOK
<1>3. ~NoAbort(toLane)
  BY <1>1, <1>2, AbortsTail
<1>4. stop = "interrupting" /\ NoAbort(toDaemon) /\ OneAbort(toLane)
  BY <1>3 DEF Calm, CalmStop
<1>5. stop' = "none" /\ UNCHANGED toDaemon
  BY <1>4 DEF AbortAnswered
<1>6. AnchorIsOfItsRun'
  BY <1>1 DEF Calm, AnchorIsOfItsRun, Ends
<1>7. CalmStop'
  <2>1. NoAbort(toLane')
    BY <1>1, <1>2, <1>4, AbortsTail
  <2> QED BY <1>4, <1>5, <2>1 DEF CalmStop
<1>8. CalmLine' /\ CalmWire' /\ CalmRun'
  BY <1>1, <1>5, CalmOfAnswer
<1> QED BY <1>1, <1>5, <1>6, <1>7, <1>8 DEF Calm, CalmLane

(* The end of a run takes the oldest anchor, its own. *)
LEMMA CalmOfEnd ==
  ASSUME TypeOK, Calm, AgentEndDelivered
  PROVE  Calm'
<1> DEFINE p == pendingCheckpoints
           b == Boundary("ended", Head(p), Head(toLane).run, openTurn.input)
<1>1. /\ toLane # <<>> /\ Head(toLane).type = "agent_end" /\ toLane' = Tail(toLane)
      /\ UNCHANGED <<connectionGap, closed, stop, wire, toDaemon, seated, resident, running,
                     queue>>
      /\ ~closed
  BY DEF AgentEndDelivered, Receive, prime, Calm, CalmLane
<1>2. PICK i \in Inputs : Head(toLane).run = {i}
  BY <1>1, CalmHead DEF CalmMessage
<1>3. /\ Line(toLane, running, queue, toDaemon)
      /\ Chain(p, toLane, running, queue, toDaemon)
      /\ p \in Seq(Inputs)
  BY DEF Calm, CalmLine, TypeOK
<1>4. /\ p # <<>> /\ Head(p) = i
      /\ Chain(Tail(p), Tail(toLane), running, queue, toDaemon)
      /\ Line(Tail(toLane), running, queue, toDaemon)
  BY <1>1, <1>2, <1>3, ChainEnds
<1>5. /\ p' = Tail(p)
      /\ \/ UNCHANGED boundaries
         \/ boundaries' = Append(boundaries, b)
  BY <1>1, <1>4 DEF AgentEndDelivered, ShiftCheckpoints
<1>6. b \in Boundaries /\ b.anchor \in b.run
  <2>1. Head(toLane).run \in SUBSET Prompts /\ Head(p) \in Inputs \cup {NoInput}
    BY <1>1, <1>4, CalmHead DEF Messages
  <2>2. b \in Boundaries
    BY <2>1, BoundaryType DEF TypeOK
  <2> QED BY <1>2, <1>4, <2>2 DEF Boundary
<1> HIDE DEF p, b
<1>7. AnchorIsOfItsRun'
  <2>1. CASE UNCHANGED boundaries
    BY <2>1 DEF Calm, AnchorIsOfItsRun, Ends
  <2>2. CASE boundaries' = Append(boundaries, b)
    BY <1>6, <2>2, BoundaryAligned DEF Calm
  <2> QED BY <1>5, <2>1, <2>2
<1>8. CalmStop'
  <2>1. toLane \in Seq(Messages)
    BY DEF TypeOK
  <2>2. /\ NoAbort(toLane) => NoAbort(toLane')
        /\ OneAbort(toLane) => OneAbort(toLane')
    BY <1>1, <2>1, AbortsTail
  <2> QED BY <1>1, <2>2 DEF Calm, CalmStop
<1>9. CalmLine'
  BY <1>1, <1>4, <1>5 DEF CalmLine, p
<1>10. CalmWire' /\ CalmRun'
  BY <1>1, CalmHead DEF Calm, CalmWire, CalmRun
<1> QED BY <1>1, <1>7, <1>8, <1>9, <1>10 DEF Calm, CalmLane

-----------------------------------------------------------------------------
(* Prime, while nothing disturbs the lane. *)

LEMMA CalmCommand ==
  ASSUME TypeOK, Calm, toDaemon # <<>>
  PROVE  /\ Head(toDaemon) \in Commands /\ Head(toDaemon).type \in {"prompt", "abort"}
         /\ Elements(Tail(toDaemon)) \subseteq Elements(toDaemon)
         /\ Tail(toDaemon) \in Seq(Commands)
<1>1. toDaemon \in Seq(Commands)
  BY DEF TypeOK
<1>2. Head(toDaemon) \in Commands /\ Tail(toDaemon) \in Seq(Commands)
  BY <1>1, HeadTailProperties
<1> QED BY <1>1, <1>2, ElementsHeadTail DEF Calm, CalmWire

LEMMA CalmOfAdmission ==
  ASSUME TypeOK, Calm, DaemonAdmits, ~Happens("merge")
  PROVE  Calm'
<1> DEFINE c == Head(toDaemon)
           x == Answer(c, TRUE)
<1>1. /\ toDaemon # <<>> /\ c.type = "prompt" /\ toDaemon' = Tail(toDaemon)
      /\ toLane' = Append(toLane, x)
      /\ UNCHANGED <<connectionGap, closed, stop, wire, seated, resident, pendingCheckpoints,
                     boundaries>>
  BY DEF DaemonAdmits, Accept, lane
<1>2. ~(c.steer /\ running # {})
  BY DEF DaemonAdmits
<1>3. /\ running' = (IF running = {} THEN {c.input} ELSE running)
      /\ queue' = (IF running = {} THEN queue ELSE Append(queue, c.input))
  BY <1>2 DEF DaemonAdmits
<1>4. c \in Commands /\ c.input \in Inputs
  BY <1>1, CalmCommand DEF Commands
<1>5. x \in Messages /\ CalmMessage(x) /\ x.type = "prompt"
  BY <1>1, <1>4, AnswerType DEF Answer, CalmMessage
<1>6. toLane \in Seq(Messages) /\ toDaemon \in Seq(Commands) /\ pendingCheckpoints \in Seq(Inputs)
  BY DEF TypeOK
<1> HIDE DEF x
<1>7. /\ Line(toLane, running, queue, toDaemon)
      /\ Chain(pendingCheckpoints, toLane, running, queue, toDaemon)
  BY DEF Calm, CalmLine
<1>8. CalmLane' /\ AnchorIsOfItsRun'
  BY <1>1 DEF Calm, CalmLane, AnchorIsOfItsRun, Ends
<1>9. CalmWire'
  <2>1. Elements(toLane') = Elements(toLane) \cup {x}
    BY <1>1, <1>5, <1>6, ElementsAppend
  <2> QED BY <1>1, <1>5, <2>1, CalmCommand DEF Calm, CalmWire
<1>10. CalmRun'
  BY <1>3, <1>4 DEF Calm, CalmRun
<1>11. CalmStop'
  <2>1. /\ NoAbort(toLane) => NoAbort(toLane')
        /\ OneAbort(toLane) => OneAbort(toLane')
    BY <1>1, <1>5, <1>6, AbortsAppend
  <2>2. /\ NoAbort(toDaemon) => NoAbort(toDaemon')
        /\ OneAbort(toDaemon) => OneAbort(toDaemon')
    BY <1>1, <1>6, AbortsTail
  <2> QED BY <1>1, <2>1, <2>2 DEF Calm, CalmStop
<1>12. /\ Line(toLane, running', queue', toDaemon')
       /\ Chain(pendingCheckpoints, toLane, running', queue', toDaemon')
  <2>1. CASE running = {}
    <3>1. queue = <<>> /\ running' = {c.input} /\ queue' = <<>>
      BY <1>3, <2>1 DEF Calm, CalmRun
    <3>2. Line(toLane, {}, <<>>, toDaemon) /\ Chain(pendingCheckpoints, toLane, {}, <<>>, toDaemon)
      BY <1>7, <2>1, <3>1
    <3>3. /\ Chain(pendingCheckpoints, toLane, {c.input}, <<>>, Tail(toDaemon))
          /\ Line(toLane, {c.input}, <<>>, Tail(toDaemon))
      BY <1>1, <1>6, <3>2, ChainRuns
    <3> QED BY <1>1, <3>1, <3>3
  <2>2. CASE running # {}
    <3>1. running' = running /\ queue' = Append(queue, c.input)
      BY <1>3, <2>2
    <3>2. /\ Chain(pendingCheckpoints, toLane, running, Append(queue, c.input), Tail(toDaemon))
          /\ Line(toLane, running, Append(queue, c.input), Tail(toDaemon))
      BY <1>1, <1>6, <1>7, ChainWaits
    <3> QED BY <1>1, <3>1, <3>2
  <2> QED BY <2>1, <2>2
<1>13. CalmLine'
  <2>1. x.type # "agent_end"
    BY <1>5
  <2>2. /\ Chain(pendingCheckpoints, Append(toLane, x), running', queue', toDaemon')
        /\ Line(Append(toLane, x), running', queue', toDaemon')
    BY <1>5, <1>6, <1>12, <2>1, ChainAnswers
  <2> QED BY <1>1, <2>2 DEF CalmLine
<1> QED BY <1>8, <1>9, <1>10, <1>11, <1>13 DEF Calm

(* The run under way ends, its end on its way to the lane. *)
LEMMA CalmNextRun ==
  ASSUME TypeOK, Calm, running # {}, NextRun, NEW d, Line(toLane, running, queue, d),
         Chain(pendingCheckpoints, toLane, running, queue, d)
  PROVE  LET x == Push("agent_end", running)
         IN /\ x \in Messages /\ CalmMessage(x) /\ x.type = "agent_end"
            /\ toLane \o Streamed(x) = Append(toLane, x)
            /\ Chain(pendingCheckpoints, Append(toLane, x), running', queue', d)
            /\ Line(Append(toLane, x), running', queue', d)
            /\ CalmRun'
<1> DEFINE x == Push("agent_end", running)
<1>1. x \in Messages /\ x.type = "agent_end" /\ x.run = running
  BY PushType DEF Push, TypeOK
<1>2. PICK i \in Inputs : running = {i}
  BY DEF Calm, CalmRun
<1>3. CalmMessage(x)
  BY <1>1, <1>2 DEF CalmMessage
<1>4. toLane \in Seq(Messages) /\ pendingCheckpoints \in Seq(Inputs)
  BY DEF TypeOK
<1> HIDE DEF x
<1>5. toLane \o Streamed(x) = Append(toLane, x)
  <2>1. Streamed(x) = <<x>>
    BY DEF Streamed, Calm, CalmLane
  <2> QED BY <1>1, <1>4, <2>1, AppendIsConcat
<1>6. CASE queue = <<>>
  <2>1. running' = {} /\ queue' = <<>>
    BY <1>6 DEF NextRun
  <2>2. Line(toLane, running, <<>>, d) /\ Chain(pendingCheckpoints, toLane, running, <<>>, d)
    BY <1>6
  <2>3. /\ Chain(pendingCheckpoints, Append(toLane, x), {}, <<>>, d)
        /\ Line(Append(toLane, x), {}, <<>>, d)
    BY <1>1, <1>4, <2>2, ChainRests
  <2> QED BY <1>1, <1>3, <1>5, <2>1, <2>3 DEF CalmRun, x
<1>7. CASE queue # <<>>
  <2>1. running' = {Head(queue)} /\ queue' = Tail(queue)
    BY <1>7 DEF NextRun
  <2>2. Head(queue) \in Inputs
    BY <1>7, HeadTailProperties DEF Line
  <2>3. /\ Chain(pendingCheckpoints, Append(toLane, x), {Head(queue)}, Tail(queue), d)
        /\ Line(Append(toLane, x), {Head(queue)}, Tail(queue), d)
    BY <1>1, <1>4, <1>7, ChainGoesOn
  <2> QED BY <1>1, <1>3, <1>5, <2>1, <2>2, <2>3 DEF CalmRun, x
<1> QED BY <1>6, <1>7

(* An abort is answered, behind the end of the run it stops or alone. *)
LEMMA CalmOfAbort ==
  ASSUME TypeOK, Calm, DaemonAborts
  PROVE  Calm'
<1> DEFINE y == Answer(Head(toDaemon), TRUE)
           x == Push("agent_end", running)
<1>1. /\ toDaemon # <<>> /\ Head(toDaemon).type = "abort" /\ toDaemon' = Tail(toDaemon)
      /\ UNCHANGED <<connectionGap, closed, stop, wire, seated, resident, pendingCheckpoints,
                     boundaries>>
  BY DEF DaemonAborts, Accept, lane
<1>2. y \in Messages /\ y.type = "abort" /\ CalmMessage(y)
  BY <1>1, CalmCommand, AnswerType DEF Answer, CalmMessage
<1>3. toLane \in Seq(Messages) /\ toDaemon \in Seq(Commands) /\ pendingCheckpoints \in Seq(Inputs)
  BY DEF TypeOK
<1>4. /\ Line(toLane, running, queue, toDaemon')
      /\ Chain(pendingCheckpoints, toLane, running, queue, toDaemon')
  <2>1. Line(toLane, running, queue, toDaemon)
        /\ Chain(pendingCheckpoints, toLane, running, queue, toDaemon)
    BY DEF Calm, CalmLine
  <2>2. Head(toDaemon).type # "prompt"
    BY <1>1
  <2>3. /\ Chain(pendingCheckpoints, toLane, running, queue, Tail(toDaemon))
        /\ Line(toLane, running, queue, Tail(toDaemon))
    BY <1>1, <1>3, <2>1, <2>2, ChainTakes
  <2> QED BY <1>1, <2>3
<1>5. stop = "interrupting" /\ NoAbort(toDaemon') /\ NoAbort(toLane)
  <2>1. ~NoAbort(toDaemon) /\ (OneAbort(toDaemon) => NoAbort(toDaemon'))
    BY <1>1, <1>3, AbortsTail
  <2> QED BY <2>1 DEF Calm, CalmStop
<1>6. CalmLane' /\ AnchorIsOfItsRun'
  BY <1>1 DEF Calm, CalmLane, AnchorIsOfItsRun, Ends
<1>7. \A c \in Elements(toDaemon') : c.type \in {"prompt", "abort"}
  BY <1>1, CalmCommand DEF Calm, CalmWire
<1>8. ASSUME NEW l \in Seq(Messages), NoAbort(l), \A m \in Elements(l) : CalmMessage(m),
             CalmRun', Line(l, running', queue', toDaemon'),
             Chain(pendingCheckpoints, l, running', queue', toDaemon'),
             toLane' = Append(l, y)
      PROVE  Calm'
  <2> HIDE DEF y
  <2>1. Elements(toLane') = Elements(l) \cup {y}
    BY <1>2, <1>8, ElementsAppend
  <2>2. CalmWire'
    BY <1>2, <1>7, <1>8, <2>1 DEF CalmWire
  <2>3. CalmStop'
    <3>1. OneAbort(toLane')
      BY <1>2, <1>8, AbortsAppend
    <3> QED BY <1>1, <1>5, <3>1 DEF CalmStop
  <2>4. CalmLine'
    <3>1. y.type # "agent_end"
      BY <1>2
    <3>2. /\ Chain(pendingCheckpoints, Append(l, y), running', queue', toDaemon')
          /\ Line(Append(l, y), running', queue', toDaemon')
      BY <1>2, <1>3, <1>8, <3>1, ChainAnswers
    <3> QED BY <1>1, <1>8, <3>2 DEF CalmLine
  <2> QED BY <1>6, <1>8, <2>2, <2>3, <2>4 DEF Calm
<1>9. CASE running # {} /\ toLane' = toLane \o Streamed(x) \o <<y>> /\ NextRun
  <2> DEFINE l == Append(toLane, x)
  <2>1. /\ x \in Messages /\ CalmMessage(x) /\ x.type = "agent_end"
        /\ toLane \o Streamed(x) = l
        /\ Chain(pendingCheckpoints, l, running', queue', toDaemon')
        /\ Line(l, running', queue', toDaemon')
        /\ CalmRun'
    BY <1>4, <1>9, CalmNextRun
  <2> HIDE DEF x, y
  <2>2. l \in Seq(Messages) /\ Elements(l) = Elements(toLane) \cup {x} /\ NoAbort(l)
    <3>1. x.type # "abort"
      BY <2>1
    <3> QED BY <1>3, <1>5, <2>1, <3>1, AppendProperties, ElementsAppend, AbortsAppend
  <2> HIDE DEF l
  <2>3. \A m \in Elements(l) : CalmMessage(m)
    BY <2>1, <2>2 DEF Calm, CalmWire
  <2>4. toLane' = Append(l, y)
    BY <1>2, <1>9, <2>1, <2>2, AppendIsConcat
  <2> QED BY <1>8, <2>1, <2>2, <2>3, <2>4
<1>10. CASE toLane' = Append(toLane, y) /\ UNCHANGED <<running, queue>>
  <2>1. CalmRun'
    BY <1>10 DEF Calm, CalmRun
  <2>2. \A m \in Elements(toLane) : CalmMessage(m)
    BY DEF Calm, CalmWire
  <2>3. /\ Line(toLane, running', queue', toDaemon')
        /\ Chain(pendingCheckpoints, toLane, running', queue', toDaemon')
    BY <1>4, <1>10
  <2> QED BY <1>3, <1>5, <1>8, <1>10, <2>1, <2>2, <2>3
<1> QED BY <1>9, <1>10 DEF DaemonAborts

LEMMA CalmOfRunEnd ==
  ASSUME TypeOK, Calm, DaemonEndsRun
  PROVE  Calm'
<1> DEFINE x == Push("agent_end", running)
           l == Append(toLane, x)
<1>1. /\ running # {} /\ NextRun /\ toLane' = toLane \o Streamed(x)
      /\ UNCHANGED <<connectionGap, closed, stop, wire, toDaemon, seated, resident,
                     pendingCheckpoints, boundaries>>
  BY DEF DaemonEndsRun, lane, hist
<1>2. /\ Line(toLane, running, queue, toDaemon)
      /\ Chain(pendingCheckpoints, toLane, running, queue, toDaemon)
  BY DEF Calm, CalmLine
<1>3. /\ x \in Messages /\ CalmMessage(x) /\ x.type = "agent_end"
      /\ toLane \o Streamed(x) = l
      /\ Chain(pendingCheckpoints, l, running', queue', toDaemon)
      /\ Line(l, running', queue', toDaemon)
      /\ CalmRun'
  BY <1>1, <1>2, CalmNextRun
<1> HIDE DEF x
<1>4. toLane \in Seq(Messages)
  BY DEF TypeOK
<1>5. CalmWire'
  <2>1. Elements(l) = Elements(toLane) \cup {x}
    BY <1>3, <1>4, ElementsAppend
  <2> QED BY <1>1, <1>3, <2>1 DEF Calm, CalmWire
<1>6. CalmStop'
  <2>0. x.type # "abort"
    BY <1>3
  <2>1. /\ NoAbort(toLane) => NoAbort(l)
        /\ OneAbort(toLane) => OneAbort(l)
    BY <1>3, <1>4, <2>0, AbortsAppend
  <2> QED BY <1>1, <1>3, <2>1 DEF Calm, CalmStop
<1>7. CalmLine'
  BY <1>1, <1>3 DEF CalmLine
<1> QED BY <1>1, <1>3, <1>5, <1>6, <1>7 DEF Calm, CalmLane, AnchorIsOfItsRun, Ends

(* Nothing but these steps is taken while no fault happens. *)
LEMMA CalmStep ==
  ASSUME TypeOK, OneRequestPerCall, SpentInv, Calm, Next, \A f \in Faults : ~Happens(f)
  PROVE  Calm'
<1>1. /\ wire = "up" /\ resident /\ connectionGap = "none"
      /\ "merge" \in Faults /\ "refuse" \in Faults /\ "timeout" \in Faults
      /\ "attach" \in Faults /\ "drop" \in Faults /\ "release" \in Faults
      /\ "retry" \in Faults /\ "foreign" \in Faults /\ "close" \in Faults
  BY DEF Calm, CalmLane, Faults
<1>2. \A f \in Faults : ~Fault(f)
  BY DEF Fault
<1>3. ASSUME NEW i \in Inputs, PromptNow(i) \/ Park(i) \/ AskAttach(i) \/ PromptTimesOut(i)
      PROVE  Calm'
  BY <1>1, <1>2, <1>3, CalmOfPrompt DEF Park, AskAttach, PromptTimesOut
<1>4. CASE Interrupt \/ Release
  BY <1>1, <1>2, <1>4, CalmOfInterrupt DEF Release
<1>5. CASE LaneReads
  <2>1. ASSUME toLane # <<>>
        PROVE  Head(toLane).type \in {"prompt", "abort", "agent_end"}
    BY <2>1, CalmHead DEF CalmMessage
  <2>2. ~AttachAnswered /\ ~QueueAnswered /\ ~DetachAnswered /\ ~ClosedDelivered
    BY <2>1 DEF AttachAnswered, QueueAnswered, DetachAnswered, ClosedDelivered, Receive
  <2> QED BY <1>5, <2>2, CalmOfPromptAnswer, CalmOfAbortAnswer, CalmOfEnd DEF LaneReads
<1>6. CASE ConnectionLost \/ ConnectionRestored \/ ConnectionUnavailable
           \/ DialSucceeds \/ DialFails
  BY <1>1, <1>2, <1>6 DEF ConnectionLost, ConnectionRestored, ConnectionUnavailable,
                          DialSucceeds, DialFails
<1>7. CASE DaemonReads
  <2>1. ASSUME toDaemon # <<>>
        PROVE  Head(toDaemon).type \in {"prompt", "abort"}
    BY <2>1, CalmCommand
  <2>2. ~DaemonAttaches /\ ~DaemonReadsQueue /\ ~DaemonDetaches
    BY <2>1 DEF DaemonAttaches, DaemonReadsQueue, DaemonDetaches, Accept
  <2>3. ~DaemonRefuses
    BY <1>1, <1>2 DEF DaemonRefuses
  <2> QED BY <1>1, <1>7, <2>2, <2>3, CalmOfAdmission, CalmOfAbort DEF DaemonReads
<1>8. CASE DaemonEndsRun \/ DaemonRetriesRun \/ ForeignPrompt \/ DaemonClosesSession
  BY <1>1, <1>2, <1>8, CalmOfRunEnd DEF DaemonRetriesRun, ForeignPrompt, DaemonClosesSession
<1> QED BY <1>3, <1>4, <1>5, <1>6, <1>7, <1>8 DEF Next

(* As long as nothing disturbs the lane, a boundary that ends a run carries  *)
(* the anchor of a prompt of that run, whatever bb sends and interrupts:     *)
(* pendingCheckpoints.shift() finds the run's own anchor in front.           *)
THEOREM AnchorsStayAligned == Spec => []AnchorsAligned
<1> DEFINE Inv == SpentInv /\ (Undisturbed => Calm)
<1>1. Init => Inv
  BY CalmInit, DistinctShort, ElementsEmpty DEF Init, SpentInv
<1>2. TypeOK /\ OneRequestPerCall /\ DownInv /\ Inv /\ [Next]_vars => Inv'
  <2> SUFFICES ASSUME TypeOK, OneRequestPerCall, DownInv, SpentInv,
                      Undisturbed => Calm, [Next]_vars
               PROVE  SpentInv' /\ (Undisturbed' => Calm')
    OBVIOUS
  <2>1. SpentInv'
    <3>1. CASE UNCHANGED vars
      <4>1. UNCHANGED <<call, pendingCheckpoints, boundaries>>
        BY <3>1 DEF vars, lane, hist
      <4> QED BY <4>1 DEF SpentInv, Left, Distinct
    <3> QED BY <3>1, EveryStepIsOneMove, SpentStep
  <2>2. ASSUME Undisturbed' PROVE Calm'
    <3>1. Calm /\ \A f \in Faults : ~Happens(f)
      BY <2>2, NothingHappened
    <3>2. CASE UNCHANGED vars
      BY <3>1, <3>2 DEF vars, lane, prime, hist, Calm, CalmLane, CalmWire, CalmRun, CalmStop,
                        CalmLine, AnchorIsOfItsRun, Ends
    <3> QED BY <3>1, <3>2, CalmStep
  <2> QED BY <2>1, <2>2
<1>3. Inv => AnchorsAligned
  BY DEF AnchorsAligned, Calm
<1> QED BY <1>1, <1>2, <1>3, TypeCorrect, OneRequestPerCallHolds, DownInvHolds, PTL DEF Spec

-----------------------------------------------------------------------------
(* The lane that counts as live is attached, until the wire drops twice.     *)

(* What the lane reads as the answer of an attach, or behind one. *)
Asks(m) == (m.type = "attach" /\ m.ok) \/ m.type = "get_queue"

(* The lane behaves as if it were attached, or is about to. *)
Evidence ==
  \/ ~wireDown \/ connectionGap = "none" \/ reattach = "reading"
  \/ \E i \in Inputs : call[i] = "reading"
  \/ \E m \in Elements(toLane) : Asks(m)
  \/ \E c \in Elements(toDaemon) : c.type \in {"get_queue", "prompt"}

(* The lane stopped listening, or is about to; its session is gone; or the   *)
(* wire dropped twice: there is no way back from any of these.               *)
Adrift == closed \/ ~resident \/ stop = "detaching" \/ faults["drop"] > 1

(* Before the first drop no attach was needed. *)
NeverDropped ==
  /\ wire = "up" /\ connectionGap = "none" /\ reattach = "none"
  /\ \A i \in Inputs : call[i] # "reading"
  /\ \A c \in Elements(toDaemon) : c.type # "attach"
  /\ \A m \in Elements(toLane) : m.type # "attach"

(* Until the wire is back the lane waits, and only attaches wait with it. *)
WaitsForWire ==
  /\ wireDown /\ connectionGap # "none" /\ reattach # "reading"
  /\ \A i \in Inputs : call[i] # "reading"
  /\ \A c \in Elements(blocked) : c.type = "attach"

Moored ==
  /\ \A c \in Elements(toDaemon) \cup Elements(blocked) : c.type # "detach"
  /\ wire # "up" => WaitsForWire
  /\ wire = "up" /\ Evidence => seated
  /\ faults["drop"] = 0 => NeverDropped

SeatInv == Adrift \/ Moored

(* Who went adrift stays so. *)
LEMMA StaysAdrift ==
  ASSUME TypeOK, Next, Adrift
  PROVE  Adrift'
<1>1. CASE faults["drop"] > 1
  <2>1. faults["drop"] \in Nat /\ "drop" \in Faults
    BY DEF TypeOK, Faults
  <2>2. CASE UNCHANGED faults
    BY <1>1, <2>2 DEF Adrift
  <2>3. ASSUME NEW f \in Faults, Happens(f) PROVE Adrift'
    <3>1. faults'["drop"] \in {faults["drop"], faults["drop"] + 1}
      BY <2>1, <2>3 DEF Happens, TypeOK
    <3> QED BY <1>1, <2>1, <3>1 DEF Adrift
  <2> QED BY <2>2, <2>3, FaultsMove
<1>2. CASE closed \/ ~resident \/ stop = "detaching"
  <2> USE DEF Adrift, lane, prime, hist
  <2>1. ASSUME NEW i \in Inputs, PromptNow(i) \/ Park(i) \/ AskAttach(i) \/ PromptTimesOut(i)
        PROVE  Adrift'
    BY <1>2, <2>1 DEF PromptNow, Park, AskAttach, PromptTimesOut
  <2>2. CASE Interrupt \/ Release
    BY <1>2, <2>2 DEF Interrupt, Release
  <2>3. CASE LaneReads
    <3>1. CASE PromptAnswered \/ AttachAnswered \/ QueueAnswered
      BY <1>2, <3>1 DEF PromptAnswered, AttachAnswered, QueueAnswered
    <3>2. CASE AbortAnswered \/ DetachAnswered \/ AgentEndDelivered \/ ClosedDelivered
      BY <1>2, <3>2 DEF AbortAnswered, DetachAnswered, AgentEndDelivered, ClosedDelivered
    <3> QED BY <2>3, <3>1, <3>2 DEF LaneReads
  <2>4. CASE ConnectionLost
    <3>1. PICK down : /\ stop' = StopAfterReject(down)
                      /\ closed' = (closed \/ StopAfterReject(down) = "released")
                      /\ UNCHANGED resident
      BY <2>4 DEF ConnectionLost
    <3> QED BY <1>2, <3>1 DEF StopAfterReject
  <2>5. CASE ConnectionRestored \/ ConnectionUnavailable
    BY <1>2, <2>5 DEF ConnectionRestored, ConnectionUnavailable, StopAfterReject
  <2>6. CASE DialSucceeds \/ DialFails
    BY <1>2, <2>6 DEF DialSucceeds, DialFails, StopAfterReject
  <2>7. CASE DaemonReads
    BY <1>2, <2>7 DEF DaemonReads, DaemonAdmits, DaemonRefuses, DaemonAttaches,
                      DaemonReadsQueue, DaemonAborts, DaemonDetaches, Accept
  <2>8. CASE DaemonEndsRun \/ DaemonRetriesRun \/ ForeignPrompt \/ DaemonClosesSession
    BY <1>2, <2>8 DEF DaemonEndsRun, DaemonRetriesRun, ForeignPrompt, DaemonClosesSession
  <2> QED BY <2>1, <2>2, <2>3, <2>4, <2>5, <2>6, <2>7, <2>8 DEF Next
<1> QED BY <1>1, <1>2 DEF Adrift

(* A step that gives no new reason to be attached. *)
LEMMA MooredQuietly ==
  ASSUME Moored, faults'["drop"] = faults["drop"],
         UNCHANGED <<wire, wireDown, connectionGap, seated>>, reattach' \in {reattach, "none"},
         \A i \in Inputs : call'[i] = "reading" => call[i] = "reading",
         \A m \in Elements(toLane') :
           \/ m \in Elements(toLane)
           \/ ~Asks(m) /\ (m.type = "attach" => faults["drop"] # 0),
         \A c \in Elements(toDaemon') :
           \/ c \in Elements(toDaemon) \/ c.type = "abort"
           \/ c.type = "attach" /\ faults["drop"] # 0,
         \A c \in Elements(blocked') : c \in Elements(blocked) \/ c.type = "attach"
  PROVE  Moored'
<1>1. Evidence' => Evidence
  BY DEF Evidence, Asks
<1>2. wire # "up" => WaitsForWire'
  BY DEF Moored, WaitsForWire
<1>3. faults["drop"] = 0 => NeverDropped'
  BY DEF Moored, NeverDropped, Asks
<1> QED BY <1>1, <1>2, <1>3 DEF Moored

(* A step of a lane that is attached. *)
LEMMA MooredSeated ==
  ASSUME Moored, wire = "up", wire' = "up", seated', faults'["drop"] = faults["drop"],
         \A c \in Elements(toDaemon') \cup Elements(blocked') :
           c \in Elements(toDaemon) \cup Elements(blocked) \/ c.type # "detach",
         faults["drop"] = 0 => NeverDropped'
  PROVE  Moored'
BY DEF Moored

(* Where a command goes. *)
LEMMA SendAdds ==
  ASSUME TypeOK, NEW cmds \in Seq(Commands), Send(cmds)
  PROVE  /\ wire = "up" => /\ Elements(toDaemon') = Elements(toDaemon) \cup Elements(cmds)
                           /\ blocked' = blocked
         /\ wire # "up" => /\ Elements(blocked') = Elements(blocked) \cup Elements(cmds)
                           /\ toDaemon' = toDaemon
<1>1. toDaemon \in Seq(Commands) /\ blocked \in Seq(Commands)
  BY DEF TypeOK
<1> QED BY <1>1, ElementsConcat DEF Send

LEMMA PromptCmdsTypes ==
  ASSUME NEW s \in Seq(Inputs), NEW open \in BOOLEAN
  PROVE  \A c \in Elements(PromptCmds(s, open)) : c.type = "prompt"
<1> DEFINE f == PromptCmds(s, open)
<1>1. \A k \in DOMAIN f : f[k].type = "prompt"
  BY DEF PromptCmds
<1> HIDE DEF f
<1>2. \A c \in Elements(f) : c.type = "prompt"
  BY <1>1 DEF Elements
<1> QED BY <1>2 DEF f

LEMMA OneCommand ==
  ASSUME NEW type \in CommandTypes \ {"prompt"}, NEW i \in Inputs \cup {NoInput}
  PROVE  /\ <<Cmd(type, i)>> \in Seq(Commands)
         /\ \A c \in Elements(<<Cmd(type, i)>>) : c.type = type
<1> DEFINE c == Cmd(type, i)
<1>1. c \in Commands /\ c.type = type
  BY CmdType DEF Cmd
<1> HIDE DEF c
<1>2. <<c>> \in Seq(Commands) /\ Elements(<<c>>) = {c}
  BY <1>1, ElementsOne
<1> QED BY <1>1, <1>2 DEF c

LEMMA MooredOfInputs ==
  ASSUME TypeOK, Moored, ~Adrift, ~Adrift',
         \/ \E i \in Inputs : PromptNow(i) \/ Park(i) \/ AskAttach(i) \/ PromptTimesOut(i)
         \/ Interrupt \/ Release
  PROVE  Moored'
<1>0. HasOpenTurn \in BOOLEAN
  BY DEF HasOpenTurn, TypeOK
<1>1. ASSUME NEW i \in Inputs, PromptNow(i) PROVE Moored'
  <2>1. /\ UNCHANGED <<connectionGap, wireDown, reattach, wire, toLane, seated, faults>>
        /\ connectionGap = "none"
        /\ \A j \in Inputs : call'[j] = "reading" => call[j] = "reading"
    BY <1>1 DEF PromptNow, IsLive, prime, hist, TypeOK
  <2>2. <<i>> \in Seq(Inputs) /\ Send(PromptCmds(<<i>>, HasOpenTurn))
    BY <1>1 DEF PromptNow
  <2>3. wire = "up" /\ seated
    BY <2>1 DEF Moored, WaitsForWire, Evidence
  <2>4. /\ \A c \in Elements(toDaemon') : c \in Elements(toDaemon) \/ c.type = "prompt"
        /\ blocked' = blocked
    BY <1>0, <2>2, <2>3, SendAdds, PromptCmdsType, PromptCmdsTypes
  <2> QED BY <2>1, <2>3, <2>4, MooredSeated DEF Moored, NeverDropped
<1>2. ASSUME NEW i \in Inputs, Park(i) PROVE Moored'
  BY <1>2, MooredQuietly DEF Park, prime, hist, TypeOK
<1>3. ASSUME NEW i \in Inputs, AskAttach(i) PROVE Moored'
  <2>1. /\ UNCHANGED <<connectionGap, wireDown, reattach, wire, toLane, seated, faults>>
        /\ connectionGap = "unavailable"
        /\ \A j \in Inputs : call'[j] = "reading" => call[j] = "reading"
    BY <1>3 DEF AskAttach, prime, hist, TypeOK
  <2>2. faults["drop"] # 0
    BY <2>1 DEF Moored, NeverDropped
  <2>3. /\ <<Cmd("attach", i)>> \in Seq(Commands) /\ Send(<<Cmd("attach", i)>>)
        /\ \A c \in Elements(<<Cmd("attach", i)>>) : c.type = "attach"
    BY <1>3, OneCommand DEF AskAttach, CommandTypes
  <2>4. /\ \A c \in Elements(toDaemon') : c \in Elements(toDaemon) \/ c.type = "attach"
        /\ \A c \in Elements(blocked') : c \in Elements(blocked) \/ c.type = "attach"
    BY <2>3, SendAdds
  <2> QED BY <2>1, <2>2, <2>4, MooredQuietly
<1>4. ASSUME NEW i \in Inputs, PromptTimesOut(i) PROVE Moored'
  <2>1. faults'["drop"] = faults["drop"]
    BY <1>4 DEF PromptTimesOut, Fault, Happens, TypeOK, Faults
  <2> QED BY <1>4, <2>1, MooredQuietly DEF PromptTimesOut, prime, TypeOK
<1>5. CASE Interrupt
  <2>1. UNCHANGED <<connectionGap, wireDown, reattach, wire, toLane, seated, faults, call>>
    BY <1>5 DEF Interrupt, prime
  <2>2. CASE HasOpenTurn /\ ~wireDown
    <3>1. wire = "up"
      BY <2>2 DEF Moored, WaitsForWire
    <3>2. /\ <<Cmd("abort", NoInput)>> \in Seq(Commands) /\ Send(<<Cmd("abort", NoInput)>>)
          /\ \A c \in Elements(<<Cmd("abort", NoInput)>>) : c.type = "abort"
      BY <1>5, <2>2, OneCommand DEF Interrupt, CommandTypes
    <3>3. /\ \A c \in Elements(toDaemon') : c \in Elements(toDaemon) \/ c.type = "abort"
          /\ blocked' = blocked
      BY <3>1, <3>2, SendAdds
    <3> QED BY <2>1, <3>3, MooredQuietly
  <2>3. CASE ~(HasOpenTurn /\ ~wireDown)
    <3>1. UNCHANGED <<blocked, toDaemon>>
      BY <1>5, <2>3 DEF Interrupt
    <3> QED BY <2>1, <3>1, MooredQuietly
  <2> QED BY <2>2, <2>3
<1>6. CASE Release
  <2> DEFINE woken == IF connectionGap = "pending" THEN parked ELSE <<>>
             sent == <<Cmd("abort", NoInput)>>
             cmds == sent \o PromptCmds(woken, FALSE)
  <2>1. /\ UNCHANGED <<wireDown, reattach, wire, toLane, seated>> /\ connectionGap' = "none"
        /\ Fault("release")
    BY <1>6 DEF Release, prime
  <2>2. HasOpenTurn /\ ~wireDown
    BY <1>6 DEF Release, Adrift
  <2>3. call' = MoveCalls(Elements(woken), "sent") /\ Send(cmds)
    <3>1. (HasOpenTurn /\ ~(HasOpenTurn /\ ~wireDown)) = FALSE
      BY <2>2
    <3> QED BY <1>6, <2>2, <3>1 DEF Release
  <2>4. wire = "up" /\ seated
    BY <2>2 DEF Moored, WaitsForWire, Evidence
  <2>5. woken \in Seq(Inputs)
    BY DEF TypeOK
  <2> HIDE DEF woken
  <2>6. sent \in Seq(Commands) /\ \A c \in Elements(sent) : c.type = "abort"
    BY OneCommand DEF CommandTypes
  <2>7. /\ PromptCmds(woken, FALSE) \in Seq(Commands)
        /\ \A c \in Elements(PromptCmds(woken, FALSE)) : c.type = "prompt"
    BY <2>5, PromptCmdsType, PromptCmdsTypes
  <2> HIDE DEF sent
  <2>8. cmds \in Seq(Commands) /\ \A c \in Elements(cmds) : c.type \in {"abort", "prompt"}
    <3> DEFINE t == PromptCmds(woken, FALSE)
    <3>1. t \in Seq(Commands) /\ \A c \in Elements(t) : c.type = "prompt"
      BY <2>7
    <3> HIDE DEF t
    <3>2. sent \o t \in Seq(Commands) /\ Elements(sent \o t) = Elements(sent) \cup Elements(t)
      BY <2>6, <3>1, ElementsConcat, ConcatType
    <3>3. \A c \in Elements(sent \o t) : c.type \in {"abort", "prompt"}
      BY <2>6, <3>1, <3>2
    <3> QED BY <3>2, <3>3 DEF t
  <2> HIDE DEF cmds
  <2>9. /\ \A c \in Elements(toDaemon') : c \in Elements(toDaemon) \/ c.type \in {"abort", "prompt"}
        /\ blocked' = blocked
    BY <2>3, <2>4, <2>8, SendAdds
  <2>10. faults'["drop"] = faults["drop"]
    BY <2>1 DEF Fault, Happens, TypeOK, Faults
  <2>11. \A i \in Inputs : call'[i] = "reading" => call[i] = "reading"
    BY <2>3 DEF MoveCalls
  <2> QED BY <2>1, <2>4, <2>9, <2>10, <2>11, MooredSeated DEF Moored, NeverDropped
<1> QED BY <1>1, <1>2, <1>3, <1>4, <1>5, <1>6

LEMMA MooredOfReads ==
  ASSUME TypeOK, OneRequestPerCall, Moored, ~Adrift, ~Adrift', LaneReads
  PROVE  Moored'
<1>1. /\ toLane # <<>> /\ toLane' = Tail(toLane)
      /\ Head(toLane) \in Elements(toLane) /\ Elements(toLane') \subseteq Elements(toLane)
      /\ wire = "up" /\ Head(toLane) \in Messages
  <2>1. toLane # <<>> /\ toLane' = Tail(toLane)
    BY DEF LaneReads, PromptAnswered, AttachAnswered, QueueAnswered, AbortAnswered,
           DetachAnswered, AgentEndDelivered, ClosedDelivered, Receive
  <2>2. toLane \in Seq(Messages)
    BY DEF TypeOK
  <2>3. Head(toLane) \in Elements(toLane) /\ Elements(Tail(toLane)) \subseteq Elements(toLane)
    BY <2>1, <2>2, ElementsHeadTail
  <2> QED BY <2>1, <2>2, <2>3, AnsweredAlone, ElementsType
<1>2. CASE PromptAnswered
  <2>1. /\ UNCHANGED <<connectionGap, wireDown, reattach, wire, seated, faults, toDaemon, blocked>>
        /\ \A j \in Inputs : call'[j] = "reading" => call[j] = "reading"
    BY <1>2 DEF PromptAnswered, prime, hist, TypeOK
  <2> QED BY <1>1, <2>1, MooredQuietly
<1>3. CASE AttachAnswered
  <2> DEFINE i == Head(toLane).input
  <2>1. /\ UNCHANGED <<connectionGap, wireDown, wire, seated, faults>>
        /\ Head(toLane).type = "attach" /\ i \in Inputs \cup {NoInput}
    BY <1>1, <1>3 DEF AttachAnswered, prime, hist, Receive, Messages
  <2>2. faults["drop"] # 0
    BY <1>1, <2>1 DEF Moored, NeverDropped
  <2>3. CASE Head(toLane).ok
    <3>1. seated
      BY <1>1, <2>1, <2>3 DEF Moored, Evidence, Asks
    <3>2. Send(<<Cmd("get_queue", i)>>)
      BY <1>3, <2>3 DEF AttachAnswered
    <3>3. /\ blocked' = blocked
          /\ \A c \in Elements(toDaemon') : c \in Elements(toDaemon) \/ c.type = "get_queue"
      <4>1. /\ <<Cmd("get_queue", i)>> \in Seq(Commands)
            /\ \A c \in Elements(<<Cmd("get_queue", i)>>) : c.type = "get_queue"
        BY <2>1, OneCommand DEF CommandTypes
      <4> QED BY <1>1, <3>2, <4>1, SendAdds
    <3> QED BY <1>1, <2>1, <2>2, <3>1, <3>3, MooredSeated
  <2>4. CASE ~Head(toLane).ok
    <3>1. /\ reattach' \in {reattach, "none"} /\ Send(<<>>)
          /\ \A j \in Inputs : call'[j] = "reading" => call[j] = "reading"
      <4>1. Send(<<>>)
        BY <1>3, <2>4 DEF AttachAnswered
      <4>2. CASE i = NoInput
        BY <1>3, <2>4, <4>1, <4>2 DEF AttachAnswered
      <4>3. CASE i # NoInput
        <5>1. call' = [call EXCEPT ![i] = "failed"] /\ UNCHANGED reattach
          BY <1>3, <2>4, <4>3 DEF AttachAnswered
        <5>2. \A j \in Inputs : call'[j] \in {call[j], "failed"}
          BY <5>1 DEF TypeOK
        <5> QED BY <4>1, <5>1, <5>2
      <4> QED BY <4>2, <4>3
    <3>2. UNCHANGED <<blocked, toDaemon>>
      BY <3>1, ConcatEmptySeq DEF TypeOK, Send
    <3> QED BY <1>1, <2>1, <3>1, <3>2, MooredQuietly
  <2> QED BY <2>3, <2>4
<1>4. CASE QueueAnswered
  <2> DEFINE i == Head(toLane).input
             woken == Woken(i)
             cmds == PromptCmds(woken, HasOpenTurn)
  <2>1. /\ UNCHANGED <<wire, seated, faults>> /\ connectionGap' = "none"
        /\ Head(toLane).type = "get_queue" /\ i \in Inputs \cup {NoInput}
        /\ call' = MoveCalls(Elements(woken), "sent") /\ Send(cmds)
        /\ reattach' \in {reattach, "none"}
    BY <1>1, <1>4 DEF QueueAnswered, prime, hist, Receive, Messages
  <2>2. seated
    BY <1>1, <2>1 DEF Moored, Evidence, Asks
  <2>3. woken \in Seq(Inputs) /\ HasOpenTurn \in BOOLEAN
    BY <2>1, WokenType DEF TypeOK, HasOpenTurn
  <2>4. \A j \in Inputs : call'[j] = "reading" => call[j] = "reading"
    BY <2>1 DEF MoveCalls
  <2> HIDE DEF woken
  <2>5. cmds \in Seq(Commands) /\ \A c \in Elements(cmds) : c.type = "prompt"
    BY <2>3, PromptCmdsType, PromptCmdsTypes
  <2> HIDE DEF cmds
  <2>6. /\ blocked' = blocked
        /\ \A c \in Elements(toDaemon') : c \in Elements(toDaemon) \/ c.type = "prompt"
    BY <1>1, <2>1, <2>5, SendAdds
  <2> QED BY <1>1, <2>1, <2>2, <2>4, <2>6, MooredSeated DEF Moored, NeverDropped
<1>5. CASE AbortAnswered
  <2>1. stop = "interrupting"
    BY <1>5 DEF AbortAnswered, Adrift
  <2>2. UNCHANGED <<connectionGap, wireDown, reattach, wire, seated, faults, toDaemon, blocked, call>>
    BY <1>5, <2>1 DEF AbortAnswered, prime, hist
  <2> QED BY <1>1, <2>2, MooredQuietly
<1>6. CASE AgentEndDelivered
  <2>1. UNCHANGED <<connectionGap, wireDown, reattach, wire, seated, faults, toDaemon, blocked, call>>
    BY <1>6 DEF AgentEndDelivered, prime
  <2> QED BY <1>1, <2>1, MooredQuietly
<1>7. ~DetachAnswered /\ ~ClosedDelivered
  BY DEF Adrift, DetachAnswered, ClosedDelivered
<1> QED BY <1>2, <1>3, <1>4, <1>5, <1>6, <1>7 DEF LaneReads

(* The first drop: the lane hears it, and nothing was being attached. *)
LEMMA MooredOfLoss ==
  ASSUME TypeOK, Moored, ~Adrift, ~Adrift', ConnectionLost
  PROVE  Moored'
<1>1. faults["drop"] \in Nat /\ faults'["drop"] = faults["drop"] + 1
  BY DEF ConnectionLost, Fault, Happens, TypeOK, Faults
<1>2. faults["drop"] = 0 /\ faults'["drop"] = 1
  BY <1>1 DEF Adrift
<1>3. NeverDropped /\ HearsLoss
  BY <1>2 DEF Moored, NeverDropped, HearsLoss, Adrift
<1>4. ~(reattach = "reading" \/ InPhase("reading") # {})
  BY <1>3 DEF NeverDropped, InPhase
<1> DEFINE turn == IF FailsOpenTurn THEN Settled(openTurn) ELSE openTurn
           then == StopAfterReject(TRUE)
           open == turn.input # NoInput /\ ~turn.settled
           leaves == IF then = "detaching" THEN <<Cmd("detach", NoInput)>> ELSE <<>>
<1>5. /\ wire' = "recovering" /\ toDaemon' = <<>> /\ reattach' = "none"
      /\ connectionGap' = "pending" /\ wireDown' = TRUE /\ stop' = then
      /\ call' = [i \in Inputs |-> IF i \in Elements(<<>>) THEN "sent"
                                   ELSE IF i \in Rejected THEN "failed" ELSE call[i]]
      /\ blocked' = PromptCmds(<<>>, open) \o leaves
  BY <1>3, <1>4 DEF ConnectionLost
<1>6. then # "detaching"
  BY <1>5 DEF Adrift
<1>7. leaves = <<>>
  BY <1>6
<1>8. PromptCmds(<<>>, open) = <<>>
  BY DEF PromptCmds
<1> HIDE DEF open, leaves
<1>9. blocked' = <<>>
  BY <1>5, <1>7, <1>8
<1>10. \A i \in Inputs : call'[i] # "reading"
  BY <1>3, <1>5 DEF NeverDropped
<1>11. WaitsForWire'
  BY <1>5, <1>9, <1>10, ElementsEmpty DEF WaitsForWire
<1>12. wire' # "up" /\ faults'["drop"] # 0
  BY <1>2, <1>5
<1>13. Elements(toDaemon') = {} /\ Elements(blocked') = {}
  BY <1>5, <1>9, ElementsEmpty
<1> QED BY <1>11, <1>12, <1>13 DEF Moored

(* The wire comes back to a lane that still waits for its attach. *)
LEMMA MooredBack ==
  ASSUME TypeOK, OneRequestPerCall, Moored, wire # "up", wire' = "up",
         UNCHANGED <<wireDown, connectionGap, call, toLane, faults>>, reattach' # "reading",
         \A c \in Elements(toDaemon') : c \in Elements(blocked) \/ c.type = "attach",
         blocked' = <<>>
  PROVE  Moored'
<1>1. toLane = <<>> /\ WaitsForWire /\ faults["drop"] # 0
  BY DEF OneRequestPerCall, WireInv, Moored, NeverDropped
<1>2. ~Evidence'
  BY <1>1, ElementsEmpty DEF WaitsForWire, Evidence
<1> QED BY <1>1, <1>2, ElementsEmpty DEF Moored, WaitsForWire

LEMMA MooredOfWire ==
  ASSUME TypeOK, OneRequestPerCall, Moored, ~Adrift, ~Adrift',
         ConnectionRestored \/ ConnectionUnavailable \/ DialSucceeds \/ DialFails
  PROVE  Moored'
<1>0. \A c \in Elements(<<Cmd("attach", NoInput)>>) : c.type = "attach"
  BY OneCommand DEF CommandTypes
<1>1. CASE ConnectionRestored
  <2> DEFINE t == <<Cmd("attach", NoInput)>>
  <2>1. /\ wire = "recovering" /\ wire' = "up" /\ blocked' = <<>> /\ reattach' = "asking"
        /\ UNCHANGED <<wireDown, connectionGap, call, toLane, faults>>
        /\ toDaemon' = blocked \o t
    BY <1>1 DEF ConnectionRestored, Adrift, hist
  <2>2. t \in Seq(Commands) /\ blocked \in Seq(Commands)
    BY OneCommand DEF CommandTypes, TypeOK
  <2> HIDE DEF t
  <2>3. Elements(blocked \o t) = Elements(blocked) \cup Elements(t)
    BY <2>2, ElementsConcat
  <2> QED BY <1>0, <2>1, <2>3, MooredBack DEF t
<1>2. CASE DialSucceeds
  <2>1. /\ wire = "gone" /\ wire' = "up" /\ blocked' = <<>> /\ toDaemon' = blocked
        /\ UNCHANGED <<wireDown, connectionGap, call, toLane, faults, reattach>>
    BY <1>2 DEF DialSucceeds, lane, hist
  <2>2. reattach # "reading"
    BY <2>1 DEF Moored, WaitsForWire
  <2> QED BY <2>1, <2>2, MooredBack
<1>3. ASSUME wire # "up", wire' # "up",
             UNCHANGED <<wireDown, reattach, toDaemon, faults>>, connectionGap' # "none",
             \A i \in Inputs : call'[i] # "reading",
             \A c \in Elements(blocked') : c.type = "attach"
      PROVE  Moored'
  BY <1>3 DEF Moored, WaitsForWire, NeverDropped
<1>4. CASE ConnectionUnavailable
  <2> DEFINE woken == WokenByUnavailable
  <2>1. /\ wire = "recovering" /\ wire' = "gone" /\ UNCHANGED <<wireDown, reattach, toDaemon, faults>>
        /\ connectionGap' \in {connectionGap, "unavailable"}
        /\ blocked' = [k \in 1..Len(woken) |-> Cmd("attach", woken[k])]
        /\ \A i \in Inputs : call'[i] \in {"asking", "failed", call[i]}
    BY <1>4 DEF ConnectionUnavailable, hist
  <2>2. connectionGap' # "none" /\ \A i \in Inputs : call'[i] # "reading"
    BY <2>1 DEF Moored, WaitsForWire
  <2>3. \A k \in DOMAIN blocked' : blocked'[k].type = "attach"
    BY <2>1 DEF Cmd
  <2>4. \A c \in Elements(blocked') : c.type = "attach"
    BY <2>3 DEF Elements
  <2> QED BY <1>3, <2>1, <2>2, <2>4
<1>5. CASE DialFails
  <2>1. /\ wire = "gone" /\ UNCHANGED <<wire, wireDown, reattach, toDaemon, faults, connectionGap>>
        /\ blocked' = <<>> /\ \A i \in Inputs : call'[i] \in {"failed", call[i]}
    BY <1>5 DEF DialFails, MoveCalls, hist
  <2>2. connectionGap # "none" /\ \A i \in Inputs : call'[i] # "reading"
    BY <2>1 DEF Moored, WaitsForWire
  <2> QED BY <1>3, <2>1, <2>2, ElementsEmpty
<1> QED BY <1>1, <1>2, <1>4, <1>5

(* What prime adds to what the lane reads. *)
LEMMA AnswerAdds ==
  ASSUME TypeOK, NEW x \in Messages, toLane' = Append(toLane, x)
  PROVE  \A m \in Elements(toLane') : m \in Elements(toLane) \/ m = x
BY ElementsAppend DEF TypeOK

LEMMA PushAdds ==
  ASSUME TypeOK, NEW type \in {"agent_end", "session_closed"}, NEW run \in SUBSET Prompts
  PROVE  LET s == toLane \o Streamed(Push(type, run))
         IN /\ s \in Seq(Messages)
            /\ \A m \in Elements(s) : m \in Elements(toLane) \/ m.type = type
<1> DEFINE x == Push(type, run)
           t == Streamed(x)
<1>1. x \in Messages /\ x.type = type
  BY PushType DEF Push
<1> HIDE DEF x
<1>2. t \in Seq(Messages) /\ \A m \in Elements(t) : m.type = type
  <2>1. CASE seated
    <3>1. t = <<x>>
      BY <2>1 DEF Streamed
    <3> QED BY <1>1, <3>1, ElementsOne
  <2>2. CASE ~seated
    <3>1. t = <<>>
      BY <2>2 DEF Streamed
    <3> QED BY <3>1, ElementsEmpty, EmptySeq
  <2> QED BY <2>1, <2>2
<1>3. toLane \in Seq(Messages)
  BY DEF TypeOK
<1> HIDE DEF t
<1>4. toLane \o t \in Seq(Messages) /\ Elements(toLane \o t) = Elements(toLane) \cup Elements(t)
  BY <1>2, <1>3, ElementsConcat, ConcatType
<1> QED BY <1>2, <1>4 DEF t, x

LEMMA MooredOfPrime ==
  ASSUME TypeOK, OneRequestPerCall, Moored, ~Adrift, ~Adrift',
         \/ DaemonReads \/ DaemonEndsRun \/ DaemonRetriesRun \/ ForeignPrompt
         \/ DaemonClosesSession
  PROVE  Moored'
<1>1. faults'["drop"] = faults["drop"] /\ UNCHANGED lane
  BY DEF DaemonReads, DaemonAdmits, DaemonRefuses, DaemonAttaches, DaemonReadsQueue,
         DaemonAborts, DaemonDetaches, Accept, DaemonEndsRun, DaemonRetriesRun, ForeignPrompt,
         DaemonClosesSession, Fault, Happens, TypeOK, Faults, hist
<1>2. /\ UNCHANGED <<wireDown, connectionGap, reattach, wire, blocked>>
      /\ \A i \in Inputs : call'[i] = "reading" => call[i] = "reading"
  BY <1>1 DEF lane, DaemonReads, DaemonAdmits, DaemonRefuses, DaemonAttaches, DaemonReadsQueue,
         DaemonAborts, DaemonDetaches, Accept, DaemonEndsRun, DaemonRetriesRun, ForeignPrompt,
         DaemonClosesSession
<1>3. CASE DaemonReads
  <2> DEFINE cmd == Head(toDaemon)
  <2>1. /\ toDaemon # <<>> /\ toDaemon' = Tail(toDaemon)
        /\ cmd \in Elements(toDaemon) /\ Elements(toDaemon') \subseteq Elements(toDaemon)
        /\ cmd \in Commands /\ wire = "up"
    <3>1. toDaemon # <<>> /\ toDaemon' = Tail(toDaemon)
      BY <1>3 DEF DaemonReads, DaemonAdmits, DaemonRefuses, DaemonAttaches, DaemonReadsQueue,
                  DaemonAborts, DaemonDetaches, Accept
    <3>2. toDaemon \in Seq(Commands)
      BY DEF TypeOK
    <3>3. cmd \in Elements(toDaemon) /\ Elements(Tail(toDaemon)) \subseteq Elements(toDaemon)
      BY <3>1, <3>2, ElementsHeadTail
    <3>4. wire = "up"
      BY <3>1 DEF OneRequestPerCall, WireInv
    <3> QED BY <3>1, <3>2, <3>3, <3>4, ElementsType
  <2>2. ASSUME NEW ok \in BOOLEAN
        PROVE  Answer(cmd, ok) \in Messages /\ Answer(cmd, ok).type = cmd.type
               /\ Answer(cmd, ok).ok = ok
    BY <2>1, AnswerType DEF Answer
  <2>3. CASE DaemonAdmits \/ DaemonRefuses
    <3>1. PICK ok \in BOOLEAN : toLane' = Append(toLane, Answer(cmd, ok))
      BY <2>3 DEF DaemonAdmits, DaemonRefuses
    <3>2. cmd.type = "prompt" /\ UNCHANGED seated
      BY <2>3 DEF DaemonAdmits, DaemonRefuses, Accept, prime
    <3>3. \A m \in Elements(toLane') : m \in Elements(toLane) \/ m.type = "prompt"
      BY <2>2, <3>1, <3>2, AnswerAdds
    <3> QED BY <1>1, <1>2, <2>1, <3>2, <3>3, MooredQuietly DEF Asks
  <2>4. CASE DaemonAttaches
    <3>1. cmd.type = "attach"
      BY <2>4 DEF DaemonAttaches, Accept
    <3>2. faults["drop"] # 0
      BY <2>1, <3>1 DEF Moored, NeverDropped
    <3>3. CASE seated'
      BY <1>1, <1>2, <2>1, <3>2, <3>3, MooredSeated
    <3>4. CASE ~seated'
      <4>1. UNCHANGED seated /\ toLane' = Append(toLane, Answer(cmd, FALSE))
        BY <2>4, <3>4 DEF DaemonAttaches
      <4>2. \A m \in Elements(toLane') : m \in Elements(toLane) \/ (m.type = "attach" /\ ~m.ok)
        BY <2>2, <3>1, <4>1, AnswerAdds
      <4> QED BY <1>1, <1>2, <2>1, <3>2, <4>1, <4>2, MooredQuietly DEF Asks
    <3> QED BY <3>3, <3>4
  <2>5. CASE DaemonReadsQueue
    <3>1. cmd.type = "get_queue" /\ UNCHANGED seated /\ toLane' = Append(toLane, Answer(cmd, TRUE))
      BY <2>5 DEF DaemonReadsQueue, Accept, prime
    <3>2. seated
      BY <2>1, <3>1 DEF Moored, Evidence
    <3>3. \A m \in Elements(toLane') : m \in Elements(toLane) \/ m.type = "get_queue"
      BY <2>2, <3>1, AnswerAdds
    <3> QED BY <1>1, <1>2, <2>1, <3>1, <3>2, <3>3, MooredSeated DEF Moored, NeverDropped, lane
  <2>6. CASE DaemonAborts
    <3>1. cmd.type = "abort" /\ UNCHANGED seated
      BY <2>6 DEF DaemonAborts, Accept
    <3>2. \A m \in Elements(toLane') : m \in Elements(toLane) \/ m.type \in {"agent_end", "abort"}
      <4>1. CASE toLane' = toLane \o Streamed(Push("agent_end", running)) \o <<Answer(cmd, TRUE)>>
        <5> DEFINE s == toLane \o Streamed(Push("agent_end", running))
                   y == Answer(cmd, TRUE)
        <5>1. s \in Seq(Messages) /\ \A m \in Elements(s) : m \in Elements(toLane) \/ m.type = "agent_end"
          BY PushAdds DEF TypeOK
        <5>2. y \in Messages /\ y.type = "abort"
          BY <2>2, <3>1
        <5>3. toLane' = s \o <<y>>
          BY <4>1
        <5> HIDE DEF s, y
        <5>4. Elements(Append(s, y)) = Elements(s) \cup {y} /\ s \o <<y>> = Append(s, y)
          BY <5>1, <5>2, ElementsAppend, AppendIsConcat
        <5> QED BY <5>1, <5>2, <5>3, <5>4
      <4>2. CASE toLane' = Append(toLane, Answer(cmd, TRUE))
        BY <2>2, <3>1, <4>2, AnswerAdds
      <4> QED BY <2>6, <4>1, <4>2 DEF DaemonAborts
    <3> QED BY <1>1, <1>2, <2>1, <3>1, <3>2, MooredQuietly DEF Asks
  <2>7. ~DaemonDetaches
    <3>1. cmd.type # "detach"
      BY <2>1 DEF Moored
    <3> QED BY <3>1 DEF DaemonDetaches, Accept
  <2> QED BY <1>3, <2>3, <2>4, <2>5, <2>6, <2>7 DEF DaemonReads
<1>4. CASE DaemonEndsRun \/ DaemonRetriesRun
  <2>1. toLane' = toLane \o Streamed(Push("agent_end", running)) /\ UNCHANGED <<toDaemon, seated>>
    BY <1>4 DEF DaemonEndsRun, DaemonRetriesRun, prime
  <2>2. \A m \in Elements(toLane') : m \in Elements(toLane) \/ m.type = "agent_end"
    BY <2>1, PushAdds DEF TypeOK
  <2> QED BY <1>1, <1>2, <2>1, <2>2, MooredQuietly DEF Asks
<1>5. CASE ForeignPrompt
  <2>1. UNCHANGED <<toLane, toDaemon, seated>>
    BY <1>5 DEF ForeignPrompt
  <2> QED BY <1>1, <1>2, <2>1, MooredQuietly
<1>6. ~DaemonClosesSession
  BY DEF Adrift, DaemonClosesSession
<1> QED BY <1>3, <1>4, <1>5, <1>6

LEMMA SeatInit == Init => SeatInv
<1> SUFFICES ASSUME Init PROVE Moored
  BY DEF SeatInv
<1>1. /\ toLane = <<>> /\ toDaemon = <<>> /\ blocked = <<>> /\ wire = "up" /\ seated
      /\ connectionGap = "none" /\ reattach = "none" /\ \A i \in Inputs : call[i] = "new"
  BY DEF Init
<1>2. Elements(toDaemon) = {} /\ Elements(blocked) = {} /\ Elements(toLane) = {}
  BY <1>1, ElementsEmpty
<1>3. NeverDropped
  BY <1>1, <1>2 DEF NeverDropped
<1> QED BY <1>1, <1>2, <1>3 DEF Moored

LEMMA SeatStep ==
  ASSUME TypeOK, OneRequestPerCall, SeatInv, [Next]_vars
  PROVE  SeatInv'
<1>1. CASE UNCHANGED vars
  BY <1>1 DEF vars, lane, prime, hist, SeatInv, Adrift, Moored, WaitsForWire, NeverDropped,
              Evidence
<1>2. CASE Next /\ Adrift
  BY <1>2, StaysAdrift DEF SeatInv
<1>3. CASE Next /\ ~Adrift /\ ~Adrift'
  <2>1. Moored
    BY <1>3 DEF SeatInv
  <2> QED BY <1>3, <2>1, MooredOfInputs, MooredOfReads, MooredOfLoss, MooredOfWire, MooredOfPrime
       DEF Next, SeatInv
<1> QED BY <1>1, <1>2, <1>3 DEF SeatInv

(* While the wire drops once at most, a lane that counts its wire as live is *)
(* attached to its session: attach() settles the gap only once prime seated  *)
(* the client again.                                                         *)
THEOREM LiveLaneStaysSeated == Spec => []LiveLaneIsSeatedOnce
<1>1. TypeOK /\ SeatInv => LiveLaneIsSeatedOnce
  <2> SUFFICES ASSUME TypeOK, SeatInv, faults["drop"] <= 1, wire = "up", ~wireDown, ~closed,
                      resident, stop # "detaching"
               PROVE  seated
    BY DEF LiveLaneIsSeatedOnce, LiveLaneIsSeated
  <2>1. ~(faults["drop"] > 1)
    BY DEF TypeOK, Faults
  <2> QED BY <2>1 DEF SeatInv, Adrift, Moored, Evidence
<1> QED BY <1>1, SeatInit, SeatStep, TypeCorrect, OneRequestPerCallHolds, PTL DEF Spec

(* While bb releases nothing and the session stays, the lane listens and an  *)
(* abort is under way at most once.                                          *)
Listens ==
  /\ ~closed /\ stop \in {"none", "interrupting"} /\ CalmStop
  /\ \A m \in Elements(toLane) : m.type \notin {"detach", "session_closed"}

ListenInv == OnceDropped /\ resident => Listens

(* t has no abort more than s. *)
NoMoreAborts(s, t) ==
  (NoAbort(s) => NoAbort(t)) /\ (OneAbort(s) => OneAbort(t))

LEMMA NoMoreAbortsConcat ==
  ASSUME NEW S, NEW s \in Seq(S), NEW t \in Seq(S), \A x \in Elements(t) : x.type # "abort"
  PROVE  NoMoreAborts(s, s \o t)
<1> DEFINE u == s \o t
<1>1. /\ Len(s) \in Nat /\ DOMAIN s = 1..Len(s)
      /\ Len(t) \in Nat /\ DOMAIN t = 1..Len(t)
      /\ DOMAIN u = 1..(Len(s) + Len(t))
      /\ \A k \in 1..(Len(s) + Len(t)) : u[k] = IF k <= Len(s) THEN s[k] ELSE t[k - Len(s)]
  BY ConcatProperties, LenProperties
<1> HIDE DEF u
<1>2. \A k \in DOMAIN t : t[k].type # "abort"
  BY ElementsAt
<1>3. ASSUME NEW k \in DOMAIN u, u[k].type = "abort"
      PROVE  k \in DOMAIN s /\ s[k].type = "abort"
  <2>1. CASE k <= Len(s)
    BY <1>1, <1>3, <2>1
  <2>2. CASE ~(k <= Len(s))
    <3>1. k - Len(s) \in DOMAIN t /\ u[k] = t[k - Len(s)]
      BY <1>1, <2>2
    <3> QED BY <1>2, <1>3, <3>1
  <2> QED BY <2>1, <2>2
<1>4. NoMoreAborts(s, u)
  BY <1>3 DEF NoMoreAborts, NoAbort, OneAbort
<1> QED BY <1>4 DEF u

LEMMA NoMoreAbortsTail ==
  ASSUME NEW S, NEW s \in Seq(S), s # <<>>
  PROVE  NoMoreAborts(s, Tail(s))
BY AbortsTail DEF NoMoreAborts

LEMMA StopKept ==
  ASSUME CalmStop, UNCHANGED stop, NoMoreAborts(toDaemon, toDaemon'),
         NoMoreAborts(toLane, toLane')
  PROVE  CalmStop'
BY DEF CalmStop, NoMoreAborts

LEMMA AbortsSame ==
  ASSUME NEW s PROVE NoMoreAborts(s, s)
BY DEF NoMoreAborts

(* Whatever is sent but an abort keeps them few. *)
LEMMA SendsNoAbort ==
  ASSUME TypeOK, NEW cmds \in Seq(Commands), Send(cmds),
         \A c \in Elements(cmds) : c.type # "abort"
  PROVE  NoMoreAborts(toDaemon, toDaemon')
<1>1. toDaemon \in Seq(Commands)
  BY DEF TypeOK
<1> QED BY <1>1, NoMoreAbortsConcat, AbortsSame DEF Send

LEMMA ListensToInputs ==
  ASSUME TypeOK, Moored, Listens, faults'["release"] = 0,
         \/ \E i \in Inputs : PromptNow(i) \/ Park(i) \/ AskAttach(i) \/ PromptTimesOut(i)
         \/ Interrupt \/ Release
  PROVE  Listens'
<1>0. HasOpenTurn \in BOOLEAN
  BY DEF HasOpenTurn, TypeOK
<1>1. ASSUME NEW i \in Inputs, PromptNow(i) \/ AskAttach(i)
      PROVE  Listens'
  <2>1. UNCHANGED <<closed, stop, toLane>>
    BY <1>1 DEF PromptNow, AskAttach
  <2>2. NoMoreAborts(toDaemon, toDaemon')
    <3>1. CASE PromptNow(i)
      <4> DEFINE cmds == PromptCmds(<<i>>, HasOpenTurn)
      <4>1. cmds \in Seq(Commands) /\ \A c \in Elements(cmds) : c.type = "prompt"
        <5>1. <<i>> \in Seq(Inputs)
          OBVIOUS
        <5> QED BY <1>0, <5>1, PromptCmdsType, PromptCmdsTypes
      <4>2. Send(cmds)
        BY <3>1 DEF PromptNow
      <4> HIDE DEF cmds
      <4> QED BY <4>1, <4>2, SendsNoAbort
    <3>2. CASE AskAttach(i)
      <4> DEFINE cmds == <<Cmd("attach", i)>>
      <4>1. cmds \in Seq(Commands) /\ \A c \in Elements(cmds) : c.type = "attach"
        BY OneCommand DEF CommandTypes
      <4>2. Send(cmds)
        BY <3>2 DEF AskAttach
      <4> HIDE DEF cmds
      <4> QED BY <4>1, <4>2, SendsNoAbort
    <3> QED BY <1>1, <3>1, <3>2
  <2> QED BY <2>1, <2>2, StopKept, AbortsSame DEF Listens
<1>2. ASSUME NEW i \in Inputs, Park(i) \/ PromptTimesOut(i)
      PROVE  Listens'
  BY <1>2 DEF Park, PromptTimesOut, Listens, CalmStop
<1>3. CASE Interrupt
  <2>1. UNCHANGED <<closed, toLane>> /\ stop = "none"
    BY <1>3 DEF Interrupt
  <2>2. NoAbort(toDaemon) /\ NoAbort(toLane)
    BY <2>1 DEF Listens, CalmStop
  <2>3. CASE HasOpenTurn /\ ~wireDown
    <3>1. wire = "up" /\ Send(<<Cmd("abort", NoInput)>>) /\ stop' = "interrupting"
      BY <1>3, <2>3 DEF Interrupt, Moored, WaitsForWire
    <3>2. Cmd("abort", NoInput) \in Commands
      BY CmdType DEF CommandTypes
    <3>3. toDaemon' = Append(toDaemon, Cmd("abort", NoInput))
      BY <3>1, <3>2, SendsOne
    <3>4. toDaemon \in Seq(Commands)
      BY DEF TypeOK
    <3>5. OneAbort(toDaemon')
      BY <2>2, <3>2, <3>3, <3>4, AbortsAppend
    <3> QED BY <2>1, <2>2, <3>1, <3>5 DEF Listens, CalmStop
  <2>4. CASE ~(HasOpenTurn /\ ~wireDown)
    BY <1>3, <2>1, <2>4 DEF Interrupt, Listens, CalmStop
  <2> QED BY <2>3, <2>4
<1>4. ~Release
  <2>1. faults["release"] \in Nat /\ "release" \in Faults
    BY DEF TypeOK, Faults
  <2>2. Release => Happens("release")
    BY DEF Release, Fault
  <2>3. Happens("release") => faults'["release"] = faults["release"] + 1
    BY <2>1 DEF Happens, TypeOK
  <2> QED BY <2>1, <2>2, <2>3
<1> QED BY <1>1, <1>2, <1>3, <1>4

LEMMA ListensToReads ==
  ASSUME TypeOK, OneRequestPerCall, Listens, LaneReads
  PROVE  Listens'
<1>1. /\ toLane # <<>> /\ toLane' = Tail(toLane) /\ toLane \in Seq(Messages)
      /\ Head(toLane) \in Elements(toLane) /\ Elements(toLane') \subseteq Elements(toLane)
      /\ Head(toLane) \in Messages
  <2>1. toLane # <<>> /\ toLane' = Tail(toLane)
    BY DEF LaneReads, PromptAnswered, AttachAnswered, QueueAnswered, AbortAnswered,
           DetachAnswered, AgentEndDelivered, ClosedDelivered, Receive
  <2>2. toLane \in Seq(Messages)
    BY DEF TypeOK
  <2>3. Head(toLane) \in Elements(toLane) /\ Elements(Tail(toLane)) \subseteq Elements(toLane)
    BY <2>1, <2>2, ElementsHeadTail
  <2> QED BY <2>1, <2>2, <2>3, ElementsType
<1>2. NoMoreAborts(toLane, toLane')
  BY <1>1, NoMoreAbortsTail
<1>3. ASSUME UNCHANGED <<closed, stop>>, NoMoreAborts(toDaemon, toDaemon')
      PROVE  Listens'
  BY <1>1, <1>2, <1>3, StopKept DEF Listens
<1>4. CASE PromptAnswered \/ AgentEndDelivered
  <2>1. UNCHANGED <<closed, stop, toDaemon>>
    BY <1>4 DEF PromptAnswered, AgentEndDelivered
  <2> QED BY <1>3, <2>1, AbortsSame
<1>5. CASE AttachAnswered
  <2> DEFINE i == Head(toLane).input
             cmds == IF Head(toLane).ok THEN <<Cmd("get_queue", i)>> ELSE <<>>
  <2>1. UNCHANGED <<closed, stop>> /\ Send(cmds)
    BY <1>5 DEF AttachAnswered
  <2>2. i \in Inputs \cup {NoInput}
    BY <1>1 DEF Messages
  <2>3. cmds \in Seq(Commands) /\ \A c \in Elements(cmds) : c.type # "abort"
    <3>1. /\ <<Cmd("get_queue", i)>> \in Seq(Commands)
          /\ \A c \in Elements(<<Cmd("get_queue", i)>>) : c.type = "get_queue"
      BY <2>2, OneCommand DEF CommandTypes
    <3> QED BY <3>1, ElementsEmpty
  <2> HIDE DEF cmds
  <2> QED BY <1>3, <2>1, <2>3, SendsNoAbort
<1>6. CASE QueueAnswered
  <2> DEFINE i == Head(toLane).input
             woken == Woken(i)
             cmds == PromptCmds(woken, HasOpenTurn)
  <2>1. UNCHANGED <<closed, stop>> /\ Send(cmds)
    BY <1>6 DEF QueueAnswered
  <2>2. woken \in Seq(Inputs) /\ HasOpenTurn \in BOOLEAN
    BY <1>1, WokenType DEF TypeOK, HasOpenTurn, Messages
  <2> HIDE DEF woken
  <2>3. cmds \in Seq(Commands) /\ \A c \in Elements(cmds) : c.type # "abort"
    BY <2>2, PromptCmdsType, PromptCmdsTypes
  <2> HIDE DEF cmds
  <2> QED BY <1>3, <2>1, <2>3, SendsNoAbort
<1>7. CASE AbortAnswered
  <2>1. Head(toLane).type = "abort"
    BY <1>7 DEF AbortAnswered, Receive
  <2>2. ~NoAbort(toLane) /\ (OneAbort(toLane) => NoAbort(toLane'))
    BY <1>1, <2>1, AbortsTail
  <2>3. stop = "interrupting" /\ NoAbort(toDaemon) /\ NoAbort(toLane')
    BY <2>2 DEF Listens, CalmStop
  <2>4. stop' = "none" /\ UNCHANGED <<closed, toDaemon>>
    BY <1>7, <2>3 DEF AbortAnswered
  <2> QED BY <1>1, <2>3, <2>4 DEF Listens, CalmStop
<1>8. ~DetachAnswered /\ ~ClosedDelivered
  BY <1>1 DEF Listens, DetachAnswered, ClosedDelivered, Receive
<1> QED BY <1>4, <1>5, <1>6, <1>7, <1>8 DEF LaneReads

LEMMA ListensToWire ==
  ASSUME TypeOK, OneRequestPerCall, Moored, Listens,
         \/ ConnectionLost \/ ConnectionRestored \/ ConnectionUnavailable
         \/ DialSucceeds \/ DialFails
  PROVE  Listens'
<1>0. NoAbort(<<>>) /\ Elements(<<>>) = {}
  BY ElementsEmpty DEF NoAbort
<1>1. \A down \in BOOLEAN : StopAfterReject(down) = "none"
  BY DEF StopAfterReject, Listens
<1>2. CASE ConnectionLost
  <2>1. PICK down \in BOOLEAN : /\ stop' = StopAfterReject(down)
                                /\ closed' = (closed \/ StopAfterReject(down) = "released")
    BY <1>2 DEF ConnectionLost, TypeOK, HearsLoss
  <2>2. toDaemon' = <<>> /\ toLane' = <<>>
    BY <1>2 DEF ConnectionLost
  <2> QED BY <1>0, <1>1, <2>1, <2>2 DEF Listens, CalmStop
<1>3. ASSUME wire # "up"
      PROVE  /\ toDaemon = <<>> /\ toLane = <<>>
             /\ \A c \in Elements(blocked) : c.type = "attach"
  BY <1>3 DEF OneRequestPerCall, WireInv, Moored, WaitsForWire
<1>4. CASE ConnectionUnavailable \/ DialFails
  <2>1. /\ wire # "up" /\ stop' = StopAfterReject(TRUE) /\ closed' = (closed \/ stop' = "released")
        /\ UNCHANGED <<toDaemon, toLane>>
    BY <1>4 DEF ConnectionUnavailable, DialFails
  <2> QED BY <1>0, <1>1, <1>3, <2>1 DEF Listens, CalmStop
<1>5. ASSUME NoAbort(toDaemon'), wire # "up", UNCHANGED <<closed, stop, toLane>>
      PROVE  Listens'
  BY <1>0, <1>3, <1>5 DEF Listens, CalmStop
<1>6. ASSUME NEW s, \A c \in Elements(s) : c.type = "attach"
      PROVE  NoAbort(s)
  BY <1>6 DEF NoAbort, Elements
<1>7. CASE DialSucceeds
  <2>1. wire # "up" /\ toDaemon' = blocked /\ UNCHANGED <<closed, stop, toLane>>
    BY <1>7 DEF DialSucceeds, lane
  <2> QED BY <1>3, <1>5, <1>6, <2>1
<1>8. CASE ConnectionRestored
  <2> DEFINE t == <<Cmd("attach", NoInput)>>
  <2>1. wire # "up" /\ toDaemon' = blocked \o t /\ UNCHANGED <<closed, stop, toLane>>
    BY <1>8 DEF ConnectionRestored, Listens
  <2>2. t \in Seq(Commands) /\ blocked \in Seq(Commands) /\ \A c \in Elements(t) : c.type = "attach"
    BY OneCommand DEF CommandTypes, TypeOK
  <2> HIDE DEF t
  <2>3. Elements(blocked \o t) = Elements(blocked) \cup Elements(t)
    BY <2>2, ElementsConcat
  <2>4. \A c \in Elements(toDaemon') : c.type = "attach"
    BY <1>3, <2>1, <2>2, <2>3
  <2> QED BY <1>5, <1>6, <2>1, <2>4
<1> QED BY <1>2, <1>4, <1>7, <1>8

(* The pushes of a run's end, alone. *)
LEMMA EndPushes ==
  ASSUME TypeOK
  PROVE  LET t == Streamed(Push("agent_end", running))
         IN t \in Seq(Messages) /\ \A m \in Elements(t) : m.type = "agent_end"
<1> DEFINE x == Push("agent_end", running)
           t == Streamed(x)
<1>1. x \in Messages /\ x.type = "agent_end"
  BY PushType DEF TypeOK, Push
<1> HIDE DEF x
<1>2. t \in Seq(Messages) /\ \A m \in Elements(t) : m.type = "agent_end"
  <2>1. CASE seated
    <3>1. t = <<x>>
      BY <2>1 DEF Streamed
    <3> QED BY <1>1, <3>1, ElementsOne
  <2>2. CASE ~seated
    <3>1. t = <<>>
      BY <2>2 DEF Streamed
    <3> QED BY <3>1, ElementsEmpty, EmptySeq
  <2> QED BY <2>1, <2>2
<1> HIDE DEF t
<1> QED BY <1>2 DEF t, x

(* Prime answers an abort once. *)
LEMMA ListensToAbort ==
  ASSUME TypeOK, Listens, DaemonAborts
  PROVE  Listens'
<1> DEFINE cmd == Head(toDaemon)
           answer == Answer(cmd, TRUE)
           pushed == Streamed(Push("agent_end", running))
           line == toLane \o pushed
<1>1. /\ toDaemon # <<>> /\ cmd.type = "abort" /\ toDaemon' = Tail(toDaemon)
      /\ UNCHANGED <<closed, stop>>
  BY DEF DaemonAborts, Accept, lane
<1>2. toDaemon \in Seq(Commands) /\ toLane \in Seq(Messages)
  BY DEF TypeOK
<1>3. cmd \in Commands
  BY <1>1, <1>2, ElementsHeadTail, ElementsType
<1>4. ~NoAbort(toDaemon) /\ (OneAbort(toDaemon) => NoAbort(toDaemon'))
  BY <1>1, <1>2, AbortsTail
<1>5. stop = "interrupting" /\ NoAbort(toDaemon') /\ NoAbort(toLane)
  BY <1>4 DEF Listens, CalmStop
<1>6. answer \in Messages /\ answer.type = "abort"
  BY <1>1, <1>3, AnswerType DEF Answer
<1>7. pushed \in Seq(Messages) /\ \A m \in Elements(pushed) : m.type = "agent_end"
  BY EndPushes
<1> HIDE DEF pushed, answer
<1>8. line \in Seq(Messages) /\ Elements(line) = Elements(toLane) \cup Elements(pushed)
  BY <1>2, <1>7, ElementsConcat, ConcatType
<1>9. NoAbort(line)
  BY <1>2, <1>5, <1>7, NoMoreAbortsConcat DEF NoMoreAborts
<1> HIDE DEF line
<1>10. PICK s \in {toLane, line} : toLane' = Append(s, answer)
  <2>1. CASE toLane' = line \o <<answer>>
    <3>1. line \o <<answer>> = Append(line, answer)
      BY <1>6, <1>8, AppendIsConcat
    <3> QED BY <2>1, <3>1
  <2>2. toLane' = line \o <<answer>> \/ toLane' = Append(toLane, answer)
    BY DEF DaemonAborts, line, pushed, answer
  <2> QED BY <2>1, <2>2
<1>11. s \in Seq(Messages) /\ NoAbort(s) /\ Elements(s) \subseteq Elements(toLane) \cup Elements(pushed)
  BY <1>2, <1>5, <1>8, <1>9
<1>12. OneAbort(toLane')
  BY <1>6, <1>10, <1>11, AbortsAppend
<1>13. Elements(toLane') = Elements(s) \cup {answer}
  BY <1>6, <1>10, <1>11, ElementsAppend
<1>14. \A m \in Elements(toLane') : m.type \notin {"detach", "session_closed"}
  BY <1>6, <1>7, <1>11, <1>13 DEF Listens
<1> QED BY <1>1, <1>5, <1>12, <1>14 DEF Listens, CalmStop

LEMMA ListensToPrime ==
  ASSUME TypeOK, OneRequestPerCall, Moored, Listens, resident',
         \/ DaemonReads \/ DaemonEndsRun \/ DaemonRetriesRun \/ ForeignPrompt
         \/ DaemonClosesSession
  PROVE  Listens'
<1>1. ASSUME NEW t \in Seq(Messages), toLane' = toLane \o t, UNCHANGED <<closed, stop>>,
             NoMoreAborts(toDaemon, toDaemon'),
             \A m \in Elements(t) : m.type \notin {"abort", "detach", "session_closed"}
      PROVE  Listens'
  <2>1. toLane \in Seq(Messages)
    BY DEF TypeOK
  <2>2. NoMoreAborts(toLane, toLane')
    BY <1>1, <2>1, NoMoreAbortsConcat
  <2>3. Elements(toLane') = Elements(toLane) \cup Elements(t)
    BY <1>1, <2>1, ElementsConcat
  <2> QED BY <1>1, <2>2, <2>3, StopKept DEF Listens
<1>2. CASE DaemonReads
  <2> DEFINE cmd == Head(toDaemon)
  <2>1. toDaemon # <<>> /\ toDaemon' = Tail(toDaemon) /\ UNCHANGED <<closed, stop>>
    BY <1>2 DEF DaemonReads, DaemonAdmits, DaemonRefuses, DaemonAttaches, DaemonReadsQueue,
                DaemonAborts, DaemonDetaches, Accept, lane
  <2>2. toDaemon \in Seq(Commands) /\ toLane \in Seq(Messages)
    BY DEF TypeOK
  <2>3. cmd \in Elements(toDaemon) /\ cmd \in Commands
    BY <2>1, <2>2, ElementsHeadTail, ElementsType
  <2>4. NoMoreAborts(toDaemon, toDaemon')
    BY <2>1, <2>2, NoMoreAbortsTail
  <2>5. CASE DaemonAborts
    BY <2>5, ListensToAbort
  <2>6. ~DaemonDetaches
    BY <2>3 DEF DaemonDetaches, Accept, Moored
  <2>7. CASE DaemonAdmits \/ DaemonRefuses \/ DaemonAttaches \/ DaemonReadsQueue
    <3>1. PICK ok \in BOOLEAN : toLane' = Append(toLane, Answer(cmd, ok))
      BY <2>7 DEF DaemonAdmits, DaemonRefuses, DaemonAttaches, DaemonReadsQueue
    <3>2. cmd.type \in {"prompt", "attach", "get_queue"}
      BY <2>7 DEF DaemonAdmits, DaemonRefuses, DaemonAttaches, DaemonReadsQueue, Accept
    <3> DEFINE x == Answer(cmd, ok)
               t == <<x>>
    <3>3. x \in Messages /\ x.type = cmd.type
      BY <2>3, AnswerType DEF Answer
    <3> HIDE DEF x
    <3>4. t \in Seq(Messages) /\ Elements(t) = {x}
      BY <3>3, ElementsOne
    <3>5. toLane' = toLane \o t
      BY <2>2, <3>1, <3>3, AppendIsConcat DEF x
    <3> HIDE DEF t
    <3> QED BY <1>1, <2>1, <2>4, <3>2, <3>3, <3>4, <3>5
  <2> QED BY <1>2, <2>5, <2>6, <2>7 DEF DaemonReads
<1>3. CASE DaemonEndsRun \/ DaemonRetriesRun
  <2> DEFINE t == Streamed(Push("agent_end", running))
  <2>1. t \in Seq(Messages) /\ \A m \in Elements(t) : m.type = "agent_end"
    BY EndPushes
  <2>2. toLane' = toLane \o t /\ UNCHANGED <<closed, stop, toDaemon>>
    BY <1>3 DEF DaemonEndsRun, DaemonRetriesRun, lane
  <2> HIDE DEF t
  <2> QED BY <1>1, <2>1, <2>2, AbortsSame
<1>4. CASE ForeignPrompt
  BY <1>4 DEF ForeignPrompt, lane, Listens, CalmStop
<1>5. ~DaemonClosesSession
  BY DEF DaemonClosesSession
<1> QED BY <1>2, <1>3, <1>4, <1>5

(* A fault is never forgotten, nor a closed session reopened.                *)
LEMMA OnceBefore ==
  ASSUME TypeOK, [Next]_vars, (OnceDropped /\ resident)'
  PROVE  OnceDropped /\ resident
<1>1. resident
  BY DEF Next, vars, prime, hist, lane, PromptNow, Park, AskAttach, PromptTimesOut, Interrupt,
         Release, LaneReads, PromptAnswered, AttachAnswered, QueueAnswered, AbortAnswered,
         DetachAnswered, AgentEndDelivered, ClosedDelivered, ConnectionLost, ConnectionRestored,
         ConnectionUnavailable, DialSucceeds, DialFails, DaemonReads, DaemonAdmits,
         DaemonRefuses, DaemonAttaches, DaemonReadsQueue, DaemonAborts, DaemonDetaches,
         DaemonEndsRun, DaemonRetriesRun, ForeignPrompt, DaemonClosesSession
<1>2. /\ faults["drop"] \in Nat /\ faults["release"] \in Nat
      /\ "drop" \in Faults /\ "release" \in Faults
  BY DEF TypeOK, Faults
<1>3. CASE UNCHANGED faults
  BY <1>1, <1>3 DEF OnceDropped
<1>4. ASSUME NEW f \in Faults, Happens(f)
      PROVE  OnceDropped
  <2>1. \A g \in Faults : faults'[g] \in {faults[g], faults[g] + 1}
    BY <1>4 DEF Happens, TypeOK
  <2> QED BY <1>2, <2>1 DEF OnceDropped
<1> QED BY <1>1, <1>3, <1>4, FaultsMove

LEMMA ListenInit == Init => ListenInv
<1> SUFFICES ASSUME Init PROVE Listens
  BY DEF ListenInv
<1>1. NoAbort(<<>>) /\ Elements(<<>>) = {}
  BY ElementsEmpty DEF NoAbort
<1> QED BY <1>1 DEF Init, Listens, CalmStop

LEMMA ListenStep ==
  ASSUME TypeOK, OneRequestPerCall, SeatInv, ListenInv, [Next]_vars
  PROVE  ListenInv'
<1> SUFFICES ASSUME (OnceDropped /\ resident)'
             PROVE  Listens'
  BY DEF ListenInv
<1>1. OnceDropped /\ resident /\ Listens
  BY OnceBefore DEF ListenInv
<1>2. faults["drop"] \in Nat
  BY DEF TypeOK, Faults
<1>3. ~Adrift
  BY <1>1, <1>2 DEF Adrift, Listens, OnceDropped
<1>4. Moored
  BY <1>3 DEF SeatInv
<1>5. CASE UNCHANGED vars
  BY <1>1, <1>5 DEF vars, lane, prime, hist, Listens, CalmStop
<1>6. faults'["release"] = 0 /\ resident'
  BY DEF OnceDropped
<1> QED BY <1>1, <1>4, <1>5, <1>6, ListensToInputs, ListensToReads, ListensToWire,
           ListensToPrime DEF Next

(* While the wire drops once at most and bb releases nothing, a prompt never *)
(* reaches prime ahead of the attach that makes its run observable: it finds *)
(* the client seated already, or an attach waits before it.                  *)
THEOREM PromptsFollowTheirAttach == Spec => []PromptsFollowAttachOnce
<1>1. TypeOK /\ OneRequestPerCall /\ SeatInv /\ ListenInv => PromptsFollowAttachOnce
  <2> SUFFICES ASSUME TypeOK, OneRequestPerCall, SeatInv, ListenInv, OnceDropped, resident,
                      NEW k \in DOMAIN toDaemon, toDaemon[k].type = "prompt"
               PROVE  seated
    BY DEF PromptsFollowAttachOnce, PromptsFollowAttach
  <2>1. Listens /\ faults["drop"] \in Nat
    BY DEF ListenInv, TypeOK, Faults
  <2>2. Moored
    BY <2>1 DEF SeatInv, Adrift, Listens, OnceDropped
  <2>3. toDaemon[k] \in Elements(toDaemon) /\ toDaemon # <<>>
    BY ElementsAt, ElementsEmpty
  <2>4. wire = "up"
    BY <2>3 DEF OneRequestPerCall, WireInv
  <2> QED BY <2>2, <2>3, <2>4 DEF Moored, Evidence
<1> QED BY <1>1, ListenInit, ListenStep, SeatInit, SeatStep, TypeCorrect, OneRequestPerCallHolds,
           PTL DEF Spec
=============================================================================
