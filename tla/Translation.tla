----------------------------- MODULE Translation -----------------------------
(***************************************************************************)
(* src/delta-translation.ts: how prime's session events become the deltas  *)
(* bb's timeline is built from.  A translator keeps a state per thread and *)
(* answers each event with the state after it and the deltas to emit; both *)
(* are a value here, so the operators are pure.  Texts, results, usage and *)
(* the wording of errors and warnings are left out: a delta is what it     *)
(* does to a row, to the turn or to the queue bb shows.                    *)
(***************************************************************************)
EXTENDS Naturals, Sequences, SequencesExt

CONSTANTS
  Channels,   \* text streams: the answer, one thinking block each
  Rendered,   \* what a rendered transcript opens: the answer's item, and thinking's
  Tools,      \* toolCallIds
  Children,   \* ids of prime's subagents
  Waiting,    \* non-empty contents of prime's steering and follow-up lanes
  Drained     \* both lanes empty: the payload null

(* Ids that name one row each, finitely many of them, and payloads that can *)
(* be told apart.                                                           *)
Undefined == "undefined"
ASSUME KeysAssumption ==
  /\ IsFiniteSet(Channels) /\ IsFiniteSet(Rendered) /\ IsFiniteSet(Tools) /\ IsFiniteSet(Children)
  /\ (Channels \cup Rendered) \cap (Tools \cup Children) = {} /\ Tools \cap Children = {}
  /\ "compaction" \notin Channels \cup Rendered \cup Tools \cup Children
ASSUME PayloadsAssumption == Drained # Undefined /\ {Drained, Undefined} \cap Waiting = {}

(* The statuses of a child: a live one, and the terminal ones. *)
Live == {"queued", "running"}
NotStarted(status) == status # "none"
isChildLive(status) == status \in Live

(* ThreadState.  `queuePayload` starts undefined, which is no payload.      *)
ThreadState == [ toolCalls : SUBSET Tools,
                 openTextStreams : SUBSET Channels,
                 openDelegations : SUBSET Children,
                 compaction : {"none", "manual", "auto"},
                 queuePayload : Waiting \cup {Drained, Undefined} ]
stateFor == [ toolCalls |-> {}, openTextStreams |-> {}, openDelegations |-> {},
              compaction |-> "none", queuePayload |-> Undefined ]

(* Deltas.  `shape` tells whether an item is described by the arguments the *)
(* call started with, only by its name, or by the whole text a transcript   *)
(* has of it; `claim` is claimIfIdle.                                       *)
TurnOpen == [kind |-> "turn.open"]
Boundary(claim) == [kind |-> "turn.boundary", claim |-> claim]
Open(key, shape) == [kind |-> "item.open", key |-> key, shape |-> shape]
Close(key, shape) == [kind |-> "item.close", key |-> key, shape |-> shape]
Text(c) == [kind |-> "item.textDelta", key |-> c]
TextClose(c) == [kind |-> "item.textClose", key |-> c]
Queue(payload) == [kind |-> "extension.state", payload |-> payload]

Answer(state, deltas) == [state |-> state, deltas |-> deltas]

-----------------------------------------------------------------------------
textDelta(st, c) ==
  Answer([st EXCEPT !.openTextStreams = @ \cup {c}], <<Text(c)>>)

(* A close that brings the final text is emitted even for a stream the      *)
(* translator does not hold open.                                           *)
textClose(st, c) ==
  Answer([st EXCEPT !.openTextStreams = @ \ {c}], <<TextClose(c)>>)

(* The closes carry no text, so only open streams are closed. *)
closeOpenStreams(st) ==
  Answer([st EXCEPT !.openTextStreams = {}],
         SetToSeq({TextClose(c) : c \in st.openTextStreams}))

(* queueStatePayload is null exactly when both lanes are empty; a payload   *)
(* that repeats emits nothing.                                              *)
queueUpdateDeltas(st, payload) ==
  IF payload = st.queuePayload THEN Answer(st, <<>>)
  ELSE Answer([st EXCEPT !.queuePayload = payload], <<Queue(payload)>>)

(* One child: opened once, settled by a terminal status, and opened on the  *)
(* way past when it settles unseen.                                         *)
childDeltas(st, child, status) ==
  LET opens == IF child \in st.openDelegations THEN <<>> ELSE <<Open(child, "started")>>
  IN IF isChildLive(status)
     THEN Answer([st EXCEPT !.openDelegations = @ \cup {child}], opens)
     ELSE Answer([st EXCEPT !.openDelegations = @ \ {child}],
                 opens \o <<Close(child, "started")>>)

(* tool_execution_start / _end: the call's shape is remembered from start   *)
(* to end; an end whose start was not seen closes with the bare name.       *)
toolStart(st, tool) ==
  Answer([st EXCEPT !.toolCalls = @ \cup {tool}], <<Open(tool, "started")>>)
toolEnd(st, tool) ==
  Answer(st, <<Close(tool, IF tool \in st.toolCalls THEN "started" ELSE "named")>>)

(* agent_end closes what still streams, and then the turn, unless the       *)
(* bridge has settled it already.                                           *)
AlwaysBoundary(st, suppressTurnBoundary) ==
  Answer(closeOpenStreams(st).state, Append(closeOpenStreams(st).deltas, Boundary(TRUE)))
agentEnd(st, suppressTurnBoundary) ==
  Answer(closeOpenStreams(st).state,
         closeOpenStreams(st).deltas
           \o IF suppressTurnBoundary THEN <<>> ELSE <<Boundary(TRUE)>>)

(* A manual compaction is a turn of its own; prime's automatic one belongs  *)
(* to whatever turn is there.                                               *)
KeepsReason(st, manual) ==
  Answer([st EXCEPT !.compaction = "compaction"], <<Open("compaction", "started")>>)
compactionStart(st, manual) ==
  Answer([st EXCEPT !.compaction = IF manual THEN "manual" ELSE "auto"],
         (IF manual THEN <<TurnOpen>> ELSE <<>>) \o <<Open("compaction", "started")>>)

(* An end whose start was not seen counts as manual.  A skipped compaction  *)
(* leaves its row to the turn that closes it.                               *)
AutoClosesTurn(st, skipped) ==
  Answer([st EXCEPT !.compaction = "none"],
         (IF skipped THEN <<>> ELSE <<Close("compaction", "started")>>) \o <<Boundary(TRUE)>>)
compactionEnd(st, skipped) ==
  Answer([st EXCEPT !.compaction = "none"],
         (IF skipped THEN <<>> ELSE <<Close("compaction", "started")>>)
           \o IF st.compaction # "auto" THEN <<Boundary(~skipped)>> ELSE <<>>)

(* The interrupt's boundary claims no turn; a turn the bridge failed itself *)
(* is claimed if bb has none open.                                          *)
interruptDeltas(st) ==
  Answer(closeOpenStreams(st).state, Append(closeOpenStreams(st).deltas, Boundary(FALSE)))
failureDeltas(st) ==
  Answer(closeOpenStreams(st).state, Append(closeOpenStreams(st).deltas, Boundary(TRUE)))

(* The rows a transcript reconstructs, then the children.  A tool call is   *)
(* opened, and closed when its result is in the transcript too; an answer or *)
(* a thinking block is opened with its text, and nothing here closes it.    *)
snapshotDeltas(texts, calls, results) ==
  SetToSeq({Open(c, "rendered") : c \in texts})
    \o SetToSeq({Open(tool, "started") : tool \in calls})
    \o SetToSeq({Close(tool, "started") : tool \in calls \cap results})
childrenDeltas(st, status) ==
  LET order == SetToSeq(DOMAIN status)
      next(a, child) == LET b == childDeltas(a.state, child, status[child])
                        IN Answer(b.state, a.deltas \o b.deltas)
      after[i \in 0..Len(order)] ==
        IF i = 0 THEN Answer(st, <<>>) ELSE next(after[i - 1], order[i])
  IN after[Len(order)]
=============================================================================
