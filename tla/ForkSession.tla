----------------------------- MODULE ForkSession -----------------------------
(***************************************************************************)
(* thread/fork's choreography with prime's daemon (src/fork-session.ts)    *)
(* and the resolution of a fork checkpoint (src/fork-points.ts).  prime's  *)
(* fork replaces the source session in place; the bridge reads the branch, *)
(* switches the source back and only then lets a new session open it.      *)
(*                                                                         *)
(* prime's daemon is external: a transcript is a tree of entries with a    *)
(* leaf, a replacement is applied some time after its command is answered, *)
(* and a command may fail, carried out or not.  A turn is a user message   *)
(* and its answer.                                                         *)
(***************************************************************************)
EXTENDS Integers, Sequences, FiniteSets, FiniteSetsExt

CONSTANTS
  Texts,       \* what a user may type
  MaxTurns,    \* turns in the source session
  MaxForks,    \* thread/fork requests for it
  MaxPolls,    \* get_state reads of a wait (the code's 20)
  MaxFaults    \* commands and prompts that fail, lanes that start over, rewinds

ASSUME ForkAssumption ==
  MaxTurns \in Nat /\ MaxForks \in Nat /\ MaxPolls \in Nat \ {0} /\ MaxFaults \in Nat

VARIABLES
  entries,      \* every entry written, oldest first: parent, user, text
  files,        \* the transcripts: their entries and leaf; the first is the source's
  running,      \* the transcript the source session runs
  pending,      \* the replacements answered but not applied, oldest first
  ordinal,      \* the inputs the source's lane counted
  checkpoints,  \* what bb stored at the turns' boundaries, with their message
  forks,        \* the fork requests, oldest first
  faults        \* how many faults there were

prime == <<entries, files, running, pending>>
vars == <<prime, ordinal, checkpoints, forks, faults>>

-----------------------------------------------------------------------------
(* Of a file: the branch from an entry to the root, its user messages.      *)
Users(f) == {e \in files[f].entries : entries[e].user}
Branch(e) ==
  LET up[k \in 0..Len(entries)] == IF k = 0 THEN {} ELSE {k} \cup up[entries[k].parent]
  IN up[e]

(* resolveForkTarget: among the messages of that text the first one at the  *)
(* ordinal's position or later, on the active branch; then the entry before *)
(* the next user message on it, or the leaf.                                *)
Position(e, users) == Cardinality({u \in users : u < e})
SameText(c, users) == {e \in users : entries[e].text = c.text}
AtOrAfter(c, users) == {e \in SameText(c, users) : Position(e, users) >= c.ordinal - 1}
Candidates(c, users) == AtOrAfter(c, users)
EndOfTurn(anchor, branch) ==
  LET next == {e \in branch : e > anchor /\ entries[e].user}
  IN IF next = {} THEN Max(branch) ELSE Max({e \in branch : e < Min(next)})
Target(c, branch, users) ==
  LET found == Candidates(c, users)
  IN IF found = {} \/ Min(found) \notin branch THEN 0 ELSE EndOfTurn(Min(found), branch)

-----------------------------------------------------------------------------
NoCheckpoint == [ordinal |-> 0, text |-> "", at |-> 0]
Steps == {"state", "tree", "messages", "fork", "branched", "switch", "verify",
          "returned", "failed"}
Over(k) == forks[k].at \in {"returned", "failed"}

Bracketing(k) == forks[k].at \in {"branched", "switch", "verify"}

Blank == [at |-> "state", checkpoint |-> NoCheckpoint, alone |-> FALSE, original |-> 0,
          branched |-> 0, branch |-> {}, target |-> 0, polls |-> 0]
Crosses ==
  forks' = [k \in DOMAIN forks |-> [forks[k] EXCEPT !.alone = @ /\ ~Bracketing(k)]]

Init ==
  /\ entries = <<>> /\ files = <<[entries |-> {}, leaf |-> 0]>>
  /\ running = 1 /\ pending = <<>>
  /\ ordinal = 0 /\ checkpoints = {} /\ forks = <<>> /\ faults = 0

(* A turn on what the session runs: a user message and its answer.          *)
Writes(text) ==
  LET n == Len(entries)
  IN /\ n < 2 * MaxTurns
     /\ entries' = entries \o <<[parent |-> files[running].leaf, user |-> TRUE, text |-> text],
                                [parent |-> n + 1, user |-> FALSE, text |-> text]>>
     /\ files' = [files EXCEPT ![running].entries = @ \cup {n + 1, n + 2}, ![running].leaf = n + 2]
     /\ Crosses /\ UNCHANGED <<running, pending>>

(* turn() mints the checkpoint (queueCheckpoint) and its agent_end hands it *)
(* to bb.                                                                   *)
Turn(text) ==
  /\ Writes(text)
  /\ ordinal' = ordinal + 1
  /\ checkpoints' = checkpoints \cup
       {[ordinal |-> ordinal + 1, text |-> text, at |-> Len(entries) + 1]}
  /\ UNCHANGED faults

(* Someone types at prime's own TUI. *)
TypedOutside(text) == Writes(text) /\ UNCHANGED <<ordinal, checkpoints, faults>>

Faulty == faults < MaxFaults /\ faults' = faults + 1

(* A prompt that fails was counted before it was sent: turn() and steer()   *)
(* take back its anchor, not its ordinal.  It may have been carried out.    *)
TurnFails ==
  /\ Faulty /\ ordinal' = ordinal + 1 /\ UNCHANGED checkpoints
  /\ UNCHANGED <<prime, forks>> \/ \E text \in Texts : Writes(text)

(* A new lane of the same session counts from zero. *)
LaneStartsOver ==
  /\ Faulty /\ ordinal > 0 /\ ordinal' = 0
  /\ UNCHANGED <<prime, checkpoints, forks>>

(* Someone goes back to an earlier turn inside prime.                       *)
Rewinds ==
  /\ Faulty
  /\ \E e \in files[running].entries :
       ~entries[e].user /\ files' = [files EXCEPT ![running].leaf = e]
  /\ Crosses /\ UNCHANGED <<entries, running, pending, ordinal, checkpoints>>

(* The daemon applies the oldest replacement. *)
Applies ==
  /\ pending # <<>>
  /\ running' = Head(pending) /\ pending' = Tail(pending)
  /\ UNCHANGED <<entries, files, ordinal, checkpoints, forks, faults>>

-----------------------------------------------------------------------------
(* A fork of the tip or of a checkpoint.  `alone` until another fork of the *)
(* source is under way, or the session is used before it has switched back; and *)
(* only if the source runs its own transcript.                              *)
AskFork ==
  /\ Len(forks) < MaxForks
  /\ \E c \in checkpoints \cup {NoCheckpoint} :
       LET alone == /\ \A k \in DOMAIN forks : Over(k)
                    /\ running = 1 /\ pending = <<>>
       IN forks' = [k \in DOMAIN forks |-> IF Over(k) THEN forks[k]
                                           ELSE [forks[k] EXCEPT !.alone = FALSE]]
                   \o <<[Blank EXCEPT !.checkpoint = c, !.alone = alone]>>
  /\ UNCHANGED <<prime, ordinal, checkpoints, faults>>

Sets(k, f) ==
  forks' = [forks EXCEPT ![k] = IF f.at \in {"returned", "failed"}
                                THEN [Blank EXCEPT !.at = f.at] ELSE f]
Quiet == UNCHANGED <<ordinal, checkpoints, faults>>
At(k, step) == forks[k].at = step

ReadsState(k) ==
  /\ At(k, "state")
  /\ Sets(k, [forks[k] EXCEPT !.original = running, !.at = "tree"])
  /\ UNCHANGED prime /\ Quiet

(* An empty session has nothing to fork: the new thread starts afresh.      *)
ReadsTree(k) ==
  /\ At(k, "tree")
  /\ LET branch == Branch(files[running].leaf)
         tip == forks[k].checkpoint = NoCheckpoint
     IN Sets(k, [forks[k] EXCEPT !.branch = branch,
                                 !.target = IF tip THEN files[running].leaf ELSE 0,
                                 !.at = IF ~tip THEN "messages"
                                        ELSE IF branch = {} THEN "returned" ELSE "fork"])
  /\ UNCHANGED prime /\ Quiet

ReadsMessages(k) ==
  /\ At(k, "messages")
  /\ LET target == Target(forks[k].checkpoint, forks[k].branch, Users(running))
     IN Sets(k, [forks[k] EXCEPT !.target = target,
                                 !.at = IF target = 0 THEN "failed" ELSE "fork"])
  /\ UNCHANGED prime /\ Quiet

(* prime writes the branch's file and replaces the session with it; it      *)
(* knows only entries of the transcript it runs.                            *)
Branches(k) ==
  /\ forks[k].target \in files[running].entries
  /\ files' = Append(files, [entries |-> Branch(forks[k].target), leaf |-> forks[k].target])
  /\ pending' = Append(pending, Len(files) + 1)
  /\ UNCHANGED <<entries, running>>
Forks(k) ==
  /\ At(k, "fork") /\ Branches(k)
  /\ Sets(k, [forks[k] EXCEPT !.at = "branched"])
  /\ Quiet

(* A wait: reads of get_state until one says what is waited for, or the     *)
(* reads run out and the fork is refused.                                   *)
OneTooMany(k) == forks[k].polls = MaxPolls
ReadsRunOut(k) == forks[k].polls + 1 = MaxPolls
LastPoll(k) == ReadsRunOut(k)
AnyFile(file, original) == TRUE
OtherFile(file, original) == file # original
IsBranch(file, original) == OtherFile(file, original)
PollsBranch(k) ==
  /\ At(k, "branched")
  /\ IF IsBranch(running, forks[k].original)
     THEN Sets(k, [forks[k] EXCEPT !.branched = running, !.polls = 0, !.at = "switch"])
     ELSE Sets(k, [forks[k] EXCEPT !.polls = @ + 1, !.at = IF LastPoll(k) THEN "failed" ELSE @])
  /\ UNCHANGED prime /\ Quiet

SwitchesBack(k) ==
  /\ pending' = Append(pending, forks[k].original)
  /\ UNCHANGED <<entries, files, running>>
Switches(k) ==
  /\ At(k, "switch") /\ SwitchesBack(k)
  /\ Sets(k, [forks[k] EXCEPT !.at = "verify"])
  /\ Quiet

OwnFile(file, original) == file = original
IsRestored(file, original) == OwnFile(file, original)
PollsRestored(k) ==
  /\ At(k, "verify")
  /\ IF IsRestored(running, forks[k].original)
     THEN Sets(k, [forks[k] EXCEPT !.at = "returned"])
     ELSE Sets(k, [forks[k] EXCEPT !.polls = @ + 1, !.at = IF LastPoll(k) THEN "failed" ELSE @])
  /\ UNCHANGED prime /\ Quiet

(* A command fails or is answered too late; the bridge may be gone as well. *)
Fails(k) ==
  /\ ~Over(k)
  /\ \/ Faulty
     \/ At(k, "fork") /\ forks[k].target \notin files[running].entries /\ UNCHANGED faults
  /\ Sets(k, [forks[k] EXCEPT !.at = "failed"])
  /\ \/ UNCHANGED prime
     \/ At(k, "fork") /\ Branches(k)
     \/ At(k, "switch") /\ SwitchesBack(k)
  /\ UNCHANGED <<ordinal, checkpoints>>

Prompted == \E text \in Texts : Turn(text) \/ TypedOutside(text)
Reads == \E k \in DOMAIN forks : ReadsState(k) \/ ReadsTree(k) \/ ReadsMessages(k)
Brackets == \E k \in DOMAIN forks : Forks(k) \/ Switches(k)
Polls == \E k \in DOMAIN forks : PollsBranch(k) \/ PollsRestored(k)
ForkFails == \E k \in DOMAIN forks : Fails(k)

Next ==
  \/ Prompted \/ TurnFails \/ LaneStartsOver \/ Rewinds \/ Applies
  \/ AskFork \/ Reads \/ Brackets \/ Polls \/ ForkFails

Spec == Init /\ [][Next]_vars

-----------------------------------------------------------------------------
TypeOK ==
  /\ running \in DOMAIN files /\ \A i \in DOMAIN pending : pending[i] \in DOMAIN files
  /\ \A f \in DOMAIN files : /\ files[f].entries \subseteq DOMAIN entries
                             /\ files[f].leaf \in files[f].entries \cup {0}
  /\ \A e \in DOMAIN entries : entries[e].parent \in 0..(e - 1)
  /\ \A k \in DOMAIN forks : /\ forks[k].at \in Steps /\ forks[k].polls \in 0..(MaxPolls - 1)
                             /\ forks[k].target \in 0..Len(entries)
                             /\ {forks[k].original, forks[k].branched} \subseteq 0..Len(files)
  /\ ordinal \in 0..(MaxTurns + MaxFaults) /\ faults \in 0..MaxFaults

Returns(k) == Over(k)' /\ ~Over(k) /\ forks'[k].at = "returned"

(* A fork that answers has left the source as it was: it runs its own       *)
(* transcript, nothing that would replace it is under way, and the branch   *)
(* the new session opens is another one.                                    *)
SourceIsLeftAlone ==
  [][\A k \in DOMAIN forks : Returns(k) /\ forks[k].alone =>
       /\ running = 1 /\ pending = <<>>
       /\ forks[k].branched # 1]_vars

(* The branch ends with the turn its checkpoint was recorded at, if no      *)
(* other message has its text, or its ordinal is the position of its        *)
(* message in the source's own transcript: of the inputs counted before it  *)
(* none failed unsent or went into another transcript, none came from       *)
(* outside the lane, and the lane did not start over.                       *)
Sole(c) ==
  \A e \in DOMAIN entries : entries[e].user /\ entries[e].text = c.text => e = c.at
Unshifted(c) == c.at \in files[1].entries /\ Position(c.at, Users(1)) = c.ordinal - 1
EndsWithTurn(k) == files[forks[k].branched].leaf = forks[k].checkpoint.at + 1
BranchEndsWithTurn ==
  [][\A k \in DOMAIN forks :
       LET c == forks[k].checkpoint
       IN Returns(k) /\ forks[k].alone /\ c # NoCheckpoint /\ (Sole(c) \/ Unshifted(c))
          => EndsWithTurn(k)]_vars
=============================================================================
