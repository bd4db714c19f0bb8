----------------------- MODULE DaemonConnection_proofs -----------------------
(***************************************************************************)
(* Proofs about DaemonConnection for every set of requests and every       *)
(* bound: its type invariant; that a closed client carries nothing,        *)
(* whatever dials fail; until the first dial that fails after its socket   *)
(* opened, that nobody waits in vain; and, without such a dial, that it    *)
(* implements DaemonWire.                                                  *)
(*                                                                         *)
(* The last two rest on Phases: until such a failure the module's three    *)
(* variables and the current client's socket and loop move together, in    *)
(* four phases, and no other client has a socket or a loop. The second     *)
(* rests on CarriesInv, which says what is left of that afterwards.        *)
(***************************************************************************)
EXTENDS DaemonConnection, TLAPS

-----------------------------------------------------------------------------
(* Lemmas about the operators of the connection. *)

(* Where a request stands after a move. *)
LEMMA MoveType ==
  ASSUME TypeOK, NEW R \in SUBSET Requests, NEW to \in Standing, Move(R, to)
  PROVE  request' \in [Requests -> Standing]
BY DEF Move, TypeOK

(* The requests that wait on a client are requests. *)
LEMMA AwaitingType ==
  ASSUME NEW place, NEW c
  PROVE  Awaiting(place, c) \in SUBSET Requests
BY DEF Awaiting

(* A place and a client are a standing. *)
LEMMA AtType ==
  ASSUME NEW place \in {"new", "dial", "recovery", "sent", "done", "failed"},
         NEW c \in Clients \cup {NoClient}
  PROVE  At(place, c) \in Standing
BY DEF At, Standing

(* A recovery begins with values of their types. *)
LEMMA BeginRecoveryType ==
  ASSUME TypeOK, NEW c \in Clients, BeginRecovery(c)
  PROVE  /\ recovering' \in BOOLEAN
         /\ socket' \in [Clients -> {"none", "opening", "greeting", "live"}]
         /\ loop' \in [Clients -> {"none", "trying", "waiting"}]
         /\ attempts' \in [Clients -> 0..MaxAttempts]
         /\ told' \in {"nothing", "lost", "restored", "unavailable"}
<1>1. 1 \in 0..MaxAttempts
  BY ConnectionBounds
<1> QED BY <1>1 DEF TypeOK, BeginRecovery

-----------------------------------------------------------------------------
(* Type correctness. *)

(* A request keeps the types. *)
LEMMA AskType ==
  ASSUME TypeOK, NEW r \in Requests, Ask(r) \/ Settles(r)
  PROVE  TypeOK'
<1> USE DEF module, client
<1>0. NoClient \in Clients \cup {NoClient} /\ {r} \in SUBSET Requests
  OBVIOUS
<1>1. CASE AskDials(r)
  <2> DEFINE c == IF transport = NoClient THEN made + 1 ELSE transport
  <2>1. c \in Clients /\ made' \in 0..MaxClients
    BY <1>1, ConnectionBounds DEF AskDials, TypeOK, Clients, NoClient
  <2>2. request' \in [Requests -> Standing]
    <3>1. Move({r}, At("dial", c))
      BY <1>1 DEF AskDials
    <3> HIDE DEF c
    <3> QED BY <1>0, <2>1, <3>1, MoveType, AtType
  <2>3. /\ transport' = c
        /\ connecting' = Dial(c)
        /\ socket' = [socket EXCEPT ![c] = "opening"]
        /\ listened' = [listened EXCEPT ![c] = TRUE]
        /\ UNCHANGED <<recovering, told, loop, attempts, drops, refusals>>
    BY <1>1 DEF AskDials
  <2> HIDE DEF c
  <2> QED BY <2>1, <2>2, <2>3 DEF TypeOK
<1>2. CASE AskFindsSocket(r)
  <2>1. request' \in [Requests -> Standing]
    <3> DEFINE R == {r} \cup Awaiting("sent", transport) \cup Awaiting("dial", transport)
    <3>1. R \in SUBSET Requests
      BY AwaitingType
    <3>2. Move(R, At("failed", NoClient))
      BY <1>2 DEF AskFindsSocket
    <3> HIDE DEF R
    <3> QED BY <1>0, <3>1, <3>2, MoveType, AtType
  <2> QED BY <1>2, <2>1 DEF AskFindsSocket, TypeOK
<1>3. CASE AskWaits(r)
  <2>1. connecting.of \in {"dial", "recovery"} /\ connecting.by \in Clients
    BY <1>3 DEF AskWaits, TypeOK, NoPromise, Connected, Dial, Recovery
  <2>2. request' \in [Requests -> Standing]
    BY <1>0, <1>3, <2>1, MoveType, AtType DEF AskWaits
  <2> QED BY <1>3, <2>2 DEF AskWaits, TypeOK
<1>4. CASE AskSends(r)
  <2>1. CASE transport # NoClient /\ socket[transport] = "live"
    <3>1. Move({r}, At("sent", transport)) /\ transport \in Clients
      BY <1>4, <2>1 DEF AskSends, TypeOK
    <3>2. request' \in [Requests -> Standing]
      BY <1>0, <3>1, MoveType, AtType
    <3> QED BY <1>4, <3>2 DEF AskSends, TypeOK
  <2>2. CASE ~(transport # NoClient /\ socket[transport] = "live")
    <3>1. Move({r}, At("failed", NoClient))
      BY <1>4, <2>2 DEF AskSends
    <3>2. request' \in [Requests -> Standing]
      BY <1>0, <3>1, MoveType, AtType
    <3> QED BY <1>4, <3>2 DEF AskSends, TypeOK
  <2> QED BY <2>1, <2>2
<1>5. CASE Settles(r)
  <2>1. PICK end \in {"done", "failed"} : Move({r}, At(end, NoClient))
    BY <1>5 DEF Settles
  <2>2. request' \in [Requests -> Standing]
    BY <1>0, <2>1, MoveType, AtType
  <2> QED BY <1>5, <2>2 DEF Settles, TypeOK
<1> QED BY <1>1, <1>2, <1>3, <1>4, <1>5 DEF Ask

(* What waited on a client may be moved to any standing. *)
LEMMA MoveAwaitingType ==
  ASSUME TypeOK, NEW place, NEW c,
         NEW to \in {"sent", "failed"}, NEW by \in Clients \cup {NoClient},
         Move(Awaiting(place, c), At(to, by))
  PROVE  request' \in [Requests -> Standing]
BY MoveType, AwaitingType, AtType

(* A client keeps the types. *)
LEMMA ConnectType ==
  ASSUME TypeOK, NEW c \in Clients, Connects(c) \/ Loops(c) \/ Drops(c)
  PROVE  TypeOK'
<1> USE DEF module, client
<1>1. CASE SocketOpens(c)
  BY <1>1 DEF SocketOpens, TypeOK
<1>2. CASE DialFindsNoDaemon(c)
  <2>1. request' \in [Requests -> Standing]
    BY <1>2, MoveAwaitingType DEF DialFindsNoDaemon
  <2> QED BY <1>2, <2>1 DEF DialFindsNoDaemon, TypeOK
<1>3. CASE DialIsRefused(c)
  <2>1. request' \in [Requests -> Standing]
    BY <1>3, MoveAwaitingType DEF DialIsRefused
  <2>2. refusals' \in 0..MaxRefusals
    BY <1>3, ConnectionBounds DEF DialIsRefused, TypeOK
  <2>3. CASE Hears(c)
    <3>1. BeginRecovery(c)
      BY <1>3, <2>3 DEF DialIsRefused
    <3> QED BY <1>3, <2>1, <2>2, <3>1, BeginRecoveryType DEF DialIsRefused, TypeOK
  <2>4. CASE ~Hears(c)
    BY <1>3, <2>1, <2>2, <2>4 DEF DialIsRefused, TypeOK
  <2> QED BY <2>3, <2>4
<1>4. CASE DialIsGreeted(c)
  <2>1. request' \in [Requests -> Standing]
    BY <1>4, MoveAwaitingType DEF DialIsGreeted
  <2> QED BY <1>4, <2>1 DEF DialIsGreeted, TypeOK
<1>5. CASE LoopFails(c)
  <2>1. CASE socket[c] = "greeting" /\ Hears(c)
    <3>1. BeginRecovery(c) /\ connecting' = Recovery(c)
      BY <1>5, <2>1 DEF LoopFails, RecoveryPromise
    <3> QED BY <1>5, <3>1, BeginRecoveryType DEF LoopFails, TypeOK
  <2>2. CASE ~(socket[c] = "greeting" /\ Hears(c))
    BY <1>5, <2>2 DEF LoopFails, TypeOK, AfterFailedAttempt
  <2> QED BY <2>1, <2>2
<1>6. CASE LoopRetries(c)
  <2>1. attempts[c] \in 0..MaxAttempts /\ attempts[c] < MaxAttempts
    BY <1>6 DEF LoopRetries, MayRetry, TypeOK
  <2>2. attempts[c] + 1 \in 0..MaxAttempts
    BY <2>1, ConnectionBounds
  <2> QED BY <1>6, <2>2 DEF LoopRetries, TypeOK
<1>7. CASE LoopIsGreeted(c)
  <2>1. request' \in [Requests -> Standing]
    BY <1>7, MoveAwaitingType DEF LoopIsGreeted
  <2> QED BY <1>7, <2>1 DEF LoopIsGreeted, TypeOK
<1>8. CASE LoopGivesUp(c)
  <2>1. request' \in [Requests -> Standing]
    BY <1>8, MoveAwaitingType DEF LoopGivesUp
  <2> QED BY <1>8, <2>1 DEF LoopGivesUp, TypeOK
<1>9. CASE Drops(c)
  <2>1. request' \in [Requests -> Standing]
    BY <1>9, MoveAwaitingType DEF Drops, FailsWithDrop
  <2>2. drops' \in 0..MaxDrops
    BY <1>9, ConnectionBounds DEF Drops, TypeOK
  <2>3. CASE Hears(c)
    <3>1. BeginRecovery(c) /\ connecting' = Recovery(c)
      BY <1>9, <2>3 DEF Drops, RecoveryPromise
    <3> QED BY <1>9, <2>1, <2>2, <3>1, BeginRecoveryType DEF Drops, TypeOK
  <2>4. CASE ~Hears(c)
    BY <1>9, <2>1, <2>2, <2>4 DEF Drops, TypeOK
  <2> QED BY <2>3, <2>4
<1> QED BY <1>1, <1>2, <1>3, <1>4, <1>5, <1>6, <1>7, <1>8, <1>9 DEF Connects, Loops

(* TypeOK holds of the initial states, and every step keeps it. *)
LEMMA TypeOKInit == Init => TypeOK
<1> SUFFICES ASSUME Init PROVE TypeOK
  OBVIOUS
<1>1. NoClient \in Clients \cup {NoClient}
  OBVIOUS
<1>2. At("new", NoClient) \in Standing
  BY <1>1, AtType
<1>3. 0 \in 0..MaxClients /\ 0 \in 0..MaxAttempts /\ 0 \in 0..MaxDrops /\ 0 \in 0..MaxRefusals
  BY ConnectionBounds
<1> QED BY <1>1, <1>2, <1>3 DEF Init, TypeOK

LEMMA TypeOKStep == TypeOK /\ [Next]_vars => TypeOK'
<1> SUFFICES ASSUME TypeOK, [Next]_vars PROVE TypeOK'
  OBVIOUS
<1>1. CASE UNCHANGED vars
  BY <1>1 DEF vars, module, client, TypeOK
<1>2. CASE Next
  BY <1>2, AskType, ConnectType DEF Next
<1> QED BY <1>1, <1>2

(* The variables keep their types, whatever the daemon does. *)
THEOREM ConnectionTypeCorrect == Spec => []TypeOK
BY TypeOKInit, TypeOKStep, PTL DEF Spec
-----------------------------------------------------------------------------
(* The phases of the connection, as long as no dial fails after its socket   *)
(* opened.                                                                   *)

(* A client the connection closed is left alone: no socket, no loop. *)
ClosedIsLeftAlone ==
  \A c \in Clients : c # transport => socket[c] = "none" /\ loop[c] = "none"

(* No client, no promise. *)
Unmade == transport = NoClient /\ connecting = NoPromise /\ ~recovering

Dialling ==
  /\ transport # NoClient /\ connecting = Dial(transport) /\ ~recovering
  /\ listened[transport] /\ loop[transport] = "none"
  /\ socket[transport] \in {"opening", "greeting"}

Live ==
  /\ transport # NoClient /\ connecting = Connected /\ ~recovering
  /\ listened[transport] /\ loop[transport] = "none"
  /\ socket[transport] = "live"

Recovering ==
  /\ transport # NoClient /\ connecting = Recovery(transport) /\ recovering
  /\ listened[transport]
  /\ \/ loop[transport] = "trying" /\ socket[transport] \in {"opening", "greeting"}
     \/ loop[transport] = "waiting" /\ socket[transport] = "none"

(* A request waits, or is in flight, only with the current client, and only  *)
(* in the phase that settles it.                                             *)
RequestsFollow ==
  \A r \in Requests :
    /\ request[r].at = "dial" => request[r].by = transport /\ Dialling
    /\ request[r].at = "recovery" => request[r].by = transport /\ Recovering
    /\ request[r].at = "sent" => request[r].by = transport /\ Live

Phases ==
  /\ TypeOK
  /\ ClosedIsLeftAlone
  /\ Unmade \/ Dialling \/ Live \/ Recovering
  /\ RequestsFollow

(* The promises are told apart. *)
LEMMA PromisesDiffer ==
  ASSUME NEW c, NEW d
  PROVE  /\ NoPromise # Dial(c) /\ NoPromise # Recovery(c) /\ NoPromise # Connected
         /\ Dial(c) # Recovery(d) /\ Dial(c) # Connected /\ Recovery(c) # Connected
         /\ (Dial(c) = Dial(d) => c = d) /\ (Recovery(c) = Recovery(d) => c = d)
         /\ Dial(c).of = "dial" /\ Dial(c).by = c
         /\ Recovery(c).of = "recovery" /\ Recovery(c).by = c
         /\ NoPromise.of = "nothing" /\ Connected.of = "hello"
BY DEF NoPromise, Dial, Recovery, Connected

(* Where each request stands after a move. *)
LEMMA MoveResult ==
  ASSUME NEW R, NEW to, Move(R, to), NEW r \in Requests
  PROVE  request'[r] = IF r \in R THEN to ELSE request[r]
BY DEF Move

(* A request awaits a client at a place when it stands there. *)
LEMMA AwaitingResult ==
  ASSUME TypeOK, NEW place, NEW c, NEW r \in Requests
  PROVE  r \in Awaiting(place, c) <=> request[r].at = place /\ request[r].by = c
BY DEF Awaiting, At, TypeOK, Standing

(* The parts of a standing. *)
LEMMA AtParts ==
  ASSUME NEW place, NEW c
  PROVE  At(place, c).at = place /\ At(place, c).by = c
BY DEF At

(* A request keeps the phases. *)
LEMMA AskPhases ==
  ASSUME Phases, NEW r \in Requests, Ask(r) \/ Settles(r)
  PROVE  Phases'
<1> USE DEF module, client
<1>0. TypeOK /\ TypeOK'
  BY AskType DEF Phases
<1>1. CASE AskDials(r)
  <2>1. transport = NoClient /\ Unmade /\ ~Dialling /\ ~Live /\ ~Recovering
    BY <1>1, PromisesDiffer DEF AskDials, Phases, Unmade, Dialling, Live, Recovering
  <2>2. transport' \in Clients /\ transport' # NoClient
    BY <1>0, <1>1, <2>1, ConnectionBounds DEF AskDials, TypeOK, Clients, NoClient
  <2>3. Dialling'
    BY <1>0, <1>1, <2>1, <2>2 DEF AskDials, Dialling, Unmade, ClosedIsLeftAlone, Phases, TypeOK
  <2>4. ClosedIsLeftAlone'
    <3>1. \A d \in Clients : socket[d] = "none" /\ loop[d] = "none"
      BY <2>1 DEF ClosedIsLeftAlone, Phases, Clients, NoClient
    <3>2. socket' = [socket EXCEPT ![transport'] = "opening"] /\ UNCHANGED loop
      BY <1>1, <2>1 DEF AskDials
    <3> QED BY <1>0, <3>1, <3>2 DEF ClosedIsLeftAlone, TypeOK
  <2>5. RequestsFollow'
    <3>1. Move({r}, At("dial", transport'))
      BY <1>1, <2>1 DEF AskDials
    <3>2. \A q \in Requests : request'[q] = IF q = r THEN At("dial", transport') ELSE request[q]
      BY <3>1, MoveResult
    <3>3. \A q \in Requests : request[q].at \notin {"dial", "recovery", "sent"}
      BY <2>1 DEF Phases, RequestsFollow
    <3> QED BY <2>3, <3>2, <3>3, AtParts DEF RequestsFollow
  <2> QED BY <1>0, <2>3, <2>4, <2>5 DEF Phases
<1>2. CASE AskFindsSocket(r)
  BY <1>2, PromisesDiffer DEF AskFindsSocket, Phases, Unmade, Dialling, Live, Recovering
<1>3. CASE AskWaits(r)
  <2>1. (Dialling /\ connecting.of = "dial") \/ (Recovering /\ connecting.of = "recovery")
    BY <1>3, PromisesDiffer DEF AskWaits, Phases, Unmade, Dialling, Live, Recovering
  <2>2. connecting.by = transport
    BY <2>1, PromisesDiffer DEF Dialling, Recovering
  <2>3. UNCHANGED <<module, client>>
    BY <1>3 DEF AskWaits
  <2>4. /\ Unmade' = Unmade /\ Dialling' = Dialling /\ Live' = Live
        /\ Recovering' = Recovering /\ ClosedIsLeftAlone' = ClosedIsLeftAlone
    BY <2>3 DEF Unmade, Dialling, Live, Recovering, ClosedIsLeftAlone
  <2>5. RequestsFollow'
    <3>1. \A q \in Requests :
            request'[q] = IF q = r THEN At(connecting.of, connecting.by) ELSE request[q]
      BY <1>3, MoveResult DEF AskWaits
    <3> QED BY <2>1, <2>2, <2>3, <2>4, <3>1, AtParts DEF RequestsFollow, Phases
  <2> QED BY <1>0, <2>4, <2>5 DEF Phases
<1>4. CASE AskSends(r)
  <2>1. Live
    BY <1>4, PromisesDiffer DEF AskSends, Phases, Unmade, Dialling, Live, Recovering
  <2>2. UNCHANGED <<module, client>>
    BY <1>4 DEF AskSends
  <2>3. /\ Unmade' = Unmade /\ Dialling' = Dialling /\ Live' = Live
        /\ Recovering' = Recovering /\ ClosedIsLeftAlone' = ClosedIsLeftAlone
    BY <2>2 DEF Unmade, Dialling, Live, Recovering, ClosedIsLeftAlone
  <2>4. RequestsFollow'
    <3>1. Move({r}, At("sent", transport))
      BY <1>4, <2>1 DEF AskSends, Live
    <3>2. \A q \in Requests : request'[q] = IF q = r THEN At("sent", transport) ELSE request[q]
      BY <3>1, MoveResult
    <3> QED BY <2>1, <2>2, <2>3, <3>2, AtParts DEF RequestsFollow, Phases
  <2> QED BY <1>0, <2>3, <2>4 DEF Phases
<1>5. CASE Settles(r)
  <2>1. UNCHANGED <<module, client>>
    BY <1>5 DEF Settles
  <2>2. /\ Unmade' = Unmade /\ Dialling' = Dialling /\ Live' = Live
        /\ Recovering' = Recovering /\ ClosedIsLeftAlone' = ClosedIsLeftAlone
    BY <2>1 DEF Unmade, Dialling, Live, Recovering, ClosedIsLeftAlone
  <2>3. RequestsFollow'
    <3>1. PICK end \in {"done", "failed"} : Move({r}, At(end, NoClient))
      BY <1>5 DEF Settles
    <3>2. \A q \in Requests : request'[q] = IF q = r THEN At(end, NoClient) ELSE request[q]
      BY <3>1, MoveResult
    <3> QED BY <2>1, <2>2, <3>2, AtParts DEF RequestsFollow, Phases
  <2> QED BY <1>0, <2>2, <2>3 DEF Phases
<1> QED BY <1>1, <1>2, <1>3, <1>4, <1>5 DEF Ask

(* What waits is moved on when the phase it waits for ends. *)
LEMMA AwaitedMove ==
  ASSUME Phases, NEW place \in {"dial", "recovery", "sent"},
         NEW to \in {"sent", "failed"}, NEW by,
         Move(Awaiting(place, transport), At(to, by))
  PROVE  \A r \in Requests :
           request'[r] = IF request[r].at = place THEN At(to, by) ELSE request[r]
<1>1. ASSUME NEW r \in Requests
      PROVE  r \in Awaiting(place, transport) <=> request[r].at = place
  BY AwaitingResult DEF Phases, RequestsFollow
<1> QED BY <1>1, MoveResult

(* A client keeps the phases, as long as it refuses no dial. *)
LEMMA ConnectPhases ==
  ASSUME refusals' = 0, Phases, NEW c \in Clients, Connects(c) \/ Loops(c) \/ Drops(c)
  PROVE  Phases'
<1> USE DEF module, client
<1>0. TypeOK /\ TypeOK' /\ c # NoClient
  BY ConnectType DEF Phases, Clients, NoClient
<1>1. c = transport
  BY <1>0 DEF Phases, ClosedIsLeftAlone, Connects, SocketOpens, DialFindsNoDaemon, DialIsRefused,
     DialIsGreeted, LoopFails, LoopIsGreeted, Loops, LoopRetries, LoopGivesUp, Drops
<1>2. transport' \in {c, NoClient}
  BY <1>0, <1>1 DEF Connects, SocketOpens, DialFindsNoDaemon, DialIsRefused, DialIsGreeted,
     LoopFails, LoopIsGreeted, Loops, LoopRetries, LoopGivesUp, Drops, BeginRecovery
<1>3. CASE SocketOpens(c)
  <2>1. ~Unmade /\ ~Live
    BY <1>0, <1>1, <1>3 DEF SocketOpens, Unmade, Live
  <2>2. (Dialling => Dialling') /\ (Recovering => Recovering')
    BY <1>0, <1>1, <1>3 DEF SocketOpens, Dialling, Recovering, TypeOK
  <2>3. ClosedIsLeftAlone'
    BY <1>0, <1>1, <1>3 DEF SocketOpens, ClosedIsLeftAlone, Phases, TypeOK
  <2>4. RequestsFollow'
    BY <1>3, <2>1, <2>2 DEF SocketOpens, RequestsFollow, Phases
  <2> QED BY <1>0, <2>1, <2>2, <2>3, <2>4 DEF Phases
<1>4. CASE DialFindsNoDaemon(c)
  <2>1. Dialling /\ ~Live /\ ~Recovering
    BY <1>0, <1>1, <1>4, PromisesDiffer
    DEF DialFindsNoDaemon, Phases, Unmade, Dialling, Live, Recovering
  <2>2. Unmade'
    BY <1>4, <2>1 DEF DialFindsNoDaemon, Unmade, Dialling
  <2>3. ClosedIsLeftAlone'
    BY <1>0, <1>1, <1>4, <2>1 DEF DialFindsNoDaemon, ClosedIsLeftAlone, Phases, TypeOK, Dialling
  <2>4. RequestsFollow'
    <3>1. \A r \in Requests :
            request'[r] = IF request[r].at = "dial" THEN At("failed", NoClient) ELSE request[r]
      BY <1>1, <1>4, AwaitedMove DEF DialFindsNoDaemon
    <3> QED BY <2>1, <3>1, AtParts DEF RequestsFollow, Phases
  <2> QED BY <1>0, <2>2, <2>3, <2>4 DEF Phases
<1>5. CASE DialIsRefused(c)
  BY <1>0, <1>5 DEF DialIsRefused, TypeOK
<1>6. CASE DialIsGreeted(c)
  <2>1. Dialling /\ ~Live /\ ~Recovering
    BY <1>0, <1>1, <1>6, PromisesDiffer
    DEF DialIsGreeted, Phases, Unmade, Dialling, Live, Recovering
  <2>2. Live'
    BY <1>0, <1>1, <1>6, <2>1 DEF DialIsGreeted, Dialling, Live, TypeOK
  <2>3. ClosedIsLeftAlone'
    BY <1>0, <1>1, <1>6 DEF DialIsGreeted, ClosedIsLeftAlone, Phases, TypeOK
  <2>4. RequestsFollow'
    <3>1. \A r \in Requests :
            request'[r] = IF request[r].at = "dial" THEN At("sent", c) ELSE request[r]
      BY <1>1, <1>6, AwaitedMove DEF DialIsGreeted
    <3>2. transport' = c
      BY <1>1, <1>6 DEF DialIsGreeted
    <3> QED BY <2>1, <2>2, <3>1, <3>2, AtParts DEF RequestsFollow, Phases
  <2> QED BY <1>0, <2>2, <2>3, <2>4 DEF Phases
<1>7. CASE LoopFails(c)
  <2>1. Recovering /\ ~Dialling /\ ~Live /\ ~Hears(c)
    BY <1>0, <1>1, <1>7, PromisesDiffer
    DEF LoopFails, Phases, Unmade, Dialling, Live, Recovering, Hears
  <2>2. /\ socket' = [socket EXCEPT ![c] = "none"]
        /\ loop' = [loop EXCEPT ![c] = "waiting"]
        /\ UNCHANGED <<transport, connecting, recovering, listened, request>>
    BY <1>7, <2>1 DEF LoopFails, AfterFailedAttempt
  <2>3. Recovering'
    BY <1>0, <1>1, <2>1, <2>2 DEF Recovering, TypeOK
  <2>4. ClosedIsLeftAlone'
    BY <1>0, <1>1, <2>2 DEF ClosedIsLeftAlone, Phases, TypeOK
  <2>5. RequestsFollow'
    BY <2>1, <2>2, <2>3 DEF RequestsFollow, Phases
  <2> QED BY <1>0, <2>3, <2>4, <2>5 DEF Phases
<1>8. CASE LoopRetries(c)
  <2>1. Recovering /\ ~Dialling /\ ~Live
    BY <1>0, <1>1, <1>8, PromisesDiffer
    DEF LoopRetries, Phases, Unmade, Dialling, Live, Recovering
  <2>2. Recovering'
    BY <1>0, <1>1, <1>8, <2>1 DEF LoopRetries, Recovering, TypeOK
  <2>3. ClosedIsLeftAlone'
    BY <1>0, <1>1, <1>8 DEF LoopRetries, ClosedIsLeftAlone, Phases, TypeOK
  <2>4. RequestsFollow'
    BY <1>8, <2>1, <2>2 DEF LoopRetries, RequestsFollow, Phases
  <2> QED BY <1>0, <2>2, <2>3, <2>4 DEF Phases
<1>9. CASE LoopIsGreeted(c)
  <2>1. Recovering /\ ~Dialling /\ ~Live
    BY <1>0, <1>1, <1>9, PromisesDiffer
    DEF LoopIsGreeted, Phases, Unmade, Dialling, Live, Recovering
  <2>2. Live'
    BY <1>0, <1>1, <1>9, <2>1 DEF LoopIsGreeted, Recovering, Live, TypeOK
  <2>3. ClosedIsLeftAlone'
    BY <1>0, <1>1, <1>9 DEF LoopIsGreeted, ClosedIsLeftAlone, Phases, TypeOK
  <2>4. RequestsFollow'
    <3>1. \A r \in Requests :
            request'[r] = IF request[r].at = "recovery" THEN At("sent", c) ELSE request[r]
      BY <1>1, <1>9, AwaitedMove DEF LoopIsGreeted
    <3>2. transport' = c
      BY <1>1, <1>9 DEF LoopIsGreeted
    <3> QED BY <2>1, <2>2, <3>1, <3>2, AtParts DEF RequestsFollow, Phases
  <2> QED BY <1>0, <2>2, <2>3, <2>4 DEF Phases
<1>10. CASE LoopGivesUp(c)
  <2>1. Recovering /\ ~Dialling /\ ~Live /\ socket[c] = "none"
    BY <1>0, <1>1, <1>10, PromisesDiffer
    DEF LoopGivesUp, Phases, Unmade, Dialling, Live, Recovering
  <2>2. Unmade'
    BY <1>1, <1>10 DEF LoopGivesUp, Unmade
  <2>3. ClosedIsLeftAlone'
    BY <1>0, <1>1, <1>10, <2>1 DEF LoopGivesUp, ClosedIsLeftAlone, Phases, TypeOK
  <2>4. RequestsFollow'
    <3>1. \A r \in Requests :
            request'[r] = IF request[r].at = "recovery" THEN At("failed", NoClient) ELSE request[r]
      BY <1>1, <1>10, AwaitedMove DEF LoopGivesUp
    <3> QED BY <2>1, <3>1, AtParts DEF RequestsFollow, Phases
  <2> QED BY <1>0, <2>2, <2>3, <2>4 DEF Phases
<1>11. CASE Drops(c)
  <2>1. Live /\ ~Dialling /\ ~Recovering /\ Hears(c)
    BY <1>0, <1>1, <1>11, PromisesDiffer
    DEF Drops, Phases, Unmade, Dialling, Live, Recovering, Hears
  <2>2. BeginRecovery(c) /\ connecting' = Recovery(c) /\ UNCHANGED <<transport, listened>>
    BY <1>11, <2>1 DEF Drops, RecoveryPromise
  <2>3. Recovering'
    BY <1>0, <1>1, <2>1, <2>2 DEF BeginRecovery, Live, Recovering, TypeOK
  <2>4. ClosedIsLeftAlone'
    BY <1>0, <1>1, <2>2 DEF BeginRecovery, ClosedIsLeftAlone, Phases, TypeOK
  <2>5. RequestsFollow'
    <3>1. \A r \in Requests :
            request'[r] = IF request[r].at = "sent" THEN At("failed", NoClient) ELSE request[r]
      BY <1>1, <1>11, AwaitedMove DEF Drops, FailsWithDrop
    <3> QED BY <2>1, <3>1, AtParts DEF RequestsFollow, Phases
  <2> QED BY <1>0, <2>3, <2>4, <2>5 DEF Phases
<1> QED BY <1>3, <1>4, <1>5, <1>6, <1>7, <1>8, <1>9, <1>10, <1>11 DEF Connects, Loops

(* The phases hold at first. *)
LEMMA PhasesInit == Init => Phases
<1> SUFFICES ASSUME Init PROVE Phases
  OBVIOUS
<1>1. Unmade /\ ClosedIsLeftAlone
  BY DEF Init, Unmade, ClosedIsLeftAlone
<1>2. RequestsFollow
  <2>1. \A r \in Requests : request[r].at = "new"
    BY AtParts DEF Init
  <2> QED BY <2>1 DEF RequestsFollow
<1> QED BY <1>1, <1>2, TypeOKInit DEF Phases

(* Every step keeps them, as long as no dial is refused. *)
LEMMA PhasesStep ==
  ASSUME refusals' = 0, Phases, [Next]_vars
  PROVE  Phases'
<1>1. CASE UNCHANGED vars
  <2>1. UNCHANGED <<module, client, request, drops, refusals>>
    BY <1>1 DEF vars
  <2>2. TypeOK'
    BY <2>1 DEF Phases, TypeOK, module, client
  <2>3. /\ Unmade' = Unmade /\ Dialling' = Dialling /\ Live' = Live
        /\ Recovering' = Recovering /\ ClosedIsLeftAlone' = ClosedIsLeftAlone
    BY <2>1 DEF Unmade, Dialling, Live, Recovering, ClosedIsLeftAlone, module, client
  <2>4. RequestsFollow'
    BY <2>1, <2>3 DEF Phases, RequestsFollow, module
  <2> QED BY <2>2, <2>3, <2>4 DEF Phases
<1>2. CASE Next
  BY <1>2, AskPhases, ConnectPhases DEF Next
<1> QED BY <1>1, <1>2

(* Refusals are counted: the phases hold until the first one. *)
UntilRefused == TypeOK /\ (refusals = 0 => Phases)

LEMMA PhasesUntilRefused == Spec => []UntilRefused
<1>1. Init => UntilRefused
  BY PhasesInit DEF UntilRefused, Phases
<1>2. UntilRefused /\ [Next]_vars => UntilRefused'
  <2> SUFFICES ASSUME UntilRefused, [Next]_vars, refusals' = 0
               PROVE  Phases'
    BY TypeOKStep DEF UntilRefused
  <2>1. refusals = 0 \/ refusals' # 0
    <3>1. refusals \in Nat
      BY ConnectionBounds DEF UntilRefused, TypeOK
    <3>2. refusals' \in {refusals, refusals + 1}
      BY DEF vars, module, client, Next, Ask, AskDials, AskFindsSocket, AskWaits, AskSends,
             Settles, Connects, Loops, SocketOpens, DialFindsNoDaemon, DialIsRefused,
             DialIsGreeted, LoopFails, LoopRetries, LoopIsGreeted, LoopGivesUp, Drops
    <3> QED BY <3>1, <3>2
  <2> QED BY <2>1, PhasesStep DEF UntilRefused
<1> QED BY <1>1, <1>2, PTL DEF Spec

(* Until a dial fails after its socket opened, a settled promise stands for  *)
(* a live socket and nobody waits on a promise nothing settles.              *)
THEOREM ConnectionIsSound ==
  Spec => [](refusals = 0 => ConnectedIsLive /\ NobodyWaitsInVain)
<1>1. UntilRefused => (refusals = 0 => ConnectedIsLive /\ NobodyWaitsInVain)
  <2> SUFFICES ASSUME Phases
               PROVE  ConnectedIsLive /\ NobodyWaitsInVain
    BY DEF UntilRefused
  <2>1. ConnectedIsLive
    BY PromisesDiffer DEF Phases, ConnectedIsLive, Unmade, Dialling, Live, Recovering
  <2>2. NobodyWaitsInVain
    <3> SUFFICES ASSUME NEW r \in Requests
                 PROVE  /\ request[r].at = "dial" =>
                             /\ connecting = Dial(request[r].by)
                             /\ socket[request[r].by] \in {"opening", "greeting"}
                        /\ request[r].at = "recovery" =>
                             /\ connecting = Recovery(request[r].by)
                             /\ loop[request[r].by] # "none"
      BY DEF NobodyWaitsInVain
    <3> QED BY DEF Phases, RequestsFollow, Dialling, Recovering
  <2> QED BY <2>1, <2>2
<1> QED BY <1>1, PhasesUntilRefused, PTL

-----------------------------------------------------------------------------
(* A client the connection closed carries nothing, however many dials fail.  *)

(* A loop that tries has a socket that opens, one that waits has none. *)
LoopSocket ==
  \A c \in Clients :
    /\ loop[c] = "trying" => socket[c] \in {"opening", "greeting"}
    /\ loop[c] = "waiting" => socket[c] = "none"

(* Only the current client dials, and only clients made have a loop. *)
DialsCurrent ==
  \A c \in Clients :
    /\ socket[c] \in {"opening", "greeting"} /\ loop[c] = "none" => c = transport
    /\ loop[c] # "none" => c <= made

(* While the current client recovers, the promise is its recovery's. *)
PromiseOfLoop ==
  /\ transport <= made
  /\ \A c \in Clients : c = transport /\ loop[c] # "none" => connecting = Recovery(c)
  /\ \A c \in Clients : connecting = Dial(c) =>
       c = transport /\ loop[c] = "none" /\ socket[c] \in {"opening", "greeting"}
  /\ \A c \in Clients : connecting = Recovery(c) => c = transport /\ loop[c] # "none"

(* Where a request stands tells what its client is doing. *)
RequestOfClient ==
  \A r \in Requests :
    /\ request[r].at \in {"new", "done", "failed"} => request[r].by = NoClient
    /\ request[r].at = "dial" =>
         \A c \in Clients : request[r].by = c =>
           loop[c] = "none" /\ socket[c] \in {"opening", "greeting"}
    /\ request[r].at = "recovery" =>
         \A c \in Clients : request[r].by = c => loop[c] # "none"
    /\ request[r].at = "sent" =>
         \A c \in Clients : request[r].by = c => socket[c] = "live"

CarriesInv ==
  /\ TypeOK /\ ClosedCarriesNothing
  /\ LoopSocket /\ DialsCurrent /\ PromiseOfLoop /\ RequestOfClient

(* No client has a loop while no recovery runs, and one at most otherwise.   *)
LEMMA OneLoop ==
  ASSUME CarriesInv, NEW c \in Clients
  PROVE  /\ ~recovering => loop[c] = "none"
         /\ loop[c] # "none" => \A d \in Clients : d # c => loop[d] = "none"
BY DEF CarriesInv, ClosedCarriesNothing

(* Only the current client is listened to, and carries requests. *)
LEMMA OnlyCurrent ==
  ASSUME CarriesInv, NEW c \in Clients, c # transport
  PROVE  ~listened[c] /\ \A r \in Requests : request[r].by # c
BY DEF CarriesInv, ClosedCarriesNothing

(* A request's step keeps what a closed client carries. *)
LEMMA AskCarries ==
  ASSUME CarriesInv, NEW r \in Requests, Ask(r) \/ Settles(r)
  PROVE  CarriesInv'
<1> USE DEF module, client
<1>0. TypeOK /\ TypeOK' /\ \A c \in Clients : c # NoClient
  BY AskType DEF CarriesInv, Clients, NoClient
<1>1. CASE AskDials(r)
  <2> DEFINE c == IF transport = NoClient THEN made + 1 ELSE transport
  <2>1. /\ connecting = NoPromise /\ socket[c] = "none" /\ transport' = c
        /\ connecting' = Dial(c)
        /\ socket' = [socket EXCEPT ![c] = "opening"]
        /\ listened' = [listened EXCEPT ![c] = TRUE]
        /\ Move({r}, At("dial", c))
        /\ UNCHANGED <<recovering, told, loop, attempts, drops, refusals>>
        /\ made' = IF transport = NoClient THEN made + 1 ELSE made
        /\ transport = NoClient => made < MaxClients
    BY <1>1 DEF AskDials
  <2>2. c \in Clients /\ c <= made' /\ made <= made'
    BY <1>0, <2>1, ConnectionBounds DEF CarriesInv, PromiseOfLoop, TypeOK, Clients, NoClient
  <2>3. transport # NoClient => c = transport
    OBVIOUS
  <2>4. loop[c] = "none"
    <3>1. CASE transport = NoClient
      BY <1>0, <2>2, <3>1, ConnectionBounds
      DEF CarriesInv, DialsCurrent, TypeOK, Clients
    <3>2. CASE transport # NoClient
      BY <2>1, <2>2, <3>2, PromisesDiffer DEF CarriesInv, PromiseOfLoop
    <3> QED BY <3>1, <3>2
  <2> HIDE DEF c
  <2>5. \A q \in Requests : request'[q] = IF q = r THEN At("dial", c) ELSE request[q]
    BY <2>1, MoveResult
  <2>6. \A q \in Requests, d \in Clients : d # c => request[q].by # d
    BY <2>3, <1>0, OnlyCurrent
  <2>7. \A q \in Requests : request[q].by \in {c, NoClient}
    BY <1>0, <2>6 DEF TypeOK, Standing
  <2>8. ClosedCarriesNothing'
    <3>1. \A d \in Clients : d # c => ~listened[d]
      BY <2>3, <1>0, OnlyCurrent
    <3>2. \A d \in Clients : d # c => ~listened'[d]
      BY <1>0, <2>1, <2>2, <3>1 DEF TypeOK
    <3>3. \A q \in Requests, d \in Clients : d # c => request'[q].by # d
      BY <2>5, <2>6, AtParts
    <3> QED BY <2>1, <3>2, <3>3 DEF CarriesInv, ClosedCarriesNothing
  <2>9. LoopSocket'
    BY <1>0, <2>1, <2>2, <2>4 DEF CarriesInv, LoopSocket, TypeOK
  <2>10. DialsCurrent'
    <3>1. \A d \in Clients : d # c => (socket[d] \in {"opening", "greeting"} => loop[d] # "none")
      BY <1>0, <2>3 DEF CarriesInv, DialsCurrent
    <3>2. \A d \in Clients : loop[d] # "none" => d <= made'
      BY <1>0, <2>1, <2>2, ConnectionBounds DEF CarriesInv, DialsCurrent, TypeOK, Clients
    <3> QED BY <1>0, <2>1, <2>2, <3>1, <3>2 DEF DialsCurrent, TypeOK
  <2>11. PromiseOfLoop'
    BY <1>0, <2>1, <2>2, <2>4, PromisesDiffer DEF PromiseOfLoop, TypeOK
  <2>12. RequestOfClient'
    <3>1. ASSUME NEW q \in Requests PROVE (RequestOfClient!(q))'
      <4>1. CASE q = r
        BY <1>0, <2>1, <2>2, <2>4, <2>5, <4>1, AtParts DEF RequestOfClient, TypeOK
      <4>2. CASE q # r
        <5>1. request'[q] = request[q]
          BY <2>5, <4>2
        <5>2. request[q].by = c => request[q].at \notin {"recovery", "sent", "dial"}
          <6>1. request[q].by = c => c = transport
            BY <2>2, OnlyCurrent
          <6>2. c = transport => connecting # Dial(c) /\ socket[c] = "none"
            BY <2>1, PromisesDiffer
          <6> QED BY <2>1, <2>2, <2>4 DEF CarriesInv, RequestOfClient
        <5>3. \A d \in Clients : d # c => request[q].by # d
          BY <2>6
        <5> QED BY <2>7, <5>1, <5>2, <5>3 DEF CarriesInv, RequestOfClient
      <4> QED BY <4>1, <4>2
    <3> QED BY <3>1 DEF RequestOfClient
  <2> QED BY <1>0, <2>8, <2>9, <2>10, <2>11, <2>12 DEF CarriesInv
<1>2. CASE AskFindsSocket(r)
  <2> DEFINE t == transport
             R == {r} \cup Awaiting("sent", transport) \cup Awaiting("dial", transport)
  <2>1. /\ connecting = NoPromise /\ t # NoClient /\ socket[t] \in {"greeting", "live"}
        /\ transport' = NoClient
        /\ socket' = [socket EXCEPT ![t] = "none"]
        /\ listened' = [listened EXCEPT ![t] = FALSE]
        /\ Move(R, At("failed", NoClient))
        /\ UNCHANGED <<made, connecting, recovering, told, loop, attempts, drops, refusals>>
    BY <1>2 DEF AskFindsSocket
  <2>2. t \in Clients /\ loop[t] = "none"
    BY <1>0, <2>1, PromisesDiffer DEF CarriesInv, PromiseOfLoop, TypeOK
  <2>3. \A q \in Requests :
          request'[q] = IF q \in R THEN At("failed", NoClient) ELSE request[q]
    BY <2>1, MoveResult
  <2>4. \A q \in Requests : q \notin R => request[q].by = NoClient
    <3> SUFFICES ASSUME NEW q \in Requests, q \notin R, request[q].by # NoClient PROVE FALSE
      OBVIOUS
    <3>1. request[q].by = t /\ request[q].by \in Clients
      BY <1>0, OnlyCurrent DEF TypeOK, Standing
    <3>2. request[q].at \notin {"sent", "dial"}
      BY <1>0, <3>1, AwaitingResult
    <3> QED BY <1>0, <2>2, <3>1, <3>2 DEF CarriesInv, RequestOfClient, TypeOK, Standing
  <2> HIDE DEF R
  <2>5. \A q \in Requests : request'[q].by = NoClient /\
          (q \in R => request'[q].at = "failed") /\ (q \notin R => request'[q] = request[q])
    BY <2>3, <2>4, AtParts
  <2>6. ClosedCarriesNothing'
    <3>1. \A d \in Clients : ~listened'[d]
      BY <1>0, <2>1, OnlyCurrent DEF TypeOK
    <3> QED BY <1>0, <2>1, <2>5, <3>1 DEF CarriesInv, ClosedCarriesNothing
  <2>7. LoopSocket' /\ DialsCurrent'
    BY <1>0, <2>1, <2>2 DEF CarriesInv, LoopSocket, DialsCurrent, TypeOK
  <2>8. PromiseOfLoop'
    BY <1>0, <2>1, PromisesDiffer DEF CarriesInv, PromiseOfLoop, TypeOK, NoClient
  <2>9. RequestOfClient'
    BY <1>0, <2>5 DEF CarriesInv, RequestOfClient
  <2> QED BY <1>0, <2>6, <2>7, <2>8, <2>9 DEF CarriesInv
<1>3. ASSUME NEW place, NEW by, Move({r}, At(place, by)), UNCHANGED <<module, client>>,
             by \in {transport, NoClient},
             \/ place \in {"done", "failed"} /\ by = NoClient
             \/ /\ by \in Clients
                /\ \/ place = "dial" /\ connecting = Dial(by)
                   \/ place = "recovery" /\ connecting = Recovery(by)
                   \/ place = "sent" /\ socket[by] = "live"
      PROVE  CarriesInv'
  <2>1. \A q \in Requests : request'[q] = IF q = r THEN At(place, by) ELSE request[q]
    BY <1>3, MoveResult
  <2>2. ClosedCarriesNothing'
    BY <1>0, <1>3, <2>1, AtParts DEF CarriesInv, ClosedCarriesNothing
  <2>3. LoopSocket' /\ DialsCurrent' /\ PromiseOfLoop'
    BY <1>3 DEF CarriesInv, LoopSocket, DialsCurrent, PromiseOfLoop
  <2>4. RequestOfClient'
    <3>1. ASSUME NEW q \in Requests PROVE (RequestOfClient!(q))'
      <4>1. CASE q = r
        <5>1. request'[q].at = place /\ request'[q].by = by
          BY <2>1, <4>1, AtParts
        <5> QED BY <1>0, <1>3, <5>1 DEF CarriesInv, PromiseOfLoop
      <4>2. CASE q # r
        BY <1>3, <2>1, <4>2 DEF CarriesInv, RequestOfClient
      <4> QED BY <4>1, <4>2
    <3> QED BY <3>1 DEF RequestOfClient
  <2> QED BY <1>0, <2>2, <2>3, <2>4 DEF CarriesInv
<1>4. CASE AskWaits(r)
  <2>1. /\ Move({r}, At(connecting.of, connecting.by)) /\ UNCHANGED <<module, client>>
        /\ connecting.of \in {"dial", "recovery"}
    BY <1>4 DEF AskWaits
  <2>2. /\ connecting.by \in Clients
        /\ \/ connecting.of = "dial" /\ connecting = Dial(connecting.by)
           \/ connecting.of = "recovery" /\ connecting = Recovery(connecting.by)
    BY <1>0, <2>1, PromisesDiffer DEF TypeOK
  <2>3. connecting.by = transport
    BY <2>2 DEF CarriesInv, PromiseOfLoop
  <2> QED BY <1>3, <2>1, <2>2, <2>3
<1>5. CASE AskSends(r)
  <2>1. CASE transport # NoClient /\ socket[transport] = "live"
    BY <1>0, <1>3, <1>5, <2>1 DEF AskSends, TypeOK
  <2>2. CASE ~(transport # NoClient /\ socket[transport] = "live")
    BY <1>3, <1>5, <2>2 DEF AskSends
  <2> QED BY <2>1, <2>2
<1>6. CASE Settles(r)
  <2>1. PICK end \in {"done", "failed"} : Move({r}, At(end, NoClient))
    BY <1>6 DEF Settles
  <2>2. UNCHANGED <<module, client>>
    BY <1>6 DEF Settles
  <2> QED BY <1>3, <2>1, <2>2
<1> QED BY <1>1, <1>2, <1>4, <1>5, <1>6 DEF Ask

(* The requests of one client move together; the others stay. *)
LEMMA CarriedMove ==
  ASSUME CarriesInv, NEW place, NEW c, NEW to, NEW by, Move(Awaiting(place, c), At(to, by))
  PROVE  \A r \in Requests :
           IF request[r].at = place /\ request[r].by = c
           THEN request'[r].at = to /\ request'[r].by = by
           ELSE request'[r] = request[r]
BY MoveResult, AwaitingResult, AtParts DEF CarriesInv

(* A client's step keeps what a closed client carries. *)
LEMMA ConnectCarries ==
  ASSUME CarriesInv, NEW c \in Clients, Connects(c) \/ Loops(c) \/ Drops(c)
  PROVE  CarriesInv'
<1> USE DEF module, client
<1>0. TypeOK /\ TypeOK' /\ (\A d \in Clients : d # NoClient)
  BY ConnectType DEF CarriesInv, Clients, NoClient
<1>1. CASE SocketOpens(c)
  <2>1. /\ socket[c] = "opening" /\ socket' = [socket EXCEPT ![c] = "greeting"]
        /\ UNCHANGED <<module, listened, loop, request>>
    BY <1>1 DEF SocketOpens
  <2>2. LoopSocket' /\ DialsCurrent' /\ PromiseOfLoop' /\ RequestOfClient'
    BY <1>0, <2>1 DEF CarriesInv, LoopSocket, DialsCurrent, PromiseOfLoop, RequestOfClient, TypeOK
  <2> QED BY <1>0, <2>1, <2>2 DEF CarriesInv, ClosedCarriesNothing
<1>2. CASE DialFindsNoDaemon(c) \/ DialIsRefused(c)
  <2>1. /\ socket[c] \in {"opening", "greeting"} /\ loop[c] # "trying"
        /\ connecting' = NoPromise /\ transport' = NoClient
        /\ listened' = [listened EXCEPT ![c] = FALSE]
        /\ Move(Awaiting("dial", c), At("failed", NoClient))
        /\ UNCHANGED made
        /\ \/ BeginRecovery(c) /\ Hears(c)
           \/ socket' = [socket EXCEPT ![c] = "none"] /\ UNCHANGED <<recovering, loop>>
    BY <1>2 DEF DialFindsNoDaemon, DialIsRefused
  <2>2. loop[c] = "none" /\ c = transport
    <3>1. loop[c] = "none"
      BY <1>0, <2>1 DEF CarriesInv, LoopSocket, TypeOK
    <3> QED BY <2>1, <3>1 DEF CarriesInv, DialsCurrent
  <2>3. \A r \in Requests :
          /\ request'[r].by = NoClient
          /\ request'[r] = request[r] \/ request'[r].at = "failed"
    <3> SUFFICES ASSUME NEW r \in Requests
                 PROVE  /\ request'[r].by = NoClient
                        /\ request'[r] = request[r] \/ request'[r].at = "failed"
      OBVIOUS
    <3>1. CASE request[r].at = "dial" /\ request[r].by = c
      BY <2>1, <3>1, CarriedMove
    <3>2. CASE ~(request[r].at = "dial" /\ request[r].by = c)
      <4>1. request'[r] = request[r]
        BY <2>1, <3>2, CarriedMove
      <4>2. request[r].by \in {c, NoClient}
        BY <1>0, <2>2, OnlyCurrent DEF TypeOK, Standing
      <4>3. request[r].by # c
        BY <1>0, <2>1, <2>2, <3>2 DEF CarriesInv, RequestOfClient, TypeOK, Standing
      <4> QED BY <4>1, <4>2, <4>3
    <3> QED BY <3>1, <3>2
  <2>4. \A d \in Clients : ~listened'[d]
    BY <1>0, <2>1, <2>2, OnlyCurrent DEF TypeOK
  <2>5. PromiseOfLoop'
    BY <1>0, <2>1, PromisesDiffer DEF CarriesInv, PromiseOfLoop, TypeOK, NoClient
  <2>6. RequestOfClient'
    BY <1>0, <2>3 DEF CarriesInv, RequestOfClient
  <2>7. ClosedCarriesNothing' /\ LoopSocket' /\ DialsCurrent'
    <3>1. CASE BeginRecovery(c) /\ Hears(c)
      <4>1. \A d \in Clients : loop[d] = "none"
        BY <3>1, OneLoop DEF Hears
      <4>2. /\ recovering' /\ loop' = [loop EXCEPT ![c] = "trying"]
            /\ socket' = [socket EXCEPT ![c] = "opening"]
        BY <3>1 DEF BeginRecovery
      <4>3. c <= made /\ made' = made
        BY <2>1, <2>2 DEF CarriesInv, PromiseOfLoop
      <4>4. ClosedCarriesNothing'
        BY <1>0, <2>1, <2>3, <2>4, <4>1, <4>2 DEF ClosedCarriesNothing, TypeOK
      <4>5. LoopSocket' /\ DialsCurrent'
        BY <1>0, <2>1, <2>2, <4>1, <4>2, <4>3 DEF CarriesInv, LoopSocket, DialsCurrent, TypeOK
      <4> QED BY <4>4, <4>5
    <3>2. CASE socket' = [socket EXCEPT ![c] = "none"] /\ UNCHANGED <<recovering, loop>>
      <4>1. ClosedCarriesNothing'
        BY <1>0, <2>1, <2>3, <2>4, <3>2 DEF CarriesInv, ClosedCarriesNothing
      <4>2. LoopSocket' /\ DialsCurrent'
        BY <1>0, <2>1, <2>2, <3>2 DEF CarriesInv, LoopSocket, DialsCurrent, TypeOK
      <4> QED BY <4>1, <4>2
    <3> QED BY <2>1, <3>1, <3>2
  <2> QED BY <1>0, <2>5, <2>6, <2>7 DEF CarriesInv
<1>3. CASE DialIsGreeted(c)
  <2>1. /\ socket[c] = "greeting" /\ loop[c] # "trying"
        /\ socket' = [socket EXCEPT ![c] = "live"]
        /\ connecting' = IF connecting = Dial(c) THEN Connected ELSE connecting
        /\ Move(Awaiting("dial", c), At("sent", c))
        /\ UNCHANGED <<transport, made, recovering, listened, loop>>
    BY <1>3 DEF DialIsGreeted
  <2>2. loop[c] = "none" /\ c = transport
    <3>1. loop[c] = "none"
      BY <1>0, <2>1 DEF CarriesInv, LoopSocket, TypeOK
    <3> QED BY <2>1, <3>1 DEF CarriesInv, DialsCurrent
  <2>3. \A r \in Requests :
          IF request[r].at = "dial" /\ request[r].by = c
          THEN request'[r].at = "sent" /\ request'[r].by = c
          ELSE request'[r] = request[r]
    BY <2>1, CarriedMove
  <2>4. ClosedCarriesNothing'
    BY <2>1, <2>2, <2>3 DEF CarriesInv, ClosedCarriesNothing
  <2>5. LoopSocket' /\ DialsCurrent'
    BY <1>0, <2>1, <2>2 DEF CarriesInv, LoopSocket, DialsCurrent, TypeOK
  <2>6. PromiseOfLoop'
    BY <1>0, <2>1, <2>2, PromisesDiffer DEF CarriesInv, PromiseOfLoop, TypeOK
  <2>7. RequestOfClient'
    BY <1>0, <2>1, <2>2, <2>3 DEF CarriesInv, RequestOfClient, TypeOK
  <2> QED BY <1>0, <2>4, <2>5, <2>6, <2>7 DEF CarriesInv
<1>4. CASE LoopFails(c)
  <2>1. loop[c] = "trying" /\ ~Hears(c)
    <3>1. loop[c] = "trying"
      BY <1>4 DEF LoopFails
    <3> QED BY <3>1, OneLoop DEF Hears
  <2>2. /\ socket[c] \in {"opening", "greeting"}
        /\ socket' = [socket EXCEPT ![c] = "none"]
        /\ loop' = [loop EXCEPT ![c] = "waiting"]
        /\ UNCHANGED <<transport, made, connecting, recovering, listened, request>>
    BY <1>4, <2>1 DEF LoopFails, AfterFailedAttempt
  <2>3. ClosedCarriesNothing' /\ LoopSocket' /\ DialsCurrent' /\ PromiseOfLoop'
    BY <1>0, <2>1, <2>2
    DEF CarriesInv, ClosedCarriesNothing, LoopSocket, DialsCurrent, PromiseOfLoop, TypeOK
  <2>4. RequestOfClient'
    BY <1>0, <2>1, <2>2 DEF CarriesInv, RequestOfClient, TypeOK
  <2> QED BY <1>0, <2>3, <2>4 DEF CarriesInv
<1>5. CASE LoopRetries(c)
  <2>1. /\ loop[c] = "waiting"
        /\ socket' = [socket EXCEPT ![c] = "opening"]
        /\ loop' = [loop EXCEPT ![c] = "trying"]
        /\ UNCHANGED <<transport, made, connecting, recovering, listened, request>>
    BY <1>5 DEF LoopRetries
  <2>2. ClosedCarriesNothing' /\ LoopSocket' /\ DialsCurrent' /\ PromiseOfLoop'
    BY <1>0, <2>1
    DEF CarriesInv, ClosedCarriesNothing, LoopSocket, DialsCurrent, PromiseOfLoop, TypeOK
  <2>3. RequestOfClient'
    BY <1>0, <2>1 DEF CarriesInv, RequestOfClient, LoopSocket, TypeOK
  <2> QED BY <1>0, <2>2, <2>3 DEF CarriesInv
<1>6. CASE LoopIsGreeted(c)
  <2>1. /\ socket[c] = "greeting" /\ loop[c] = "trying"
        /\ socket' = [socket EXCEPT ![c] = "live"]
        /\ loop' = [loop EXCEPT ![c] = "none"]
        /\ ~recovering'
        /\ connecting' = IF transport = c THEN Connected ELSE connecting
        /\ Move(Awaiting("recovery", c), At("sent", c))
        /\ UNCHANGED <<transport, made, listened>>
    BY <1>6 DEF LoopIsGreeted
  <2>2. \A d \in Clients : loop'[d] = "none" /\ (d # c => loop[d] = "none")
    BY <1>0, <2>1, OneLoop DEF TypeOK
  <2>3. \A r \in Requests :
          IF request[r].at = "recovery" /\ request[r].by = c
          THEN request'[r].at = "sent" /\ request'[r].by = c
          ELSE request'[r] = request[r]
    BY <2>1, CarriedMove
  <2>4. ClosedCarriesNothing'
    BY <2>1, <2>2, <2>3 DEF CarriesInv, ClosedCarriesNothing
  <2>5. LoopSocket' /\ DialsCurrent'
    BY <1>0, <2>1, <2>2 DEF CarriesInv, LoopSocket, DialsCurrent, TypeOK
  <2>6. PromiseOfLoop'
    BY <1>0, <2>1, <2>2, PromisesDiffer DEF CarriesInv, PromiseOfLoop, TypeOK
  <2>7. RequestOfClient'
    BY <1>0, <2>1, <2>2, <2>3 DEF CarriesInv, RequestOfClient, TypeOK
  <2> QED BY <1>0, <2>4, <2>5, <2>6, <2>7 DEF CarriesInv
<1>7. CASE LoopGivesUp(c)
  <2>1. /\ loop[c] = "waiting"
        /\ loop' = [loop EXCEPT ![c] = "none"]
        /\ ~recovering' /\ connecting' = NoPromise
        /\ transport' = IF transport = c THEN NoClient ELSE transport
        /\ listened' = [listened EXCEPT ![c] = FALSE]
        /\ Move(Awaiting("recovery", c), At("failed", NoClient))
        /\ UNCHANGED <<made, socket>>
    BY <1>7 DEF LoopGivesUp
  <2>2. socket[c] = "none" /\ \A d \in Clients : loop'[d] = "none" /\ (d # c => loop[d] = "none")
    BY <1>0, <2>1, OneLoop DEF CarriesInv, LoopSocket, TypeOK
  <2>3. \A r \in Requests :
          /\ request'[r].by # c
          /\ \/ request'[r] = request[r] /\ (request[r].at # "recovery" \/ request[r].by = NoClient)
             \/ request'[r].at = "failed" /\ request'[r].by = NoClient
    <3> SUFFICES ASSUME NEW r \in Requests
                 PROVE  /\ request'[r].by # c
                        /\ \/ request'[r] = request[r] /\ (request[r].at # "recovery" \/ request[r].by = NoClient)
                           \/ request'[r].at = "failed" /\ request'[r].by = NoClient
      OBVIOUS
    <3>1. CASE request[r].at = "recovery" /\ request[r].by = c
      BY <1>0, <2>1, <3>1, CarriedMove
    <3>2. CASE ~(request[r].at = "recovery" /\ request[r].by = c)
      <4>1. request'[r] = request[r]
        BY <2>1, <3>2, CarriedMove
      <4>2. request[r].by # c
        BY <1>0, <2>1, <2>2, <3>2 DEF CarriesInv, RequestOfClient, TypeOK, Standing
      <4>3. request[r].at # "recovery" \/ request[r].by = NoClient
        BY <1>0, <2>2, <4>2 DEF CarriesInv, RequestOfClient, TypeOK, Standing
      <4> QED BY <4>1, <4>2, <4>3
    <3> QED BY <3>1, <3>2
  <2>4. ClosedCarriesNothing'
    <3>1. \A d \in Clients : d # transport' => ~listened'[d]
      BY <1>0, <2>1, OnlyCurrent DEF TypeOK
    <3>2. \A d \in Clients, r \in Requests : d # transport' => request'[r].by # d
      BY <1>0, <2>1, <2>3, OnlyCurrent
    <3>3. \A d \in Clients : loop'[d] = "none"
      BY <2>2
    <3>4. recovering' <=> \E d \in Clients : loop'[d] # "none"
      BY <2>1, <3>3
    <3> QED BY <3>1, <3>2, <3>3, <3>4 DEF ClosedCarriesNothing
  <2>5. LoopSocket' /\ DialsCurrent'
    BY <1>0, <2>1, <2>2 DEF CarriesInv, LoopSocket, DialsCurrent, TypeOK
  <2>6. PromiseOfLoop'
    BY <1>0, <2>1, <2>2, PromisesDiffer DEF CarriesInv, PromiseOfLoop, TypeOK, NoClient
  <2>7. RequestOfClient'
    BY <1>0, <2>1, <2>2, <2>3 DEF CarriesInv, RequestOfClient, TypeOK
  <2> QED BY <1>0, <2>4, <2>5, <2>6, <2>7 DEF CarriesInv
<1>8. CASE Drops(c)
  <2>1. /\ socket[c] = "live" /\ UNCHANGED <<transport, made, listened>>
        /\ Move(Awaiting("sent", c), At("failed", NoClient))
        /\ \/ BeginRecovery(c) /\ connecting' = Recovery(c) /\ Hears(c)
           \/ socket' = [socket EXCEPT ![c] = "none"] /\ UNCHANGED <<connecting, recovering, loop>>
    BY <1>8 DEF Drops, FailsWithDrop, RecoveryPromise
  <2>2. loop[c] = "none"
    BY <1>0, <2>1 DEF CarriesInv, LoopSocket, TypeOK
  <2>3. \A r \in Requests :
          \/ request'[r] = request[r] /\ request[r].by # c
          \/ request'[r].at = "failed" /\ request'[r].by = NoClient
    <3> SUFFICES ASSUME NEW r \in Requests
                 PROVE  \/ request'[r] = request[r] /\ request[r].by # c
                        \/ request'[r].at = "failed" /\ request'[r].by = NoClient
      OBVIOUS
    <3>1. CASE request[r].at = "sent" /\ request[r].by = c
      BY <2>1, <3>1, CarriedMove
    <3>2. CASE ~(request[r].at = "sent" /\ request[r].by = c)
      <4>1. request'[r] = request[r]
        BY <2>1, <3>2, CarriedMove
      <4>2. request[r].by # c
        BY <1>0, <2>1, <2>2, <3>2 DEF CarriesInv, RequestOfClient, TypeOK, Standing
      <4> QED BY <4>1, <4>2
    <3> QED BY <3>1, <3>2
  <2>4. CASE BeginRecovery(c) /\ connecting' = Recovery(c) /\ Hears(c)
    <3>1. c = transport /\ c <= made /\ \A d \in Clients : loop[d] = "none"
      <4>1. c = transport
        BY <2>4, OnlyCurrent DEF Hears
      <4> QED BY <2>4, <4>1, OneLoop DEF Hears, CarriesInv, PromiseOfLoop
    <3>2. /\ recovering' /\ loop' = [loop EXCEPT ![c] = "trying"]
          /\ socket' = [socket EXCEPT ![c] = "opening"]
      BY <2>4 DEF BeginRecovery
    <3>3. ClosedCarriesNothing'
      BY <1>0, <2>1, <2>3, <3>1, <3>2 DEF CarriesInv, ClosedCarriesNothing, TypeOK
    <3>4. LoopSocket' /\ DialsCurrent'
      BY <1>0, <2>1, <3>1, <3>2 DEF CarriesInv, LoopSocket, DialsCurrent, TypeOK
    <3>5. PromiseOfLoop'
      BY <1>0, <2>1, <2>4, <3>1, <3>2, PromisesDiffer DEF CarriesInv, PromiseOfLoop, TypeOK
    <3>6. RequestOfClient'
      BY <1>0, <2>3, <3>1, <3>2 DEF CarriesInv, RequestOfClient, TypeOK
    <3> QED BY <1>0, <3>3, <3>4, <3>5, <3>6 DEF CarriesInv
  <2>5. CASE socket' = [socket EXCEPT ![c] = "none"] /\ UNCHANGED <<connecting, recovering, loop>>
    <3>1. ClosedCarriesNothing'
      BY <1>0, <2>1, <2>3, <2>5 DEF CarriesInv, ClosedCarriesNothing
    <3>2. LoopSocket' /\ DialsCurrent' /\ PromiseOfLoop'
      BY <1>0, <2>1, <2>2, <2>5
      DEF CarriesInv, LoopSocket, DialsCurrent, PromiseOfLoop, TypeOK
    <3>3. RequestOfClient'
      BY <1>0, <2>3, <2>5 DEF CarriesInv, RequestOfClient, TypeOK
    <3> QED BY <1>0, <3>1, <3>2, <3>3 DEF CarriesInv
  <2> QED BY <2>1, <2>4, <2>5
<1> QED BY <1>1, <1>2, <1>3, <1>4, <1>5, <1>6, <1>7, <1>8 DEF Connects, Loops

LEMMA CarriesInit == Init => CarriesInv
<1> SUFFICES ASSUME Init PROVE CarriesInv
  OBVIOUS
<1>1. /\ transport = NoClient /\ connecting = NoPromise /\ recovering = FALSE /\ made = 0
      /\ \A c \in Clients : socket[c] = "none" /\ loop[c] = "none" /\ listened[c] = FALSE
      /\ \A r \in Requests : request[r].at = "new" /\ request[r].by = NoClient
  BY AtParts DEF Init
<1>2. \A c \in Clients : c # NoClient
  BY DEF Clients, NoClient
<1>3. ClosedCarriesNothing
  BY <1>1, <1>2 DEF ClosedCarriesNothing
<1>4. LoopSocket /\ DialsCurrent /\ RequestOfClient
  BY <1>1 DEF LoopSocket, DialsCurrent, RequestOfClient
<1>5. PromiseOfLoop
  BY <1>1, PromisesDiffer DEF PromiseOfLoop, NoClient
<1> QED BY <1>3, <1>4, <1>5, TypeOKInit DEF CarriesInv

(* Whatever dials fail, and whenever: a client the connection closed has     *)
(* nobody listening to it and no request, and no second recovery runs beside *)
(* a loop that such a client has left behind.                                *)
THEOREM ClosedClientCarriesNothing == Spec => []ClosedCarriesNothing
<1>1. CarriesInv /\ [Next]_vars => CarriesInv'
  <2> SUFFICES ASSUME CarriesInv, [Next]_vars PROVE CarriesInv'
    OBVIOUS
  <2>1. CASE UNCHANGED vars
    <3>1. TypeOK'
      BY <2>1, TypeOKStep DEF CarriesInv
    <3> QED BY <2>1, <3>1 DEF vars, module, client, CarriesInv, ClosedCarriesNothing, LoopSocket,
                              DialsCurrent, PromiseOfLoop, RequestOfClient
  <2>2. CASE Next
    BY <2>2, AskCarries, ConnectCarries DEF Next
  <2> QED BY <2>1, <2>2
<1>2. CarriesInv => ClosedCarriesNothing
  BY DEF CarriesInv
<1> QED BY <1>1, <1>2, CarriesInit, PTL DEF Spec

-----------------------------------------------------------------------------
(* Refinement of the wire. *)

(* What the wire shows of each phase. *)
LEMMA WireOfPhase ==
  ASSUME Phases
  PROVE  /\ Unmade \/ Dialling <=> WireState = "gone"
         /\ Live <=> WireState = "up"
         /\ Recovering <=> WireState = "recovering"
BY PromisesDiffer DEF Phases, WireState, Unmade, Dialling, Live, Recovering

(* Moving all that waits is moving all that is blocked. *)
LEMMA BlockedMove ==
  ASSUME Phases, NEW place \in {"dial", "recovery"},
         place = "dial" => ~Recovering, place = "recovery" => ~Dialling,
         NEW to \in {"sent", "failed"}, NEW by, Move(Awaiting(place, transport), At(to, by))
  PROVE  Wire!All("blocked", to)
<1>1. \A r \in Requests :
        request'[r] = IF request[r].at = place THEN At(to, by) ELSE request[r]
  BY AwaitedMove
<1>2. \A r \in Requests :
        request'[r].at = IF request[r].at \in {"dial", "recovery"} THEN to ELSE request[r].at
  BY <1>1, AtParts DEF Phases, RequestsFollow
<1>3. \A r \in Requests :
        IF request'[r].at \in {"dial", "recovery"} THEN FALSE
        ELSE request'[r].at = IF RequestStanding[r] = "blocked" THEN to ELSE RequestStanding[r]
  BY <1>2 DEF RequestStanding, Phases, TypeOK, Standing
<1>4. RequestStanding' =
        [r \in Requests |-> IF RequestStanding[r] = "blocked" THEN to ELSE RequestStanding[r]]
  BY <1>3 DEF RequestStanding
<1> QED BY <1>4 DEF Wire!All

(* A request's step is one of the wire. *)
LEMMA AskIsOfWire ==
  ASSUME Phases, NEW r \in Requests, Ask(r) \/ Settles(r)
  PROVE  Wire!Next
<1> USE DEF module, client
<1>0. TypeOK /\ Phases'
  BY AskPhases DEF Phases
<1>1. ASSUME NEW place \in {"dial", "recovery", "sent", "failed", "done"}, NEW c,
             Move({r}, At(place, c)), request[r].at \in {"new", "sent"}
      PROVE  RequestStanding' =
               [RequestStanding EXCEPT ![r] =
                  IF place \in {"dial", "recovery"} THEN "blocked" ELSE place]
  <2> DEFINE shown == IF place \in {"dial", "recovery"} THEN "blocked" ELSE place
  <2>1. RequestStanding' =
          [q \in Requests |-> IF q \in {r} THEN shown ELSE RequestStanding[q]]
    BY <1>1, AtParts DEF Move, RequestStanding
  <2>2. RequestStanding = [q \in Requests |-> RequestStanding[q]]
    BY DEF RequestStanding
  <2> HIDE DEF shown
  <2>3. RequestStanding' = [RequestStanding EXCEPT ![r] = shown]
    BY <2>1, <2>2
  <2> QED BY <2>3 DEF shown
<1>2. CASE Settles(r)
  <2>1. PICK end \in {"done", "failed"} : Move({r}, At(end, NoClient))
    BY <1>2 DEF Settles
  <2>2. RequestStanding' = [RequestStanding EXCEPT ![r] = end] /\ RequestStanding[r] = "sent"
    BY <1>1, <1>2, <2>1 DEF Settles, RequestStanding
  <2>3. WireState' = WireState /\ told' = told
    BY <1>2 DEF Settles, WireState
  <2> QED BY <2>2, <2>3 DEF Wire!Next, Wire!Settle
<1>3. CASE AskSends(r)
  <2>1. Live /\ WireState = "up"
    BY <1>3, PromisesDiffer DEF AskSends, Phases, Unmade, Dialling, Live, Recovering, WireState
  <2>2. Move({r}, At("sent", transport)) /\ request[r].at = "new"
    BY <1>3, <2>1 DEF AskSends, Live
  <2>3. RequestStanding' = [RequestStanding EXCEPT ![r] = "sent"] /\ RequestStanding[r] = "new"
    BY <1>1, <2>2 DEF RequestStanding
  <2>4. WireState' = WireState /\ told' = told
    BY <1>3 DEF AskSends, WireState
  <2> QED BY <2>1, <2>3, <2>4 DEF Wire!Next, Wire!Ask
<1>4. CASE AskWaits(r)
  <2>1. WireState # "up" /\ connecting.of \in {"dial", "recovery"}
    BY <1>4, PromisesDiffer DEF AskWaits, WireState
  <2>2. Move({r}, At(connecting.of, connecting.by)) /\ request[r].at = "new"
    BY <1>4 DEF AskWaits
  <2>3. RequestStanding' = [RequestStanding EXCEPT ![r] = "blocked"] /\ RequestStanding[r] = "new"
    BY <1>1, <2>1, <2>2 DEF RequestStanding
  <2>4. WireState' = WireState /\ told' = told
    BY <1>4 DEF AskWaits, WireState
  <2> QED BY <2>1, <2>3, <2>4 DEF Wire!Next, Wire!Ask
<1>5. CASE AskDials(r)
  <2>1. Unmade
    BY <1>5, PromisesDiffer DEF AskDials, Phases, Unmade, Dialling, Live, Recovering
  <2>2. WireState = "gone" /\ WireState' = "gone" /\ told' = told
    BY <1>5, <2>1, PromisesDiffer DEF AskDials, Unmade, WireState
  <2>3. Move({r}, At("dial", made + 1)) /\ request[r].at = "new"
    BY <1>5, <2>1 DEF AskDials, Unmade
  <2>4. RequestStanding' = [RequestStanding EXCEPT ![r] = "blocked"] /\ RequestStanding[r] = "new"
    BY <1>1, <2>3 DEF RequestStanding
  <2> QED BY <2>2, <2>4 DEF Wire!Next, Wire!Ask
<1>6. CASE AskFindsSocket(r)
  BY <1>6, PromisesDiffer DEF AskFindsSocket, Phases, Unmade, Dialling, Live, Recovering
<1> QED BY <1>2, <1>3, <1>4, <1>5, <1>6 DEF Ask

(* A client's step is one of the wire, or none. *)
LEMMA ConnectIsOfWire ==
  ASSUME MaxRefusals = 0, Phases, NEW c \in Clients, Connects(c) \/ Loops(c) \/ Drops(c)
  PROVE  Wire!Next \/ UNCHANGED <<WireState, told, RequestStanding>>
<1> USE DEF module, client
<1>0. TypeOK /\ refusals' = 0 /\ Phases' /\ c # NoClient
  <2>1. TypeOK /\ TypeOK' /\ c # NoClient
    BY ConnectType DEF Phases, Clients, NoClient
  <2>2. refusals' = 0
    BY <2>1 DEF TypeOK
  <2> QED BY <2>1, <2>2, ConnectPhases
<1>1. c = transport
  BY <1>0 DEF Phases, ClosedIsLeftAlone, Connects, SocketOpens, DialFindsNoDaemon, DialIsRefused,
     DialIsGreeted, LoopFails, LoopIsGreeted, Loops, LoopRetries, LoopGivesUp, Drops
<1>2. CASE SocketOpens(c) \/ LoopRetries(c)
  BY <1>2 DEF SocketOpens, LoopRetries, WireState, RequestStanding
<1>3. CASE LoopFails(c)
  <2>1. ~Hears(c)
    BY <1>0, <1>1, <1>3, PromisesDiffer
    DEF LoopFails, Phases, Unmade, Dialling, Live, Recovering, Hears
  <2> QED BY <1>3, <2>1 DEF LoopFails, WireState, RequestStanding
<1>4. CASE DialFindsNoDaemon(c)
  <2>1. Dialling /\ ~Recovering
    BY <1>0, <1>1, <1>4, PromisesDiffer
    DEF DialFindsNoDaemon, Phases, Unmade, Dialling, Live, Recovering
  <2>2. Wire!All("blocked", "failed")
    BY <1>1, <1>4, <2>1, BlockedMove DEF DialFindsNoDaemon
  <2>3. WireState = "gone" /\ WireState' = "gone" /\ told' = told
    BY <1>4, <2>1, PromisesDiffer DEF DialFindsNoDaemon, Dialling, WireState
  <2> QED BY <2>2, <2>3 DEF Wire!Next, Wire!DialFailed
<1>5. CASE DialIsRefused(c)
  BY <1>0, <1>5 DEF DialIsRefused, TypeOK
<1>6. CASE DialIsGreeted(c)
  <2>1. Dialling /\ ~Recovering
    BY <1>0, <1>1, <1>6, PromisesDiffer
    DEF DialIsGreeted, Phases, Unmade, Dialling, Live, Recovering
  <2>2. Wire!All("blocked", "sent")
    BY <1>1, <1>6, <2>1, BlockedMove DEF DialIsGreeted
  <2>3. connecting = Dial(c) /\ connecting' = Connected /\ told' = told
    BY <1>1, <1>6, <2>1 DEF DialIsGreeted, Dialling
  <2>4. WireState = "gone" /\ WireState' = "up"
    BY <2>1, <2>3, PromisesDiffer DEF Dialling, WireState
  <2> QED BY <2>2, <2>3, <2>4 DEF Wire!Next, Wire!Dialled
<1>7. CASE LoopIsGreeted(c)
  <2>1. Recovering /\ ~Dialling
    BY <1>0, <1>1, <1>7, PromisesDiffer
    DEF LoopIsGreeted, Phases, Unmade, Dialling, Live, Recovering
  <2>2. Wire!All("blocked", "sent")
    BY <1>1, <1>7, <2>1, BlockedMove DEF LoopIsGreeted
  <2>3. WireState = "recovering" /\ WireState' = "up" /\ told' = "restored"
    BY <1>1, <1>7, <2>1, PromisesDiffer DEF LoopIsGreeted, Recovering, WireState
  <2> QED BY <2>2, <2>3 DEF Wire!Next, Wire!Restored
<1>8. CASE LoopGivesUp(c)
  <2>1. Recovering /\ ~Dialling
    BY <1>0, <1>1, <1>8, PromisesDiffer
    DEF LoopGivesUp, Phases, Unmade, Dialling, Live, Recovering
  <2>2. Wire!All("blocked", "failed")
    BY <1>1, <1>8, <2>1, BlockedMove DEF LoopGivesUp
  <2>3. WireState = "recovering" /\ WireState' = "gone" /\ told' = "unavailable"
    BY <1>1, <1>8, <2>1, PromisesDiffer DEF LoopGivesUp, Recovering, WireState
  <2> QED BY <2>2, <2>3 DEF Wire!Next, Wire!Unavailable
<1>9. CASE Drops(c)
  <2>1. Live /\ Hears(c)
    BY <1>0, <1>1, <1>9, PromisesDiffer
    DEF Drops, Phases, Unmade, Dialling, Live, Recovering, Hears
  <2>2. BeginRecovery(c) /\ connecting' = Recovery(c)
    BY <1>9, <2>1 DEF Drops, RecoveryPromise
  <2>3. WireState = "up" /\ WireState' = "recovering" /\ told' = "lost"
    BY <2>1, <2>2, PromisesDiffer DEF BeginRecovery, Live, WireState
  <2>4. \A r \in Requests :
          request'[r] = IF request[r].at = "sent" THEN At("failed", NoClient) ELSE request[r]
    BY <1>1, <1>9, AwaitedMove DEF Drops, FailsWithDrop
  <2>5. Wire!All("sent", "failed")
    BY <2>4, AtParts DEF Wire!All, RequestStanding
  <2> QED BY <2>3, <2>5 DEF Wire!Next, Wire!Lost
<1> QED BY <1>2, <1>3, <1>4, <1>5, <1>6, <1>7, <1>8, <1>9 DEF Connects, Loops

(* As long as no dial fails after its socket opened, the connection keeps    *)
(* the promises of DaemonWire: no request is sent twice, a drop is told once *)
(* and fails what was in flight, and the end of a recovery settles what      *)
(* waited for it.                                                            *)
THEOREM ConnectionImplementsWire ==
  ASSUME MaxRefusals = 0
  PROVE  Spec => ImplementsWire
<1>1. Init => Wire!Init
  <2> SUFFICES ASSUME Init PROVE Wire!Init
    OBVIOUS
  <2>1. WireState = "gone"
    BY PromisesDiffer DEF Init, WireState
  <2>2. RequestStanding = [r \in Requests |-> "new"]
    BY AtParts DEF Init, RequestStanding
  <2> QED BY <2>1, <2>2 DEF Init, Wire!Init
<1>2. Phases /\ [Next]_vars => [Wire!Next]_<<WireState, told, RequestStanding>>
  <2> SUFFICES ASSUME Phases, [Next]_vars
               PROVE  Wire!Next \/ UNCHANGED <<WireState, told, RequestStanding>>
    OBVIOUS
  <2>1. CASE UNCHANGED vars
    BY <2>1 DEF vars, module, WireState, RequestStanding
  <2>2. CASE Next
    BY <2>2, AskIsOfWire, ConnectIsOfWire DEF Next
  <2> QED BY <2>1, <2>2
<1>3. Phases /\ [Next]_vars => Phases'
  <2>1. Phases /\ [Next]_vars => refusals' = 0
    BY TypeOKStep DEF Phases, TypeOK
  <2> QED BY <2>1, PhasesStep
<1> QED BY <1>1, <1>2, <1>3, PhasesInit, PTL DEF Spec, ImplementsWire, Wire!Spec
=============================================================================
