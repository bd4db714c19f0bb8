--------------------------- MODULE DaemonConnection ---------------------------
(***************************************************************************)
(* The bridge's one daemon connection (src/daemon/connection.ts) over the  *)
(* socket client it drives (src/daemon/client.ts): the lazy dial, the      *)
(* promise requests share while it is pending, the recovery loop after a   *)
(* drop, and the events the lanes hear.                                    *)
(*                                                                         *)
(* A client is its own object: one that was closed and replaced may still  *)
(* have a reconnect loop running.  What a callback does up to its next     *)
(* await on the socket or a timer is one action, with the promise          *)
(* callbacks it resolves.  A hello is one the requests' commands pass the  *)
(* gate of.                                                                *)
(***************************************************************************)
EXTENDS Naturals

CONSTANTS
  Requests,      \* calls of daemonRequest
  MaxClients,    \* bound: clients made in one behaviour
  MaxAttempts,   \* bound: connects in one recovery (30 s of capped backoff)
  MaxDrops,      \* bound: how often a greeted socket drops
  MaxRefusals    \* bound: how often a dial fails after its socket opened

ASSUME ConnectionBounds ==
  /\ MaxClients \in Nat /\ MaxAttempts \in Nat \ {0}
  /\ MaxDrops \in Nat /\ MaxRefusals \in Nat

Clients == 1..MaxClients
NoClient == 0

VARIABLES
  transport,    \* the module's transport, by number, or NoClient
  made,         \* how many were made
  connecting,   \* the module's connecting: no promise, a pending one, a resolved one
  recovering,   \* the module's recovering
  socket,       \* each client's socket: none, opening, greeting (no hello yet), live
  listened,     \* each client has its onPeerClose listener still
  loop,         \* each client's enableAutoReconnect: none, trying, waiting
  attempts,     \* connects its loop has made
  request,      \* where each request stands: new, awaiting a dial or a recovery,
                \* sent, done, failed; and of which client
  told,         \* the event last broadcast
  drops, refusals

module == <<transport, made, connecting, recovering, told>>
client == <<socket, listened, loop, attempts>>
vars   == <<module, client, request, drops, refusals>>

NoPromise == [of |-> "nothing", by |-> NoClient]
Dial(c) == [of |-> "dial", by |-> c]
Recovery(c) == [of |-> "recovery", by |-> c]
Connected == [of |-> "hello", by |-> NoClient]

Standing == [at : {"new", "dial", "recovery", "sent", "done", "failed"},
             by : Clients \cup {NoClient}]
At(place, c) == [at |-> place, by |-> c]

-----------------------------------------------------------------------------
(* Helpers. *)

(* The promise a recovery leaves for requests to wait on. *)
RecoveryPromise(c) == Recovery(c)

(* The onPeerClose listener of the module acts on a drop of a client it      *)
(* still listens to, unless a recovery is running.                           *)
HearsEveryDrop(c) == listened[c] /\ transport # NoClient
Hears(c) == listened[c] /\ transport # NoClient /\ ~recovering

(* The requests that wait on a promise of a client, or are in flight on it. *)
NobodyAwaits(place, c) == {}
Awaiting(place, c) == {r \in Requests : request[r] = At(place, c)}

Move(R, to) == request' = [r \in Requests |-> IF r \in R THEN to ELSE request[r]]

(* handleLost: tell the lanes, start the client's reconnect loop, whose      *)
(* first connect opens a socket, and leave its promise for requests.         *)
BeginRecovery(c) ==
  /\ recovering' = TRUE
  /\ told' = "lost"
  /\ socket' = [socket EXCEPT ![c] = "opening"]
  /\ loop' = [loop EXCEPT ![c] = "trying"]
  /\ attempts' = [attempts EXCEPT ![c] = 1]

(* The loop tries again until its budget is spent. *)
MayRetryOnceMore(n) == n <= MaxAttempts
MayRetry(n) == n < MaxAttempts

(* What a drop makes of a request in flight: it fails, and is not replayed. *)
IsReplayed(c) == At("recovery", c)
FailsWithDrop(c) == At("failed", NoClient)

(* A connect of the loop failed: the loop waits, then tries again or stops. *)
LoopDies == "none"
AfterFailedAttempt == "waiting"

-----------------------------------------------------------------------------
Init ==
  /\ transport = NoClient
  /\ made = 0
  /\ connecting = NoPromise
  /\ recovering = FALSE
  /\ socket = [c \in Clients |-> "none"]
  /\ listened = [c \in Clients |-> FALSE]
  /\ loop = [c \in Clients |-> "none"]
  /\ attempts = [c \in Clients |-> 0]
  /\ request = [r \in Requests |-> At("new", NoClient)]
  /\ told = "nothing"
  /\ drops = 0 /\ refusals = 0

-----------------------------------------------------------------------------
(* daemonRequest, up to the socket. *)

(* No promise yet: currentTransport() makes a client if there is none, and   *)
(* it connects.                                                              *)
AskDials(r) ==
  /\ request[r].at = "new" /\ connecting = NoPromise
  /\ \/ /\ transport = NoClient /\ made < MaxClients
        /\ made' = made + 1
     \/ /\ transport # NoClient /\ UNCHANGED made
  /\ LET c == IF transport = NoClient THEN made + 1 ELSE transport
     IN /\ socket[c] = "none"
        /\ transport' = c
        /\ connecting' = Dial(c)
        /\ socket' = [socket EXCEPT ![c] = "opening"]
        /\ listened' = [listened EXCEPT ![c] = TRUE]
        /\ Move({r}, At("dial", c))
  /\ UNCHANGED <<recovering, told, loop, attempts, drops, refusals>>

(* The same on a client that has a socket: connect() throws, and the catch   *)
(* closes it.  A second connect on a client whose socket is still opening    *)
(* is left out: it takes MaxRefusals > 0 and a recovery of 30 s given up     *)
(* within the 3 s the socket has to open.                                    *)
AskFindsSocket(r) ==
  /\ request[r].at = "new" /\ connecting = NoPromise
  /\ transport # NoClient /\ socket[transport] \in {"greeting", "live"}
  /\ transport' = NoClient
  /\ socket' = [socket EXCEPT ![transport] = "none"]
  /\ listened' = [listened EXCEPT ![transport] = FALSE]
  /\ Move({r} \cup Awaiting("sent", transport) \cup Awaiting("dial", transport),
          At("failed", NoClient))
  /\ UNCHANGED <<made, connecting, recovering, told, loop, attempts, drops, refusals>>

(* A pending promise: the request waits on it with the others. *)
AskWaits(r) ==
  /\ request[r].at = "new" /\ connecting.of \in {"dial", "recovery"}
  /\ Move({r}, At(connecting.of, connecting.by))
  /\ UNCHANGED <<module, client, drops, refusals>>

(* A resolved one: the request goes out, or write() throws for want of a     *)
(* socket.                                                                   *)
AskSends(r) ==
  /\ request[r].at = "new" /\ connecting = Connected
  /\ Move({r}, IF transport # NoClient /\ socket[transport] = "live"
               THEN At("sent", transport) ELSE At("failed", NoClient))
  /\ UNCHANGED <<module, client, drops, refusals>>

(* An answer, or the request's own timer. *)
Settles(r) ==
  /\ request[r].at = "sent"
  /\ \E end \in {"done", "failed"} : Move({r}, At(end, NoClient))
  /\ UNCHANGED <<module, client, drops, refusals>>

-----------------------------------------------------------------------------
(* The socket of a client, opened by a dial or by its loop. *)

SocketOpens(c) ==
  /\ socket[c] = "opening"
  /\ socket' = [socket EXCEPT ![c] = "greeting"]
  /\ UNCHANGED <<module, listened, loop, attempts, request, drops, refusals>>

(* A dial that found no daemon: the catch of ensureDaemonConnection forgets  *)
(* promise and client, and closes it.                                        *)
DialFindsNoDaemon(c) ==
  /\ socket[c] = "opening" /\ loop[c] # "trying"
  /\ connecting' = NoPromise
  /\ transport' = NoClient
  /\ socket' = [socket EXCEPT ![c] = "none"]
  /\ listened' = [listened EXCEPT ![c] = FALSE]
  /\ Move(Awaiting("dial", c), At("failed", NoClient))
  /\ UNCHANGED <<made, recovering, told, loop, attempts, drops, refusals>>

(* A dial whose socket opened fails: no hello in time, or one that is        *)
(* refused.  connect() disposes of the socket, whose listener takes it for a *)
(* drop and starts the loop; only then does the catch run, which closes the  *)
(* client and forgets it, and the loop goes on.                              *)
DialIsRefused(c) ==
  /\ socket[c] = "greeting" /\ loop[c] # "trying"
  /\ refusals < MaxRefusals /\ refusals' = refusals + 1
  /\ IF Hears(c)
     THEN BeginRecovery(c)
     ELSE /\ socket' = [socket EXCEPT ![c] = "none"]
          /\ UNCHANGED <<recovering, told, loop, attempts>>
  /\ connecting' = NoPromise
  /\ transport' = NoClient
  /\ listened' = [listened EXCEPT ![c] = FALSE]
  /\ Move(Awaiting("dial", c), At("failed", NoClient))
  /\ UNCHANGED <<made, drops>>

(* The dial's hello: the promise resolves, what waited on it goes out. *)
DialIsGreeted(c) ==
  /\ socket[c] = "greeting" /\ loop[c] # "trying"
  /\ socket' = [socket EXCEPT ![c] = "live"]
  /\ connecting' = IF connecting = Dial(c) THEN Connected ELSE connecting
  /\ Move(Awaiting("dial", c), At("sent", c))
  /\ UNCHANGED <<transport, made, recovering, told, listened, loop, attempts, drops,
                 refusals>>

(* A connect of the loop fails, before or after its socket opened; in the    *)
(* latter case the listener is told, and has a recovery running already.     *)
LoopFails(c) ==
  /\ socket[c] \in {"opening", "greeting"} /\ loop[c] = "trying"
  /\ IF socket[c] = "greeting" /\ Hears(c)
     THEN BeginRecovery(c) /\ connecting' = RecoveryPromise(c)
     ELSE /\ socket' = [socket EXCEPT ![c] = "none"]
          /\ loop' = [loop EXCEPT ![c] = AfterFailedAttempt]
          /\ UNCHANGED <<connecting, recovering, told, attempts>>
  /\ UNCHANGED <<transport, made, listened, request, drops, refusals>>

LoopRetries(c) ==
  /\ loop[c] = "waiting" /\ MayRetry(attempts[c])
  /\ socket' = [socket EXCEPT ![c] = "opening"]
  /\ loop' = [loop EXCEPT ![c] = "trying"]
  /\ attempts' = [attempts EXCEPT ![c] = @ + 1]
  /\ UNCHANGED <<module, listened, request, drops, refusals>>

(* recover(): the loop's hello.  "restored" is broadcast whichever client it *)
(* is of.                                                                    *)
LoopIsGreeted(c) ==
  /\ socket[c] = "greeting" /\ loop[c] = "trying"
  /\ socket' = [socket EXCEPT ![c] = "live"]
  /\ loop' = [loop EXCEPT ![c] = "none"]
  /\ recovering' = FALSE
  /\ connecting' = IF transport = c THEN Connected ELSE connecting
  /\ told' = "restored"
  /\ Move(Awaiting("recovery", c), At("sent", c))
  /\ UNCHANGED <<transport, made, listened, attempts, drops, refusals>>

(* recover()'s catch: the budget is gone.  It forgets the promise whichever  *)
(* client it is of, and the transport only if it is its own.                 *)
LoopGivesUp(c) ==
  /\ loop[c] = "waiting"
  /\ loop' = [loop EXCEPT ![c] = "none"]
  /\ recovering' = FALSE
  /\ connecting' = NoPromise
  /\ transport' = IF transport = c THEN NoClient ELSE transport
  /\ listened' = [listened EXCEPT ![c] = FALSE]
  /\ told' = "unavailable"
  /\ Move(Awaiting("recovery", c), At("failed", NoClient))
  /\ UNCHANGED <<made, socket, attempts, drops, refusals>>

(* A greeted socket drops: what was in flight fails, and the listener, if it *)
(* hears it, recovers.                                                       *)
Drops(c) ==
  /\ socket[c] = "live"
  /\ drops < MaxDrops /\ drops' = drops + 1
  /\ IF Hears(c)
     THEN BeginRecovery(c) /\ connecting' = RecoveryPromise(c)
     ELSE /\ socket' = [socket EXCEPT ![c] = "none"]
          /\ UNCHANGED <<connecting, recovering, told, loop, attempts>>
  /\ Move(Awaiting("sent", c), FailsWithDrop(c))
  /\ UNCHANGED <<transport, made, listened, refusals>>

-----------------------------------------------------------------------------
Ask(r) == AskDials(r) \/ AskFindsSocket(r) \/ AskWaits(r) \/ AskSends(r)

Connects(c) ==
  \/ SocketOpens(c)
  \/ DialFindsNoDaemon(c) \/ DialIsRefused(c) \/ DialIsGreeted(c)
  \/ LoopFails(c) \/ LoopIsGreeted(c)

Loops(c) == LoopRetries(c) \/ LoopGivesUp(c)

Next ==
  \/ \E r \in Requests : Ask(r) \/ Settles(r)
  \/ \E c \in Clients : Connects(c) \/ Loops(c) \/ Drops(c)

Spec == Init /\ [][Next]_vars

(* A connect has 3 s to open a socket and 3 s for its hello, the loop's      *)
(* waits are timers, and so is a request's patience.                         *)
Fairness ==
  /\ \A c \in Clients : WF_vars(Connects(c)) /\ WF_vars(Loops(c))
  /\ \A r \in Requests : WF_vars(Settles(r))

FairSpec == Spec /\ Fairness

-----------------------------------------------------------------------------
(* Properties. *)

TypeOK ==
  /\ transport \in Clients \cup {NoClient}
  /\ made \in 0..MaxClients
  /\ connecting \in {NoPromise, Connected}
                      \cup {Dial(c) : c \in Clients} \cup {Recovery(c) : c \in Clients}
  /\ recovering \in BOOLEAN
  /\ socket \in [Clients -> {"none", "opening", "greeting", "live"}]
  /\ listened \in [Clients -> BOOLEAN]
  /\ loop \in [Clients -> {"none", "trying", "waiting"}]
  /\ attempts \in [Clients -> 0..MaxAttempts]
  /\ request \in [Requests -> Standing]
  /\ told \in {"nothing", "lost", "restored", "unavailable"}
  /\ drops \in 0..MaxDrops /\ refusals \in 0..MaxRefusals

(* A settled promise stands for a live socket: no request is sent to a       *)
(* client whose wire dropped unnoticed ("instead of leaning on a corpse",    *)
(* recover).                                                                 *)
ConnectedIsLive ==
  connecting = Connected => transport # NoClient /\ socket[transport] = "live"

(* A client the connection closed carries nothing, also if its reconnect     *)
(* loop goes on (the catch of ensureDaemonConnection closes a client whose   *)
(* loss handleLost has begun to recover): nobody hears its drops, no request *)
(* waits for it or is in flight on it, and its loop is the only recovery     *)
(* there is, so that none of the current client's runs beside it.            *)
ClosedCarriesNothing ==
  /\ \A c \in Clients \ {transport} :
       ~listened[c] /\ \A r \in Requests : request[r].by # c
  /\ \A c, d \in Clients : loop[c] # "none" /\ loop[d] # "none" => c = d
  /\ recovering <=> \E c \in Clients : loop[c] # "none"

(* A request waits only on a promise that something still settles: the dial  *)
(* or the loop of the current client.                                        *)
NobodyWaitsInVain ==
  \A r \in Requests :
    /\ request[r].at = "dial" =>
         connecting = Dial(request[r].by) /\ socket[request[r].by] \in {"opening", "greeting"}
    /\ request[r].at = "recovery" =>
         connecting = Recovery(request[r].by) /\ loop[request[r].by] # "none"

(* The connection implements the wire the lanes rely on. *)
WireState ==
  IF connecting = Connected THEN "up" ELSE IF recovering THEN "recovering" ELSE "gone"
RequestStanding ==
  [r \in Requests |->
     IF request[r].at \in {"dial", "recovery"} THEN "blocked" ELSE request[r].at]
Wire == INSTANCE DaemonWire WITH wire <- WireState, standing <- RequestStanding
ImplementsWire == Wire!Spec

(* Every request returns, whatever the daemon does. *)
RequestsSettle ==
  \A r \in Requests : request[r].at # "new" ~> request[r].at \in {"done", "failed"}

(* Every drop the lanes are told of is followed by "restored" or             *)
(* "unavailable": a lane's gap does not outlive the recovery.                *)
RecoveryEnds == told = "lost" ~> told \in {"restored", "unavailable"}
=============================================================================
