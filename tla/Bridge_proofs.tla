----------------------------- MODULE Bridge_proofs -----------------------------
(***************************************************************************)
(* Proofs about Bridge, for every set of threads and every bound.          *)
(***************************************************************************)
EXTENDS Bridge, SequenceTheorems, FiniteSetTheorems, TLAPS

-----------------------------------------------------------------------------
(* The inductive invariant. *)

(* What a request does to its thread: some build it, some let it go, and a   *)
(* turn does neither.                                                        *)
MakesSession(i) ==
  Live(i) /\ calls[i].kind \in {"start", "fork"} /\ calls[i].at \in {"listen", "branch", "create"}
Makers == {i \in Slots : MakesSession(i)}
Builds(i) == Live(i) /\ calls[i].kind \in {"start", "fork", "resume"}
Works(i) == Live(i) /\ calls[i].kind # "turn"

Records == [thread : Threads, name : Names, sid : 0..MaxRequests,
            lane : {"none", "open", "closed"}, attached : BOOLEAN, gap : BOOLEAN,
            down : BOOLEAN, stage : {"rest", "due", "reads"}, cut : BOOLEAN,
            dead : BOOLEAN, failed : BOOLEAN, letGo : BOOLEAN]
Requests == [kind : Kinds, thread : Threads, rec : Nat, at : Steps, adopted : BOOLEAN,
             bad : BOOLEAN]
Daemons == [wire : {"up", "down"}, live : SUBSET SessionIds, saved : SUBSET SessionIds,
            seated : SUBSET SessionIds, minted : Nat]
Shape ==
  /\ records \in Seq(Records)
  /\ byThread \in [Threads -> Nat] /\ byProvider \in [Names -> Nat]
  /\ calls \in [Slots -> Requests \cup {Idle}]
  /\ channels \subseteq Threads /\ gone \subseteq Threads /\ mixed \subseteq Threads
  /\ daemon \in Daemons /\ told \in [Threads -> 0..MaxRequests]
  /\ counts \in [requests : Nat, faults : Nat]

(* The daemon mints a session for a request, and one for each at most: the   *)
(* ids of a behaviour suffice.                                               *)
Minting ==
  /\ daemon.minted + Cardinality(Makers) <= counts.requests
  /\ counts.requests <= MaxRequests
  /\ daemon.live \subseteq 1..daemon.minted /\ daemon.saved \subseteq 1..daemon.minted
  /\ daemon.seated \subseteq daemon.live
  /\ \A t \in Threads : told[t] <= daemon.minted
  /\ \A r \in DOMAIN records : records[r].sid <= daemon.minted

(* A session is of one thread: no two threads share one.                     *)
Owned ==
  /\ \A r, q \in DOMAIN records :
       records[r].sid = records[q].sid /\ records[r].sid # 0 => records[r].thread = records[q].thread
  /\ \A r \in DOMAIN records, t \in Threads :
       records[r].sid = told[t] /\ told[t] # 0 => records[r].thread = t
  /\ \A t, u \in Threads : told[t] = told[u] /\ told[t] # 0 => t = u

(* A record goes by its thread, then by its session; its lane closes when    *)
(* the session does, when bb lets the thread go or when it could not attach  *)
(* to a replacement.                                                         *)
Named(r) ==
  /\ records[r].name # records[r].thread =>
       records[r].name = records[r].sid /\ records[r].sid # 0 /\ records[r].lane # "none"
  /\ records[r].attached => records[r].sid # 0 /\ records[r].lane # "none"
  /\ records[r].dead => records[r].sid # 0 /\ records[r].sid \notin daemon.live
  /\ records[r].lane = "closed" => records[r].dead \/ records[r].letGo \/ records[r].cut

(* An index leads to a record of that name.                                  *)
Indexed ==
  /\ \A n \in Names : byProvider[n] # 0 =>
       byProvider[n] \in DOMAIN records /\ records[byProvider[n]].name = n
  /\ \A t \in Threads : byThread[t] # 0 =>
       byThread[t] \in DOMAIN records /\ records[byThread[t]].thread = t

(* How far a request has come, and what it has done so far.                  *)
StepsOf(c) ==
  \/ c.kind = "start" /\ c.at \in {"listen", "create", "attach", "publish", "ready"}
  \/ c.kind = "fork" /\ c.at \in {"listen", "branch", "create", "attach", "publish"}
  \/ c.kind = "resume" /\ c.at \in {"attach", "listen", "publish"}
  \/ c.kind = "release" /\ c.at \in {"detach", "closed"}
  \/ c.kind = "discard" /\ c.at \in {"channel", "detach", "kill", "delete", "closed"}
  \/ c.kind = "turn" /\ c.at = "ready"
HasAttached(c) ==
  \/ c.kind \in {"start", "fork"} /\ c.at \in {"publish", "ready"}
  \/ c.kind = "resume" /\ c.at \in {"listen", "publish"}

Called(i) ==
  LET c == calls[i]
      r == records[c.rec] IN
  /\ c.rec \in DOMAIN records /\ r.thread = c.thread /\ StepsOf(c)
  /\ MakesSession(i) => r.sid = 0
  /\ c.kind \in {"start", "fork"} /\ ~HasAttached(c) => told[c.thread] = 0
  /\ c.kind = "resume" => r.name = r.sid /\ told[c.thread] = r.sid
  /\ c.at \in {"create", "attach"} => r.lane # "none"
  /\ c.at = "attach" => r.sid # 0
  /\ HasAttached(c) => r.attached /\ told[c.thread] # 0
  /\ c.kind = "turn" => told[c.thread] # 0
  /\ c.kind \in {"release", "discard"} => r.letGo

(* bb builds a thread by one request at a time.                              *)
OneBuilder ==
  \A i, j \in Slots : Builds(i) /\ Builds(j) /\ calls[i].thread = calls[j].thread => i = j

Fit ==
  /\ \A r \in DOMAIN records : Named(r)
  /\ Indexed
  /\ OneBuilder
  /\ \A i \in Slots : Live(i) => Called(i)

(* The rest holds of a thread while no two of its requests overlapped.       *)
Pure(t) == t \notin mixed

(* The two indices know the same records, by the id bb knows the thread by.  *)
PureIndex ==
  /\ \A n \in Names : byProvider[n] # 0 /\ Pure(records[byProvider[n]].thread)
                      => byThread[records[byProvider[n]].thread] = byProvider[n]
  /\ \A t \in Threads \ mixed : byThread[t] # 0 =>
       /\ byProvider[records[byThread[t]].name] = byThread[t]
       /\ told[t] # 0 => records[byThread[t]].name = told[t]
       /\ told[t] = 0 \/ ~records[byThread[t]].attached => Constructing(t)

(* A lane that listens is that of the thread's record.                       *)
PureLane ==
  \A r \in DOMAIN records :
    Pure(records[r].thread) /\ records[r].lane = "open" /\ ~records[r].failed
    => byThread[records[r].thread] = r

PureCall(i) ==
  LET c == calls[i]
      r == records[c.rec] IN
  /\ c.kind # "turn" => byThread[c.thread] = c.rec
  /\ c.kind = "resume" /\ ~c.adopted => r.attached
  /\ c.at \in {"kill", "delete", "closed"} => r.lane # "open"
  /\ c.kind = "discard" \/ c.at = "closed" => c.thread \notin channels
  /\ c.kind = "discard" /\ (c.at = "closed" \/ (c.at = "delete" /\ ~c.bad))
     => told[c.thread] \notin daemon.live
  /\ c.kind = "discard" /\ c.at = "closed" => told[c.thread] \notin daemon.saved
  /\ c.kind = "turn" => r.attached /\ (byThread[c.thread] = c.rec \/ r.letGo)

PureWorker ==
  \A i, j \in Slots :
    Works(i) /\ Works(j) /\ calls[i].thread = calls[j].thread /\ Pure(calls[i].thread) => i = j

(* A turn that outlived its record saw it let go.                            *)
PureTurn ==
  \A i, j \in Slots :
    /\ Live(i) /\ calls[i].kind = "resume" /\ calls[i].adopted
    /\ Live(j) /\ calls[j].kind = "turn" /\ calls[j].thread = calls[i].thread
    /\ Pure(calls[i].thread)
    => records[calls[j].rec].letGo

PureChannel ==
  \A t \in channels \ mixed :
    byThread[t] # 0 \/ \E r \in DOMAIN records : records[r].thread = t /\ records[r].failed

PureGone ==
  \A t \in gone \ mixed :
    /\ told[t] \notin daemon.live \cup daemon.saved
    /\ \A i \in Slots : Works(i) => calls[i].thread # t

(* A lane that waits for nothing hears its session, and so does one that has *)
(* attached again and reads the queue.                                       *)
Hears(r) ==
  /\ ~records[r].letGo /\ records[r].attached /\ records[r].lane = "open" /\ ~records[r].cut
  /\ records[r].sid \in daemon.live /\ (~records[r].gap \/ records[r].stage = "reads")
  => daemon.wire = "up" /\ records[r].sid \in daemon.seated
PureSeat == \A t \in Threads \ mixed : byThread[t] # 0 => Hears(byThread[t])

PureCalls == \A i \in Slots : Live(i) /\ Pure(calls[i].thread) => PureCall(i)

PureInv ==
  /\ PureIndex /\ PureLane /\ PureWorker /\ PureTurn /\ PureChannel /\ PureGone /\ PureSeat
  /\ PureCalls

Inv == Shape /\ Minting /\ Owned /\ Fit /\ PureInv

-----------------------------------------------------------------------------
(* How a step changes the table and the calls. *)

(* Record r becomes new; call i becomes c. *)
OneRecord(r, new) ==
  /\ records' \in Seq(Records) /\ DOMAIN records' = DOMAIN records
  /\ records'[r] = new
  /\ \A q \in DOMAIN records : q # r => records'[q] = records[q]
OneCall(i, c) ==
  /\ calls' \in [Slots -> Requests \cup {Idle}]
  /\ calls'[i] = c
  /\ \A j \in Slots : j # i => calls'[j] = calls[j]

LEMMA RecordsAre ==
  ASSUME Shape
  PROVE  /\ Len(records) \in Nat /\ DOMAIN records = 1..Len(records)
         /\ \A r \in DOMAIN records : records[r] \in Records /\ r # 0 /\ r \in Nat
<1>1. Len(records) \in Nat /\ DOMAIN records = 1..Len(records)
  BY LenProperties DEF Shape
<1> QED BY <1>1, ElementOfSeq DEF Shape

LEMMA LiveIsRequest ==
  ASSUME Shape, NEW i \in Slots
  PROVE  Live(i) <=> calls[i] \in Requests
<1>1. \A c \in Requests : c.kind # "idle"
  BY DEF Requests, Kinds
<1>2. Idle.kind = "idle"
  BY DEF Idle
<1> QED BY <1>1, <1>2 DEF Shape, Live

LEMMA RecordSet ==
  ASSUME Shape, NEW r \in DOMAIN records, NEW new \in Records,
         records' = [records EXCEPT ![r] = new]
  PROVE  OneRecord(r, new)
<1>1. records \in Seq(Records) /\ r \in 1..Len(records) /\ DOMAIN records = 1..Len(records)
  BY RecordsAre DEF Shape
<1>2. /\ records' \in Seq(Records) /\ Len(records') = Len(records)
      /\ \A q \in 1..Len(records) : records'[q] = IF q = r THEN new ELSE records[q]
  BY <1>1, ExceptSeq
<1>3. DOMAIN records' = 1..Len(records')
  BY <1>2, LenProperties
<1> QED BY <1>1, <1>2, <1>3 DEF OneRecord

LEMMA CallSet ==
  ASSUME Shape, NEW i \in Slots, NEW c \in Requests \cup {Idle},
         calls' = [calls EXCEPT ![i] = c]
  PROVE  OneCall(i, c)
BY DEF Shape, OneCall

LEMMA CallGoes ==
  ASSUME Shape, NEW i \in Slots, Live(i), NEW step \in Steps, Goes(i, step)
  PROVE  /\ OneCall(i, [calls[i] EXCEPT !.at = step])
         /\ [calls[i] EXCEPT !.at = step] \in Requests
<1>1. calls[i] \in Requests
  BY LiveIsRequest
<1> DEFINE c == [calls[i] EXCEPT !.at = step]
<1>2. c \in Requests
  BY <1>1 DEF Requests
<1>3. calls' = [calls EXCEPT ![i] = c]
  BY DEF Goes
<1> HIDE DEF c
<1>4. OneCall(i, c)
  BY <1>2, <1>3, CallSet
<1> QED BY <1>2, <1>4 DEF c

LEMMA CallEnds ==
  ASSUME Shape, NEW i \in Slots, Ends(i)
  PROVE  OneCall(i, Idle)
BY CallSet DEF Ends

-----------------------------------------------------------------------------
(* Most steps move one call on, or end it, and leave the records what they   *)
(* stand for.                                                                *)
Grown(q) ==
  /\ records'[q].thread = records[q].thread /\ records'[q].name = records[q].name
  /\ records'[q].sid = records[q].sid
  /\ records[q].attached => records'[q].attached
  /\ records[q].lane # "none" => records'[q].lane # "none"
  /\ records[q].failed => records'[q].failed
  /\ records[q].letGo => records'[q].letGo
TableGrows ==
  /\ records' \in Seq(Records) /\ DOMAIN records' = DOMAIN records /\ told' = told
  /\ \A q \in DOMAIN records : Grown(q)
(* The same, while a record may also be given the session it lacks. *)
Ages(q) ==
  /\ records'[q].thread = records[q].thread /\ records'[q].name = records[q].name
  /\ records[q].attached => records'[q].attached
  /\ records[q].lane # "none" => records'[q].lane # "none"
  /\ records[q].failed => records'[q].failed
  /\ records[q].letGo => records'[q].letGo
TableAges ==
  /\ records' \in Seq(Records) /\ DOMAIN records' = DOMAIN records /\ told' = told
  /\ \A q \in DOMAIN records : Ages(q)
IndicesSame == UNCHANGED <<byThread, byProvider>>

(* The calls of M move on or end; the others stay. *)
Moves(i, c) ==
  \/ c = Idle
  \/ /\ c \in Requests /\ c.kind = calls[i].kind /\ c.thread = calls[i].thread
     /\ c.rec = calls[i].rec /\ c.adopted = calls[i].adopted
CallsMove(M) ==
  /\ calls' \in [Slots -> Requests \cup {Idle}]
  /\ \A j \in Slots : j \notin M => calls'[j] = calls[j]
  /\ \A j \in M : Live(j) /\ Moves(j, calls'[j])

(* The daemon mints the next session, or none. *)
DaemonMoves ==
  /\ daemon' \in Daemons
  /\ daemon'.minted \in {daemon.minted, daemon.minted + 1}
  /\ daemon'.live \subseteq daemon.live \cup {daemon.minted + 1}
  /\ daemon'.saved \subseteq daemon.saved \cup {daemon.minted + 1}

LEMMA OneMoves ==
  ASSUME NEW i \in Slots, NEW c, Live(i), OneCall(i, c), Moves(i, c)
  PROVE  CallsMove({i})
BY DEF OneCall, CallsMove

LEMMA NoneMoves ==
  ASSUME Shape, UNCHANGED calls
  PROVE  CallsMove({})
BY DEF Shape, CallsMove

(* A call that still lives lived before, and is of the same kind. *)
LEMMA MovedFrom ==
  ASSUME Shape, NEW M \in SUBSET Slots, CallsMove(M), NEW j \in Slots, Live(j)'
  PROVE  /\ Live(j) /\ calls'[j].kind = calls[j].kind /\ calls'[j].thread = calls[j].thread
         /\ calls'[j].rec = calls[j].rec /\ calls'[j].adopted = calls[j].adopted
BY DEF CallsMove, Moves, Live, Idle

LEMMA GrownAges ==
  ASSUME TableGrows
  PROVE  TableAges
BY DEF TableGrows, TableAges, Grown, Ages

LEMMA OwnedKept ==
  ASSUME Owned, TableGrows
  PROVE  Owned'
BY DEF Owned, TableGrows, Grown

LEMMA IndexedKept ==
  ASSUME Indexed, TableGrows, IndicesSame
  PROVE  Indexed'
BY DEF Indexed, TableGrows, Grown, IndicesSame

LEMMA OthersCalled ==
  ASSUME Shape, Fit, TableGrows, NEW j \in Slots, Live(j), calls'[j] = calls[j]
  PROVE  Called(j)'
<1>1. Called(j) /\ calls[j] \in Requests
  BY LiveIsRequest DEF Fit
<1>2. records' \in Seq(Records) /\ records \in Seq(Records)
  BY DEF TableGrows, Shape
<1> DEFINE q == calls[j].rec
<1>3. q \in DOMAIN records /\ q \in DOMAIN records' /\ Grown(q)
  BY <1>1 DEF Called, TableGrows
<1>4. records[q] \in Records /\ records'[q] \in Records
  BY <1>2, <1>3, ElementOfSeq, LenProperties
<1> QED BY <1>1, <1>3, <1>4 DEF Called, Grown, TableGrows, MakesSession, Live, Records

LEMMA BuildersKept ==
  ASSUME Shape, OneBuilder, NEW M \in SUBSET Slots, CallsMove(M)
  PROVE  OneBuilder'
BY MovedFrom DEF OneBuilder, Builds

LEMMA FitKept ==
  ASSUME Shape, Fit, NEW M \in SUBSET Slots, CallsMove(M), TableGrows, Indexed',
         \A q \in DOMAIN records : Named(q)',
         \A i \in M : Live(i)' => Called(i)'
  PROVE  Fit'
<1>1. \A i \in Slots : Live(i)' => Called(i)'
  <2> SUFFICES ASSUME NEW i \in Slots, Live(i)', i \notin M PROVE Called(i)'
    OBVIOUS
  <2>1. calls'[i] = calls[i] /\ Live(i)
    BY MovedFrom DEF CallsMove
  <2> QED BY <2>1, OthersCalled
<1> QED BY <1>1, BuildersKept DEF Fit, TableGrows

(* What the daemon mints is accounted for. *)
LEMMA MintingKept ==
  ASSUME Shape, Minting, daemon' \in Daemons, counts'.requests = counts.requests,
         Makers' \subseteq Makers,
         \/ daemon'.minted = daemon.minted
         \/ daemon'.minted = daemon.minted + 1 /\ \E i \in Makers : i \notin Makers',
         daemon'.live \subseteq 1..daemon'.minted, daemon'.saved \subseteq 1..daemon'.minted,
         daemon'.seated \subseteq daemon'.live,
         \A t \in Threads : told'[t] <= daemon'.minted,
         \A r \in DOMAIN records' : records'[r].sid <= daemon'.minted
  PROVE  Minting'
<1>1. IsFiniteSet(Makers) /\ Cardinality(Makers) \in Nat
  <2>1. IsFiniteSet(Slots)
    BY FS_Interval, BridgeAssumption DEF Slots
  <2> QED BY <2>1, FS_Subset, FS_CardinalityType DEF Makers
<1>2. IsFiniteSet(Makers') /\ Cardinality(Makers') \in Nat
      /\ Cardinality(Makers') <= Cardinality(Makers)
  BY <1>1, FS_Subset, FS_CardinalityType
<1>3. daemon.minted \in Nat /\ counts.requests \in Nat /\ daemon'.minted \in Nat
  BY DEF Shape, Daemons
<1>4. daemon'.minted + Cardinality(Makers') <= daemon.minted + Cardinality(Makers)
  <2>1. CASE daemon'.minted = daemon.minted
    BY <1>1, <1>2, <1>3, <2>1
  <2>2. CASE daemon'.minted # daemon.minted
    <3>1. PICK i \in Makers : i \notin Makers'
      BY <2>2
    <3>2. Makers' # Makers
      BY <3>1
    <3>3. Cardinality(Makers') # Cardinality(Makers)
      BY <1>1, <3>2, FS_Subset
    <3> QED BY <1>1, <1>2, <1>3, <2>2, <3>3
  <2> QED BY <2>1, <2>2
<1> QED BY <1>1, <1>2, <1>3, <1>4, BridgeAssumption DEF Minting

LEMMA MakersKept ==
  ASSUME Shape, NEW M \in SUBSET Slots, CallsMove(M),
         \A i \in M : MakesSession(i)' => MakesSession(i)
  PROVE  Makers' \subseteq Makers
BY DEF Makers, CallsMove, MakesSession, Live

-----------------------------------------------------------------------------
(* What holds of a thread whose requests never overlapped, while calls move  *)
(* on and the indices stay.  A call that ends leaves a thread that is built  *)
(* and attached.                                                             *)
EndsBuilt(i) ==
  Builds(i) /\ ~Live(i)' /\ Pure(calls[i].thread)
  => told[calls[i].thread] # 0 /\ records'[calls[i].rec].attached

(* Only a request that builds a thread opens a lane or starts a channel.     *)
OpensForBuilders(M) ==
  /\ \A q \in DOMAIN records : records'[q].lane = "open" =>
       records[q].lane = "open" \/ \E i \in M : Builds(i) /\ calls[i].rec = q
  /\ \A t \in channels' : t \in channels \/ \E i \in M : Builds(i) /\ calls[i].thread = t

LEMMA StillConstructing ==
  ASSUME Shape, NEW M \in SUBSET Slots, CallsMove(M), NEW t \in Threads, Constructing(t)
  PROVE  \/ Constructing(t)'
         \/ \E i \in M : Builds(i) /\ calls[i].thread = t /\ ~Live(i)'
<1>1. PICK j \in Slots : Builds(j) /\ calls[j].thread = t
  BY DEF Constructing, Builds
<1>2. CASE j \in M /\ ~Live(j)'
  BY <1>1, <1>2
<1>3. CASE Live(j)'
  BY <1>1, <1>3, MovedFrom DEF Constructing, Builds
<1>4. CASE j \notin M
  BY <1>1, <1>4 DEF CallsMove, Constructing, Builds, Live
<1> QED BY <1>2, <1>3, <1>4

LEMMA PureIndexKept ==
  ASSUME Shape, Fit, PureIndex, PureCalls, NEW M \in SUBSET Slots, CallsMove(M), TableAges,
         IndicesSame, UNCHANGED mixed, \A i \in M : EndsBuilt(i)
  PROVE  PureIndex'
<1>1. ASSUME NEW n \in Names, byProvider'[n] # 0, records'[byProvider'[n]].thread \notin mixed'
      PROVE  byThread'[records'[byProvider'[n]].thread] = byProvider'[n]
  <2>1. byProvider[n] \in DOMAIN records
    BY <1>1 DEF Fit, Indexed, IndicesSame
  <2> QED BY <1>1, <2>1 DEF PureIndex, IndicesSame, TableAges, Ages, Pure
<1>2. ASSUME NEW t \in Threads \ mixed, byThread[t] # 0
      PROVE  /\ byProvider[records'[byThread[t]].name] = byThread[t]
             /\ told'[t] # 0 => records'[byThread[t]].name = told[t]
             /\ told'[t] = 0 \/ ~records'[byThread[t]].attached => Constructing(t)'
  <2> DEFINE r == byThread[t]
  <2>1. r \in DOMAIN records /\ Ages(r) /\ told'[t] = told[t]
    BY <1>2 DEF Fit, Indexed, TableAges
  <2>2. /\ byProvider[records[r].name] = r
        /\ told[t] # 0 => records[r].name = told[t]
        /\ told[t] = 0 \/ ~records[r].attached => Constructing(t)
    BY <1>2 DEF PureIndex
  <2>3. ASSUME Constructing(t), ~Constructing(t)'
        PROVE  told[t] # 0 /\ records'[r].attached
    <3>1. PICK i \in M : Builds(i) /\ calls[i].thread = t /\ ~Live(i)'
      BY <2>3, StillConstructing
    <3>2. PureCall(i) /\ Live(i) /\ calls[i].kind # "turn"
      BY <3>1 DEF PureCalls, Pure, Builds
    <3>3. calls[i].rec = r
      BY <3>1, <3>2 DEF PureCall
    <3> QED BY <3>1, <3>3 DEF EndsBuilt, Pure
  <2>4. told[t] = 0 \/ ~records'[r].attached => Constructing(t)'
    BY <2>1, <2>2, <2>3 DEF Ages
  <2>5. records'[r].name = records[r].name
    BY <2>1 DEF Ages
  <2> HIDE DEF r
  <2>6. /\ byProvider[records'[r].name] = r
        /\ told'[t] # 0 => records'[r].name = told[t]
        /\ told'[t] = 0 \/ ~records'[r].attached => Constructing(t)'
    BY <2>1, <2>2, <2>4, <2>5
  <2> QED BY <2>6 DEF r
<1> QED BY <1>1, <1>2 DEF PureIndex, IndicesSame, TableAges, Pure

LEMMA PureLaneKept ==
  ASSUME Shape, Fit, PureLane, PureCalls, NEW M \in SUBSET Slots, CallsMove(M), TableAges,
         IndicesSame, UNCHANGED mixed, OpensForBuilders(M)
  PROVE  PureLane'
<1> SUFFICES ASSUME NEW r \in DOMAIN records, records'[r].thread \notin mixed',
                    records'[r].lane = "open", ~records'[r].failed
             PROVE  byThread'[records'[r].thread] = r
  BY DEF PureLane, TableAges, Pure
<1>1. Ages(r) /\ Pure(records[r].thread) /\ ~records[r].failed
  BY DEF TableAges, Ages, Pure
<1>2. CASE records[r].lane = "open"
  BY <1>1, <1>2 DEF PureLane, Ages, IndicesSame
<1>3. CASE records[r].lane # "open"
  <2>1. PICK i \in M : Builds(i) /\ calls[i].rec = r
    BY <1>3 DEF OpensForBuilders
  <2>2. Called(i)
    BY <2>1 DEF Builds, Fit
  <2>3. records[r].thread = calls[i].thread
    BY <2>1, <2>2 DEF Called
  <2>4. PureCall(i) /\ calls[i].kind # "turn"
    BY <1>1, <2>1, <2>3 DEF PureCalls, Builds
  <2> QED BY <1>1, <2>1, <2>3, <2>4 DEF PureCall, Ages, IndicesSame
<1> QED BY <1>2, <1>3

LEMMA PureWorkersKept ==
  ASSUME Shape, PureWorker, NEW M \in SUBSET Slots, CallsMove(M), UNCHANGED mixed
  PROVE  PureWorker'
BY MovedFrom DEF PureWorker, Works, Pure

LEMMA PureTurnKept ==
  ASSUME Shape, Fit, PureTurn, NEW M \in SUBSET Slots, CallsMove(M), TableAges, UNCHANGED mixed
  PROVE  PureTurn'
<1> SUFFICES ASSUME NEW i \in Slots, NEW j \in Slots, Live(i)', calls'[i].kind = "resume",
                    calls'[i].adopted, Live(j)', calls'[j].kind = "turn",
                    calls'[j].thread = calls'[i].thread, calls'[i].thread \notin mixed'
             PROVE  records'[calls'[j].rec].letGo
  BY DEF PureTurn, Pure
<1>1. Live(i) /\ Live(j) /\ calls'[j].rec = calls[j].rec
  BY MovedFrom
<1>2. records[calls[j].rec].letGo
  BY <1>1, MovedFrom DEF PureTurn, Pure
<1>3. calls[j].rec \in DOMAIN records
  BY <1>1 DEF Fit, Called
<1> QED BY <1>1, <1>2, <1>3 DEF TableAges, Ages

(* The ids bb knows threads by are older than the next one minted. *)
LEMMA ToldIsOld ==
  ASSUME Shape, Minting, DaemonMoves, NEW t \in Threads
  PROVE  /\ told[t] \notin daemon.live => told[t] \notin daemon'.live
         /\ told[t] \notin daemon.saved => told[t] \notin daemon'.saved
<1>1. told[t] <= daemon.minted /\ daemon.minted \in Nat /\ told[t] \in Nat
  BY DEF Minting, Shape, Daemons
<1> QED BY <1>1 DEF DaemonMoves

LEMMA PureChannelKept ==
  ASSUME Shape, Fit, PureChannel, PureCalls, NEW M \in SUBSET Slots, CallsMove(M), TableAges,
         IndicesSame, UNCHANGED mixed, OpensForBuilders(M)
  PROVE  PureChannel'
<1> SUFFICES ASSUME NEW t \in channels', t \notin mixed, byThread[t] = 0
             PROVE  \E r \in DOMAIN records : records'[r].thread = t /\ records'[r].failed
  BY DEF PureChannel, IndicesSame, TableAges
<1>1. t \in channels
  <2> SUFFICES ASSUME NEW i \in M, Builds(i), calls[i].thread = t PROVE FALSE
    BY DEF OpensForBuilders
  <2>1. PureCall(i) /\ Called(i) /\ calls[i].kind # "turn"
    BY DEF PureCalls, Builds, Pure, Fit
  <2>2. calls[i].rec \in DOMAIN records /\ byThread[t] = calls[i].rec
    BY <2>1 DEF PureCall, Called
  <2> QED BY <2>2, RecordsAre
<1>2. PICK r \in DOMAIN records : records[r].thread = t /\ records[r].failed
  BY <1>1 DEF PureChannel
<1> QED BY <1>2 DEF TableAges, Ages

LEMMA PureGoneKept ==
  ASSUME Shape, Minting, PureGone, NEW M \in SUBSET Slots, CallsMove(M), UNCHANGED <<mixed, told>>,
         DaemonMoves, gone' = gone
  PROVE  PureGone'
<1> SUFFICES ASSUME NEW t \in gone \ mixed
             PROVE  /\ told[t] \notin daemon'.live \cup daemon'.saved
                    /\ \A i \in Slots : Works(i)' => calls'[i].thread # t
  BY DEF PureGone
<1>1. t \in Threads
  BY DEF Shape
<1>2. \A i \in Slots : Works(i)' => Works(i) /\ calls'[i].thread = calls[i].thread
  BY MovedFrom DEF Works
<1> QED BY <1>1, <1>2, ToldIsOld DEF PureGone

(* A call that did not move finds what it relied on. *)
LEMMA PureOtherCall ==
  ASSUME Shape, Minting, Fit, PureWorker, PureCalls, NEW M \in SUBSET Slots, CallsMove(M),
         TableAges, IndicesSame, UNCHANGED mixed, DaemonMoves, OpensForBuilders(M),
         NEW j \in Slots, j \notin M, Live(j), Pure(calls[j].thread)
  PROVE  PureCall(j)'
<1> DEFINE c == calls[j]
           r == c.rec
<1>1. PureCall(j) /\ Called(j) /\ calls'[j] = c
  BY DEF PureCalls, Fit, CallsMove
<1>2. r \in DOMAIN records /\ Ages(r) /\ records[r].thread = c.thread /\ c.thread \in Threads
  BY <1>1, LiveIsRequest DEF Called, TableAges, Requests
<1>3. ASSUME c.kind # "turn", NEW i \in M, Builds(i), calls[i].thread = c.thread
      PROVE  FALSE
  BY <1>3 DEF PureWorker, Works, Builds
<1>4. c.kind # "turn" => (c.thread \notin channels => c.thread \notin channels')
  BY <1>3 DEF OpensForBuilders
<1>5. c.kind # "turn" => (records[r].lane # "open" => records'[r].lane # "open")
  <2> SUFFICES ASSUME c.kind # "turn", NEW i \in M, Builds(i), calls[i].rec = r PROVE FALSE
    BY <1>2 DEF OpensForBuilders
  <2>1. Called(i)
    BY DEF Builds, Fit
  <2>2. calls[i].thread = c.thread
    BY <1>2, <2>1 DEF Called
  <2> QED BY <1>3, <2>2
<1>6. c.kind = "turn" => c.at = "ready"
  BY <1>1 DEF Called, StepsOf
<1>7. told' = told
  BY DEF TableAges
<1> QED BY <1>1, <1>2, <1>4, <1>5, <1>6, <1>7, ToldIsOld
     DEF PureCall, Ages, IndicesSame

LEMMA PureKept ==
  ASSUME Shape, Minting, Fit, PureInv, NEW M \in SUBSET Slots, CallsMove(M), TableAges,
         IndicesSame, UNCHANGED <<mixed, gone>>, DaemonMoves, OpensForBuilders(M),
         \A i \in M : EndsBuilt(i), PureSeat',
         \A i \in M : Live(i)' /\ Pure(calls[i].thread) => PureCall(i)'
  PROVE  PureInv'
<1>1. told' = told
  BY DEF TableAges
<1>2. PureCalls'
  <2> SUFFICES ASSUME NEW j \in Slots, Live(j)', calls'[j].thread \notin mixed'
               PROVE  PureCall(j)'
    BY DEF PureCalls, Pure
  <2>1. Live(j) /\ Pure(calls[j].thread)
    BY MovedFrom DEF Pure
  <2> QED BY <2>1, PureOtherCall DEF PureInv
<1> QED BY <1>1, <1>2, PureIndexKept, PureLaneKept, PureWorkersKept, PureTurnKept,
           PureChannelKept, PureGoneKept DEF PureInv

-----------------------------------------------------------------------------
(* A step that mints nothing, moves the calls of M and leaves the indices.   *)
DaemonQuiet ==
  /\ daemon' \in Daemons /\ daemon'.minted = daemon.minted
  /\ daemon'.live \subseteq daemon.live /\ daemon'.saved \subseteq daemon.saved
  /\ daemon'.seated \subseteq daemon'.live

CountsKept == counts' \in [requests : Nat, faults : Nat] /\ counts'.requests = counts.requests

LEMMA FaultyCounts ==
  ASSUME Shape, Faulty
  PROVE  CountsKept
<1>1. counts.requests \in Nat /\ counts.faults \in Nat /\ counts = [requests |-> counts.requests, faults |-> counts.faults]
  BY DEF Shape
<1>2. counts' = [counts EXCEPT !.faults = counts.faults + 1]
  BY DEF Faulty
<1>3. counts' = [requests |-> counts.requests, faults |-> counts.faults + 1]
  BY <1>1, <1>2
<1> QED BY <1>1, <1>3 DEF CountsKept

LEMMA SameCounts ==
  ASSUME Shape, UNCHANGED counts
  PROVE  CountsKept
BY DEF CountsKept, Shape

LEMMA SameDaemon ==
  ASSUME Shape, Minting, UNCHANGED daemon
  PROVE  DaemonQuiet
BY DEF DaemonQuiet, Shape, Minting

LEMMA SeatKept ==
  ASSUME Indexed, PureSeat, IndicesSame, UNCHANGED mixed,
         \A q \in DOMAIN records :
           /\ Pure(records[q].thread) /\ byThread[records[q].thread] = q
           /\ Hears(q)
           => Hears(q)'
  PROVE  PureSeat'
<1> SUFFICES ASSUME NEW t \in Threads \ mixed, byThread[t] # 0
             PROVE  Hears(byThread[t])'
  BY DEF PureSeat, IndicesSame
<1>1. PICK q \in DOMAIN records : q = byThread[t] /\ records[q].thread = t
  BY DEF Indexed
<1>2. Hears(q)
  BY <1>1 DEF PureSeat
<1>3. Hears(q)'
  BY <1>1, <1>2 DEF Pure
<1> QED BY <1>1, <1>3 DEF IndicesSame, Hears

LEMMA InvKept ==
  ASSUME Inv, NEW M \in SUBSET Slots, CallsMove(M), TableGrows, IndicesSame,
         UNCHANGED <<mixed, gone>>, DaemonQuiet, CountsKept, channels' \subseteq Threads,
         \A i \in M : MakesSession(i)' => MakesSession(i),
         \A q \in DOMAIN records : Named(q)',
         \A i \in M : Live(i)' => Called(i)',
         OpensForBuilders(M), \A i \in M : EndsBuilt(i), PureSeat',
         \A i \in M : Live(i)' /\ Pure(calls[i].thread) => PureCall(i)'
  PROVE  Inv'
<1> USE DEF Inv
<1>1. Shape'
  BY DEF Shape, CallsMove, TableGrows, IndicesSame, DaemonQuiet, CountsKept
<1>2. Minting'
  <2>1. Makers' \subseteq Makers
    BY MakersKept
  <2>2. \A t \in Threads : told'[t] <= daemon'.minted
    BY DEF Minting, TableGrows, DaemonQuiet
  <2>3. \A r \in DOMAIN records' : records'[r].sid <= daemon'.minted
    BY DEF Minting, TableGrows, Grown, DaemonQuiet
  <2>4. daemon'.live \subseteq 1..daemon'.minted /\ daemon'.saved \subseteq 1..daemon'.minted
    BY DEF Minting, DaemonQuiet
  <2> QED BY <2>1, <2>2, <2>3, <2>4, MintingKept DEF DaemonQuiet, CountsKept
<1>3. Owned'
  BY OwnedKept
<1>4. Fit'
  BY IndexedKept, FitKept DEF Fit
<1>5. DaemonMoves
  BY DEF DaemonMoves, DaemonQuiet
<1>6. PureInv'
  BY <1>5, GrownAges, PureKept
<1> QED BY <1>1, <1>2, <1>3, <1>4, <1>6

(* What is known of a call under way. *)
LEMMA CallIs ==
  ASSUME Inv, NEW i \in Slots, Live(i)
  PROVE  /\ calls[i] \in Requests /\ Called(i)
         /\ calls[i].rec \in DOMAIN records /\ records[calls[i].rec] \in Records
         /\ records[calls[i].rec].thread = calls[i].thread
         /\ Named(calls[i].rec)
         /\ Pure(calls[i].thread) => PureCall(i)
<1>1. calls[i] \in Requests /\ Called(i)
  BY LiveIsRequest DEF Inv, Fit
<1>2. calls[i].rec \in DOMAIN records /\ records[calls[i].rec].thread = calls[i].thread
  BY <1>1 DEF Called
<1> QED BY <1>1, <1>2, RecordsAre DEF Inv, Fit, PureInv, PureCalls

LEMMA RecordsStay ==
  ASSUME Shape, UNCHANGED <<records, told>>
  PROVE  TableGrows
BY DEF Shape, TableGrows, Grown

LEMMA OneGrows ==
  ASSUME Shape, NEW r \in DOMAIN records, NEW new, OneRecord(r, new), UNCHANGED told,
         new.thread = records[r].thread, new.name = records[r].name, new.sid = records[r].sid,
         records[r].attached => new.attached, records[r].lane # "none" => new.lane # "none",
         records[r].failed => new.failed, records[r].letGo => new.letGo
  PROVE  TableGrows
BY DEF OneRecord, TableGrows, Grown

LEMMA PublishesKeeps ==
  ASSUME Inv, NEW i \in Slots, Publishes(i)
  PROVE  Inv'
<1>1. /\ Live(i) /\ calls[i].at = "publish"
      /\ UNCHANGED <<records, byThread, byProvider, channels, daemon, told, gone, mixed, counts>>
  BY DEF Publishes, IndicesRest
<1>2. /\ calls[i] \in Requests /\ Called(i)
      /\ Pure(calls[i].thread) => PureCall(i)
  BY <1>1, CallIs
<1>3. HasAttached(calls[i]) /\ Builds(i)
  BY <1>1, <1>2 DEF Called, StepsOf, HasAttached, Builds
<1>4. CASE Ends(i)
  <2>1. OneCall(i, Idle) /\ ~Live(i)'
    BY <1>4, CallEnds DEF Inv, OneCall, Live, Idle
  <2>2. CallsMove({i})
    BY <1>1, <2>1, OneMoves DEF Moves
  <2>3. EndsBuilt(i)
    BY <1>1, <1>2, <1>3 DEF EndsBuilt, Called
  <2>4. PureSeat' /\ \A q \in DOMAIN records : Named(q)'
    BY <1>1 DEF Inv, PureInv, PureSeat, Hears, Fit, Named
  <2>5. channels' \subseteq Threads /\ OpensForBuilders({i})
    BY <1>1 DEF Inv, Shape, OpensForBuilders
  <2>6. ~MakesSession(i)'
    BY <2>1 DEF MakesSession
  <2> QED BY <1>1, <2>1, <2>2, <2>3, <2>4, <2>5, <2>6, InvKept, RecordsStay, SameDaemon, SameCounts
       DEF Inv, IndicesSame
<1>5. CASE calls[i].kind = "start" /\ Goes(i, "ready")
  <2> DEFINE c == [calls[i] EXCEPT !.at = "ready"]
  <2>1. OneCall(i, c) /\ c \in Requests
    BY <1>1, <1>5, CallGoes DEF Inv, Steps
  <2>2. /\ calls'[i] = c /\ c.at = "ready" /\ c.kind = "start"
        /\ c.thread = calls[i].thread /\ c.rec = calls[i].rec
    BY <1>2, <1>5, <2>1 DEF OneCall, Requests
  <2>3. CallsMove({i})
    BY <1>1, <1>2, <2>1, OneMoves DEF Moves, Requests
  <2> HIDE DEF c
  <2>4. Live(i)' /\ ~MakesSession(i)'
    BY <2>2 DEF Live, MakesSession
  <2>5. Called(i)'
    BY <1>1, <1>2, <1>3, <2>2, <2>4 DEF Called, StepsOf, HasAttached
  <2>6. Pure(calls[i].thread) => PureCall(i)'
    BY <1>1, <1>2, <1>5, <2>2 DEF PureCall
  <2>7. PureSeat' /\ \A q \in DOMAIN records : Named(q)'
    BY <1>1 DEF Inv, PureInv, PureSeat, Hears, Fit, Named
  <2>8. channels' \subseteq Threads /\ OpensForBuilders({i})
    BY <1>1 DEF Inv, Shape, OpensForBuilders
  <2> QED BY <1>1, <2>3, <2>4, <2>5, <2>6, <2>7, <2>8, InvKept, RecordsStay, SameDaemon, SameCounts
       DEF Inv, IndicesSame, EndsBuilt
<1> QED BY <1>4, <1>5 DEF Publishes

LEMMA GoesOn ==
  ASSUME Inv, NEW i \in Slots, Live(i), NEW step \in Steps, Goes(i, step)
  PROVE  /\ CallsMove({i}) /\ Live(i)' /\ calls'[i] \in Requests /\ calls'[i].at = step
         /\ calls'[i].kind = calls[i].kind /\ calls'[i].thread = calls[i].thread
         /\ calls'[i].rec = calls[i].rec /\ calls'[i].adopted = calls[i].adopted
         /\ calls'[i].bad = calls[i].bad
<1> DEFINE c == [calls[i] EXCEPT !.at = step]
<1>1. OneCall(i, c) /\ c \in Requests /\ calls[i] \in Requests
  BY CallGoes, LiveIsRequest DEF Inv
<1>2. /\ c.at = step /\ c.kind = calls[i].kind /\ c.thread = calls[i].thread
      /\ c.rec = calls[i].rec /\ c.adopted = calls[i].adopted /\ c.bad = calls[i].bad
  BY <1>1 DEF Requests
<1> HIDE DEF c
<1>3. calls'[i] = c
  BY <1>1 DEF OneCall
<1> QED BY <1>1, <1>2, <1>3, OneMoves DEF Moves, Live

LEMMA EndsOn ==
  ASSUME Inv, NEW i \in Slots, Live(i), Ends(i)
  PROVE  CallsMove({i}) /\ ~Live(i)' /\ ~MakesSession(i)'
<1>1. OneCall(i, Idle)
  BY CallEnds DEF Inv
<1> QED BY <1>1, OneMoves DEF Moves, OneCall, Live, Idle, MakesSession

(* A step of one call that leaves the records alone. *)
LEMMA QuietCall ==
  ASSUME Inv, NEW i \in Slots, CallsMove({i}), UNCHANGED <<table, told, gone, mixed>>,
         channels' \subseteq Threads,
         \A t \in channels' : t \in channels \/ (Builds(i) /\ calls[i].thread = t),
         daemon'.wire = daemon.wire, \A s \in daemon'.live \cap daemon.seated : s \in daemon'.seated,
         DaemonQuiet, CountsKept,
         MakesSession(i)' => MakesSession(i),
         Live(i)' => Called(i)', EndsBuilt(i),
         Live(i)' /\ Pure(calls[i].thread) => PureCall(i)'
  PROVE  Inv'
<1>1. TableGrows /\ IndicesSame
  BY RecordsStay DEF Inv, table, IndicesSame
<1>2. \A q \in DOMAIN records : Named(q)'
  BY DEF Inv, Fit, Named, table, DaemonQuiet
<1>3. PureSeat'
  BY DEF Inv, PureInv, PureSeat, Hears, table, DaemonQuiet
<1>4. OpensForBuilders({i})
  BY DEF OpensForBuilders, table
<1> QED BY <1>1, <1>2, <1>3, <1>4, InvKept

LEMMA PromptsKeeps ==
  ASSUME Inv, NEW i \in Slots, Prompts(i)
  PROVE  Inv'
<1>1. /\ Live(i) /\ calls[i].at = "ready" /\ Ends(i)
      /\ UNCHANGED <<table, channels, daemon, told, gone, mixed, counts>>
  BY DEF Prompts
<1>2. Called(i)
  BY <1>1, CallIs
<1>3. CallsMove({i}) /\ ~Live(i)' /\ ~MakesSession(i)'
  BY <1>1, EndsOn
<1>4. EndsBuilt(i)
  BY <1>1, <1>2 DEF EndsBuilt, Builds, Called, StepsOf, HasAttached, table
<1> QED BY <1>1, <1>3, <1>4, QuietCall, SameDaemon, SameCounts DEF Inv, Shape

(* A lane opens for a fork that found its branch. *)
LEMMA BranchesKeeps ==
  ASSUME Inv, NEW i \in Slots, Branches(i)
  PROVE  Inv'
<1> DEFINE r == calls[i].rec
           new == [records[r] EXCEPT !.lane = "open"]
<1>1. /\ Live(i) /\ calls[i].at = "branch" /\ Goes(i, "create")
      /\ records' = [records EXCEPT ![r] = new]
      /\ IndicesSame /\ UNCHANGED <<channels, daemon, told, gone, mixed, counts>>
  BY DEF Branches, SetRec, Rec, IndicesRest, IndicesSame
<1>2. /\ calls[i] \in Requests /\ Called(i) /\ r \in DOMAIN records /\ records[r] \in Records
      /\ Named(r)
      /\ Pure(calls[i].thread) => PureCall(i)
  BY <1>1, CallIs
<1>3. calls[i].kind = "fork" /\ MakesSession(i) /\ Builds(i)
  BY <1>1, <1>2 DEF Called, StepsOf, MakesSession, Builds
<1>4. /\ CallsMove({i}) /\ Live(i)' /\ calls'[i].at = "create" /\ calls'[i].kind = "fork"
      /\ calls'[i].thread = calls[i].thread /\ calls'[i].rec = r
      /\ calls'[i].adopted = calls[i].adopted
  BY <1>1, <1>3, GoesOn DEF Steps
<1>5. OneRecord(r, new)
  <2>1. new \in Records
    BY <1>2 DEF Records
  <2> HIDE DEF new
  <2> QED BY <1>1, <1>2, <2>1, RecordSet DEF Inv
<1>6. /\ new.thread = records[r].thread /\ new.name = records[r].name /\ new.sid = records[r].sid
      /\ new.attached = records[r].attached /\ new.lane = "open" /\ new.dead = records[r].dead
      /\ new.failed = records[r].failed /\ new.letGo = records[r].letGo
      /\ new.cut = records[r].cut
  BY <1>2 DEF Records
<1> HIDE DEF new
<1>7. TableGrows
  BY <1>1, <1>2, <1>5, <1>6, OneGrows DEF Inv
<1>8. \A q \in DOMAIN records : Named(q)'
  BY <1>1, <1>2, <1>5, <1>6 DEF Inv, Fit, Named, OneRecord
<1>9. Called(i)'
  BY <1>1, <1>2, <1>3, <1>4, <1>5, <1>6
     DEF Called, StepsOf, HasAttached, OneRecord, MakesSession
<1>10. OpensForBuilders({i})
  BY <1>1, <1>3, <1>5 DEF OpensForBuilders, OneRecord
<1>11. PureSeat'
  <2>1. ASSUME NEW q \in DOMAIN records, Hears(q) PROVE Hears(q)'
    <3>1. CASE q = r
      <4>1. ~records[r].attached
        BY <1>2, <1>3 DEF Called, Named
      <4> QED BY <1>5, <1>6, <3>1, <4>1 DEF Hears, OneRecord
    <3>2. CASE q # r
      BY <1>1, <1>5, <2>1, <3>2 DEF Hears, OneRecord
    <3> QED BY <3>1, <3>2
  <2> QED BY <1>1, <2>1, SeatKept DEF Inv, Fit, PureInv
<1>12. Pure(calls[i].thread) => PureCall(i)'
  BY <1>1, <1>2, <1>3, <1>4 DEF PureCall, IndicesSame
<1> QED BY <1>1, <1>3, <1>4, <1>7, <1>8, <1>9, <1>10, <1>11, <1>12, InvKept, SameDaemon, SameCounts
     DEF Inv, EndsBuilt, Shape

(* The lane of a start opens as soon as its tool channel listens, or cannot. *)
LEMMA ListensKeeps ==
  ASSUME Inv, NEW i \in Slots, Listens(i)
  PROVE  Inv'
<1> DEFINE r == calls[i].rec
           t == calls[i].thread
<1>1. /\ Live(i) /\ calls[i].at = "listen" /\ ChannelListens(t)
      /\ IndicesSame /\ UNCHANGED <<daemon, told, gone, mixed>>
  BY DEF Listens, IndicesRest, IndicesSame
<1>2. /\ calls[i] \in Requests /\ Called(i) /\ r \in DOMAIN records /\ records[r] \in Records
      /\ Named(r) /\ t \in Threads
      /\ Pure(t) => PureCall(i)
  BY <1>1, CallIs DEF Requests
<1>3. calls[i].kind \in {"start", "fork", "resume"} /\ Builds(i)
  BY <1>1, <1>2 DEF Called, StepsOf, Builds
<1>4. CountsKept /\ DaemonQuiet
  BY <1>1, FaultyCounts, SameCounts, SameDaemon DEF ChannelListens, Inv
<1>5. channels' \subseteq Threads /\ \A u \in channels' : u \in channels \/ u = t
  BY <1>1, <1>2 DEF ChannelListens, Inv, Shape
<1>6. CASE calls[i].kind \in {"fork", "resume"}
  <2>1. PICK step \in {"branch", "publish"} :
          /\ Goes(i, step) /\ (step = "branch" <=> calls[i].kind = "fork")
          /\ UNCHANGED records
    BY <1>6 DEF Listens
  <2>2. /\ CallsMove({i}) /\ Live(i)' /\ calls'[i].at = step /\ calls'[i].kind = calls[i].kind
        /\ calls'[i].thread = t /\ calls'[i].rec = r /\ calls'[i].adopted = calls[i].adopted
    BY <1>1, <2>1, GoesOn DEF Steps
  <2>3. MakesSession(i)' => MakesSession(i)
    BY <1>1, <1>6, <2>1, <2>2 DEF MakesSession
  <2>4. Called(i)'
    BY <1>1, <1>2, <1>6, <2>1, <2>2 DEF Called, StepsOf, HasAttached, MakesSession
  <2>5. Pure(t) => PureCall(i)'
    BY <1>1, <1>2, <1>6, <2>1, <2>2 DEF PureCall, IndicesSame
  <2> QED BY <1>1, <1>3, <1>4, <1>5, <2>1, <2>2, <2>3, <2>4, <2>5, QuietCall
       DEF EndsBuilt, table, IndicesSame
<1>7. CASE calls[i].kind = "start"
  <2> DEFINE new == [records[r] EXCEPT !.lane = "open"]
  <2>1. records' = [records EXCEPT ![r] = new] /\ Goes(i, "create")
    BY <1>7 DEF Listens, SetRec, Rec
  <2>2. /\ CallsMove({i}) /\ Live(i)' /\ calls'[i].at = "create" /\ calls'[i].kind = "start"
        /\ calls'[i].thread = t /\ calls'[i].rec = r /\ calls'[i].adopted = calls[i].adopted
    BY <1>1, <1>7, <2>1, GoesOn DEF Steps
  <2>3. MakesSession(i)
    BY <1>1, <1>7 DEF MakesSession
  <2>4. OneRecord(r, new)
    <3>1. new \in Records
      BY <1>2 DEF Records
    <3> HIDE DEF new
    <3> QED BY <1>2, <2>1, <3>1, RecordSet DEF Inv
  <2>5. /\ new.thread = records[r].thread /\ new.name = records[r].name
        /\ new.sid = records[r].sid /\ new.attached = records[r].attached /\ new.lane = "open"
        /\ new.dead = records[r].dead /\ new.failed = records[r].failed
        /\ new.cut = records[r].cut
        /\ new.letGo = records[r].letGo
    BY <1>2 DEF Records
  <2> HIDE DEF new
  <2>6. TableGrows
    BY <1>1, <1>2, <2>4, <2>5, OneGrows DEF Inv
  <2>7. \A q \in DOMAIN records : Named(q)'
    BY <1>1, <1>2, <2>4, <2>5 DEF Inv, Fit, Named, OneRecord
  <2>8. Called(i)'
    BY <1>1, <1>2, <1>7, <2>2, <2>3, <2>4, <2>5
       DEF Called, StepsOf, HasAttached, OneRecord, MakesSession
  <2>9. OpensForBuilders({i})
    BY <1>3, <1>5, <2>4 DEF OpensForBuilders, OneRecord
  <2>10. PureSeat'
    <3>1. ASSUME NEW q \in DOMAIN records, Hears(q) PROVE Hears(q)'
      <4>1. CASE q = r
        <5>1. ~records[r].attached
          BY <1>2, <2>3 DEF Called, Named
        <5> QED BY <2>4, <2>5, <4>1, <5>1 DEF Hears, OneRecord
      <4>2. CASE q # r
        BY <1>1, <2>4, <3>1, <4>2 DEF Hears, OneRecord
      <4> QED BY <4>1, <4>2
    <3> QED BY <1>1, <3>1, SeatKept DEF Inv, Fit, PureInv
  <2>11. Pure(t) => PureCall(i)'
    BY <1>1, <1>2, <1>7, <2>2 DEF PureCall, IndicesSame
  <2> QED BY <1>1, <1>4, <1>5, <2>2, <2>3, <2>6, <2>7, <2>8, <2>9, <2>10, <2>11, InvKept DEF EndsBuilt
<1> QED BY <1>3, <1>6, <1>7

(* A request that lets its thread go is alone at it: the thread was built.   *)
LEMMA StopIs ==
  ASSUME Inv, NEW i \in Slots, Live(i), calls[i].kind \in {"release", "discard"},
         Pure(calls[i].thread)
  PROVE  /\ told[calls[i].thread] # 0 /\ told[calls[i].thread] = records[calls[i].rec].sid
         /\ records[calls[i].rec].attached /\ byThread[calls[i].thread] = calls[i].rec
<1> DEFINE t == calls[i].thread
           r == calls[i].rec
<1>1. /\ calls[i] \in Requests /\ Called(i) /\ PureCall(i) /\ r \in DOMAIN records
      /\ records[r].thread = t /\ Named(r)
  BY CallIs
<1>2. byThread[t] = r /\ r # 0 /\ t \in Threads \ mixed
  BY <1>1, RecordsAre DEF PureCall, Pure, Requests, Inv
<1>3. ~Constructing(t)
  <2> SUFFICES ASSUME NEW j \in Slots, Live(j), calls[j].thread = t,
                      calls[j].kind \in {"start", "fork", "resume"}
               PROVE  FALSE
    BY DEF Constructing
  <2>1. Works(i) /\ Works(j)
    BY DEF Works
  <2> QED BY <2>1 DEF Inv, PureInv, PureWorker
<1>4. told[t] # 0 /\ records[r].attached /\ records[r].name = told[t]
  BY <1>2, <1>3 DEF Inv, PureInv, PureIndex
<1>5. told[t] \in SessionIds
  BY <1>2, <1>4, BridgeAssumption DEF Inv, Shape, SessionIds
<1>6. records[r].name # records[r].thread
  BY <1>1, <1>2, <1>4, <1>5, NamesAssumption
<1> QED BY <1>1, <1>2, <1>4, <1>6 DEF Named

LEMMA ChannelClosedKeeps ==
  ASSUME Inv, NEW i \in Slots, ChannelClosed(i)
  PROVE  Inv'
<1> DEFINE r == calls[i].rec
           t == calls[i].thread
           new == [records[r] EXCEPT !.gap = FALSE]
<1>1. /\ Live(i) /\ calls[i].at = "channel" /\ records' = [records EXCEPT ![r] = new]
      /\ IndicesSame /\ UNCHANGED <<channels, daemon, told, gone, mixed, counts>>
  BY DEF ChannelClosed, SetRec, Rec, IndicesRest, IndicesSame
<1>2. /\ calls[i] \in Requests /\ Called(i) /\ r \in DOMAIN records /\ records[r] \in Records
      /\ Pure(t) => PureCall(i)
  BY <1>1, CallIs
<1>3. calls[i].kind = "discard" /\ records[r].letGo
  BY <1>1, <1>2 DEF Called, StepsOf
<1>4. PICK step \in {"closed", "detach"} :
        Goes(i, step) /\ (step = "closed" => records[r].lane = "none")
  BY DEF ChannelClosed, Rec
<1>5. /\ CallsMove({i}) /\ Live(i)' /\ calls'[i].at = step /\ calls'[i].kind = "discard"
      /\ calls'[i].thread = t /\ calls'[i].rec = r
  BY <1>1, <1>3, <1>4, GoesOn DEF Steps
<1>6. OneRecord(r, new)
  <2>1. new \in Records
    BY <1>2 DEF Records
  <2> HIDE DEF new
  <2> QED BY <1>1, <1>2, <2>1, RecordSet DEF Inv
<1>7. /\ new.thread = records[r].thread /\ new.name = records[r].name /\ new.sid = records[r].sid
      /\ new.attached = records[r].attached /\ new.lane = records[r].lane
      /\ new.dead = records[r].dead /\ new.failed = records[r].failed
      /\ new.cut = records[r].cut
      /\ new.letGo = records[r].letGo
  BY <1>2 DEF Records
<1> HIDE DEF new
<1>8. TableGrows
  BY <1>1, <1>2, <1>6, <1>7, OneGrows DEF Inv
<1>9. \A q \in DOMAIN records : Named(q)'
  BY <1>1, <1>2, <1>6, <1>7 DEF Inv, Fit, Named, OneRecord
<1>10. Called(i)' /\ ~MakesSession(i)'
  BY <1>1, <1>2, <1>3, <1>4, <1>5, <1>6, <1>7
     DEF Called, StepsOf, HasAttached, OneRecord, MakesSession
<1>11. OpensForBuilders({i})
  BY <1>1, <1>6, <1>7 DEF OpensForBuilders, OneRecord
<1>12. PureSeat'
  <2>1. ASSUME NEW q \in DOMAIN records, Hears(q) PROVE Hears(q)'
    BY <1>1, <1>3, <1>6, <1>7, <2>1 DEF Hears, OneRecord
  <2> QED BY <1>1, <2>1, SeatKept DEF Inv, Fit, PureInv
<1>13. Pure(t) => PureCall(i)'
  <2> SUFFICES ASSUME Pure(t) PROVE PureCall(i)'
    OBVIOUS
  <2>1. records[r].lane # "none"
    BY <1>1, <1>2, <1>3, StopIs, CallIs DEF Named
  <2> QED BY <1>1, <1>2, <1>3, <1>4, <1>5, <2>1 DEF PureCall, IndicesSame
<1> QED BY <1>1, <1>5, <1>8, <1>9, <1>10, <1>11, <1>12, <1>13, InvKept, SameDaemon, SameCounts
     DEF Inv, EndsBuilt, Shape

(* Only the seat of the session that is let go is given up. *)
LEMMA DetachesKeeps ==
  ASSUME Inv, NEW i \in Slots, Detaches(i)
  PROVE  Inv'
<1> DEFINE r == calls[i].rec
           t == calls[i].thread
           new == [records[r] EXCEPT !.lane = "closed"]
<1>1. /\ Live(i) /\ calls[i].at = "detach" /\ records' = [records EXCEPT ![r] = new]
      /\ IndicesSame /\ UNCHANGED <<told, gone, mixed, counts>>
  BY DEF Detaches, SetRec, Rec, IndicesRest, IndicesSame
<1>2. /\ calls[i] \in Requests /\ Called(i) /\ r \in DOMAIN records /\ records[r] \in Records
      /\ records[r].thread = t
      /\ Pure(t) => PureCall(i)
  BY <1>1, CallIs
<1>3. calls[i].kind \in {"release", "discard"} /\ records[r].letGo
  BY <1>1, <1>2 DEF Called, StepsOf
<1>4. PICK step \in {"closed", "kill", "delete"} :
        /\ Goes(i, step)
        /\ step = "closed" => calls[i].kind = "release" /\ channels' = channels \ {t}
        /\ step # "closed" => calls[i].kind = "discard" /\ channels' = channels
        /\ step = "delete" => records[r].sid = 0 \/ records[r].dead
  BY DEF Detaches, Rec
<1>5. /\ CallsMove({i}) /\ Live(i)' /\ calls'[i].at = step /\ calls'[i].kind = calls[i].kind
      /\ calls'[i].thread = t /\ calls'[i].rec = r
  BY <1>1, <1>4, GoesOn DEF Steps
<1>6. OneRecord(r, new)
  <2>1. new \in Records
    BY <1>2 DEF Records
  <2> HIDE DEF new
  <2> QED BY <1>1, <1>2, <2>1, RecordSet DEF Inv
<1>7. /\ new.thread = records[r].thread /\ new.name = records[r].name /\ new.sid = records[r].sid
      /\ new.attached = records[r].attached /\ new.lane = "closed"
      /\ new.dead = records[r].dead /\ new.failed = records[r].failed
      /\ new.cut = records[r].cut
      /\ new.letGo = records[r].letGo
  BY <1>2 DEF Records
<1> HIDE DEF new
<1>8. TableGrows
  BY <1>1, <1>2, <1>6, <1>7, OneGrows DEF Inv
<1>9. /\ DaemonQuiet /\ daemon'.live = daemon.live /\ daemon'.saved = daemon.saved
      /\ daemon'.wire = daemon.wire
      /\ \A s \in daemon.seated : s # records[r].sid => s \in daemon'.seated
  <2>1. daemon' = daemon \/ daemon' = [daemon EXCEPT !.seated = @ \ {records[r].sid}]
    BY DEF Detaches, Rec
  <2>2. daemon \in Daemons
    BY DEF Inv, Shape
  <2>3. /\ daemon' \in Daemons /\ daemon'.live = daemon.live /\ daemon'.saved = daemon.saved
        /\ daemon'.wire = daemon.wire /\ daemon'.minted = daemon.minted
        /\ daemon'.seated \subseteq daemon.seated
        /\ \A s \in daemon.seated : s # records[r].sid => s \in daemon'.seated
    BY <2>1, <2>2 DEF Daemons
  <2>4. /\ daemon.live \subseteq 1..daemon.minted /\ daemon.saved \subseteq 1..daemon.minted
        /\ daemon.seated \subseteq daemon.live
    BY DEF Inv, Minting
  <2> QED BY <2>3, <2>4 DEF DaemonQuiet
<1>10. ASSUME NEW q \in DOMAIN records PROVE Named(q)'
  <2>1. Named(q) /\ Named(r)
    BY <1>2 DEF Inv, Fit
  <2>2. CASE q = r
    BY <1>3, <1>6, <1>7, <1>9, <2>1, <2>2 DEF Named, OneRecord
  <2>3. CASE q # r
    BY <1>6, <1>9, <2>1, <2>3 DEF Named, OneRecord
  <2> QED BY <2>2, <2>3
<1>11. Called(i)' /\ ~MakesSession(i)'
  BY <1>1, <1>2, <1>3, <1>4, <1>5, <1>6, <1>7
     DEF Called, StepsOf, HasAttached, OneRecord, MakesSession
<1>12. OpensForBuilders({i}) /\ channels' \subseteq Threads
  BY <1>4, <1>6, <1>7 DEF OpensForBuilders, OneRecord, Inv, Shape
<1>13. PureSeat'
  <2>1. ASSUME NEW q \in DOMAIN records, Hears(q), Pure(records[q].thread),
               byThread[records[q].thread] = q
        PROVE  Hears(q)'
    <3>1. CASE q = r
      BY <1>3, <1>6, <1>7, <3>1 DEF Hears, OneRecord
    <3>2. CASE q # r
      <4>1. records[q].attached => records[q].sid # records[r].sid
        <5> SUFFICES ASSUME records[q].attached, records[q].sid = records[r].sid PROVE FALSE
          OBVIOUS
        <5>1. records[q].sid # 0
          BY DEF Inv, Fit, Named
        <5>2. records[q].thread = t
          BY <1>2, <5>1 DEF Inv, Owned
        <5> QED BY <1>1, <1>3, <2>1, <3>2, <5>2, StopIs
      <4> QED BY <1>6, <1>9, <2>1, <3>2, <4>1 DEF Hears, OneRecord
    <3> QED BY <3>1, <3>2
  <2> QED BY <1>1, <2>1, SeatKept DEF Inv, Fit, PureInv
<1>14. Pure(t) => PureCall(i)'
  <2> SUFFICES ASSUME Pure(t) PROVE PureCall(i)'
    OBVIOUS
  <2>1. told[t] = records[r].sid /\ told[t] # 0 /\ Named(r)
    BY <1>1, <1>3, StopIs, CallIs
  <2>2. step = "delete" => told[t] \notin daemon'.live
    BY <1>4, <1>9, <2>1 DEF Named
  <2> QED BY <1>1, <1>2, <1>3, <1>4, <1>5, <1>6, <1>7, <2>2 DEF PureCall, IndicesSame, OneRecord
<1> QED BY <1>1, <1>3, <1>5, <1>8, <1>9, <1>10, <1>11, <1>12, <1>13, <1>14, InvKept, SameCounts
     DEF Inv, EndsBuilt

(* A session closes: the lanes that hear it are told. *)
LEMMA ToldTable ==
  ASSUME Shape, NEW s, NEW rs \in Seq(Records), DOMAIN rs = DOMAIN records,
         records' = ToldClosed(s, rs)
  PROVE  /\ records' \in Seq(Records) /\ DOMAIN records' = DOMAIN records
         /\ \A q \in DOMAIN records :
              LET old == rs[q]
                  new == records'[q]
              IN /\ new.thread = old.thread /\ new.name = old.name /\ new.sid = old.sid
                 /\ new.attached = old.attached /\ new.gap = old.gap /\ new.failed = old.failed
                 /\ new.stage = old.stage /\ new.cut = old.cut
                 /\ new.letGo = old.letGo
                 /\ \/ new.lane = old.lane /\ new.dead = old.dead
                       /\ (old.lane = "open" => old.sid # s \/ s \notin daemon.seated)
                    \/ new.lane = "closed" /\ new.dead /\ old.lane = "open" /\ old.sid = s
<1>1. DOMAIN records = 1..Len(records) /\ Len(records) \in Nat
  BY RecordsAre
<1>2. \A q \in DOMAIN records : rs[q] \in Records
  BY ElementOfSeq, LenProperties
<1>3. DOMAIN records' = DOMAIN records
  BY DEF ToldClosed
<1>4. ASSUME NEW q \in DOMAIN records
      PROVE  /\ records'[q] \in Records
             /\ records'[q].thread = rs[q].thread /\ records'[q].name = rs[q].name
             /\ records'[q].sid = rs[q].sid /\ records'[q].attached = rs[q].attached
             /\ records'[q].gap = rs[q].gap /\ records'[q].failed = rs[q].failed
             /\ records'[q].stage = rs[q].stage /\ records'[q].cut = rs[q].cut
             /\ records'[q].letGo = rs[q].letGo
             /\ \/ records'[q].lane = rs[q].lane /\ records'[q].dead = rs[q].dead
                   /\ (rs[q].lane = "open" => rs[q].sid # s \/ s \notin daemon.seated)
                \/ records'[q].lane = "closed" /\ records'[q].dead /\ rs[q].lane = "open"
                   /\ rs[q].sid = s
  <2>1. rs[q] \in Records
    BY <1>2
  <2>2. records'[q] = IF rs[q].lane = "open" /\ rs[q].sid = s /\ s \in daemon.seated
                      THEN [rs[q] EXCEPT !.lane = "closed", !.dead = TRUE] ELSE rs[q]
    BY DEF ToldClosed
  <2> QED BY <2>1, <2>2 DEF Records
<1>5. records' \in [1..Len(records) -> Records]
  BY <1>1, <1>4 DEF ToldClosed
<1>6. records' \in Seq(Records)
  BY <1>1, <1>5, SeqDef
<1> QED BY <1>3, <1>4, <1>6

(* Killed(s), of the daemon. *)
LEMMA KilledDaemon ==
  ASSUME Shape, Minting, NEW s, daemon' = Killed(s)
  PROVE  /\ DaemonQuiet /\ daemon'.live = daemon.live \ {s} /\ daemon'.saved = daemon.saved
         /\ daemon'.wire = daemon.wire /\ daemon'.seated = daemon.seated \ {s}
         /\ s \in daemon.live => s # 0
<1>1. daemon \in Daemons /\ daemon.live \subseteq 1..daemon.minted
      /\ daemon.seated \subseteq daemon.live
  BY DEF Shape, Minting
<1>2. daemon' = [daemon EXCEPT !.live = daemon.live \ {s}, !.seated = daemon.seated \ {s}]
  BY DEF Killed
<1>3. /\ daemon'.live = daemon.live \ {s} /\ daemon'.saved = daemon.saved
      /\ daemon'.wire = daemon.wire /\ daemon'.seated = daemon.seated \ {s}
      /\ daemon'.minted = daemon.minted /\ daemon' \in Daemons
  BY <1>1, <1>2 DEF Daemons
<1>4. s \in daemon.live => s # 0
  BY <1>1 DEF Daemons
<1> QED BY <1>1, <1>3, <1>4 DEF DaemonQuiet

LEMMA SessionClosesKeeps ==
  ASSUME Inv, NEW s \in SessionIds, SessionCloses(s)
  PROVE  Inv'
<1>1. /\ s \in daemon.live /\ Faulty /\ daemon' = Killed(s) /\ records' = ToldClosed(s, records)
      /\ IndicesSame /\ UNCHANGED <<channels, calls, told, gone, mixed>>
  BY DEF SessionCloses, IndicesRest, IndicesSame
<1> HIDE DEF SessionCloses
<1>2. records \in Seq(Records)
  BY DEF Inv, Shape
<1>3. /\ records' \in Seq(Records) /\ DOMAIN records' = DOMAIN records
      /\ \A q \in DOMAIN records :
           LET old == records[q]
               new == records'[q]
           IN /\ new.thread = old.thread /\ new.name = old.name /\ new.sid = old.sid
              /\ new.attached = old.attached /\ new.gap = old.gap /\ new.failed = old.failed
              /\ new.stage = old.stage /\ new.cut = old.cut
              /\ new.letGo = old.letGo
              /\ \/ new.lane = old.lane /\ new.dead = old.dead
                    /\ (old.lane = "open" => old.sid # s \/ s \notin daemon.seated)
                 \/ new.lane = "closed" /\ new.dead /\ old.lane = "open" /\ old.sid = s
  BY <1>1, <1>2, ToldTable DEF Inv
<1>4. /\ DaemonQuiet /\ daemon'.live = daemon.live \ {s} /\ daemon'.saved = daemon.saved
      /\ daemon'.wire = daemon.wire /\ daemon'.seated = daemon.seated \ {s}
      /\ s # 0
  BY <1>1, KilledDaemon DEF Inv
<1>5. TableGrows
  BY <1>1, <1>3 DEF TableGrows, Grown
<1>6. ASSUME NEW q \in DOMAIN records PROVE Named(q)'
  <2>1. Named(q)
    BY DEF Inv, Fit
  <2> QED BY <1>3, <1>4, <2>1 DEF Named
<1>7. PureSeat'
  <2>1. ASSUME NEW q \in DOMAIN records, Hears(q) PROVE Hears(q)'
    BY <1>3, <1>4, <2>1 DEF Hears
  <2> QED BY <1>1, <2>1, SeatKept DEF Inv, Fit, PureInv
<1>8. OpensForBuilders({}) /\ CallsMove({}) /\ channels' \subseteq Threads
  BY <1>1, <1>3, NoneMoves DEF OpensForBuilders, Inv, Shape
<1>9. CountsKept
  BY <1>1, FaultyCounts DEF Inv
<1> QED BY <1>1, <1>4, <1>5, <1>6, <1>7, <1>8, <1>9, InvKept

(* A session that is discarded is killed, and bb knows the thread by it. *)
LEMMA KillsKeeps ==
  ASSUME Inv, NEW i \in Slots, Kills(i)
  PROVE  Inv'
<1> DEFINE r == calls[i].rec
           t == calls[i].thread
           s == records[r].sid
           marked == [records[r] EXCEPT !.dead = TRUE]
           rs == [records EXCEPT ![r] = marked]
<1>1. /\ Live(i) /\ calls[i].at = "kill" /\ s \in daemon.live /\ daemon' = Killed(s)
      /\ records' = ToldClosed(s, rs) /\ Goes(i, "delete")
      /\ IndicesSame /\ UNCHANGED <<channels, told, gone, mixed, counts>>
  BY DEF Kills, Rec, IndicesRest, IndicesSame
<1>2. /\ calls[i] \in Requests /\ Called(i) /\ r \in DOMAIN records /\ records[r] \in Records
      /\ records[r].thread = t
      /\ Pure(t) => PureCall(i)
  BY <1>1, CallIs
<1>3. calls[i].kind = "discard" /\ records[r].letGo
  BY <1>1, <1>2 DEF Called, StepsOf
<1>4. /\ CallsMove({i}) /\ Live(i)' /\ calls'[i].at = "delete" /\ calls'[i].kind = "discard"
      /\ calls'[i].thread = t /\ calls'[i].rec = r
  BY <1>1, <1>3, GoesOn DEF Steps
<1>5. /\ marked \in Records /\ marked.thread = records[r].thread /\ marked.name = records[r].name
      /\ marked.sid = s /\ marked.attached = records[r].attached /\ marked.gap = records[r].gap
      /\ marked.stage = records[r].stage /\ marked.cut = records[r].cut
      /\ marked.lane = records[r].lane /\ marked.dead /\ marked.failed = records[r].failed
      /\ marked.letGo = records[r].letGo
  BY <1>2 DEF Records
<1>6. rs \in Seq(Records) /\ DOMAIN rs = DOMAIN records
      /\ \A q \in DOMAIN records : rs[q] = IF q = r THEN marked ELSE records[q]
  <2>1. records \in Seq(Records) /\ r \in 1..Len(records) /\ DOMAIN records = 1..Len(records)
    BY <1>2, RecordsAre DEF Inv, Shape
  <2> HIDE DEF marked
  <2>2. rs \in Seq(Records) /\ Len(rs) = Len(records)
        /\ \A q \in 1..Len(records) : rs[q] = IF q = r THEN marked ELSE records[q]
    BY <1>5, <2>1, ExceptSeq
  <2> QED BY <2>1, <2>2, LenProperties
<1> HIDE DEF marked, rs
<1>7. /\ records' \in Seq(Records) /\ DOMAIN records' = DOMAIN records
      /\ \A q \in DOMAIN records :
           LET old == rs[q]
               new == records'[q]
           IN /\ new.thread = old.thread /\ new.name = old.name /\ new.sid = old.sid
              /\ new.attached = old.attached /\ new.gap = old.gap /\ new.failed = old.failed
              /\ new.stage = old.stage /\ new.cut = old.cut
              /\ new.letGo = old.letGo
              /\ \/ new.lane = old.lane /\ new.dead = old.dead
                    /\ (old.lane = "open" => old.sid # s \/ s \notin daemon.seated)
                 \/ new.lane = "closed" /\ new.dead /\ old.lane = "open" /\ old.sid = s
  <2>1. Shape /\ records' = ToldClosed(s, rs)
    BY <1>1 DEF Inv
  <2> HIDE DEF r, s, t
  <2> QED BY <1>6, <2>1, ToldTable
<1>8. /\ DaemonQuiet /\ daemon'.live = daemon.live \ {s} /\ daemon'.saved = daemon.saved
      /\ daemon'.wire = daemon.wire /\ daemon'.seated = daemon.seated \ {s}
      /\ s # 0
  BY <1>1, KilledDaemon DEF Inv
<1>9. ASSUME NEW q \in DOMAIN records
      PROVE  /\ records'[q].thread = records[q].thread /\ records'[q].name = records[q].name
             /\ records'[q].sid = records[q].sid
             /\ records'[q].attached = records[q].attached
             /\ records'[q].gap = records[q].gap /\ records'[q].failed = records[q].failed
             /\ records'[q].stage = records[q].stage /\ records'[q].cut = records[q].cut
             /\ records'[q].letGo = records[q].letGo
             /\ \/ records'[q].lane = records[q].lane
                \/ records'[q].lane = "closed" /\ records'[q].dead /\ records[q].lane = "open"
             /\ records'[q].dead => records[q].dead \/ records[q].sid = s
             /\ records[q].dead => records'[q].dead
  <2> DEFINE old == rs[q]
             new == records'[q]
  <2>1. /\ new.thread = old.thread /\ new.name = old.name /\ new.sid = old.sid
        /\ new.attached = old.attached /\ new.gap = old.gap /\ new.failed = old.failed
        /\ new.stage = old.stage /\ new.cut = old.cut
        /\ new.letGo = old.letGo
        /\ \/ new.lane = old.lane /\ new.dead = old.dead
           \/ new.lane = "closed" /\ new.dead /\ old.lane = "open" /\ old.sid = s
    BY <1>7
  <2>2. CASE q = r
    <3>1. old = marked
      BY <1>6, <2>2
    <3> HIDE DEF new, old
    <3>2. /\ new.thread = records[q].thread /\ new.name = records[q].name
          /\ new.sid = records[q].sid /\ records[q].sid = s
          /\ new.attached = records[q].attached
          /\ new.gap = records[q].gap /\ new.failed = records[q].failed
          /\ new.stage = records[q].stage /\ new.cut = records[q].cut
          /\ new.letGo = records[q].letGo
      BY <1>5, <2>1, <2>2, <3>1
    <3>3. /\ new.dead
          /\ new.lane = records[q].lane \/ (new.lane = "closed" /\ new.dead /\ records[q].lane = "open")
      BY <1>5, <2>1, <2>2, <3>1
    <3> QED BY <3>2, <3>3 DEF new
  <2>3. CASE q # r
    <3>1. old = records[q]
      BY <1>6, <2>3
    <3> HIDE DEF new, old
    <3>2. /\ new.thread = records[q].thread /\ new.name = records[q].name
          /\ new.sid = records[q].sid /\ new.attached = records[q].attached
          /\ new.gap = records[q].gap /\ new.failed = records[q].failed
          /\ new.stage = records[q].stage /\ new.cut = records[q].cut
          /\ new.letGo = records[q].letGo
          /\ \/ new.lane = records[q].lane /\ new.dead = records[q].dead
             \/ /\ new.lane = "closed" /\ new.dead /\ records[q].lane = "open"
                /\ records[q].sid = s
      BY <2>1, <3>1
    <3> QED BY <3>2 DEF new
  <2> QED BY <2>2, <2>3
<1>10. TableGrows
  BY <1>1, <1>7, <1>9 DEF TableGrows, Grown
<1>11. ASSUME NEW q \in DOMAIN records PROVE Named(q)'
  <2>1. Named(q)
    BY DEF Inv, Fit
  <2>2. /\ s # 0 /\ s \notin daemon'.live
        /\ records[q].sid \notin daemon.live => records[q].sid \notin daemon'.live
    BY <1>8
  <2> HIDE DEF r, s, t
  <2>3. /\ records'[q].name # records'[q].thread =>
             /\ records'[q].name = records'[q].sid /\ records'[q].sid # 0
             /\ records'[q].lane # "none"
        /\ records'[q].attached => records'[q].sid # 0 /\ records'[q].lane # "none"
    BY <1>9, <2>1 DEF Named
  <2>4. records'[q].dead => records'[q].sid # 0 /\ records'[q].sid \notin daemon'.live
    BY <1>9, <2>1, <2>2 DEF Named
  <2>5. records'[q].lane = "closed" => records'[q].dead \/ records'[q].letGo \/ records'[q].cut
    <3>1. CASE records'[q].dead
      BY <3>1
    <3>2. CASE ~records'[q].dead
      <4>1. records'[q].lane = records[q].lane /\ records'[q].letGo = records[q].letGo
            /\ records'[q].cut = records[q].cut
        BY <1>9, <3>2
      <4> QED BY <1>9, <2>1, <3>2, <4>1 DEF Named
    <3> QED BY <3>1, <3>2
  <2> QED BY <2>3, <2>4, <2>5 DEF Named
<1>12. PureSeat'
  <2>1. ASSUME NEW q \in DOMAIN records, Hears(q) PROVE Hears(q)'
    BY <1>8, <1>9, <2>1 DEF Hears
  <2> QED BY <1>1, <2>1, SeatKept DEF Inv, Fit, PureInv
<1>13. OpensForBuilders({i}) /\ channels' \subseteq Threads
  BY <1>1, <1>9 DEF OpensForBuilders, Inv, Shape
<1>14. Called(i)' /\ ~MakesSession(i)'
  <2>1. records'[r].thread = t /\ records'[r].letGo /\ r \in DOMAIN records'
    BY <1>2, <1>3, <1>7, <1>9
  <2> HIDE DEF r, t, s
  <2> QED BY <1>1, <1>2, <1>3, <1>4, <2>1 DEF Called, StepsOf, HasAttached, MakesSession
<1>15. Pure(t) => PureCall(i)'
  <2> SUFFICES ASSUME Pure(t) PROVE PureCall(i)'
    OBVIOUS
  <2>1. told[t] = s
    BY <1>1, <1>3, StopIs
  <2>2. told'[t] \notin daemon'.live
    BY <1>1, <1>8, <2>1
  <2>3. records[r].lane # "open" /\ t \notin channels /\ byThread[t] = r
    BY <1>1, <1>2, <1>3 DEF PureCall
  <2>4. records'[r].lane # "open"
    BY <1>2, <1>9, <2>3
  <2> HIDE DEF r, t, s
  <2> QED BY <1>1, <1>3, <1>4, <2>2, <2>3, <2>4 DEF PureCall, IndicesSame
<1> QED BY <1>1, <1>4, <1>8, <1>10, <1>11, <1>12, <1>13, <1>14, <1>15, InvKept, SameCounts
     DEF Inv, EndsBuilt

(* The transcript is deleted after the session was killed, or died. *)
LEMMA DeletesKeeps ==
  ASSUME Inv, NEW i \in Slots, Deletes(i)
  PROVE  Inv'
<1> DEFINE r == calls[i].rec
           t == calls[i].thread
           s == records[r].sid
<1>1. /\ Live(i) /\ calls[i].at = "delete" /\ daemon' = [daemon EXCEPT !.saved = @ \ {s}]
      /\ UNCHANGED <<table, channels, told, gone, mixed, counts>>
  BY DEF Deletes, Rec
<1>2. /\ calls[i] \in Requests /\ Called(i) /\ r \in DOMAIN records
      /\ Pure(t) => PureCall(i)
  BY <1>1, CallIs
<1>3. calls[i].kind = "discard" /\ ~Builds(i)
  BY <1>1, <1>2 DEF Called, StepsOf, Builds
<1>4. /\ DaemonQuiet /\ daemon'.live = daemon.live /\ daemon'.saved = daemon.saved \ {s}
      /\ daemon'.wire = daemon.wire /\ daemon'.seated = daemon.seated
  <2>1. daemon \in Daemons /\ daemon.seated \subseteq daemon.live
    BY DEF Inv, Shape, Minting
  <2>2. daemon' = [daemon EXCEPT !.saved = daemon.saved \ {s}]
    BY <1>1
  <2>3. /\ daemon'.live = daemon.live /\ daemon'.saved = daemon.saved \ {s}
        /\ daemon'.wire = daemon.wire /\ daemon'.seated = daemon.seated
        /\ daemon'.minted = daemon.minted /\ daemon' \in Daemons
    BY <2>1, <2>2 DEF Daemons
  <2> QED BY <2>1, <2>3 DEF DaemonQuiet
<1>5. CASE calls[i].bad /\ Ends(i)
  <2>1. CallsMove({i}) /\ ~Live(i)' /\ ~MakesSession(i)'
    BY <1>1, <1>5, EndsOn
  <2> QED BY <1>1, <1>3, <1>4, <2>1, QuietCall, SameCounts DEF EndsBuilt, Inv, Shape
<1>6. CASE ~calls[i].bad /\ Goes(i, "closed")
  <2>1. /\ CallsMove({i}) /\ Live(i)' /\ calls'[i].at = "closed" /\ calls'[i].kind = "discard"
        /\ calls'[i].thread = t /\ calls'[i].rec = r
    BY <1>1, <1>3, <1>6, GoesOn DEF Steps
  <2>2. Called(i)' /\ ~MakesSession(i)'
    BY <1>1, <1>2, <1>3, <2>1 DEF Called, StepsOf, HasAttached, MakesSession, table
  <2>3. Pure(t) => PureCall(i)'
    <3> SUFFICES ASSUME Pure(t) PROVE PureCall(i)'
      OBVIOUS
    <3>1. told[t] = s
      BY <1>1, <1>3, StopIs
    <3>2. told'[t] \notin daemon'.saved /\ told'[t] = told[t]
      BY <1>1, <1>4, <3>1
    <3> QED BY <1>1, <1>2, <1>3, <1>4, <1>6, <2>1, <3>2 DEF PureCall, table
  <2> QED BY <1>1, <1>3, <1>4, <2>1, <2>2, <2>3, QuietCall, SameCounts DEF EndsBuilt, Inv, Shape
<1> QED BY <1>5, <1>6 DEF Deletes

(* destroy goes on to the transcript after a kill that failed, and gives up  *)
(* after a delete that did.                                                  *)
LEMMA DestroyFailsKeeps ==
  ASSUME Inv, NEW i \in Slots, Fails(i), DestroyFails(i), calls[i].at \in {"kill", "delete"}
  PROVE  Inv'
<1> DEFINE r == calls[i].rec
           t == calls[i].thread
           s == records[r].sid
<1>1. /\ Live(i) /\ UNCHANGED <<table, channels, told, gone, mixed>>
      /\ UNCHANGED counts \/ Faulty
      /\ \/ daemon' = daemon
         \/ calls[i].at = "kill" /\ daemon' = Killed(s)
         \/ calls[i].at = "delete" /\ daemon' = [daemon EXCEPT !.saved = @ \ {s}]
  BY DEF Fails, DestroyFails, CarriedOut, Rec
<1>2. /\ calls[i] \in Requests /\ Called(i) /\ r \in DOMAIN records
      /\ Pure(t) => PureCall(i)
  BY <1>1, CallIs
<1>3. calls[i].kind = "discard" /\ ~Builds(i)
  BY <1>2 DEF Called, StepsOf, Builds
<1>4. CountsKept
  BY <1>1, FaultyCounts, SameCounts DEF Inv
<1>5. /\ DaemonQuiet /\ daemon'.wire = daemon.wire
      /\ \A x \in daemon'.live \cap daemon.seated : x \in daemon'.seated
  <2>1. daemon \in Daemons /\ daemon.seated \subseteq daemon.live /\ Shape /\ Minting
    BY DEF Inv, Shape, Minting
  <2>2. CASE daemon' = daemon
    BY <2>1, <2>2, SameDaemon DEF DaemonQuiet
  <2>3. CASE daemon' = Killed(s)
    BY <2>1, <2>3, KilledDaemon
  <2>4. CASE daemon' = [daemon EXCEPT !.saved = @ \ {s}]
    <3>1. daemon' = [daemon EXCEPT !.saved = daemon.saved \ {s}]
      BY <2>4
    <3>2. /\ daemon'.live = daemon.live /\ daemon'.saved = daemon.saved \ {s}
          /\ daemon'.wire = daemon.wire /\ daemon'.seated = daemon.seated
          /\ daemon'.minted = daemon.minted /\ daemon' \in Daemons
      BY <2>1, <3>1 DEF Daemons
    <3> QED BY <2>1, <3>2 DEF DaemonQuiet
  <2> QED BY <1>1, <2>2, <2>3, <2>4
<1>6. CASE calls[i].at = "delete"
  <2>1. Ends(i)
    BY <1>6 DEF DestroyFails
  <2>2. CallsMove({i}) /\ ~Live(i)' /\ ~MakesSession(i)'
    BY <1>1, <2>1, EndsOn
  <2> QED BY <1>1, <1>3, <1>4, <1>5, <2>2, QuietCall DEF EndsBuilt, Inv, Shape
<1>7. CASE calls[i].at = "kill"
  <2> DEFINE c == [calls[i] EXCEPT !.at = "delete", !.bad = TRUE]
  <2>1. calls' = [calls EXCEPT ![i] = c]
    BY <1>7 DEF DestroyFails
  <2>2. c \in Requests /\ c.at = "delete" /\ c.bad /\ c.kind = "discard" /\ c.thread = t /\ c.rec = r
        /\ c.adopted = calls[i].adopted
    BY <1>2, <1>3 DEF Requests, Steps
  <2> HIDE DEF c, r, t, s
  <2>3. OneCall(i, c)
    BY <2>1, <2>2, CallSet DEF Inv
  <2>4. Moves(i, c)
    BY <1>3, <2>2 DEF Moves, r, t
  <2>5. CallsMove({i}) /\ calls'[i] = c
    BY <1>1, <2>3, <2>4, OneMoves DEF OneCall
  <2>6. Live(i)' /\ ~MakesSession(i)'
    BY <2>2, <2>5 DEF Live, MakesSession
  <2>7. Called(i)'
    BY <1>1, <1>2, <1>3, <2>2, <2>5, <2>6 DEF Called, StepsOf, HasAttached, table, r, t
  <2>8. Pure(t) => PureCall(i)'
    BY <1>1, <1>2, <1>3, <1>7, <2>2, <2>5 DEF PureCall, table, r, t
  <2>9. ~EndsBuilt(i) => FALSE
    BY <1>3 DEF EndsBuilt
  <2> QED BY <1>1, <1>4, <1>5, <2>5, <2>6, <2>7, <2>8, <2>9, QuietCall DEF Inv, Shape, t
<1> QED BY <1>6, <1>7

(* Every lane hears of the wire: what a record stands for stays. *)
LEMMA LanesKeep ==
  ASSUME Inv, IndicesSame, UNCHANGED <<channels, calls, told, gone, mixed>>, CountsKept,
         DaemonQuiet, daemon'.live = daemon.live,
         records' = [q \in DOMAIN records |-> records'[q]],
         \A q \in DOMAIN records :
           /\ records'[q] \in Records
           /\ records'[q].thread = records[q].thread /\ records'[q].name = records[q].name
           /\ records'[q].sid = records[q].sid /\ records'[q].attached = records[q].attached
           /\ records'[q].lane = records[q].lane /\ records'[q].dead = records[q].dead
           /\ records'[q].failed = records[q].failed /\ records'[q].letGo = records[q].letGo
           /\ records[q].cut => records'[q].cut
           /\ Hears(q) => Hears(q)'
  PROVE  Inv'
<1>1. DOMAIN records = 1..Len(records) /\ Len(records) \in Nat
  BY RecordsAre DEF Inv
<1>2. DOMAIN records' = DOMAIN records
  OBVIOUS
<1>3. records' \in Seq(Records)
  <2>1. records' \in [1..Len(records) -> Records]
    BY <1>1, <1>2
  <2> QED BY <1>1, <2>1, SeqDef
<1>4. TableGrows
  BY <1>2, <1>3 DEF TableGrows, Grown
<1>5. ASSUME NEW q \in DOMAIN records PROVE Named(q)'
  <2>1. Named(q)
    BY DEF Inv, Fit
  <2> QED BY <1>2, <2>1 DEF Named
<1>6. PureSeat'
  BY SeatKept DEF Inv, Fit, PureInv
<1>7. OpensForBuilders({}) /\ CallsMove({}) /\ channels' \subseteq Threads
  BY <1>2, NoneMoves DEF OpensForBuilders, Inv, Shape
<1> QED BY <1>4, <1>5, <1>6, <1>7, InvKept

(* A lane that hears of the loss waits, and the lanes that wait hear nothing; *)
(* one that reads the queue takes the gap for settled, and is marked.         *)
LEMMA LostKeeps ==
  ASSUME Inv, Lost
  PROVE  Inv'
<1> DEFINE Changed(q) ==
      IF records[q].lane # "open" \/ records[q].sid = 0 THEN records[q]
      ELSE IF records[q].stage = "reads" THEN Overtaken(records[q]) ELSE HearsLoss(records[q])
<1>1. /\ Faulty /\ IndicesSame /\ UNCHANGED <<channels, calls, told, gone, mixed>>
      /\ daemon' = [daemon EXCEPT !.wire = "down", !.seated = {}]
      /\ records' = [q \in DOMAIN records |-> Changed(q)]
  BY DEF Lost, IndicesRest, IndicesSame
<1> HIDE DEF Lost
<1>2. DaemonQuiet /\ daemon'.live = daemon.live
  BY <1>1 DEF DaemonQuiet, Inv, Shape, Daemons
<1>3. ASSUME NEW q \in DOMAIN records
      PROVE  /\ Changed(q) \in Records
             /\ Changed(q).thread = records[q].thread /\ Changed(q).name = records[q].name
             /\ Changed(q).sid = records[q].sid /\ Changed(q).attached = records[q].attached
             /\ Changed(q).lane = records[q].lane /\ Changed(q).dead = records[q].dead
             /\ Changed(q).failed = records[q].failed /\ Changed(q).letGo = records[q].letGo
             /\ records[q].cut => Changed(q).cut
             /\ records[q].lane = "open" /\ records[q].sid # 0 =>
                  Changed(q).cut \/ (Changed(q).gap /\ Changed(q).stage = "rest")
  <2>1. records[q] \in Records
    BY RecordsAre DEF Inv
  <2>2. CASE records[q].lane # "open" \/ records[q].sid = 0
    <3>1. Changed(q) = records[q]
      BY <2>2
    <3> HIDE DEF Changed
    <3> QED BY <2>1, <2>2, <3>1
  <2>3. CASE Changed(q) = Overtaken(records[q])
    <3> HIDE DEF Changed
    <3> QED BY <2>1, <2>3 DEF Overtaken, Records
  <2>4. CASE Changed(q) = HearsLoss(records[q])
    <3> HIDE DEF Changed
    <3> QED BY <2>1, <2>4 DEF HearsLoss, Waiting, Records
  <2> QED BY <2>2, <2>3, <2>4
<1>4. ASSUME NEW q \in DOMAIN records PROVE Hears(q)'
  <2>1. Named(q) /\ records'[q] = Changed(q)
    BY <1>1 DEF Inv, Fit
  <2> HIDE DEF Changed
  <2> QED BY <1>3, <2>1 DEF Hears, Named
<1>5. CountsKept
  BY <1>1, FaultyCounts DEF Inv
<1>6. \A q \in DOMAIN records : records'[q] = Changed(q)
  BY <1>1
<1> HIDE DEF Changed
<1>7. records' = [q \in DOMAIN records |-> records'[q]]
  BY <1>1
<1> QED BY <1>1, <1>2, <1>3, <1>4, <1>5, <1>6, <1>7, LanesKeep

LEMMA RestoredKeeps ==
  ASSUME Inv, Restored
  PROVE  Inv'
<1> DEFINE Changed(q) ==
      IF records[q].lane = "open" /\ records[q].sid # 0
      THEN [records[q] EXCEPT !.stage = "due"] ELSE records[q]
<1>1. /\ IndicesSame /\ UNCHANGED <<channels, calls, told, gone, mixed, counts>>
      /\ daemon.wire = "down" /\ daemon' = [daemon EXCEPT !.wire = "up"]
      /\ records' = [q \in DOMAIN records |-> Changed(q)]
  BY DEF Restored, IndicesRest, IndicesSame
<1> HIDE DEF Restored
<1>2. DaemonQuiet /\ daemon'.live = daemon.live
  BY <1>1 DEF DaemonQuiet, Inv, Shape, Minting, Daemons
<1>3. ASSUME NEW q \in DOMAIN records
      PROVE  /\ Changed(q) \in Records
             /\ Changed(q).thread = records[q].thread /\ Changed(q).name = records[q].name
             /\ Changed(q).sid = records[q].sid /\ Changed(q).attached = records[q].attached
             /\ Changed(q).lane = records[q].lane /\ Changed(q).dead = records[q].dead
             /\ Changed(q).failed = records[q].failed /\ Changed(q).letGo = records[q].letGo
             /\ Changed(q).cut = records[q].cut /\ Changed(q).gap = records[q].gap
             /\ Changed(q).stage = "reads" => records[q].stage = "reads"
  <2>1. records[q] \in Records
    BY RecordsAre DEF Inv
  <2> QED BY <2>1 DEF Records
<1>4. ASSUME NEW q \in DOMAIN records, Hears(q) PROVE Hears(q)'
  <2>1. records'[q] = Changed(q)
    BY <1>1
  <2> HIDE DEF Changed
  <2> QED BY <1>1, <1>2, <1>3, <1>4, <2>1 DEF Hears
<1>5. CountsKept
  BY <1>1, SameCounts DEF Inv
<1>6. \A q \in DOMAIN records : records'[q] = Changed(q)
  BY <1>1
<1> HIDE DEF Changed
<1>7. records' = [q \in DOMAIN records |-> records'[q]]
  BY <1>1
<1> QED BY <1>1, <1>2, <1>3, <1>4, <1>5, <1>6, <1>7, LanesKeep

(* One lane moves on by itself. *)
LEMMA LaneKeeps ==
  ASSUME Inv, NEW r \in DOMAIN records, NEW new \in Records,
         records' = [records EXCEPT ![r] = new],
         IndicesSame, UNCHANGED <<channels, calls, told, gone, mixed>>, CountsKept,
         DaemonQuiet, daemon'.live = daemon.live,
         new.thread = records[r].thread, new.name = records[r].name, new.sid = records[r].sid,
         new.dead = records[r].dead, new.failed = records[r].failed,
         new.letGo = records[r].letGo,
         records[r].attached => new.attached, new.attached => records[r].sid # 0,
         records[r].lane = "open", new.lane = "open" \/ (new.lane = "closed" /\ new.cut),
         daemon.seated \subseteq daemon'.seated, daemon'.wire = daemon.wire,
         Hears(r) => Hears(r)'
  PROVE  Inv'
<1>1. OneRecord(r, new)
  BY RecordSet DEF Inv
<1>2. TableGrows
  BY <1>1, OneGrows DEF Inv
<1>3. ASSUME NEW q \in DOMAIN records PROVE Named(q)'
  <2>1. Named(q) /\ Named(r)
    BY DEF Inv, Fit
  <2>2. CASE q = r
    BY <1>1, <2>1, <2>2 DEF Named, OneRecord
  <2>3. CASE q # r
    BY <1>1, <2>1, <2>3 DEF Named, OneRecord
  <2> QED BY <2>2, <2>3
<1>4. PureSeat'
  <2>1. ASSUME NEW q \in DOMAIN records, Hears(q), q # r PROVE Hears(q)'
    BY <1>1, <2>1 DEF Hears, OneRecord
  <2> QED BY <2>1, SeatKept DEF Inv, Fit, PureInv
<1>5. OpensForBuilders({}) /\ CallsMove({}) /\ channels' \subseteq Threads
  BY <1>1, NoneMoves DEF OpensForBuilders, OneRecord, Inv, Shape
<1> QED BY <1>2, <1>3, <1>4, <1>5, InvKept

LEMMA SeatedDaemon ==
  ASSUME Inv, NEW s \in daemon.live, daemon' = Seat(s)
  PROVE  /\ DaemonQuiet /\ daemon'.live = daemon.live /\ daemon'.saved = daemon.saved
         /\ daemon'.wire = daemon.wire /\ daemon'.seated = daemon.seated \cup {s}
         /\ s \in SessionIds /\ s # 0
<1>1. daemon \in Daemons /\ daemon.seated \subseteq daemon.live /\ s \in SessionIds
  BY DEF Inv, Shape, Minting, Daemons
<1>2. daemon' = [daemon EXCEPT !.seated = daemon.seated \cup {s}]
  BY DEF Seat
<1>3. /\ daemon'.live = daemon.live /\ daemon'.saved = daemon.saved
      /\ daemon'.wire = daemon.wire /\ daemon'.seated = daemon.seated \cup {s}
      /\ daemon'.minted = daemon.minted /\ daemon' \in Daemons
  BY <1>1, <1>2 DEF Daemons
<1>4. s # 0
  BY <1>1, BridgeAssumption DEF SessionIds
<1> QED BY <1>1, <1>3, <1>4 DEF DaemonQuiet

(* A lane that attaches again is seated again, before it reads the queue. *)
LEMMA LaneAttachesKeeps ==
  ASSUME Inv, NEW r \in DOMAIN records, LaneAttaches(r)
  PROVE  Inv'
<1> DEFINE s == records[r].sid
           new == [records[r] EXCEPT !.attached = TRUE, !.stage = "reads", !.cut = FALSE]
<1>1. /\ daemon.wire = "up" /\ records[r].lane = "open" /\ s \in daemon.live
      /\ daemon' = Seat(s) /\ records' = [records EXCEPT ![r] = new]
      /\ IndicesSame /\ UNCHANGED <<channels, calls, told, gone, mixed, counts>>
  BY DEF LaneAttaches, MayAttach, SetRec, IndicesRest, IndicesSame
<1>2. records[r] \in Records
  BY RecordsAre DEF Inv
<1>3. /\ new \in Records
      /\ new.thread = records[r].thread /\ new.name = records[r].name /\ new.sid = s
      /\ new.attached /\ new.lane = "open" /\ new.dead = records[r].dead
      /\ new.failed = records[r].failed /\ new.letGo = records[r].letGo
  BY <1>1, <1>2 DEF Records
<1> HIDE DEF new
<1>4. /\ DaemonQuiet /\ daemon'.live = daemon.live /\ daemon'.wire = daemon.wire
      /\ daemon'.seated = daemon.seated \cup {s} /\ s # 0
  BY <1>1, SeatedDaemon
<1>5. records'[r] = new
  BY <1>1
<1>6. Hears(r)'
  BY <1>1, <1>3, <1>4, <1>5 DEF Hears
<1>7. CountsKept
  BY <1>1, SameCounts DEF Inv
<1> QED BY <1>1, <1>3, <1>4, <1>6, <1>7, LaneKeeps

LEMMA AttachRefusedKeeps ==
  ASSUME Inv, NEW r \in DOMAIN records, AttachRefused(r)
  PROVE  Inv'
<1> DEFINE s == records[r].sid
           new == [records[r] EXCEPT !.stage = "rest"]
<1>1. /\ records[r].lane = "open" /\ records' = [records EXCEPT ![r] = new]
      /\ IndicesSame /\ UNCHANGED <<channels, calls, told, gone, mixed>>
  BY DEF AttachRefused, MayAttach, SetRec, IndicesRest, IndicesSame
<1>2. records[r] \in Records /\ Named(r)
  BY RecordsAre DEF Inv, Fit
<1>3. /\ new \in Records
      /\ new.thread = records[r].thread /\ new.name = records[r].name /\ new.sid = s
      /\ new.attached = records[r].attached /\ new.lane = "open"
      /\ new.dead = records[r].dead /\ new.gap = records[r].gap /\ new.cut = records[r].cut
      /\ new.failed = records[r].failed /\ new.letGo = records[r].letGo
      /\ new.stage = "rest"
  BY <1>1, <1>2 DEF Records
<1> HIDE DEF new
<1>4. /\ DaemonQuiet /\ daemon'.live = daemon.live /\ daemon'.wire = daemon.wire
      /\ daemon.seated \subseteq daemon'.seated
  <2>1. CASE daemon' = daemon
    BY <2>1, SameDaemon DEF Inv
  <2>2. CASE s \in daemon.live /\ daemon' = Seat(s)
    BY <2>2, SeatedDaemon
  <2> QED BY <2>1, <2>2 DEF AttachRefused
<1>5. records'[r] = new
  BY <1>1
<1>6. Hears(r) => Hears(r)'
  BY <1>1, <1>3, <1>4, <1>5 DEF Hears
<1>7. CountsKept
  BY SameCounts, FaultyCounts DEF AttachRefused, Inv
<1>8. new.attached => records[r].sid # 0
  BY <1>2, <1>3 DEF Named
<1> QED BY <1>1, <1>3, <1>4, <1>6, <1>7, <1>8, LaneKeeps

(* The gap of a lane that attached again is settled: the lane is seated. *)
LEMMA LaneSettlesKeeps ==
  ASSUME Inv, NEW r \in DOMAIN records, LaneSettles(r)
  PROVE  Inv'
<1> DEFINE new == [records[r] EXCEPT !.gap = FALSE, !.down = FALSE, !.stage = "rest"]
<1>1. /\ records[r].stage = "reads" /\ records' = [records EXCEPT ![r] = new]
      /\ IndicesSame /\ UNCHANGED <<channels, calls, daemon, told, gone, mixed, counts>>
  BY DEF LaneSettles, SetRec, IndicesRest, IndicesSame
<1>2. records[r] \in Records /\ Named(r)
  BY RecordsAre DEF Inv, Fit
<1>3. /\ new \in Records
      /\ new.thread = records[r].thread /\ new.name = records[r].name
      /\ new.sid = records[r].sid /\ new.attached = records[r].attached
      /\ new.lane = records[r].lane /\ new.dead = records[r].dead /\ new.cut = records[r].cut
      /\ new.failed = records[r].failed /\ new.letGo = records[r].letGo
  BY <1>2 DEF Records
<1> HIDE DEF new
<1>4. OneRecord(r, new)
  BY <1>1, <1>3, RecordSet DEF Inv
<1>5. TableGrows
  BY <1>1, <1>3, <1>4, OneGrows DEF Inv
<1>6. \A q \in DOMAIN records : Named(q)'
  BY <1>1, <1>3, <1>4 DEF Inv, Fit, Named, OneRecord
<1>7. PureSeat'
  <2>1. ASSUME NEW q \in DOMAIN records, Hears(q) PROVE Hears(q)'
    BY <1>1, <1>3, <1>4, <2>1 DEF Hears, OneRecord
  <2> QED BY <1>1, <2>1, SeatKept DEF Inv, Fit, PureInv
<1>8. OpensForBuilders({}) /\ CallsMove({}) /\ channels' \subseteq Threads
  BY <1>1, <1>3, <1>4, NoneMoves DEF OpensForBuilders, OneRecord, Inv, Shape
<1> QED BY <1>1, <1>5, <1>6, <1>7, <1>8, InvKept, SameDaemon, SameCounts DEF Inv

(* A lane that cannot attach to a replacement closes. *)
LEMMA ReplacementFailsKeeps ==
  ASSUME Inv, NEW r \in DOMAIN records, ReplacementFails(r)
  PROVE  Inv'
<1> DEFINE new == [records[r] EXCEPT !.lane = "closed", !.cut = TRUE]
<1>1. /\ records[r].lane = "open" /\ records[r].attached
      /\ records' = [records EXCEPT ![r] = new]
      /\ IndicesSame /\ UNCHANGED <<channels, calls, daemon, told, gone, mixed>>
  BY DEF ReplacementFails, SetRec, IndicesRest, IndicesSame
<1>2. records[r] \in Records /\ Named(r)
  BY RecordsAre DEF Inv, Fit
<1>3. /\ new \in Records
      /\ new.thread = records[r].thread /\ new.name = records[r].name
      /\ new.sid = records[r].sid /\ new.attached = records[r].attached
      /\ new.lane = "closed" /\ new.cut /\ new.dead = records[r].dead
      /\ new.failed = records[r].failed /\ new.letGo = records[r].letGo
  BY <1>2 DEF Records
<1> HIDE DEF new
<1>4. CountsKept
  BY FaultyCounts DEF ReplacementFails, Inv
<1>5. DaemonQuiet /\ daemon' = daemon
  BY <1>1, SameDaemon DEF Inv
<1>6. records'[r] = new
  BY <1>1
<1>7. Hears(r)'
  BY <1>3, <1>6 DEF Hears
<1>8. new.attached => records[r].sid # 0
  BY <1>1, <1>2 DEF Named
<1> QED BY <1>1, <1>3, <1>4, <1>5, <1>7, <1>8, LaneKeeps

(* A stop of a thread the table does not know only counts. *)
LEMMA AskUnknownKeeps ==
  ASSUME Inv, NEW t \in Threads, AskUnknown(t)
  PROVE  Inv'
<1>1. /\ UNCHANGED <<records, byThread, byProvider, channels, calls, daemon, told, gone, mixed>>
      /\ counts.requests < MaxRequests /\ counts' = [counts EXCEPT !.requests = @ + 1]
  BY DEF AskUnknown, table
<1>2. /\ counts' \in [requests : Nat, faults : Nat]
      /\ counts'.requests = counts.requests + 1 /\ counts'.requests <= MaxRequests
      /\ counts.requests \in Nat
  <2>1. counts \in [requests : Nat, faults : Nat]
    BY DEF Inv, Shape
  <2>2. counts' = [counts EXCEPT !.requests = counts.requests + 1]
    BY <1>1
  <2> QED BY <1>1, <2>1, <2>2, BridgeAssumption
<1>3. Shape'
  BY <1>1, <1>2 DEF Inv, Shape
<1>4. Minting'
  <2>1. Makers' = Makers
    BY <1>1 DEF Makers, MakesSession, Live
  <2>2. IsFiniteSet(Slots) /\ Makers \subseteq Slots
    BY FS_Interval, BridgeAssumption DEF Makers, Slots
  <2>3. Cardinality(Makers) \in Nat
    BY <2>2, FS_Subset, FS_CardinalityType
  <2>4. daemon.minted \in Nat
    BY DEF Inv, Shape, Daemons
  <2>5. daemon'.minted + Cardinality(Makers)' <= counts'.requests
    BY <1>1, <1>2, <2>1, <2>3, <2>4 DEF Inv, Minting
  <2> QED BY <1>1, <1>2, <2>1, <2>5 DEF Inv, Minting
<1>5. Owned'
  BY <1>1 DEF Inv, Owned
<1>6. Fit'
  BY <1>1 DEF Inv, Fit, Named, Indexed, OneBuilder, Builds, Live, Called, MakesSession
<1>7. (PureIndex /\ PureLane /\ PureWorker /\ PureTurn /\ PureChannel)'
  BY <1>1 DEF Inv, PureInv, PureIndex, PureLane, PureWorker, PureTurn, PureChannel, Pure,
              Constructing, Works, Live
<1>8. (PureGone /\ PureSeat /\ PureCalls)'
  BY <1>1 DEF Inv, PureInv, PureGone, PureSeat, PureCalls, PureCall, Hears, Pure, Works, Live
<1> QED BY <1>3, <1>4, <1>5, <1>6, <1>7, <1>8 DEF Inv, PureInv

-----------------------------------------------------------------------------
(* A request that is made. *)

(* No other request works on thread t. *)
Alone(i, t) == \A j \in Slots : j # i /\ Works(j) => calls[j].thread # t

(* bb asks for thread t in slot i, which was free. *)
LEMMA AsksIs ==
  ASSUME Inv, NEW i \in Slots, NEW kind \in Kinds, NEW t \in Threads, NEW rec \in Nat,
         NEW step \in Steps, NEW adopted \in BOOLEAN, Asks(i, kind, t, rec, step, adopted)
  PROVE  /\ calls' \in [Slots -> Requests \cup {Idle}]
         /\ Live(i)' /\ ~Live(i) /\ calls'[i] \in Requests
         /\ calls'[i].kind = kind /\ calls'[i].thread = t /\ calls'[i].rec = rec
         /\ calls'[i].at = step /\ calls'[i].adopted = adopted /\ ~calls'[i].bad
         /\ \A j \in Slots : j # i => calls'[j] = calls[j]
         /\ counts' \in [requests : Nat, faults : Nat]
         /\ counts'.requests = counts.requests + 1 /\ counts'.requests <= MaxRequests
         /\ mixed \subseteq mixed' /\ mixed' \subseteq Threads /\ t \notin gone
         /\ mixed' \subseteq mixed \cup {t}
         /\ kind = "turn" => mixed' = mixed
         /\ t \notin mixed' /\ kind # "turn" => Alone(i, t)
         /\ UNCHANGED <<daemon, told, gone>>
<1> DEFINE c == [kind |-> kind, thread |-> t, rec |-> rec, at |-> step, adopted |-> adopted,
                 bad |-> FALSE]
<1>1. /\ t \notin gone /\ ~Live(i) /\ counts.requests < MaxRequests
      /\ calls' = [calls EXCEPT ![i] = c]
      /\ UNCHANGED <<daemon, told, gone>>
      /\ counts' = [counts EXCEPT !.requests = @ + 1]
  BY DEF Asks
<1>2. /\ c \in Requests /\ c.kind = kind /\ c.thread = t /\ c.rec = rec /\ c.at = step
      /\ c.adopted = adopted /\ ~c.bad
  BY DEF Requests
<1> HIDE DEF c
<1>3. /\ calls' \in [Slots -> Requests \cup {Idle}] /\ calls'[i] = c
      /\ \A j \in Slots : j # i => calls'[j] = calls[j]
  BY <1>1, <1>2 DEF Inv, Shape
<1>4. Live(i)'
  BY <1>2, <1>3 DEF Live, Kinds
<1>5. /\ counts' \in [requests : Nat, faults : Nat]
      /\ counts'.requests = counts.requests + 1 /\ counts'.requests <= MaxRequests
  <2>1. counts \in [requests : Nat, faults : Nat]
    BY DEF Inv, Shape
  <2>2. counts' = [counts EXCEPT !.requests = counts.requests + 1]
    BY <1>1
  <2>3. counts' \in [requests : Nat, faults : Nat] /\ counts'.requests = counts.requests + 1
    BY <2>1, <2>2
  <2> QED BY <1>1, <2>1, <2>3, BridgeAssumption
<1>6. mixed' = IF \E j \in Slots : Live(j) /\ calls[j].thread = t /\ "turn" \notin {kind, calls[j].kind}
               THEN mixed \cup {t} ELSE mixed
  BY DEF Asks
<1>7. /\ mixed \subseteq mixed' /\ mixed' \subseteq Threads
      /\ mixed' \subseteq mixed \cup {t}
      /\ kind = "turn" => mixed' = mixed
  BY <1>6 DEF Inv, Shape
<1>8. t \notin mixed' /\ kind # "turn" => Alone(i, t)
  BY <1>6 DEF Works, Alone
<1> QED BY <1>1, <1>2, <1>3, <1>4, <1>5, <1>7, <1>8

(* What the request makes of the counters and of the calls. *)
LEMMA AskMinting ==
  ASSUME Inv, NEW i \in Slots, ~Live(i), \A j \in Slots : j # i => calls'[j] = calls[j],
         counts' \in [requests : Nat, faults : Nat],
         counts'.requests = counts.requests + 1, counts'.requests <= MaxRequests,
         UNCHANGED <<daemon, told>>,
         \A r \in DOMAIN records' : records'[r].sid <= daemon.minted
  PROVE  Minting'
<1>1. IsFiniteSet(Makers) /\ Cardinality(Makers) \in Nat
  <2>1. IsFiniteSet(Slots)
    BY FS_Interval, BridgeAssumption DEF Slots
  <2> QED BY <2>1, FS_Subset, FS_CardinalityType DEF Makers
<1>2. Makers' \subseteq Makers \cup {i}
  BY DEF Makers, MakesSession, Live
<1>3. /\ IsFiniteSet(Makers \cup {i})
      /\ Cardinality(Makers \cup {i}) \in {Cardinality(Makers), Cardinality(Makers) + 1}
  BY <1>1, FS_AddElement
<1>4. IsFiniteSet(Makers') /\ Cardinality(Makers') \in Nat
      /\ Cardinality(Makers') <= Cardinality(Makers) + 1
  <2>1. IsFiniteSet(Makers') /\ Cardinality(Makers') <= Cardinality(Makers \cup {i})
    BY <1>2, <1>3, FS_Subset
  <2> QED BY <1>1, <1>3, <2>1, FS_CardinalityType
<1>5. daemon.minted \in Nat /\ counts.requests \in Nat
      /\ daemon.minted + Cardinality(Makers) <= counts.requests
  BY DEF Inv, Shape, Minting, Daemons
<1>6. daemon.minted + Cardinality(Makers') <= counts.requests + 1
  BY <1>1, <1>4, <1>5
<1> QED BY <1>4, <1>5, <1>6 DEF Inv, Minting

LEMMA StillBuilding ==
  ASSUME NEW i \in Slots, ~Live(i), \A j \in Slots : j # i => calls'[j] = calls[j],
         NEW t, Constructing(t)
  PROVE  Constructing(t)'
BY DEF Constructing, Live

(* A request of a record the table has: it opens no lane and lets none go.   *)
LEMMA AskKeeps ==
  ASSUME Inv, NEW i \in Slots, NEW kind \in {"resume", "turn", "release", "discard"},
         NEW t \in Threads, NEW rec \in Nat, NEW step \in Steps,
         Asks(i, kind, t, rec, step, FALSE),
         kind \in {"resume", "turn"} => ~Constructing(t),
         TableGrows, IndicesSame, channels' \subseteq channels,
         \A q \in DOMAIN records : records'[q].lane = "open" => records[q].lane = "open",
         \A q \in DOMAIN records : Named(q)', Called(i)', PureSeat',
         t \notin mixed' => PureCall(i)'
  PROVE  Inv'
<1>0. kind \in Kinds /\ FALSE \in BOOLEAN
  BY DEF Kinds
<1>1. /\ calls' \in [Slots -> Requests \cup {Idle}]
      /\ Live(i)' /\ ~Live(i) /\ calls'[i] \in Requests
      /\ calls'[i].kind = kind /\ calls'[i].thread = t /\ calls'[i].rec = rec
      /\ calls'[i].at = step /\ calls'[i].adopted = FALSE
      /\ \A j \in Slots : j # i => calls'[j] = calls[j]
  BY <1>0, AsksIs
<1>2. /\ counts' \in [requests : Nat, faults : Nat]
      /\ counts'.requests = counts.requests + 1 /\ counts'.requests <= MaxRequests
      /\ mixed \subseteq mixed' /\ mixed' \subseteq Threads /\ t \notin gone
      /\ mixed' \subseteq mixed \cup {t}
      /\ kind = "turn" => mixed' = mixed
      /\ UNCHANGED <<daemon, told, gone>>
  <2>1. /\ counts' \in [requests : Nat, faults : Nat]
        /\ counts'.requests = counts.requests + 1 /\ counts'.requests <= MaxRequests
    BY <1>0, AsksIs
  <2>2. mixed \subseteq mixed'
    BY <1>0, AsksIs
  <2>6. mixed' \subseteq Threads
    BY <1>0, AsksIs
  <2>7. t \notin gone
    BY DEF Asks
  <2>4. mixed' \subseteq mixed \cup {t}
    BY <1>0, AsksIs
  <2>5. kind = "turn" => mixed' = mixed
    BY <1>0, AsksIs
  <2>3. UNCHANGED <<daemon, told, gone>>
    BY <1>0, AsksIs
  <2> QED BY <2>1, <2>2, <2>3, <2>4, <2>5, <2>6, <2>7
<1>3. t \notin mixed' /\ kind # "turn" => \A j \in Slots : j # i /\ Works(j) => calls[j].thread # t
  <2>1. t \notin mixed' /\ kind # "turn" => Alone(i, t)
    BY <1>0, AsksIs
  <2> QED BY <2>1 DEF Alone
<1> USE DEF Inv
<1>4. Shape'
  BY <1>1, <1>2 DEF Shape, TableGrows, IndicesSame
<1>5. Minting'
  <2>1. \A r \in DOMAIN records' : records'[r].sid <= daemon.minted
    BY DEF Minting, TableGrows, Grown
  <2> QED BY <1>1, <1>2, <2>1, AskMinting
<1>6. Owned'
  BY OwnedKept
<1>7. Fit'
  <2>1. Indexed'
    BY IndexedKept DEF Fit
  <2>2. OneBuilder'
    <3>1. kind = "resume" => \A j \in Slots : Builds(j) => calls[j].thread # t
      BY DEF Constructing, Builds
    <3>2. Builds(i)' => kind = "resume"
      BY <1>1 DEF Builds
    <3>3. \A j \in Slots : j # i => (Builds(j)' <=> Builds(j)) /\ calls'[j].thread = calls[j].thread
      BY <1>1 DEF Builds, Live
    <3> QED BY <1>1, <3>1, <3>2, <3>3 DEF Fit, OneBuilder
  <2>3. \A j \in Slots : Live(j)' => Called(j)'
    <3> SUFFICES ASSUME NEW j \in Slots, Live(j)', j # i PROVE Called(j)'
      OBVIOUS
    <3>1. calls'[j] = calls[j] /\ Live(j)
      BY <1>1 DEF Live
    <3> QED BY <3>1, OthersCalled
  <2> QED BY <2>1, <2>2, <2>3 DEF Fit, TableGrows
<1>8. PureIndex'
  <2>1. ASSUME NEW n \in Names, byProvider'[n] # 0, records'[byProvider'[n]].thread \notin mixed'
        PROVE  byThread'[records'[byProvider'[n]].thread] = byProvider'[n]
    <3>1. byProvider[n] \in DOMAIN records
      BY <2>1 DEF Fit, Indexed, IndicesSame
    <3> QED BY <1>2, <2>1, <3>1 DEF PureInv, PureIndex, IndicesSame, TableGrows, Grown, Pure
  <2>2. ASSUME NEW u \in Threads \ mixed', byThread[u] # 0
        PROVE  /\ byProvider[records'[byThread[u]].name] = byThread[u]
               /\ told'[u] # 0 => records'[byThread[u]].name = told[u]
               /\ told'[u] = 0 \/ ~records'[byThread[u]].attached => Constructing(u)'
    <3>1. PICK r \in DOMAIN records : r = byThread[u] /\ Grown(r)
      BY <2>2 DEF Fit, Indexed, TableGrows
    <3>2. /\ byProvider[records[r].name] = r
          /\ told[u] # 0 => records[r].name = told[u]
          /\ told[u] = 0 \/ ~records[r].attached => Constructing(u)
      BY <1>2, <2>2, <3>1 DEF PureInv, PureIndex
    <3>3. Constructing(u) => Constructing(u)'
      BY <1>1, StillBuilding
    <3> QED BY <1>2, <3>1, <3>2, <3>3 DEF Grown
  <2> QED BY <1>2, <2>1, <2>2 DEF PureIndex, IndicesSame, Pure
<1>9. PureLane'
  BY <1>2 DEF PureInv, PureLane, TableGrows, Grown, IndicesSame, Pure
<1>10. PureWorker'
  <2>1. \A j \in Slots : j # i => (Works(j)' <=> Works(j)) /\ calls'[j].thread = calls[j].thread
    BY <1>1 DEF Works, Live
  <2>2. Works(i)' => kind # "turn"
    BY <1>1 DEF Works
  <2> QED BY <1>1, <1>2, <1>3, <2>1, <2>2 DEF PureInv, PureWorker, Pure
<1>11. PureTurn'
  <2> SUFFICES ASSUME NEW k \in Slots, NEW j \in Slots, Live(k)', calls'[k].kind = "resume",
                      calls'[k].adopted, Live(j)', calls'[j].kind = "turn",
                      calls'[j].thread = calls'[k].thread, calls'[k].thread \notin mixed'
               PROVE  records'[calls'[j].rec].letGo
    BY DEF PureTurn, Pure
  <2>1. k # i /\ calls'[k] = calls[k] /\ Live(k)
    BY <1>1 DEF Live
  <2>2. j # i
    <3> SUFFICES ASSUME j = i PROVE FALSE
      OBVIOUS
    <3>1. calls[k].thread = t /\ kind = "turn"
      BY <1>1, <2>1
    <3>2. Constructing(t)
      BY <2>1, <3>1 DEF Constructing
    <3> QED BY <3>1, <3>2
  <2>3. calls'[j] = calls[j] /\ Live(j)
    BY <1>1, <2>2 DEF Live
  <2>4. records[calls[j].rec].letGo
    BY <1>2, <2>1, <2>3 DEF PureInv, PureTurn, Pure
  <2>5. calls[j].rec \in DOMAIN records
    BY <2>3 DEF Fit, Called
  <2> QED BY <2>3, <2>4, <2>5 DEF TableGrows, Grown
<1>12. PureChannel'
  <2> SUFFICES ASSUME NEW u \in channels', u \notin mixed', byThread[u] = 0
               PROVE  \E r \in DOMAIN records : records'[r].thread = u /\ records'[r].failed
    BY DEF PureChannel, IndicesSame, TableGrows
  <2>1. PICK r \in DOMAIN records : records[r].thread = u /\ records[r].failed
    BY <1>2 DEF PureInv, PureChannel
  <2> QED BY <2>1 DEF TableGrows, Grown
<1>13. PureGone'
  <2>1. \A j \in Slots : j # i => (Works(j)' <=> Works(j)) /\ calls'[j].thread = calls[j].thread
    BY <1>1 DEF Works, Live
  <2> QED BY <1>1, <1>2, <2>1 DEF PureInv, PureGone
<1>14. PureCalls'
  <2> SUFFICES ASSUME NEW j \in Slots, Live(j)', calls'[j].thread \notin mixed', j # i
               PROVE  PureCall(j)'
    BY <1>1 DEF PureCalls, Pure
  <2>1. calls'[j] = calls[j] /\ Live(j)
    BY <1>1 DEF Live
  <2>2. PureCall(j) /\ Called(j)
    BY <1>2, <2>1 DEF PureInv, PureCalls, Pure, Fit
  <2>3. calls[j].rec \in DOMAIN records /\ Grown(calls[j].rec)
    BY <2>2 DEF Called, TableGrows
  <2> QED BY <1>2, <2>1, <2>2, <2>3 DEF PureCall, Grown, IndicesSame
<1> QED BY <1>4, <1>5, <1>6, <1>7, <1>8, <1>9, <1>10, <1>11, <1>12, <1>13, <1>14 DEF PureInv

(* A turn is asked for of a thread that was built, and not of one being built. *)
LEMMA AskTurnKeeps ==
  ASSUME Inv, NEW i \in Slots, NEW t \in Threads, AskTurn(i, t)
  PROVE  Inv'
<1>1. /\ byThread[t] # 0 /\ told[t] # 0 /\ ~Constructing(t)
      /\ Asks(i, "turn", t, byThread[t], "ready", FALSE)
      /\ UNCHANGED <<table, channels>>
  BY DEF AskTurn
<1>2. PICK r \in DOMAIN records : r = byThread[t] /\ records[r].thread = t /\ r \in Nat
  BY <1>1, RecordsAre DEF Inv, Fit, Indexed
<1>3. Asks(i, "turn", t, r, "ready", FALSE)
  BY <1>1, <1>2
<1>4. /\ calls'[i].kind = "turn" /\ calls'[i].thread = t /\ calls'[i].rec = r
      /\ calls'[i].at = "ready" /\ ~calls'[i].adopted /\ mixed' = mixed
      /\ UNCHANGED <<daemon, told, gone>>
  BY <1>2, <1>3, AsksIs DEF Kinds, Steps
<1>5. TableGrows /\ IndicesSame
  BY <1>1, <1>4, RecordsStay DEF Inv, table, IndicesSame
<1>6. \A q \in DOMAIN records : Named(q)'
  BY <1>1, <1>4 DEF Inv, Fit, Named, table
<1>7. PureSeat'
  BY <1>1, <1>4 DEF Inv, PureInv, PureSeat, Hears, table
<1>8. Called(i)'
  BY <1>1, <1>2, <1>4 DEF Called, StepsOf, HasAttached, MakesSession, table
<1>9. t \notin mixed' => PureCall(i)'
  <2> SUFFICES ASSUME t \notin mixed PROVE PureCall(i)'
    BY <1>4
  <2>1. records[r].attached
    BY <1>1, <1>2 DEF Inv, PureInv, PureIndex
  <2> QED BY <1>1, <1>2, <1>4, <2>1 DEF PureCall, table
<1>10. channels' = channels /\ records' = records
  BY <1>1 DEF table
<1> QED BY <1>1, <1>2, <1>3, <1>5, <1>6, <1>7, <1>8, <1>9, <1>10, AskKeeps DEF Steps

(* thread/stop and thread/discard. *)
LEMMA AskStopKeeps ==
  ASSUME Inv, NEW i \in Slots, NEW t \in Threads, NEW kind \in {"release", "discard"},
         AskStop(i, t, kind)
  PROVE  Inv'
<1>1. PICK r \in DOMAIN records : r = byThread[t] /\ records[r].thread = t /\ r \in Nat
  BY RecordsAre DEF AskStop, Inv, Fit, Indexed
<1> DEFINE new == [records[r] EXCEPT !.letGo = TRUE,
                                     !.gap = IF kind = "release" THEN FALSE ELSE records[r].gap]
<1>2. records[r] \in Records /\ Named(r)
  BY RecordsAre DEF Inv, Fit
<1>3. PICK step \in {"channel", "closed", "detach"} :
        /\ Asks(i, kind, t, r, step, FALSE)
        /\ kind = "discard" => step = "channel"
        /\ kind = "release" => step \in {"closed", "detach"}
        /\ step = "closed" => records[r].lane = "none"
        /\ channels' = IF kind = "discard" \/ records[r].lane = "none"
                       THEN channels \ {t} ELSE channels
        /\ IndicesSame
        /\ records' = [records EXCEPT ![r].letGo = TRUE,
                                      ![r].gap = IF kind = "release" THEN FALSE ELSE @]
  BY <1>1 DEF AskStop, IndicesRest, IndicesSame
<1>4. records' = [records EXCEPT ![r] = new]
  BY <1>2, <1>3 DEF Records
<1>5. OneRecord(r, new)
  <2>1. new \in Records
    BY <1>2 DEF Records
  <2> HIDE DEF new
  <2> QED BY <1>4, <2>1, RecordSet DEF Inv
<1>6. /\ new.thread = records[r].thread /\ new.name = records[r].name /\ new.sid = records[r].sid
      /\ new.attached = records[r].attached /\ new.lane = records[r].lane
      /\ new.dead = records[r].dead /\ new.failed = records[r].failed /\ new.letGo
  BY <1>2 DEF Records
<1> HIDE DEF new
<1>7. /\ calls'[i].kind = kind /\ calls'[i].thread = t /\ calls'[i].rec = r
      /\ calls'[i].at = step /\ mixed \subseteq mixed'
      /\ UNCHANGED <<daemon, told, gone>>
  <2>1. kind \in Kinds /\ step \in Steps /\ FALSE \in BOOLEAN
    BY DEF Kinds, Steps
  <2>2. Asks(i, kind, t, r, step, FALSE) /\ r \in Nat
    BY <1>1, <1>3
  <2>3. /\ calls'[i].kind = kind /\ calls'[i].thread = t /\ calls'[i].rec = r
        /\ calls'[i].at = step
    BY <2>1, <2>2, AsksIs
  <2>4. mixed \subseteq mixed' /\ UNCHANGED <<daemon, told, gone>>
    BY <2>1, <2>2, AsksIs
  <2> QED BY <2>3, <2>4
<1>8. TableGrows
  BY <1>5, <1>6, <1>7, OneGrows DEF Inv
<1>9. ASSUME NEW q \in DOMAIN records PROVE Named(q)'
  <2>1. Named(q)
    BY DEF Inv, Fit
  <2> QED BY <1>2, <1>5, <1>6, <1>7, <2>1 DEF Named, OneRecord
<1>10. PureSeat'
  <2> SUFFICES ASSUME NEW u \in Threads \ mixed', byThread[u] # 0 PROVE Hears(byThread[u])'
    BY <1>3 DEF PureSeat, IndicesSame
  <2>1. PICK q \in DOMAIN records : q = byThread[u] /\ Hears(q)
    BY <1>7 DEF Inv, Fit, Indexed, PureInv, PureSeat
  <2>2. CASE q = r
    BY <1>3, <1>5, <1>6, <2>1, <2>2 DEF Hears, OneRecord, IndicesSame
  <2>3. CASE q # r
    BY <1>3, <1>5, <1>7, <2>1, <2>3 DEF Hears, OneRecord, IndicesSame
  <2> QED BY <2>2, <2>3
<1>11. Called(i)'
  BY <1>1, <1>3, <1>5, <1>6, <1>7 DEF Called, StepsOf, HasAttached, MakesSession, OneRecord
<1>12. t \notin mixed' => PureCall(i)'
  BY <1>1, <1>3, <1>5, <1>6, <1>7 DEF PureCall, IndicesSame, OneRecord
<1>13. \A q \in DOMAIN records : records'[q].lane = "open" => records[q].lane = "open"
  BY <1>5, <1>6 DEF OneRecord
<1> QED BY <1>1, <1>3, <1>8, <1>9, <1>10, <1>11, <1>12, <1>13, AskKeeps DEF Steps

(* A request that makes a record for its thread: bb knows no session of the  *)
(* thread, or one the table has no record of.                                *)
LEMMA RegisterKeeps ==
  ASSUME Inv, NEW i \in Slots, NEW kind \in {"start", "fork", "resume"}, NEW t \in Threads,
         NEW step \in Steps, NEW adopted \in BOOLEAN, NEW new \in Records,
         NEW n, n = Len(records) + 1,
         Asks(i, kind, t, n, step, adopted), ~Constructing(t),
         new.thread = t, ~new.attached, ~new.dead, ~new.failed, ~new.letGo, new.lane # "closed",
         \/ /\ kind \in {"start", "fork"} /\ step = "listen"
            /\ new.name = t /\ new.sid = 0 /\ told[t] = 0
         \/ /\ kind = "resume" /\ step = "attach" /\ adopted /\ told[t] # 0
            /\ new.name = told[t] /\ new.sid = told[t] /\ new.lane = "open"
            /\ byProvider[told[t]] = 0,
         records' = Append(records, new), byThread' = [byThread EXCEPT ![t] = n],
         byProvider' = [byProvider EXCEPT ![new.name] = n], channels' \subseteq channels
  PROVE  Inv'
<1>0. kind \in Kinds /\ n \in Nat
  BY RecordsAre DEF Kinds, Inv
<1>1. /\ calls' \in [Slots -> Requests \cup {Idle}]
      /\ Live(i)' /\ ~Live(i) /\ calls'[i] \in Requests
      /\ calls'[i].kind = kind /\ calls'[i].thread = t /\ calls'[i].rec = n
      /\ calls'[i].at = step /\ calls'[i].adopted = adopted
      /\ \A j \in Slots : j # i => calls'[j] = calls[j]
  BY <1>0, AsksIs
<1>2. /\ counts' \in [requests : Nat, faults : Nat]
      /\ counts'.requests = counts.requests + 1 /\ counts'.requests <= MaxRequests
  BY <1>0, AsksIs
<1>3. /\ mixed \subseteq mixed' /\ mixed' \subseteq Threads /\ mixed' \subseteq mixed \cup {t}
      /\ t \notin gone /\ UNCHANGED <<daemon, told, gone>>
  <2>1. mixed \subseteq mixed'
    BY <1>0, AsksIs
  <2>2. mixed' \subseteq Threads
    BY <1>0, AsksIs
  <2>3. mixed' \subseteq mixed \cup {t}
    BY <1>0, AsksIs
  <2>4. t \notin gone
    BY <1>0, AsksIs
  <2>5. UNCHANGED <<daemon, told, gone>>
    BY <1>0, AsksIs
  <2> QED BY <2>1, <2>2, <2>3, <2>4, <2>5
<1>4. t \notin mixed' => \A j \in Slots : j # i /\ Works(j) => calls[j].thread # t
  <2>1. t \notin mixed' /\ kind # "turn" => Alone(i, t)
    BY <1>0, AsksIs
  <2> QED BY <2>1 DEF Alone
<1>5. /\ records' \in Seq(Records) /\ DOMAIN records' = DOMAIN records \cup {n}
      /\ records'[n] = new /\ n # 0 /\ n \notin DOMAIN records
      /\ \A q \in DOMAIN records : records'[q] = records[q] /\ q # n /\ q # 0
  <2>1. /\ records \in Seq(Records) /\ DOMAIN records = 1..Len(records) /\ Len(records) \in Nat
    BY RecordsAre DEF Inv, Shape
  <2>2. /\ records' \in Seq(Records) /\ Len(records') = Len(records) + 1
        /\ records'[Len(records) + 1] = new
        /\ \A q \in 1..Len(records) : records'[q] = records[q]
    BY <2>1, AppendProperties
  <2>3. DOMAIN records' = 1..Len(records')
    BY <2>2, LenProperties
  <2> QED BY <2>1, <2>2, <2>3
<1>6. /\ byThread' \in [Threads -> Nat] /\ byThread'[t] = n
      /\ \A u \in Threads : u # t => byThread'[u] = byThread[u]
  BY <1>0 DEF Inv, Shape
<1>7. /\ byProvider' \in [Names -> Nat] /\ byProvider'[new.name] = n /\ new.name \in Names
      /\ \A m \in Names : m # new.name => byProvider'[m] = byProvider[m]
  BY <1>0 DEF Inv, Shape, Records
<1>8. told[t] \in Nat /\ (told[t] # 0 => told[t] \in SessionIds) /\ told[t] <= daemon.minted
      /\ daemon.minted \in Nat
  BY BridgeAssumption DEF Inv, Shape, Minting, SessionIds, Daemons
<1>9. \A q \in DOMAIN records : Named(q) /\ records[q] \in Records
  BY RecordsAre DEF Inv, Fit
<1>10. t \notin mixed' => byThread[t] = 0
  <2> SUFFICES ASSUME t \notin mixed', byThread[t] # 0 PROVE FALSE
    OBVIOUS
  <2>1. /\ byProvider[records[byThread[t]].name] = byThread[t]
        /\ told[t] # 0 => records[byThread[t]].name = told[t]
        /\ told[t] = 0 => Constructing(t)
    BY <1>3 DEF Inv, PureInv, PureIndex
  <2> QED BY <2>1
(* A name of the new record is no other thread's. *)
<1>11. ASSUME NEW q \in DOMAIN records, records[q].name = new.name
       PROVE  records[q].thread = t
  <2>1. CASE new.name = t
    <3>1. records[q].name # records[q].thread => t \in SessionIds
      BY <1>9, <2>1, <1>11, BridgeAssumption DEF Named, Records, SessionIds
    <3> QED BY <2>1, <1>11, <3>1, NamesAssumption
  <2>2. CASE new.name = told[t] /\ told[t] # 0
    <3>1. records[q].thread \in Threads
      BY <1>9 DEF Records
    <3>2. records[q].name # records[q].thread
      BY <1>8, <2>2, <1>11, <3>1, NamesAssumption
    <3>3. records[q].sid = told[t]
      BY <1>9, <2>2, <1>11, <3>2 DEF Named
    <3> QED BY <2>2, <3>3 DEF Inv, Owned
  <2> QED BY <2>1, <2>2
<1> USE DEF Inv
<1>12. Shape'
  BY <1>1, <1>2, <1>3, <1>5, <1>6, <1>7 DEF Shape
<1>13. Minting'
  <2>1. \A r \in DOMAIN records' : records'[r].sid <= daemon.minted
    BY <1>5, <1>8 DEF Minting
  <2> QED BY <1>1, <1>2, <1>3, <2>1, AskMinting
<1>14. Owned'
  <2>1. ASSUME NEW r \in DOMAIN records', NEW u \in Threads,
               records'[r].sid = told[u], told[u] # 0
        PROVE  records'[r].thread = u
    <3>1. CASE r = n
      BY <1>5, <2>1, <3>1 DEF Owned
    <3>2. CASE r # n
      BY <1>5, <2>1, <3>2 DEF Owned
    <3> QED BY <3>1, <3>2
  <2>2. ASSUME NEW r \in DOMAIN records', NEW q \in DOMAIN records',
               records'[r].sid = records'[q].sid, records'[r].sid # 0
        PROVE  records'[r].thread = records'[q].thread
    <3>1. CASE r = n
      <4>1. records'[q].sid = told[t] /\ told[t] # 0
        BY <1>5, <2>2, <3>1
      <4> QED BY <1>5, <2>1, <3>1, <4>1
    <3>2. CASE q = n
      <4>1. records'[r].sid = told[t] /\ told[t] # 0
        BY <1>5, <2>2, <3>2
      <4> QED BY <1>5, <2>1, <3>2, <4>1
    <3>3. CASE r # n /\ q # n
      BY <1>5, <2>2, <3>3 DEF Owned
    <3> QED BY <3>1, <3>2, <3>3
  <2>3. told' = told
    BY <1>3
  <2> QED BY <2>1, <2>2, <2>3 DEF Owned
<1>15. \A q \in DOMAIN records' : Named(q)'
  <2>1. Named(n)'
    BY <1>5 DEF Named
  <2>2. ASSUME NEW q \in DOMAIN records PROVE Named(q)'
    BY <1>3, <1>5, <1>9 DEF Named
  <2> QED BY <1>5, <2>1, <2>2
<1>16. Indexed'
  <2>1. ASSUME NEW m \in Names, byProvider'[m] # 0
        PROVE  byProvider'[m] \in DOMAIN records' /\ records'[byProvider'[m]].name = m
    BY <1>5, <1>7, <2>1 DEF Fit, Indexed
  <2>2. ASSUME NEW u \in Threads, byThread'[u] # 0
        PROVE  byThread'[u] \in DOMAIN records' /\ records'[byThread'[u]].thread = u
    BY <1>5, <1>6, <2>2 DEF Fit, Indexed
  <2> QED BY <2>1, <2>2 DEF Indexed
<1>17. \A j \in Slots : j # i => /\ Live(j)' <=> Live(j)
                                 /\ Works(j)' <=> Works(j)
                                 /\ Builds(j)' <=> Builds(j)
                                 /\ calls'[j] = calls[j]
  BY <1>1 DEF Works, Builds, Live
<1>18. OneBuilder'
  <2>1. \A j \in Slots : Builds(j) => calls[j].thread # t
    BY DEF Constructing, Builds
  <2> QED BY <1>1, <1>17, <2>1 DEF Fit, OneBuilder
<1>19. Called(i)'
  <2>1. told' = told /\ n \in DOMAIN records' /\ records'[n] = new
    BY <1>3, <1>5
  <2> QED BY <1>1, <2>1 DEF Called, StepsOf, HasAttached, MakesSession, Records
<1>20. ASSUME NEW j \in Slots, Live(j), j # i PROVE Called(j)'
  <2>1. Called(j) /\ calls'[j] = calls[j]
    BY <1>17, <1>20 DEF Fit
  <2>2. calls[j].rec \in DOMAIN records /\ records'[calls[j].rec] = records[calls[j].rec]
        /\ calls[j].rec \in DOMAIN records'
    BY <1>5, <2>1 DEF Called
  <2>3. told' = told
    BY <1>3
  <2> QED BY <2>1, <2>2, <2>3 DEF Called, MakesSession, Live
<1>21. Fit'
  BY <1>15, <1>16, <1>17, <1>18, <1>19, <1>20 DEF Fit
<1>22. Constructing(t)' /\ \A u \in Threads : Constructing(u) => Constructing(u)'
  <2>1. Constructing(t)'
    BY <1>1 DEF Constructing
  <2> QED BY <1>1, <2>1, StillBuilding
<1>23. PureIndex'
  <2>1. ASSUME NEW m \in Names, byProvider'[m] # 0, records'[byProvider'[m]].thread \notin mixed'
        PROVE  byThread'[records'[byProvider'[m]].thread] = byProvider'[m]
    <3>1. CASE m = new.name
      BY <1>5, <1>6, <1>7, <3>1
    <3>2. CASE m # new.name
      <4> DEFINE q == byProvider[m]
      <4>1. q \in DOMAIN records /\ byProvider'[m] = q /\ records'[q] = records[q]
        BY <1>5, <1>7, <2>1, <3>2 DEF Fit, Indexed
      <4>2. records[q].thread \in Threads \ mixed /\ q # 0
        BY <1>3, <1>5, <1>9, <2>1, <4>1 DEF Records
      <4>3. byThread[records[q].thread] = q
        BY <2>1, <4>1, <4>2 DEF PureInv, PureIndex, Pure
      <4>4. records[q].thread # t
        BY <1>10, <2>1, <4>1, <4>2, <4>3
      <4> QED BY <1>6, <4>1, <4>2, <4>3, <4>4
    <3> QED BY <3>1, <3>2
  <2>2. ASSUME NEW u \in Threads \ mixed', byThread'[u] # 0
        PROVE  /\ byProvider'[records'[byThread'[u]].name] = byThread'[u]
               /\ told[u] # 0 => records'[byThread'[u]].name = told[u]
               /\ told[u] = 0 \/ ~records'[byThread'[u]].attached => Constructing(u)'
    <3>1. CASE u = t
      BY <1>5, <1>6, <1>7, <1>22, <3>1
    <3>2. CASE u # t
      <4> DEFINE q == byThread[u]
      <4>1. q \in DOMAIN records /\ byThread'[u] = q /\ records'[q] = records[q]
            /\ records[q].thread = u
        BY <1>5, <1>6, <2>2, <3>2 DEF Fit, Indexed
      <4>2. /\ byProvider[records[q].name] = q
            /\ told[u] # 0 => records[q].name = told[u]
            /\ told[u] = 0 \/ ~records[q].attached => Constructing(u)
        BY <1>3, <2>2, <4>1 DEF PureInv, PureIndex
      <4>3. records[q].name # new.name /\ records[q].name \in Names
        BY <1>9, <1>11, <3>2, <4>1 DEF Records
      <4>4. byProvider'[records[q].name] = q
        BY <1>7, <4>2, <4>3
      <4> HIDE DEF q
      <4> QED BY <1>22, <4>1, <4>2, <4>4
    <3> QED BY <3>1, <3>2
  <2>3. told' = told
    BY <1>3
  <2> QED BY <2>1, <2>2, <2>3 DEF PureIndex, Pure
<1>24. PureLane'
  <2> SUFFICES ASSUME NEW r \in DOMAIN records', records'[r].thread \notin mixed',
                      records'[r].lane = "open", ~records'[r].failed
               PROVE  byThread'[records'[r].thread] = r
    BY DEF PureLane, Pure
  <2>1. CASE r = n
    BY <1>5, <1>6, <2>1
  <2>2. CASE r # n
    <3>1. r \in DOMAIN records /\ records'[r] = records[r] /\ r # 0
      BY <1>5, <2>2
    <3>2. byThread[records[r].thread] = r
      BY <1>3, <3>1 DEF PureInv, PureLane, Pure
    <3> QED BY <1>6, <1>9, <1>10, <3>1, <3>2 DEF Records
  <2> QED BY <2>1, <2>2
<1>25. PureWorker'
  <2>1. ASSUME NEW j \in Slots, NEW k \in Slots, Works(j)', Works(k)',
               calls'[j].thread = calls'[k].thread, calls'[j].thread \notin mixed', j # k
        PROVE  FALSE
    <3>1. CASE j = i
      BY <1>1, <1>4, <1>17, <2>1, <3>1
    <3>2. CASE k = i
      BY <1>1, <1>4, <1>17, <2>1, <3>2
    <3>3. CASE j # i /\ k # i
      BY <1>3, <1>17, <2>1, <3>3 DEF PureInv, PureWorker, Pure
    <3> QED BY <3>1, <3>2, <3>3
  <2> QED BY <2>1 DEF PureWorker, Pure
(* A turn of a thread that lost its record saw it let go. *)
<1>26. ASSUME NEW j \in Slots, Live(j)', calls'[j].kind = "turn", calls'[j].thread = t,
              t \notin mixed'
       PROVE  /\ j # i /\ told[t] # 0 /\ records'[calls'[j].rec].letGo
              /\ records'[calls'[j].rec].attached
  <2>1. j # i /\ Live(j) /\ calls'[j] = calls[j]
    BY <1>1, <1>17, <1>26
  <2>2. Called(j) /\ PureCall(j)
    BY <1>3, <1>26, <2>1 DEF Fit, PureInv, PureCalls, Pure
  <2>3. calls[j].rec \in DOMAIN records /\ told[t] # 0
    BY <1>26, <2>1, <2>2 DEF Called
  <2>4. records[calls[j].rec].letGo /\ records[calls[j].rec].attached
    BY <1>5, <1>10, <1>26, <2>1, <2>2, <2>3 DEF PureCall
  <2> QED BY <1>5, <2>1, <2>3, <2>4
<1>27. PureTurn'
  <2> SUFFICES ASSUME NEW k \in Slots, NEW j \in Slots, Live(k)', calls'[k].kind = "resume",
                      calls'[k].adopted, Live(j)', calls'[j].kind = "turn",
                      calls'[j].thread = calls'[k].thread, calls'[k].thread \notin mixed'
               PROVE  records'[calls'[j].rec].letGo
    BY DEF PureTurn, Pure
  <2>1. CASE calls'[j].thread = t
    BY <1>26, <2>1
  <2>2. CASE calls'[j].thread # t
    <3>1. j # i /\ k # i
      BY <1>1, <2>2
    <3>2. Live(j) /\ Live(k) /\ calls'[j] = calls[j] /\ calls'[k] = calls[k]
      BY <1>17, <3>1
    <3>3. records[calls[j].rec].letGo
      BY <1>3, <3>2 DEF PureInv, PureTurn, Pure
    <3>4. calls[j].rec \in DOMAIN records
      BY <3>2 DEF Fit, Called
    <3> QED BY <1>5, <3>2, <3>3, <3>4
  <2> QED BY <2>1, <2>2
<1>28. PureChannel'
  <2> SUFFICES ASSUME NEW u \in channels', u \notin mixed', byThread'[u] = 0
               PROVE  \E r \in DOMAIN records' : records'[r].thread = u /\ records'[r].failed
    BY DEF PureChannel
  <2>1. u \in Threads /\ u # t
    BY <1>5, <1>6 DEF Shape
  <2>2. byThread[u] = 0 /\ u \in channels /\ u \notin mixed
    BY <1>3, <1>6, <2>1
  <2>3. PICK r \in DOMAIN records : records[r].thread = u /\ records[r].failed
    BY <2>2 DEF PureInv, PureChannel
  <2> QED BY <1>5, <2>3
<1>29. PureGone'
  BY <1>1, <1>3, <1>17 DEF PureInv, PureGone
<1>30. PureSeat'
  <2> SUFFICES ASSUME NEW u \in Threads \ mixed', NEW q, q = byThread'[u], q # 0 PROVE Hears(q)'
    BY DEF PureSeat, Hears
  <2>1. CASE u = t
    BY <1>5, <1>6, <2>1 DEF Hears
  <2>2. CASE u # t
    <3>1. q \in DOMAIN records /\ Hears(q)
      BY <1>3, <1>6, <2>2 DEF Fit, Indexed, PureInv, PureSeat
    <3> QED BY <1>3, <1>5, <3>1 DEF Hears
  <2> QED BY <2>1, <2>2
<1>31. PureCalls'
  <2> SUFFICES ASSUME NEW j \in Slots, Live(j)', calls'[j].thread \notin mixed' PROVE PureCall(j)'
    BY DEF PureCalls, Pure
  <2>1. CASE j = i
    BY <1>1, <1>5, <1>6, <2>1 DEF PureCall
  <2>2. CASE j # i /\ calls'[j].thread = t
    <3>1. calls'[j].kind = "turn"
      BY <1>4, <1>17, <2>2 DEF Works
    <3>2. calls'[j].at = "ready"
      BY <1>17, <1>20, <2>2, <3>1 DEF Called, StepsOf
    <3> QED BY <1>26, <2>2, <3>1, <3>2 DEF PureCall
  <2>3. CASE j # i /\ calls'[j].thread # t
    <3>1. calls'[j] = calls[j] /\ Live(j)
      BY <1>17, <2>3
    <3>2. Called(j) /\ PureCall(j) /\ calls[j].thread \in Threads
      BY <1>3, <3>1, LiveIsRequest DEF Fit, PureInv, PureCalls, Pure, Requests
    <3>3. calls[j].rec \in DOMAIN records /\ records'[calls[j].rec] = records[calls[j].rec]
      BY <1>5, <3>2 DEF Called
    <3>4. byThread'[calls[j].thread] = byThread[calls[j].thread]
      BY <1>6, <2>3, <3>1, <3>2
    <3>5. UNCHANGED <<daemon, told>> /\ (calls[j].thread \notin channels => calls[j].thread \notin channels')
      BY <1>3
    <3> QED BY <3>1, <3>2, <3>3, <3>4, <3>5 DEF PureCall
  <2> QED BY <2>1, <2>2, <2>3
<1> QED BY <1>12, <1>13, <1>14, <1>21, <1>23, <1>24, <1>25, <1>27, <1>28, <1>29, <1>30, <1>31
     DEF PureInv

LEMMA AskStartKeeps ==
  ASSUME Inv, NEW i \in Slots, NEW t \in Threads, NEW kind \in {"start", "fork"},
         AskStart(i, t, kind)
  PROVE  Inv'
<1> DEFINE new == NewRecord(t, t)
<1>1. PICK n : n = Len(records) + 1
  OBVIOUS
<1>2. /\ told[t] = 0 /\ ~Constructing(t) /\ Asks(i, kind, t, n, "listen", FALSE)
      /\ records' = Append(records, new) /\ byThread' = [byThread EXCEPT ![t] = n]
      /\ byProvider' = [byProvider EXCEPT ![t] = n] /\ channels' \subseteq channels
  BY <1>1 DEF AskStart, Registered, ChannelReplaced
<1>3. /\ new \in Records /\ new.thread = t /\ ~new.attached /\ ~new.dead /\ ~new.failed
      /\ ~new.letGo /\ new.lane # "closed" /\ new.name = t /\ new.sid = 0
  BY BridgeAssumption DEF NewRecord, Records, Names
<1> HIDE DEF new
<1>4. byProvider' = [byProvider EXCEPT ![new.name] = n]
  BY <1>2, <1>3
<1>5. kind \in {"start", "fork", "resume"} /\ "listen" \in Steps /\ FALSE \in BOOLEAN
  BY DEF Steps
<1> QED BY <1>1, <1>2, <1>3, <1>4, <1>5, RegisterKeeps

(* thread/resume of a session the table has no record of. *)
LEMMA AskResumeNewKeeps ==
  ASSUME Inv, NEW i \in Slots, NEW t \in Threads, AskResume(i, t), Found(t) = 0
  PROVE  Inv'
<1> DEFINE new == [NewRecord(t, told[t]) EXCEPT !.sid = told[t], !.lane = "open"]
<1>1. PICK n : n = Len(records) + 1
  OBVIOUS
<1>2. /\ told[t] # 0 /\ ~Constructing(t) /\ byProvider[told[t]] = 0
      /\ Asks(i, "resume", t, n, "attach", TRUE)
      /\ records' = Append(records, new) /\ byThread' = [byThread EXCEPT ![t] = n]
      /\ byProvider' = [byProvider EXCEPT ![told[t]] = n] /\ channels' \subseteq channels
  BY <1>1 DEF AskResume, Found, FindsRecord
<1>3. told[t] \in 0..MaxRequests /\ told[t] \in Names
  BY <1>2, BridgeAssumption DEF Inv, Shape, Names, SessionIds
<1>4. /\ new \in Records /\ new.thread = t /\ ~new.attached /\ ~new.dead /\ ~new.failed
      /\ ~new.letGo /\ new.lane = "open" /\ new.name = told[t] /\ new.sid = told[t]
  BY <1>3 DEF NewRecord, Records
<1> HIDE DEF new
<1>5. byProvider' = [byProvider EXCEPT ![new.name] = n]
  BY <1>2, <1>4
<1>6. "resume" \in {"start", "fork", "resume"} /\ "attach" \in Steps /\ TRUE \in BOOLEAN
      /\ new.lane # "closed"
  BY <1>4 DEF Steps
<1> QED BY <1>1, <1>2, <1>4, <1>5, <1>6, RegisterKeeps

(* thread/resume of one it has: the record is of this thread. *)
LEMMA AskResumeFoundKeeps ==
  ASSUME Inv, NEW i \in Slots, NEW t \in Threads, AskResume(i, t), Found(t) # 0
  PROVE  Inv'
<1>1. PICK r : r = byProvider[told[t]]
  OBVIOUS
<1>2. /\ told[t] # 0 /\ ~Constructing(t) /\ r # 0
      /\ Asks(i, "resume", t, r, "attach", FALSE)
      /\ UNCHANGED <<records, byThread, byProvider, channels>>
  BY <1>1 DEF AskResume, Found, FindsRecord, table
<1>3. told[t] \in SessionIds /\ told[t] \in Names
  BY <1>2, BridgeAssumption DEF Inv, Shape, Names, SessionIds
<1>4. r \in DOMAIN records /\ records[r].name = told[t] /\ r \in Nat /\ Named(r)
      /\ records[r] \in Records
  BY <1>1, <1>2, <1>3, RecordsAre DEF Inv, Fit, Indexed
<1>5. records[r].name # records[r].thread
  BY <1>3, <1>4, NamesAssumption DEF Records
<1>6. records[r].sid = told[t] /\ records[r].lane # "none"
  BY <1>4, <1>5 DEF Named
<1>7. records[r].thread = t
  BY <1>2, <1>4, <1>6 DEF Inv, Owned
<1>8. "resume" \in Kinds /\ "attach" \in Steps /\ FALSE \in BOOLEAN
  BY DEF Kinds, Steps
<1>9. /\ calls'[i].kind = "resume" /\ calls'[i].thread = t /\ calls'[i].rec = r
      /\ calls'[i].at = "attach"
  <2>1. Asks(i, "resume", t, r, "attach", FALSE) /\ r \in Nat
    BY <1>2, <1>4
  <2> QED BY <2>1, AsksIs DEF Kinds, Steps
<1>10. mixed \subseteq mixed' /\ UNCHANGED <<daemon, told, gone>>
  BY <1>2, <1>4, <1>8, AsksIs
<1>11. TableGrows /\ IndicesSame
  BY <1>2, <1>10, RecordsStay DEF Inv, IndicesSame
<1>12. \A q \in DOMAIN records : Named(q)'
  BY <1>2, <1>10 DEF Inv, Fit, Named
<1>13. PureSeat'
  BY <1>2, <1>10 DEF Inv, PureInv, PureSeat, Hears
<1>14. Called(i)'
  BY <1>2, <1>4, <1>6, <1>7, <1>9, <1>10 DEF Called, StepsOf, HasAttached, MakesSession
<1>15. t \notin mixed' => PureCall(i)'
  <2> SUFFICES ASSUME t \notin mixed' PROVE PureCall(i)'
    OBVIOUS
  <2>1. byThread[t] = r
    BY <1>1, <1>2, <1>3, <1>7, <1>10 DEF Inv, PureInv, PureIndex, Pure
  <2>2. records[r].attached
    BY <1>2, <1>10, <2>1 DEF Inv, PureInv, PureIndex
  <2> QED BY <1>2, <1>9, <2>1, <2>2 DEF PureCall
<1> QED BY <1>2, <1>4, <1>8, <1>11, <1>12, <1>13, <1>14, <1>15, AskKeeps

-----------------------------------------------------------------------------
(* The daemon mints a session for a request that still lacks one.            *)
LEMMA MintedDaemon ==
  ASSUME Inv, NEW i \in Slots, MakesSession(i), daemon' = Minted
  PROVE  /\ daemon' \in Daemons /\ daemon'.minted = daemon.minted + 1
         /\ daemon'.live = daemon.live \cup {daemon.minted + 1}
         /\ daemon'.saved = daemon.saved \cup {daemon.minted + 1}
         /\ daemon'.seated = daemon.seated /\ daemon'.wire = daemon.wire
         /\ daemon.minted + 1 \in SessionIds /\ DaemonMoves
         /\ daemon'.live \subseteq 1..daemon'.minted /\ daemon'.saved \subseteq 1..daemon'.minted
         /\ daemon'.seated \subseteq daemon'.live
<1>1. IsFiniteSet(Makers) /\ Cardinality(Makers) \in Nat
  <2>1. IsFiniteSet(Slots)
    BY FS_Interval, BridgeAssumption DEF Slots
  <2> QED BY <2>1, FS_Subset, FS_CardinalityType DEF Makers
<1>2. Cardinality(Makers) # 0
  BY <1>1, FS_EmptySet DEF Makers
<1>3. /\ daemon \in Daemons /\ daemon.minted \in Nat /\ counts.requests \in Nat
      /\ daemon.minted + Cardinality(Makers) <= counts.requests /\ counts.requests <= MaxRequests
      /\ daemon.live \subseteq 1..daemon.minted /\ daemon.saved \subseteq 1..daemon.minted
      /\ daemon.seated \subseteq daemon.live
  BY DEF Inv, Shape, Minting, Daemons
<1>4. daemon.minted + 1 \in SessionIds
  <2>1. daemon.minted + 1 <= MaxRequests
    BY <1>1, <1>2, <1>3, BridgeAssumption
  <2> QED BY <1>3, <2>1, BridgeAssumption DEF SessionIds
<1>5. daemon' = [daemon EXCEPT !.minted = daemon.minted + 1,
                               !.live = daemon.live \cup {daemon.minted + 1},
                               !.saved = daemon.saved \cup {daemon.minted + 1}]
  BY DEF Minted
<1>6. /\ daemon' \in Daemons /\ daemon'.minted = daemon.minted + 1
      /\ daemon'.live = daemon.live \cup {daemon.minted + 1}
      /\ daemon'.saved = daemon.saved \cup {daemon.minted + 1}
      /\ daemon'.seated = daemon.seated /\ daemon'.wire = daemon.wire
  <2> DEFINE m == daemon.minted + 1
             L == daemon.live \cup {m}
             S == daemon.saved \cup {m}
  <2>1. daemon' = [daemon EXCEPT !.minted = m, !.live = L, !.saved = S]
    BY <1>5
  <2>2. m \in Nat /\ L \in SUBSET SessionIds /\ S \in SUBSET SessionIds
    BY <1>3, <1>4 DEF Daemons
  <2> HIDE DEF m, L, S
  <2>3. daemon' = [wire |-> daemon.wire, live |-> L, saved |-> S, seated |-> daemon.seated,
                   minted |-> m]
    BY <1>3, <2>1 DEF Daemons
  <2>4. daemon.wire \in {"up", "down"} /\ daemon.seated \in SUBSET SessionIds
    BY <1>3 DEF Daemons
  <2>5. daemon' \in Daemons
    BY <2>2, <2>3, <2>4 DEF Daemons
  <2> QED BY <2>3, <2>5 DEF m, L, S
<1>7. daemon'.live \subseteq 1..daemon'.minted /\ daemon'.saved \subseteq 1..daemon'.minted
      /\ daemon'.seated \subseteq daemon'.live
  BY <1>3, <1>6
<1> QED BY <1>4, <1>6, <1>7 DEF DaemonMoves

LEMMA CreatesKeeps ==
  ASSUME Inv, NEW i \in Slots, Creates(i)
  PROVE  Inv'
<1> DEFINE r == calls[i].rec
           t == calls[i].thread
           m == daemon.minted + 1
           new == [records[r] EXCEPT !.sid = m]
<1>1. /\ Live(i) /\ calls[i].at = "create" /\ daemon' = Minted /\ Goes(i, "attach")
      /\ records' = [records EXCEPT ![r] = new]
      /\ IndicesSame /\ UNCHANGED <<channels, told, gone, mixed, counts>>
  BY DEF Creates, SetRec, Rec, IndicesRest, IndicesSame
<1>2. /\ calls[i] \in Requests /\ Called(i) /\ r \in DOMAIN records /\ records[r] \in Records
      /\ records[r].thread = t /\ Named(r)
      /\ Pure(t) => PureCall(i)
  BY <1>1, CallIs
<1>3. calls[i].kind \in {"start", "fork"} /\ MakesSession(i) /\ Builds(i)
  BY <1>1, <1>2 DEF Called, StepsOf, MakesSession, Builds
<1>4. records[r].sid = 0 /\ records[r].name = t /\ ~records[r].attached /\ ~records[r].dead
      /\ records[r].lane # "none" /\ told[t] = 0
  BY <1>1, <1>2, <1>3 DEF Called, HasAttached, Named, Records
<1>5. /\ CallsMove({i}) /\ Live(i)' /\ calls'[i].at = "attach" /\ calls'[i].kind = calls[i].kind
      /\ calls'[i].thread = t /\ calls'[i].rec = r /\ calls'[i].adopted = calls[i].adopted
  BY <1>1, GoesOn DEF Steps
<1>6. /\ daemon' \in Daemons /\ daemon'.minted = m
      /\ daemon'.live = daemon.live \cup {m} /\ daemon'.saved = daemon.saved \cup {m}
      /\ daemon'.seated = daemon.seated /\ daemon'.wire = daemon.wire
      /\ m \in SessionIds /\ DaemonMoves
      /\ daemon'.live \subseteq 1..m /\ daemon'.saved \subseteq 1..m
      /\ daemon'.seated \subseteq daemon'.live
  BY <1>1, <1>3, MintedDaemon
<1>7. m \in Nat /\ m # 0 /\ daemon.minted \in Nat /\ m \in 0..MaxRequests
  BY <1>6, BridgeAssumption DEF Inv, Shape, Daemons, SessionIds
<1>8. OneRecord(r, new)
  <2>1. new \in Records
    BY <1>2, <1>7 DEF Records
  <2> HIDE DEF new
  <2> QED BY <1>1, <1>2, <2>1, RecordSet DEF Inv
<1>9. /\ new.thread = t /\ new.name = records[r].name /\ new.sid = m
      /\ new.attached = records[r].attached /\ new.lane = records[r].lane
      /\ new.dead = records[r].dead /\ new.failed = records[r].failed
      /\ new.cut = records[r].cut
      /\ new.letGo = records[r].letGo
  BY <1>2 DEF Records
<1>10. /\ \A q \in DOMAIN records : records[q].sid \in Nat /\ records[q].sid # m
       /\ \A u \in Threads : told[u] \in Nat /\ told[u] # m
  <2>1. \A q \in DOMAIN records : records[q].sid \in Nat /\ records[q].sid <= daemon.minted
    BY RecordsAre DEF Inv, Minting, Records
  <2>2. \A u \in Threads : told[u] \in Nat /\ told[u] <= daemon.minted
    BY DEF Inv, Shape, Minting
  <2> QED BY <1>7, <2>1, <2>2
<1> HIDE DEF new, m
<1>11. TableAges
  BY <1>1, <1>2, <1>8, <1>9 DEF TableAges, Ages, OneRecord
<1>12. \A q \in DOMAIN records : q # r => records'[q] = records[q]
  BY <1>8 DEF OneRecord
<1>13. records'[r] = new /\ DOMAIN records' = DOMAIN records /\ records' \in Seq(Records)
  BY <1>8 DEF OneRecord
<1> USE DEF Inv
<1>14. Shape'
  BY <1>1, <1>5, <1>6, <1>13 DEF Shape, CallsMove, IndicesSame
<1>15. Minting'
  <2>1. i \in Makers /\ i \notin Makers'
    BY <1>3, <1>5 DEF Makers, MakesSession
  <2>2. Makers' \subseteq Makers
    BY <1>3, <1>5, MakersKept DEF MakesSession
  <2>3. \A u \in Threads : told'[u] <= m
    BY <1>1, <1>7, <1>10 DEF Minting, m, Shape
  <2>4. \A q \in DOMAIN records' : records'[q].sid <= m
    <3> TAKE q \in DOMAIN records'
    <3>1. records[q].sid <= daemon.minted /\ records[q].sid \in Nat
      BY <1>10, <1>13 DEF Minting
    <3>2. CASE q = r
      BY <1>7, <1>9, <1>13, <3>2
    <3>3. CASE q # r
      BY <1>7, <1>12, <1>13, <3>1, <3>3 DEF m
    <3> QED BY <3>2, <3>3
  <2> QED BY <1>1, <1>6, <2>1, <2>2, <2>3, <2>4, MintingKept DEF m
<1>16. Owned'
  <2>1. ASSUME NEW p \in DOMAIN records', NEW q \in DOMAIN records',
               records'[p].sid = records'[q].sid, records'[p].sid # 0
        PROVE  records'[p].thread = records'[q].thread
    BY <1>2, <1>9, <1>10, <1>12, <1>13, <2>1 DEF Owned
  <2>2. ASSUME NEW q \in DOMAIN records', NEW u \in Threads, records'[q].sid = told[u], told[u] # 0
        PROVE  records'[q].thread = u
    BY <1>9, <1>10, <1>12, <1>13, <2>2 DEF Owned
  <2> QED BY <1>1, <2>1, <2>2 DEF Owned
<1>17. ASSUME NEW q \in DOMAIN records PROVE Named(q)'
  <2>1. Named(q)
    BY DEF Fit
  <2>2. CASE q = r
    BY <1>2, <1>4, <1>9, <1>13, <2>2 DEF Named
  <2>3. CASE q # r
    BY <1>6, <1>10, <1>12, <2>1, <2>3 DEF Named
  <2> QED BY <2>2, <2>3
<1>18. Indexed'
  BY <1>1, <1>11 DEF Fit, Indexed, TableAges, Ages, IndicesSame
<1>19. Called(i)'
  BY <1>1, <1>2, <1>3, <1>4, <1>5, <1>7, <1>9, <1>13
     DEF Called, StepsOf, HasAttached, MakesSession
<1>20. ASSUME NEW j \in Slots, Live(j), j # i PROVE Called(j)'
  <2>1. Called(j) /\ calls'[j] = calls[j] /\ told' = told
    BY <1>1, <1>5, <1>20 DEF Fit, CallsMove
  <2>2. CASE calls[j].rec = r
    <3>1. ~Builds(j)
      BY <1>2, <1>3, <1>20, <2>1, <2>2 DEF Fit, OneBuilder, Called
    <3>2. calls[j].kind \notin {"start", "fork", "resume"}
      BY <1>20, <3>1 DEF Builds
    <3> QED BY <1>2, <1>7, <1>9, <1>13, <2>1, <2>2, <3>2
            DEF Called, MakesSession, HasAttached, StepsOf
  <2>3. CASE calls[j].rec # r
    BY <1>12, <1>13, <2>1, <2>3 DEF Called, MakesSession, Live
  <2> QED BY <2>2, <2>3
<1>21. Fit'
  <2>1. OneBuilder'
    BY <1>5, BuildersKept DEF Fit
  <2>2. \A j \in Slots : Live(j)' => Called(j)'
    BY <1>5, <1>19, <1>20, MovedFrom
  <2> QED BY <1>13, <1>17, <1>18, <2>1, <2>2 DEF Fit
<1>22. PureSeat'
  <2>1. ASSUME NEW q \in DOMAIN records, Hears(q) PROVE Hears(q)'
    <3>1. CASE q = r
      BY <1>4, <1>9, <1>13, <3>1 DEF Hears
    <3>2. CASE q # r
      BY <1>6, <1>10, <1>12, <2>1, <3>2 DEF Hears
    <3> QED BY <3>1, <3>2
  <2> QED BY <1>1, <2>1, SeatKept DEF Fit, PureInv
<1>23. Pure(t) => PureCall(i)'
  <2> SUFFICES ASSUME Pure(t) PROVE PureCall(i)'
    OBVIOUS
  <2> QED BY <1>1, <1>2, <1>3, <1>5 DEF PureCall, IndicesSame
<1>24. OpensForBuilders({i})
  BY <1>1, <1>9, <1>12, <1>13 DEF OpensForBuilders
<1>25. PureInv'
  BY <1>1, <1>5, <1>6, <1>11, <1>22, <1>23, <1>24, PureKept DEF EndsBuilt
<1> QED BY <1>14, <1>15, <1>16, <1>21, <1>25

-----------------------------------------------------------------------------
(* A construction attaches. *)
(* Call i attaches record r of thread t to session s. *)
AttachesTo(i, r, t, s, new) ==
  /\ Live(i) /\ calls[i].at = "attach" /\ daemon.wire = "up" /\ s \in daemon.live
  /\ daemon' = Seat(s) /\ told' = [told EXCEPT ![t] = s]
  /\ UNCHANGED <<gone, mixed, counts>>
  /\ s \in SessionIds /\ s \in Names /\ s # 0
  /\ OneRecord(r, new) /\ new.thread = t /\ new.name = s /\ new.sid = s /\ new.attached
  /\ new.lane = records[r].lane /\ new.dead = records[r].dead
  /\ new.gap = records[r].gap /\ new.failed = records[r].failed
  /\ new.stage = records[r].stage
  /\ new.cut = (records[r].cut /\ records[r].lane = "closed")
  /\ new.letGo = records[r].letGo

LEMMA AttachesIs ==
  ASSUME Inv, NEW i \in Slots, Attaches(i), NEW r, NEW t, NEW s,
         r = calls[i].rec, t = calls[i].thread, s = records[r].sid
  PROVE  \E new \in Records : AttachesTo(i, r, t, s, new)
<1> DEFINE new == [records[r] EXCEPT !.attached = TRUE, !.name = s,
                                 !.cut = @ /\ records[r].lane = "closed"]
<1>1. /\ Live(i) /\ calls[i].at = "attach" /\ daemon.wire = "up" /\ s \in daemon.live
      /\ daemon' = Seat(s) /\ told' = [told EXCEPT ![t] = s]
      /\ records' = [records EXCEPT ![r] = new]
      /\ UNCHANGED <<gone, mixed, counts>>
  BY DEF Attaches, SetRec, Rec
<1>2. r \in DOMAIN records /\ records[r] \in Records /\ records[r].thread = t
  BY <1>1, CallIs
<1>3. s \in SessionIds /\ s # 0 /\ s \in Names
  BY <1>1, SeatedDaemon DEF Names
<1>4. /\ new \in Records /\ new.thread = t /\ new.name = s /\ new.sid = s /\ new.attached
      /\ new.lane = records[r].lane /\ new.dead = records[r].dead
      /\ new.gap = records[r].gap /\ new.failed = records[r].failed
      /\ new.stage = records[r].stage
      /\ new.cut = (records[r].cut /\ records[r].lane = "closed")
      /\ new.letGo = records[r].letGo
  BY <1>2, <1>3 DEF Records
<1> HIDE DEF new
<1>5. OneRecord(r, new)
  BY <1>1, <1>2, <1>4, RecordSet DEF Inv
<1>6. AttachesTo(i, r, t, s, new)
  BY <1>1, <1>3, <1>4, <1>5 DEF AttachesTo
<1> QED BY <1>4, <1>6

(* A lane that is attached is seated, and hears its session again. *)
LEMMA SeatHears ==
  ASSUME NEW r \in DOMAIN records, NEW new, OneRecord(r, new), NEW s \in daemon.live,
         daemon.wire = "up", daemon'.wire = "up", daemon'.live = daemon.live,
         daemon'.seated = daemon.seated \cup {s}, new.sid = s,
         NEW q \in DOMAIN records, q = r \/ Hears(q)
  PROVE  Hears(q)'
<1>1. CASE q = r
  BY <1>1 DEF Hears, OneRecord
<1>2. CASE q # r
  BY <1>2 DEF Hears, OneRecord
<1> QED BY <1>1, <1>2

(* A thread that is resumed is known by the session that attaches. *)
LEMMA AttachesResumeKeeps ==
  ASSUME Inv, NEW i \in Slots, Attaches(i), calls[i].kind = "resume"
  PROVE  Inv'
<1>1. PICK r, t, s : r = calls[i].rec /\ t = calls[i].thread /\ s = records[r].sid
  OBVIOUS
<1>0. PICK new \in Records : AttachesTo(i, r, t, s, new)
  BY <1>1, AttachesIs
<1>2. /\ Live(i) /\ calls[i].at = "attach" /\ daemon.wire = "up" /\ s \in daemon.live
      /\ daemon' = Seat(s) /\ told' = [told EXCEPT ![t] = s]
      /\ UNCHANGED <<gone, mixed, counts>>
      /\ s \in SessionIds /\ s \in Names /\ s # 0
      /\ OneRecord(r, new) /\ new.thread = t /\ new.name = s /\ new.sid = s /\ new.attached
      /\ new.lane = records[r].lane /\ new.dead = records[r].dead
      /\ new.gap = records[r].gap /\ new.failed = records[r].failed
      /\ new.stage = records[r].stage
      /\ new.cut = (records[r].cut /\ records[r].lane = "closed")
      /\ new.letGo = records[r].letGo
  BY <1>0 DEF AttachesTo
<1>3. Goes(i, "listen") /\ IndicesSame /\ channels' = channels \ {t}
  BY <1>1 DEF Attaches, ChannelReplaced, IndicesRest, IndicesSame
<1>4. /\ calls[i] \in Requests /\ Called(i) /\ r \in DOMAIN records /\ records[r] \in Records
      /\ records[r].thread = t /\ Named(r) /\ t \in Threads
      /\ Pure(t) => PureCall(i)
  BY <1>1, <1>2, CallIs DEF Requests
<1>5. records[r].name = s /\ told[t] = s /\ records[r].lane # "none"
  BY <1>1, <1>2, <1>4 DEF Called
<1>6. told' = told
  BY <1>2, <1>4, <1>5 DEF Inv, Shape
<1>7. /\ CallsMove({i}) /\ Live(i)' /\ calls'[i].at = "listen" /\ calls'[i].kind = "resume"
      /\ calls'[i].thread = t /\ calls'[i].rec = r /\ calls'[i].adopted = calls[i].adopted
  BY <1>1, <1>2, <1>3, GoesOn DEF Steps
<1>8. /\ DaemonQuiet /\ daemon'.live = daemon.live /\ daemon'.wire = "up"
      /\ daemon'.seated = daemon.seated \cup {s}
  BY <1>2, SeatedDaemon
<1>9. TableGrows
  BY <1>1, <1>2, <1>4, <1>5, <1>6, OneGrows DEF Inv
<1>15. records'[r] = new /\ \A q \in DOMAIN records : q # r => records'[q] = records[q]
  BY <1>2 DEF OneRecord
<1>16. r \in DOMAIN records'
  BY <1>2, <1>4 DEF OneRecord
<1>10. ASSUME NEW q \in DOMAIN records PROVE Named(q)'
  <2>1. Named(q)
    BY DEF Inv, Fit
  <2>2. CASE q = r
    <3>1. /\ new.name = new.sid /\ new.sid # 0 /\ new.lane # "none"
          /\ ~new.dead \/ new.sid \notin daemon.live
          /\ new.lane = "closed" => new.dead \/ new.letGo \/ new.cut
      BY <1>1, <1>2, <1>4, <1>5 DEF Named
    <3> QED BY <1>8, <1>15, <2>2, <3>1 DEF Named
  <2>3. CASE q # r
    BY <1>8, <1>15, <2>1, <2>3 DEF Named
  <2> QED BY <2>2, <2>3
<1>11. Called(i)' /\ ~MakesSession(i)'
  <2>1. new.thread = t /\ new.attached /\ new.name = new.sid /\ told[t] = new.sid /\ told[t] # 0
    BY <1>2, <1>5
  <2> QED BY <1>6, <1>7, <1>15, <1>16, <2>1 DEF Called, StepsOf, HasAttached, MakesSession
<1>12. PureSeat'
  <2>1. ASSUME NEW q \in DOMAIN records, Hears(q) PROVE Hears(q)'
    BY <1>2, <1>4, <1>8, <2>1, SeatHears
  <2> QED BY <1>2, <1>3, <2>1, SeatKept DEF Inv, Fit, PureInv
<1>13. OpensForBuilders({i}) /\ channels' \subseteq Threads
  BY <1>2, <1>3 DEF OpensForBuilders, OneRecord, Inv, Shape
<1>14. Pure(t) => PureCall(i)'
  <2> SUFFICES ASSUME Pure(t) PROVE PureCall(i)'
    OBVIOUS
  <2>1. byThread'[t] = r /\ new.attached
    BY <1>1, <1>2, <1>3, <1>4 DEF PureCall, IndicesSame
  <2> QED BY <1>7, <1>15, <2>1 DEF PureCall
<1> QED BY <1>1, <1>2, <1>3, <1>7, <1>8, <1>9, <1>10, <1>11, <1>12, <1>13, <1>14, InvKept, SameCounts
     DEF Inv, EndsBuilt

(* A thread that is built takes its session's name, which no other has. *)
LEMMA AttachesBuildKeeps ==
  ASSUME Inv, NEW i \in Slots, Attaches(i), calls[i].kind # "resume"
  PROVE  Inv'
<1>1. PICK r, t, s : r = calls[i].rec /\ t = calls[i].thread /\ s = records[r].sid
  OBVIOUS
<1>0. PICK new \in Records : AttachesTo(i, r, t, s, new)
  BY <1>1, AttachesIs
<1>2. /\ Live(i) /\ calls[i].at = "attach" /\ daemon.wire = "up" /\ s \in daemon.live
      /\ daemon' = Seat(s) /\ told' = [told EXCEPT ![t] = s]
      /\ UNCHANGED <<gone, mixed, counts>>
      /\ s \in SessionIds /\ s \in Names /\ s # 0
      /\ OneRecord(r, new) /\ new.thread = t /\ new.name = s /\ new.sid = s /\ new.attached
      /\ new.lane = records[r].lane /\ new.dead = records[r].dead
      /\ new.gap = records[r].gap /\ new.failed = records[r].failed
      /\ new.stage = records[r].stage
      /\ new.cut = (records[r].cut /\ records[r].lane = "closed")
      /\ new.letGo = records[r].letGo
  BY <1>0 DEF AttachesTo
<1>3. Goes(i, "publish") /\ Adopted(r, s) /\ UNCHANGED <<byThread, channels>>
  <2>1. /\ Goes(i, "publish") /\ Adopted(calls[i].rec, Rec(i).sid)
        /\ UNCHANGED <<byThread, channels>>
    BY DEF Attaches
  <2>2. Adopted(calls[i].rec, Rec(i).sid) = Adopted(r, s)
    BY <1>1 DEF Adopted, Rec
  <2> QED BY <2>1, <2>2
<1>4. /\ calls[i] \in Requests /\ Called(i) /\ r \in DOMAIN records /\ records[r] \in Records
      /\ records[r].thread = t /\ Named(r) /\ t \in Threads /\ r # 0
      /\ Pure(t) => PureCall(i)
  BY <1>1, <1>2, CallIs, RecordsAre DEF Requests, Inv
<1>5. calls[i].kind \in {"start", "fork"} /\ Builds(i) /\ Works(i)
  BY <1>2, <1>4 DEF Called, StepsOf, Builds, Works
<1>6. told[t] = 0 /\ records[r].lane # "none"
  BY <1>1, <1>2, <1>4, <1>5 DEF Called, HasAttached
<1>7. told'[t] = s /\ \A u \in Threads : u # t => told'[u] = told[u]
  BY <1>2, <1>4 DEF Inv, Shape
<1>8. /\ CallsMove({i}) /\ Live(i)' /\ calls'[i].at = "publish" /\ calls'[i].kind = calls[i].kind
      /\ calls'[i].thread = t /\ calls'[i].rec = r /\ calls'[i].adopted = calls[i].adopted
  BY <1>1, <1>2, <1>3, GoesOn DEF Steps
<1>9. /\ DaemonQuiet /\ daemon'.live = daemon.live /\ daemon'.wire = "up"
      /\ daemon'.saved = daemon.saved /\ daemon'.seated = daemon.seated \cup {s}
  BY <1>2, SeatedDaemon
<1>10. /\ records'[r] = new /\ DOMAIN records' = DOMAIN records /\ records' \in Seq(Records)
       /\ \A q \in DOMAIN records : q # r => records'[q] = records[q]
       /\ \A q \in DOMAIN records : records'[q].thread = records[q].thread
                                    /\ records'[q].sid = records[q].sid
                                    /\ records'[q].letGo = records[q].letGo
                                    /\ records'[q].failed = records[q].failed
                                    /\ records'[q].lane = records[q].lane
                                    /\ (records[q].attached => records'[q].attached)
  BY <1>1, <1>2, <1>4 DEF OneRecord
<1>11. /\ byProvider' \in [Names -> Nat] /\ byProvider'[s] = r
       /\ \A n \in Names : n # s =>
            byProvider'[n] = byProvider[n] \/ (byProvider'[n] = 0 /\ byProvider[n] = r)
       /\ \A n \in Names : n # s /\ byProvider'[n] = r => records[r].name # n
  <2> DEFINE old == records[r].name
             freed == IF byProvider[old] = r THEN [byProvider EXCEPT ![old] = 0] ELSE byProvider
  <2>1. byProvider' = [freed EXCEPT ![s] = r]
    BY <1>3 DEF Adopted
  <2>2. byProvider \in [Names -> Nat] /\ old \in Names /\ r \in Nat
    BY <1>4, RecordsAre DEF Inv, Shape, Records
  <2>3. /\ freed \in [Names -> Nat] /\ freed[old] # r
        /\ \A n \in Names : freed[n] = byProvider[n] \/ (freed[n] = 0 /\ byProvider[n] = r)
    BY <1>4, <2>2
  <2> HIDE DEF freed
  <2> QED BY <1>2, <2>1, <2>2, <2>3
(* No record of another thread goes by this session. *)
<1>12. ASSUME NEW q \in DOMAIN records, records[q].name = s PROVE records[q].thread = t
  <2>1. Named(q) /\ records[q] \in Records
    BY RecordsAre DEF Inv, Fit
  <2>2. records[q].sid = s
    BY <1>2, <1>12, <2>1, NamesAssumption DEF Named, Records
  <2> QED BY <1>1, <1>2, <1>4, <2>2 DEF Inv, Owned
<1> USE DEF Inv
<1>13. Shape'
  <2>1. told' \in [Threads -> 0..MaxRequests]
    BY <1>2, <1>4, RecordsAre DEF Shape, SessionIds
  <2> QED BY <1>2, <1>3, <1>8, <1>9, <1>10, <1>11, <2>1 DEF Shape, CallsMove, DaemonQuiet
<1>14. Minting'
  <2>1. Makers' \subseteq Makers
    BY <1>8, MakersKept DEF MakesSession
  <2>2. \A u \in Threads : told'[u] <= daemon'.minted
    <3>1. s <= daemon.minted
      BY <1>1, <1>4 DEF Minting
    <3> QED BY <1>7, <1>9, <3>1 DEF Minting, DaemonQuiet
  <2>3. \A q \in DOMAIN records' : records'[q].sid <= daemon'.minted
    BY <1>9, <1>10 DEF Minting, DaemonQuiet
  <2>4. daemon'.live \subseteq 1..daemon'.minted /\ daemon'.saved \subseteq 1..daemon'.minted
    BY <1>9 DEF Minting, DaemonQuiet
  <2> QED BY <1>2, <1>9, <2>1, <2>2, <2>3, <2>4, MintingKept DEF DaemonQuiet
<1>15. Owned'
  <2>1. ASSUME NEW q \in DOMAIN records', NEW u \in Threads, records'[q].sid = told'[u], told'[u] # 0
        PROVE  records'[q].thread = u
    <3>1. CASE u = t
      <4>1. records[q].sid = records[r].sid /\ records[q].sid # 0
        BY <1>1, <1>2, <1>7, <1>10, <2>1, <3>1
      <4> QED BY <1>4, <1>10, <3>1, <4>1 DEF Owned
    <3>2. CASE u # t
      BY <1>7, <1>10, <2>1, <3>2 DEF Owned
    <3> QED BY <3>1, <3>2
  <2>2. ASSUME NEW u \in Threads, NEW v \in Threads, told'[u] = told'[v], told'[u] # 0
        PROVE  u = v
    <3>1. ASSUME NEW w \in Threads, w # t, told[w] = s PROVE FALSE
      BY <1>1, <1>2, <1>4, <3>1 DEF Owned
    <3> QED BY <1>7, <2>2, <3>1 DEF Owned
  <2>3. \A p, q \in DOMAIN records' :
          records'[p].sid = records'[q].sid /\ records'[p].sid # 0
          => records'[p].thread = records'[q].thread
    BY <1>10 DEF Owned
  <2> QED BY <2>1, <2>2, <2>3 DEF Owned
<1>16. ASSUME NEW q \in DOMAIN records PROVE Named(q)'
  <2>1. Named(q)
    BY DEF Fit
  <2>2. CASE q = r
    BY <1>2, <1>4, <1>6, <1>9, <1>10, <2>2 DEF Named
  <2>3. CASE q # r
    BY <1>9, <1>10, <2>1, <2>3 DEF Named
  <2> QED BY <2>2, <2>3
<1>17. Indexed'
  <2>1. ASSUME NEW n \in Names, byProvider'[n] # 0
        PROVE  byProvider'[n] \in DOMAIN records' /\ records'[byProvider'[n]].name = n
    <3>1. CASE n = s
      BY <1>2, <1>4, <1>10, <1>11, <3>1
    <3>2. CASE n # s
      <4>1. byProvider'[n] = byProvider[n]
        BY <1>11, <2>1, <3>2
      <4>2. byProvider[n] \in DOMAIN records /\ records[byProvider[n]].name = n
        BY <2>1, <4>1 DEF Fit, Indexed
      <4>3. byProvider[n] # r
        BY <1>11, <3>2, <4>1, <4>2
      <4> QED BY <1>10, <4>1, <4>2, <4>3
    <3> QED BY <3>1, <3>2
  <2>2. ASSUME NEW u \in Threads, byThread'[u] # 0
        PROVE  byThread'[u] \in DOMAIN records' /\ records'[byThread'[u]].thread = u
    BY <1>3, <1>10, <2>2 DEF Fit, Indexed
  <2> QED BY <2>1, <2>2 DEF Indexed
<1>18. Called(i)'
  BY <1>2, <1>4, <1>5, <1>7, <1>8, <1>10 DEF Called, StepsOf, HasAttached, MakesSession
<1>19. ASSUME NEW j \in Slots, Live(j), j # i
       PROVE  /\ calls'[j] = calls[j] /\ Called(j)
              /\ calls[j].rec \in DOMAIN records /\ records[calls[j].rec].thread = calls[j].thread
              /\ calls[j].thread \in Threads
              /\ calls[j].thread = t => ~Builds(j)
  <2>1. Called(j) /\ calls[j] \in Requests
    BY <1>19, LiveIsRequest DEF Fit
  <2>2. calls'[j] = calls[j]
    BY <1>8, <1>19 DEF CallsMove
  <2>3. calls[j].thread = t => ~Builds(j)
    BY <1>1, <1>5, <1>19 DEF Fit, OneBuilder
  <2> QED BY <2>1, <2>2, <2>3 DEF Called, Requests
<1>20. ASSUME NEW j \in Slots, Live(j), j # i PROVE Called(j)'
  <2>1. /\ calls'[j] = calls[j] /\ Called(j)
        /\ calls[j].rec \in DOMAIN records /\ records[calls[j].rec].thread = calls[j].thread
        /\ calls[j].thread \in Threads
        /\ calls[j].thread = t => ~Builds(j)
    BY <1>19, <1>20
  <2>2. CASE calls[j].thread = t
    <3>1. calls[j].kind \notin {"start", "fork", "resume"}
      BY <1>20, <2>1, <2>2 DEF Builds
    <3> QED BY <1>2, <1>7, <1>10, <2>1, <2>2, <3>1
            DEF Called, MakesSession, HasAttached, StepsOf, Live
  <2>3. CASE calls[j].thread # t
    <3>1. calls[j].rec # r
      BY <1>4, <2>1, <2>3
    <3>2. records'[calls[j].rec] = records[calls[j].rec] /\ told'[calls[j].thread] = told[calls[j].thread]
      BY <1>7, <1>10, <2>1, <2>3, <3>1
    <3> QED BY <1>10, <2>1, <3>2 DEF Called, MakesSession, Live
  <2> QED BY <2>2, <2>3
<1>21. Fit'
  <2>1. OneBuilder'
    BY <1>8, BuildersKept DEF Fit
  <2>2. \A j \in Slots : Live(j)' => Called(j)'
    BY <1>8, <1>18, <1>20, MovedFrom
  <2> QED BY <1>10, <1>16, <1>17, <2>1, <2>2 DEF Fit
<1>22. Pure(t) => byThread[t] = r
  BY <1>1, <1>4, <1>5 DEF PureCall
<1>23. PureIndex'
  <2>1. ASSUME NEW n \in Names, byProvider'[n] # 0, records'[byProvider'[n]].thread \notin mixed'
        PROVE  byThread'[records'[byProvider'[n]].thread] = byProvider'[n]
    <3>1. CASE n = s
      BY <1>2, <1>3, <1>4, <1>10, <1>11, <1>22, <2>1, <3>1 DEF Pure
    <3>2. CASE n # s
      <4>1. byProvider'[n] = byProvider[n]
        BY <1>11, <2>1, <3>2
      <4>2. byProvider[n] \in DOMAIN records
        BY <2>1, <4>1 DEF Fit, Indexed
      <4> QED BY <1>2, <1>3, <1>10, <2>1, <4>1, <4>2 DEF PureInv, PureIndex, Pure
    <3> QED BY <3>1, <3>2
  <2>2. ASSUME NEW u \in Threads \ mixed, byThread[u] # 0
        PROVE  /\ byProvider'[records'[byThread[u]].name] = byThread[u]
               /\ told'[u] # 0 => records'[byThread[u]].name = told'[u]
               /\ told'[u] = 0 \/ ~records'[byThread[u]].attached => Constructing(u)'
    <3>1. CASE u = t
      BY <1>2, <1>7, <1>10, <1>11, <1>22, <2>2, <3>1 DEF Pure
    <3>2. CASE u # t
      <4>1. PICK q \in DOMAIN records : q = byThread[u] /\ records[q].thread = u
        BY <2>2 DEF Fit, Indexed
      <4>2. q # r /\ records'[q] = records[q] /\ told'[u] = told[u]
        BY <1>4, <1>7, <1>10, <3>2, <4>1
      <4>3. /\ byProvider[records[q].name] = q
            /\ told[u] # 0 => records[q].name = told[u]
            /\ told[u] = 0 \/ ~records[q].attached => Constructing(u)
        BY <2>2, <4>1 DEF PureInv, PureIndex
      <4>4. records[q].name # s /\ records[q].name \in Names
        BY <1>12, <3>2, <4>1, RecordsAre DEF Records
      <4>5. byProvider'[records[q].name] = q
        BY <1>11, <4>2, <4>3, <4>4
      <4>6. Constructing(u) => Constructing(u)'
        BY <1>8, StillConstructing
      <4> QED BY <4>1, <4>2, <4>3, <4>5, <4>6
    <3> QED BY <3>1, <3>2
  <2> QED BY <1>2, <1>3, <2>1, <2>2 DEF PureIndex, Pure
<1>24. PureLane'
  BY <1>2, <1>3, <1>10 DEF PureInv, PureLane, Pure
<1>25. PureWorker'
  BY <1>2, <1>8, PureWorkersKept DEF PureInv
<1>26. PureTurn'
  <2> SUFFICES ASSUME NEW k \in Slots, NEW j \in Slots, Live(k)', calls'[k].kind = "resume",
                      calls'[k].adopted, Live(j)', calls'[j].kind = "turn",
                      calls'[j].thread = calls'[k].thread, calls'[k].thread \notin mixed'
               PROVE  records'[calls'[j].rec].letGo
    BY DEF PureTurn, Pure
  <2>1. Live(k) /\ Live(j) /\ calls'[j].rec = calls[j].rec
    BY <1>8, MovedFrom
  <2>2. records[calls[j].rec].letGo
    BY <1>2, <1>8, <2>1, MovedFrom DEF PureInv, PureTurn, Pure
  <2>3. calls[j].rec \in DOMAIN records
    BY <2>1 DEF Fit, Called
  <2> QED BY <1>10, <2>1, <2>2, <2>3
<1>27. PureChannel'
  BY <1>2, <1>3, <1>10 DEF PureInv, PureChannel
<1>28. PureGone'
  <2> SUFFICES ASSUME NEW u \in gone \ mixed
               PROVE  /\ told'[u] \notin daemon'.live \cup daemon'.saved
                      /\ \A j \in Slots : Works(j)' => calls'[j].thread # u
    BY <1>2 DEF PureGone
  <2>1. \A j \in Slots : Works(j)' => Works(j) /\ calls'[j].thread = calls[j].thread
    BY <1>8, MovedFrom DEF Works
  <2>2. u # t /\ u \in Threads
    BY <1>1, <1>5 DEF PureInv, PureGone, Shape
  <2> QED BY <1>7, <1>9, <2>1, <2>2 DEF PureInv, PureGone
<1>29. PureSeat'
  <2> SUFFICES ASSUME NEW u \in Threads \ mixed, NEW q, q = byThread[u], q # 0 PROVE Hears(q)'
    BY <1>2, <1>3 DEF PureSeat, Hears
  <2>1. q \in DOMAIN records /\ Hears(q)
    BY DEF Fit, Indexed, PureInv, PureSeat
  <2> QED BY <1>2, <1>4, <1>9, <2>1, SeatHears
<1>30. PureCalls'
  <2> SUFFICES ASSUME NEW j \in Slots, Live(j)', calls'[j].thread \notin mixed' PROVE PureCall(j)'
    BY DEF PureCalls, Pure
  <2>1. CASE j = i
    BY <1>2, <1>3, <1>5, <1>8, <1>22, <2>1 DEF PureCall, Pure
  <2>2. CASE j # i
    <3>1. Live(j)
      BY <1>8, MovedFrom
    <3>2. /\ calls'[j] = calls[j] /\ Called(j)
          /\ calls[j].rec \in DOMAIN records /\ records[calls[j].rec].thread = calls[j].thread
          /\ calls[j].thread \in Threads
      BY <1>19, <2>2, <3>1
    <3>3. PureCall(j)
      BY <1>2, <3>1, <3>2 DEF PureInv, PureCalls, Pure
    <3>4. CASE calls[j].thread = t
      <4>1. calls[j].kind = "turn"
        BY <1>1, <1>2, <1>5, <2>2, <3>1, <3>2, <3>4 DEF PureInv, PureWorker, Works, Pure
      <4>2. calls[j].at = "ready"
        BY <3>2, <4>1 DEF Called, StepsOf
      <4> QED BY <1>3, <1>10, <3>2, <3>3, <4>1, <4>2 DEF PureCall
    <3>5. CASE calls[j].thread # t
      <4>1. told'[calls[j].thread] = told[calls[j].thread]
        BY <1>7, <3>2, <3>5
      <4>2. daemon'.live = daemon.live /\ daemon'.saved = daemon.saved
        BY <1>9
      <4> QED BY <1>3, <1>10, <3>2, <3>3, <4>1, <4>2 DEF PureCall
    <3> QED BY <3>4, <3>5
  <2> QED BY <2>1, <2>2
<1> QED BY <1>13, <1>14, <1>15, <1>21, <1>23, <1>24, <1>25, <1>26, <1>27, <1>28, <1>29, <1>30
     DEF PureInv

-----------------------------------------------------------------------------
(* A request that ends and drops its thread's record: the record's lane no   *)
(* longer listens, or failed, and turns still under way saw it let go.       *)
LEMMA DropKeeps ==
  ASSUME Inv, NEW i \in Slots, NEW r, NEW t, r = calls[i].rec, t = calls[i].thread,
         Works(i), Ends(i), TableGrows, Dropped(t), UNCHANGED mixed,
         gone \subseteq gone', gone' \subseteq gone \cup {t},
         t \in gone' /\ Pure(t) => told[t] \notin daemon'.live \cup daemon'.saved,
         Shape', Minting', DaemonMoves, channels' \subseteq channels,
         \A q \in DOMAIN records : Named(q)',
         \A q \in DOMAIN records : Hears(q) /\ q # r => Hears(q)',
         \A q \in DOMAIN records : records'[q].lane = "open" => records[q].lane = "open",
         Pure(t) => records'[r].failed \/ records'[r].lane # "open",
         Pure(t) /\ t \in channels' => records'[r].failed,
         \A j \in Slots : Live(j) /\ calls[j].kind = "turn" /\ calls[j].thread = t /\ Pure(t)
                          => records'[calls[j].rec].letGo
  PROVE  Inv'
<1>1. /\ Live(i) /\ calls[i] \in Requests /\ Called(i) /\ r \in DOMAIN records
      /\ records[r].thread = t /\ t \in Threads /\ r # 0 /\ calls[i].kind # "turn"
      /\ Pure(t) => PureCall(i)
  <2>1. Live(i) /\ calls[i].kind # "turn"
    BY DEF Works
  <2> QED BY <2>1, CallIs, RecordsAre DEF Requests, Inv
<1>2. CallsMove({i}) /\ ~Live(i)' /\ ~MakesSession(i)'
  BY <1>1, EndsOn
<1>3. Pure(t) => byThread[t] = r
  BY <1>1 DEF PureCall
<1>4. /\ DOMAIN records' = DOMAIN records /\ told' = told
      /\ \A q \in DOMAIN records : Grown(q)
  BY DEF TableGrows
<1> USE DEF Inv
<1>5. /\ byThread'[t] = 0 /\ \A u \in Threads : u # t => byThread'[u] = byThread[u]
      /\ byThread' \in [Threads -> Nat]
  BY <1>1 DEF Dropped, DroppedRecord, Shape
(* The provider index gives up the dropped record only, under its name. *)
<1>6. \A n \in Names : byProvider'[n] = byProvider[n]
                       \/ (byProvider'[n] = 0 /\ byProvider[n] = byThread[t])
  BY <1>1 DEF Dropped, DroppedRecord, Shape
<1>7. \A n \in Names : byProvider'[n] # 0 => byProvider'[n] = byProvider[n] /\ byProvider[n] # byThread[t]
  <2> SUFFICES ASSUME NEW n \in Names, byProvider'[n] # 0, byProvider[n] = byThread[t]
               PROVE  FALSE
    BY <1>6
  <2>1. byProvider[n] # 0 /\ byThread[t] # 0
    BY <1>6
  <2>2. records[byThread[t]].name = n
    BY <2>1 DEF Fit, Indexed
  <2> QED BY <2>1, <2>2 DEF Dropped, DroppedRecord, Shape
<1>8. Owned'
  BY OwnedKept
<1>9. Indexed'
  <2>1. ASSUME NEW n \in Names, byProvider'[n] # 0
        PROVE  byProvider'[n] \in DOMAIN records' /\ records'[byProvider'[n]].name = n
    <3>1. byProvider'[n] \in DOMAIN records /\ records[byProvider'[n]].name = n
      BY <1>7, <2>1 DEF Fit, Indexed
    <3> QED BY <1>4, <3>1 DEF Grown
  <2>2. ASSUME NEW u \in Threads, byThread'[u] # 0
        PROVE  byThread'[u] \in DOMAIN records' /\ records'[byThread'[u]].thread = u
    <3>1. byThread'[u] \in DOMAIN records /\ records[byThread'[u]].thread = u
      BY <1>5, <2>2 DEF Fit, Indexed
    <3> QED BY <1>4, <3>1 DEF Grown
  <2> QED BY <2>1, <2>2 DEF Indexed
<1>10. Fit'
  BY <1>2, <1>9, FitKept
<1>11. PureIndex'
  <2>1. ASSUME NEW n \in Names, byProvider'[n] # 0, records'[byProvider'[n]].thread \notin mixed'
        PROVE  byThread'[records'[byProvider'[n]].thread] = byProvider'[n]
    <3>1. PICK q : q = byProvider'[n]
      OBVIOUS
    <3>2. q = byProvider[n] /\ q # 0 /\ q # byThread[t]
      BY <1>7, <2>1, <3>1
    <3>3. q \in DOMAIN records /\ Grown(q) /\ records[q].thread \in Threads
      BY <1>4, <3>2, RecordsAre DEF Fit, Indexed, Records
    <3>4. byThread[records[q].thread] = q
      BY <2>1, <3>1, <3>2, <3>3 DEF PureInv, PureIndex, Pure, Grown
    <3> QED BY <1>5, <3>1, <3>2, <3>3, <3>4 DEF Grown
  <2>2. ASSUME NEW u \in Threads \ mixed, byThread'[u] # 0
        PROVE  /\ byProvider'[records'[byThread'[u]].name] = byThread'[u]
               /\ told[u] # 0 => records'[byThread'[u]].name = told[u]
               /\ told[u] = 0 \/ ~records'[byThread'[u]].attached => Constructing(u)'
    <3>1. PICK q \in DOMAIN records :
            q = byThread'[u] /\ q = byThread[u] /\ q # 0 /\ records[q].thread = u /\ u # t
      BY <1>5, <2>2 DEF Fit, Indexed
    <3>2. /\ byProvider[records[q].name] = q
          /\ told[u] # 0 => records[q].name = told[u]
          /\ told[u] = 0 \/ ~records[q].attached => Constructing(u)
      BY <2>2, <3>1 DEF PureInv, PureIndex
    <3>3. q # byThread[t]
      BY <1>1, <3>1 DEF Fit, Indexed
    <3>4. byProvider'[records[q].name] = q
      BY <1>6, <3>1, <3>2, <3>3, RecordsAre DEF Records
    <3>5. Constructing(u) => Constructing(u)'
      BY <1>2, <3>1, StillConstructing
    <3>6. Grown(q)
      BY <1>4
    <3> QED BY <3>1, <3>2, <3>4, <3>5, <3>6 DEF Grown
  <2> QED BY <1>4, <2>1, <2>2 DEF PureIndex, Pure
<1>12. PureLane'
  <2> SUFFICES ASSUME NEW q \in DOMAIN records, records'[q].thread \notin mixed,
                      records'[q].lane = "open", ~records'[q].failed
               PROVE  byThread'[records'[q].thread] = q
    BY <1>4 DEF PureLane, Pure
  <2>1. Grown(q) /\ records[q].thread \in Threads
    BY <1>4, RecordsAre DEF Records
  <2>2. byThread[records[q].thread] = q
    BY <2>1 DEF PureInv, PureLane, Pure, Grown
  <2>3. records[q].thread # t
    BY <1>3, <2>1, <2>2 DEF Pure, Grown
  <2> QED BY <1>5, <2>1, <2>2, <2>3 DEF Grown
<1>13. PureWorker'
  BY <1>2, PureWorkersKept DEF PureInv
<1>14. PureTurn'
  <2> SUFFICES ASSUME NEW k \in Slots, NEW j \in Slots, Live(k)', calls'[k].kind = "resume",
                      calls'[k].adopted, Live(j)', calls'[j].kind = "turn",
                      calls'[j].thread = calls'[k].thread, calls'[k].thread \notin mixed'
               PROVE  records'[calls'[j].rec].letGo
    BY DEF PureTurn, Pure
  <2>1. Live(k) /\ Live(j) /\ calls'[j].rec = calls[j].rec
    BY <1>2, MovedFrom
  <2>2. records[calls[j].rec].letGo
    BY <1>2, <2>1, MovedFrom DEF PureInv, PureTurn, Pure
  <2>3. calls[j].rec \in DOMAIN records
    BY <2>1 DEF Fit, Called
  <2> QED BY <1>4, <2>1, <2>2, <2>3 DEF Grown
<1>15. PureChannel'
  <2> SUFFICES ASSUME NEW u \in channels', u \notin mixed, byThread'[u] = 0
               PROVE  \E q \in DOMAIN records : records'[q].thread = u /\ records'[q].failed
    BY <1>4 DEF PureChannel
  <2>1. CASE u = t
    BY <1>1, <1>4, <2>1 DEF Grown, Pure
  <2>2. CASE u # t
    <3>1. byThread[u] = 0 /\ u \in channels
      BY <1>5, <2>2 DEF Shape
    <3>2. PICK q \in DOMAIN records : records[q].thread = u /\ records[q].failed
      BY <3>1 DEF PureInv, PureChannel
    <3> QED BY <1>4, <3>2 DEF Grown
  <2> QED BY <2>1, <2>2
<1>16. PureGone'
  <2> SUFFICES ASSUME NEW u \in gone' \ mixed
               PROVE  /\ told[u] \notin daemon'.live \cup daemon'.saved
                      /\ \A j \in Slots : Works(j)' => calls'[j].thread # u
    BY <1>4 DEF PureGone
  <2>1. ASSUME NEW j \in Slots, Works(j)'
        PROVE  Works(j) /\ calls'[j].thread = calls[j].thread /\ j # i
    BY <1>2, <2>1, MovedFrom DEF Works
  <2>2. CASE u = t
    BY <1>1, <2>1, <2>2 DEF PureInv, PureWorker, Pure
  <2>3. CASE u # t
    <3>1. u \in gone /\ u \in Threads
      BY <2>3 DEF Shape
    <3> QED BY <2>1, <3>1, ToldIsOld DEF PureInv, PureGone
  <2> QED BY <2>2, <2>3
<1>17. PureSeat'
  <2> SUFFICES ASSUME NEW u \in Threads \ mixed, NEW q, q = byThread'[u], q # 0 PROVE Hears(q)'
    BY DEF PureSeat, Hears
  <2>1. q \in DOMAIN records /\ Hears(q) /\ records[q].thread = u /\ u # t
    BY <1>5 DEF Fit, Indexed, PureInv, PureSeat
  <2> QED BY <1>1, <2>1
<1>18. PureCalls'
  <2> SUFFICES ASSUME NEW j \in Slots, Live(j)', calls'[j].thread \notin mixed' PROVE PureCall(j)'
    BY DEF PureCalls, Pure
  <2>1. j # i /\ Live(j) /\ calls'[j] = calls[j]
    <3>1. j # i
      BY <1>2
    <3>2. calls'[j] = calls[j]
      BY <1>2, <3>1 DEF CallsMove
    <3> QED BY <3>1, <3>2 DEF Live
  <2>2. Called(j) /\ calls[j].thread \in Threads /\ PureCall(j)
    BY <2>1, LiveIsRequest DEF Fit, PureInv, PureCalls, Pure, Requests
  <2>3. calls[j].rec \in DOMAIN records /\ Grown(calls[j].rec)
    BY <1>4, <2>2 DEF Called
  <2>4. CASE calls[j].thread = t
    <3>1. calls[j].kind = "turn"
      BY <2>1, <2>4 DEF PureInv, PureWorker, Works, Pure
    <3>2. calls[j].at = "ready"
      BY <2>2, <3>1 DEF Called, StepsOf
    <3>3. records'[calls[j].rec].letGo
      BY <2>1, <2>4, <3>1 DEF Pure
    <3> QED BY <2>1, <2>2, <2>3, <3>1, <3>2, <3>3 DEF PureCall, Grown
  <2>5. CASE calls[j].thread # t
    <3>1. byThread'[calls[j].thread] = byThread[calls[j].thread]
      BY <1>5, <2>2, <2>5
    <3>2. records[calls[j].rec].lane # "open" => records'[calls[j].rec].lane # "open"
      BY <2>3
    <3>3. /\ told[calls[j].thread] \notin daemon.live => told[calls[j].thread] \notin daemon'.live
          /\ told[calls[j].thread] \notin daemon.saved => told[calls[j].thread] \notin daemon'.saved
      BY <2>2, ToldIsOld
    <3>4. calls[j].thread \notin channels => calls[j].thread \notin channels'
      OBVIOUS
    <3>5. calls[j].kind = "turn" => calls[j].at = "ready"
      BY <2>2 DEF Called, StepsOf
    <3> QED BY <1>4, <2>1, <2>2, <2>3, <3>1, <3>2, <3>3, <3>4, <3>5 DEF PureCall, Grown
  <2> QED BY <2>4, <2>5
<1> QED BY <1>8, <1>10, <1>11, <1>12, <1>13, <1>14, <1>15, <1>16, <1>17, <1>18 DEF PureInv

LEMMA DroppedIndices ==
  ASSUME Shape, NEW t, Dropped(t)
  PROVE  byThread' \in [Threads -> Nat] /\ byProvider' \in [Names -> Nat]
<1>1. PICK n : n = records[byThread[t]].name
  OBVIOUS
<1>2. byProvider' = byProvider \/ byProvider' = [byProvider EXCEPT ![n] = 0]
  BY <1>1 DEF Dropped, DroppedRecord
<1>3. byThread' = [byThread EXCEPT ![t] = 0]
  BY DEF Dropped, DroppedRecord
<1>4. byThread' \in [Threads -> Nat]
  BY <1>3 DEF Shape
<1>5. byProvider' \in [Names -> Nat]
  <2>1. byProvider \in [Names -> Nat]
    BY DEF Shape
  <2>2. CASE byProvider' = [byProvider EXCEPT ![n] = 0]
    BY <2>1, <2>2
  <2> QED BY <1>2, <2>1, <2>2
<1> QED BY <1>4, <1>5

LEMMA LetsGoKeeps ==
  ASSUME Inv, NEW i \in Slots, LetsGo(i)
  PROVE  Inv'
<1>1. PICK r, t : r = calls[i].rec /\ t = calls[i].thread
  OBVIOUS
<1>2. /\ Live(i) /\ calls[i].at = "closed" /\ Dropped(t) /\ Ends(i)
      /\ gone' = IF calls[i].kind = "discard" THEN gone \cup {t} ELSE gone
      /\ UNCHANGED <<records, channels, daemon, told, mixed, counts>>
  BY <1>1 DEF LetsGo
<1>3. /\ calls[i] \in Requests /\ Called(i) /\ r \in DOMAIN records
      /\ records[r].thread = t /\ t \in Threads
      /\ Pure(t) => PureCall(i)
  BY <1>1, <1>2, CallIs DEF Requests
<1>4. calls[i].kind \in {"release", "discard"} /\ records[r].letGo /\ Works(i)
  BY <1>1, <1>2, <1>3 DEF Called, StepsOf, Works
<1>5. CallsMove({i}) /\ ~Live(i)' /\ ~MakesSession(i)'
  BY <1>2, EndsOn
<1>6. TableGrows
  BY <1>2, RecordsStay DEF Inv
<1>7. /\ gone \subseteq gone' /\ gone' \subseteq gone \cup {t} /\ gone' \subseteq Threads
  BY <1>2, <1>3 DEF Inv, Shape
<1>8. t \in gone' /\ Pure(t) => told[t] \notin daemon'.live \cup daemon'.saved
  <2>1. Pure(t) /\ t \in gone => FALSE
    BY <1>1, <1>4 DEF Inv, PureInv, PureGone, Pure
  <2>2. t \in gone' /\ Pure(t) => calls[i].kind = "discard"
    BY <1>2, <2>1
  <2> QED BY <1>1, <1>2, <1>3, <2>2 DEF PureCall
<1>9. Shape'
  <2>1. byThread' \in [Threads -> Nat] /\ byProvider' \in [Names -> Nat]
    BY <1>2, DroppedIndices DEF Inv
  <2> QED BY <1>2, <1>5, <1>7, <2>1 DEF Inv, Shape, CallsMove
<1>10. Minting'
  <2>1. Makers' \subseteq Makers
    BY <1>5, MakersKept DEF Inv
  <2> QED BY <1>2, <1>9, <2>1, MintingKept DEF Inv, Shape, Minting
<1>11. DaemonMoves
  BY <1>2 DEF DaemonMoves, Inv, Shape
<1>12. \A q \in DOMAIN records : Named(q)'
  BY <1>2 DEF Inv, Fit, Named
<1>13. \A q \in DOMAIN records : Hears(q) /\ q # r => Hears(q)'
  BY <1>2 DEF Hears
<1>14. Pure(t) => records'[r].lane # "open" /\ t \notin channels'
  BY <1>1, <1>2, <1>3 DEF PureCall
<1>15. ASSUME NEW j \in Slots, Live(j), calls[j].kind = "turn", calls[j].thread = t, Pure(t)
       PROVE  records'[calls[j].rec].letGo
  <2>1. PureCall(j) /\ byThread[t] = r
    BY <1>1, <1>3, <1>4, <1>15, CallIs DEF PureCall
  <2>2. records[calls[j].rec].letGo
    BY <1>4, <1>15, <2>1 DEF PureCall
  <2> QED BY <1>2, <2>2
<1>16. channels' \subseteq channels /\ mixed' = mixed
       /\ \A q \in DOMAIN records : records'[q].lane = "open" => records[q].lane = "open"
  BY <1>2
<1> QED BY <1>1, <1>2, <1>4, <1>6, <1>7, <1>8, <1>9, <1>10, <1>11, <1>12, <1>13, <1>14, <1>15, <1>16,
           DropKeeps

-----------------------------------------------------------------------------
(* A construction that fails. *)

(* The daemon refused the command, or carried it out all the same. *)
LEMMA FailsDaemon ==
  ASSUME Inv, NEW i \in Slots, Fails(i), calls[i].at \in {"branch", "create", "attach"}
  PROVE  /\ daemon' \in Daemons /\ DaemonMoves /\ daemon'.wire = daemon.wire
         /\ daemon'.minted = daemon.minted
            \/ (daemon'.minted = daemon.minted + 1 /\ calls[i].at = "create")
         /\ daemon'.live \subseteq 1..daemon'.minted /\ daemon'.saved \subseteq 1..daemon'.minted
         /\ daemon'.seated \subseteq daemon'.live /\ daemon.seated \subseteq daemon'.seated
         /\ \A x \in Nat : x <= daemon.minted /\ x \in daemon'.live => x \in daemon.live
         /\ calls[i].at = "attach" => DaemonQuiet
<1>1. Live(i) /\ \/ daemon' = daemon
                 \/ calls[i].at = "create" /\ daemon' = Minted
                 \/ calls[i].at = "attach" /\ Rec(i).sid \in daemon.live /\ daemon' = Seat(Rec(i).sid)
  BY DEF Fails, CarriedOut
<1>2. /\ daemon \in Daemons /\ daemon.minted \in Nat
      /\ daemon.live \subseteq 1..daemon.minted /\ daemon.saved \subseteq 1..daemon.minted
      /\ daemon.seated \subseteq daemon.live
  BY DEF Inv, Shape, Minting, Daemons
<1>3. CASE daemon' = daemon
  BY <1>2, <1>3 DEF DaemonMoves, DaemonQuiet
<1>4. CASE calls[i].at = "create" /\ daemon' = Minted
  <2>1. MakesSession(i)
    BY <1>1, <1>4, CallIs DEF Called, StepsOf, MakesSession
  <2>2. /\ daemon' \in Daemons /\ daemon'.minted = daemon.minted + 1
        /\ daemon'.live = daemon.live \cup {daemon.minted + 1}
        /\ daemon'.seated = daemon.seated /\ daemon'.wire = daemon.wire /\ DaemonMoves
        /\ daemon'.live \subseteq 1..daemon'.minted /\ daemon'.saved \subseteq 1..daemon'.minted
        /\ daemon'.seated \subseteq daemon'.live
    BY <1>4, <2>1, MintedDaemon
  <2>3. \A x \in Nat : x <= daemon.minted /\ x \in daemon'.live => x \in daemon.live
    BY <1>2, <2>2
  <2> QED BY <1>4, <2>2, <2>3
<1>5. CASE calls[i].at = "attach" /\ Rec(i).sid \in daemon.live /\ daemon' = Seat(Rec(i).sid)
  <2>1. PICK s \in daemon.live : daemon' = Seat(s)
    BY <1>5
  <2>2. /\ DaemonQuiet /\ daemon'.live = daemon.live /\ daemon'.saved = daemon.saved
        /\ daemon'.wire = daemon.wire /\ daemon'.seated = daemon.seated \cup {s}
    BY <2>1, SeatedDaemon
  <2>3. daemon' \in Daemons /\ daemon'.minted = daemon.minted /\ daemon'.seated \subseteq daemon'.live
    BY <2>2 DEF DaemonQuiet
  <2> QED BY <1>2, <2>2, <2>3 DEF DaemonMoves
<1> QED BY <1>1, <1>3, <1>4, <1>5

LEMMA ConstructionFailsKeeps ==
  ASSUME Inv, NEW i \in Slots, Fails(i), ConstructionFails(i, Rec(i)),
         calls[i].at \in {"branch", "create", "attach"}
  PROVE  Inv'
<1>1. PICK r, t : r = calls[i].rec /\ t = calls[i].thread
  OBVIOUS
<1> DEFINE new == [records[r] EXCEPT !.failed = TRUE]
<1>2. /\ Live(i) /\ records' = [records EXCEPT ![r] = new] /\ Ends(i)
      /\ channels' \subseteq channels /\ (calls[i].kind = "resume" => channels' = channels)
      /\ \/ (calls[i].kind # "resume" \/ calls[i].adopted) /\ Dropped(t)
         \/ calls[i].kind = "resume" /\ ~calls[i].adopted /\ IndicesSame
      /\ UNCHANGED <<told, gone, mixed>> /\ (UNCHANGED counts \/ Faulty)
  BY <1>1 DEF Fails, ConstructionFails, SetRec, Rec, IndicesRest, IndicesSame
<1>3. /\ calls[i] \in Requests /\ Called(i) /\ r \in DOMAIN records /\ records[r] \in Records
      /\ records[r].thread = t /\ t \in Threads
      /\ Pure(t) => PureCall(i)
  BY <1>1, <1>2, CallIs DEF Requests
<1>4. /\ calls[i].kind \in {"start", "fork", "resume"} /\ Builds(i) /\ Works(i)
      /\ calls[i].kind = "resume" => calls[i].at = "attach"
      /\ calls[i].kind # "resume" => told[t] = 0
      /\ calls[i].at = "create" => i \in Makers
  BY <1>1, <1>2, <1>3 DEF Called, StepsOf, Builds, Works, HasAttached, Makers, MakesSession
<1>5. OneRecord(r, new) /\ new.failed /\ new.thread = t /\ new.name = records[r].name
      /\ new.sid = records[r].sid /\ new.attached = records[r].attached
      /\ new.lane = records[r].lane /\ new.dead = records[r].dead /\ new.gap = records[r].gap
      /\ new.letGo = records[r].letGo /\ new.stage = records[r].stage
      /\ new.cut = records[r].cut
  <2>1. /\ new \in Records /\ new.failed /\ new.thread = t /\ new.name = records[r].name
        /\ new.sid = records[r].sid /\ new.attached = records[r].attached
        /\ new.lane = records[r].lane /\ new.dead = records[r].dead /\ new.gap = records[r].gap
        /\ new.letGo = records[r].letGo /\ new.stage = records[r].stage
        /\ new.cut = records[r].cut
    BY <1>3 DEF Records
  <2> HIDE DEF new
  <2>2. OneRecord(r, new)
    BY <1>2, <1>3, <2>1, RecordSet DEF Inv
  <2> QED BY <2>1, <2>2
<1> HIDE DEF new
<1>6. TableGrows
  BY <1>2, <1>3, <1>5, OneGrows DEF Inv
<1>7. /\ records'[r].failed /\ DOMAIN records' = DOMAIN records
      /\ \A q \in DOMAIN records : /\ records'[q].thread = records[q].thread
                                   /\ records'[q].name = records[q].name
                                   /\ records'[q].sid = records[q].sid
                                   /\ records'[q].attached = records[q].attached
                                   /\ records'[q].lane = records[q].lane
                                   /\ records'[q].dead = records[q].dead
                                   /\ records'[q].gap = records[q].gap
                                   /\ records'[q].letGo = records[q].letGo
                                   /\ records'[q].stage = records[q].stage
                                   /\ records'[q].cut = records[q].cut
  BY <1>3, <1>5 DEF OneRecord
<1>8. CallsMove({i}) /\ ~Live(i)' /\ ~MakesSession(i)'
  BY <1>2, EndsOn
<1>9. /\ daemon' \in Daemons /\ DaemonMoves /\ daemon'.wire = daemon.wire
      /\ daemon'.minted = daemon.minted
         \/ (daemon'.minted = daemon.minted + 1 /\ calls[i].at = "create")
      /\ daemon'.live \subseteq 1..daemon'.minted /\ daemon'.saved \subseteq 1..daemon'.minted
      /\ daemon'.seated \subseteq daemon'.live /\ daemon.seated \subseteq daemon'.seated
      /\ \A x \in Nat : x <= daemon.minted /\ x \in daemon'.live => x \in daemon.live
      /\ calls[i].at = "attach" => DaemonQuiet
  BY FailsDaemon
<1>10. CountsKept
  BY <1>2, FaultyCounts, SameCounts DEF Inv
<1>11. ASSUME NEW q \in DOMAIN records
       PROVE  records[q].sid \in daemon'.live => records[q].sid \in daemon.live
  <2>1. records[q].sid \in Nat /\ records[q].sid <= daemon.minted
    BY RecordsAre DEF Inv, Minting, Records
  <2> QED BY <1>9, <2>1
<1>12. ASSUME NEW q \in DOMAIN records PROVE Named(q)'
  <2>1. Named(q)
    BY DEF Inv, Fit
  <2> QED BY <1>7, <1>11, <2>1 DEF Named
<1>13. ASSUME NEW q \in DOMAIN records, Hears(q) PROVE Hears(q)'
  BY <1>7, <1>9, <1>11, <1>13 DEF Hears
<1>14. CASE calls[i].kind = "resume" /\ ~calls[i].adopted /\ IndicesSame
  <2>1. EndsBuilt(i)
    <3> SUFFICES ASSUME Pure(t) PROVE told[t] # 0 /\ records'[r].attached
      BY <1>1 DEF EndsBuilt
    <3>1. records[r].attached
      BY <1>1, <1>3, <1>14 DEF PureCall
    <3>2. told[t] # 0
      BY <1>1, <1>3, <1>4, <1>14 DEF Called
    <3> QED BY <1>3, <1>7, <3>1, <3>2
  <2>2. OpensForBuilders({i}) /\ channels' \subseteq Threads
    BY <1>2, <1>7 DEF OpensForBuilders, Inv, Shape
  <2>3. PureSeat'
    BY <1>2, <1>13, <1>14, SeatKept DEF Inv, Fit, PureInv
  <2> QED BY <1>2, <1>4, <1>6, <1>8, <1>9, <1>10, <1>12, <1>14, <2>1, <2>2, <2>3, InvKept
<1>15. CASE (calls[i].kind # "resume" \/ calls[i].adopted) /\ Dropped(t)
  <2>1. Shape'
    <3>1. byThread' \in [Threads -> Nat] /\ byProvider' \in [Names -> Nat]
      BY <1>15, DroppedIndices DEF Inv
    <3> QED BY <1>2, <1>6, <1>8, <1>9, <1>10, <3>1 DEF Inv, Shape, CallsMove, TableGrows, CountsKept
  <2>2. Minting'
    <3>1. Makers' \subseteq Makers
      BY <1>8, MakersKept DEF Inv
    <3>2. daemon'.minted = daemon.minted + 1 => \E j \in Makers : j \notin Makers'
      BY <1>4, <1>8, <1>9 DEF Makers, Inv, Shape, Daemons
    <3>3. \A u \in Threads : told'[u] <= daemon'.minted
      BY <1>2, <1>9 DEF Inv, Minting, Shape, Daemons
    <3>4. \A q \in DOMAIN records' : records'[q].sid <= daemon'.minted
      <4> TAKE q \in DOMAIN records'
      <4>4. q \in DOMAIN records
        BY <1>7
      <4>5. records[q] \in Records
        BY <4>4, RecordsAre DEF Inv
      <4>6. records[q].sid \in Nat
        BY <4>5 DEF Records
      <4>7. records[q].sid <= daemon.minted
        BY <4>4 DEF Inv, Minting
      <4>8. daemon.minted \in Nat
        BY DEF Inv, Shape, Daemons
      <4>1. records[q].sid \in Nat /\ records[q].sid <= daemon.minted /\ daemon.minted \in Nat
        BY <4>6, <4>7, <4>8
      <4>2. daemon'.minted = daemon.minted \/ daemon'.minted = daemon.minted + 1
        BY <1>9
      <4>3. q \in DOMAIN records /\ records'[q].sid = records[q].sid
        BY <1>7
      <4> QED BY <4>1, <4>2, <4>3
    <3> QED BY <1>9, <1>10, <3>1, <3>2, <3>3, <3>4, MintingKept DEF Inv, CountsKept
  <2>3. t \in gone' /\ Pure(t) => FALSE
    BY <1>1, <1>2, <1>4 DEF Inv, PureInv, PureGone, Pure
  <2>4. ASSUME NEW j \in Slots, Live(j), calls[j].kind = "turn", calls[j].thread = t, Pure(t)
        PROVE  records'[calls[j].rec].letGo
    <3>1. Called(j) /\ calls[j].rec \in DOMAIN records
      BY <2>4, CallIs
    <3>2. calls[i].kind = "resume" /\ calls[i].adopted
      BY <1>4, <1>15, <2>4, <3>1 DEF Called
    <3>3. records[calls[j].rec].letGo
      BY <1>1, <1>2, <2>4, <3>2 DEF Inv, PureInv, PureTurn
    <3> QED BY <1>7, <3>1, <3>3
  <2>5. /\ gone \subseteq gone' /\ gone' \subseteq gone \cup {t} /\ mixed' = mixed
        /\ channels' \subseteq channels
    BY <1>2
  <2>6. \A q \in DOMAIN records : records'[q].lane = "open" => records[q].lane = "open"
    BY <1>7
  <2> QED BY <1>1, <1>2, <1>4, <1>6, <1>7, <1>9, <1>12, <1>13, <1>15, <2>1, <2>2, <2>3, <2>4, <2>5, <2>6,
             DropKeeps
<1> QED BY <1>2, <1>14, <1>15

LEMMA FailsKeeps ==
  ASSUME Inv, NEW i \in Slots, Fails(i)
  PROVE  Inv'
<1>1. \/ calls[i].at \in {"branch", "create", "attach"} /\ ConstructionFails(i, Rec(i))
      \/ calls[i].at \in {"kill", "delete"} /\ DestroyFails(i)
      \/ calls[i].at = "ready" /\ Ends(i) /\ UNCHANGED <<table, channels>>
  BY DEF Fails
<1>2. CASE calls[i].at \in {"branch", "create", "attach"} /\ ConstructionFails(i, Rec(i))
  BY <1>2, ConstructionFailsKeeps
<1>3. CASE calls[i].at \in {"kill", "delete"} /\ DestroyFails(i)
  BY <1>3, DestroyFailsKeeps
<1>4. CASE calls[i].at = "ready" /\ Ends(i) /\ UNCHANGED <<table, channels>>
  <2>1. /\ Live(i) /\ UNCHANGED <<daemon, told, gone, mixed>>
        /\ UNCHANGED counts \/ Faulty
    BY <1>4 DEF Fails, CarriedOut
  <2>2. CountsKept
    BY <2>1, SameCounts, FaultyCounts DEF Inv
  <2>3. Called(i)
    BY <2>1, CallIs
  <2>4. CallsMove({i}) /\ ~Live(i)' /\ ~MakesSession(i)'
    BY <1>4, <2>1, EndsOn
  <2>5. EndsBuilt(i)
    BY <1>4, <2>1, <2>3 DEF EndsBuilt, Builds, Called, StepsOf, HasAttached, table
  <2>6. channels' \subseteq Threads /\ \A t \in channels' : t \in channels
    BY <1>4 DEF Inv, Shape
  <2> QED BY <1>4, <2>1, <2>2, <2>4, <2>5, <2>6, QuietCall, SameDaemon DEF Inv
<1> QED BY <1>1, <1>2, <1>3, <1>4

-----------------------------------------------------------------------------
(* A process begins with an empty table and no request in flight. *)

LEMMA NobodyMakes ==
  ASSUME \A i \in Slots : ~Live(i)
  PROVE  Cardinality(Makers) = 0 /\ Makers = {}
<1>1. Makers = {}
  BY DEF Makers, MakesSession
<1> QED BY <1>1, FS_EmptySet

LEMMA EmptyTable ==
  ASSUME records = <<>>, byThread = [t \in Threads |-> 0], byProvider = [n \in Names |-> 0],
         channels = {}, \A i \in Slots : ~Live(i)
  PROVE  Fit
<1>1. DOMAIN records = {}
  BY EmptySeq
<1>2. \A n \in Names : byProvider[n] = 0
  OBVIOUS
<1>3. \A t \in Threads : byThread[t] = 0
  OBVIOUS
<1> QED BY <1>1, <1>2, <1>3 DEF Fit, Indexed, OneBuilder, Builds

LEMMA EmptyPure ==
  ASSUME records = <<>>, byThread = [t \in Threads |-> 0], byProvider = [n \in Names |-> 0],
         channels = {}, \A i \in Slots : ~Live(i),
         \A t \in gone \ mixed : told[t] \notin daemon.live \cup daemon.saved
  PROVE  PureInv
<1>1. DOMAIN records = {}
  BY EmptySeq
<1>2. \A n \in Names : byProvider[n] = 0
  OBVIOUS
<1>3. \A t \in Threads : byThread[t] = 0
  OBVIOUS
<1>4. PureIndex /\ PureLane /\ PureSeat /\ PureChannel
  BY <1>1, <1>2, <1>3 DEF PureIndex, PureLane, PureSeat, PureChannel
<1>5. PureWorker /\ PureTurn /\ PureCalls /\ PureGone
  BY DEF PureWorker, Works, PureTurn, PureCalls, PureGone
<1> QED BY <1>4, <1>5 DEF PureInv

LEMMA InitInv ==
  ASSUME Init
  PROVE  Inv
<1>1. \A i \in Slots : ~Live(i)
  BY DEF Init, Live, Idle
<1>2. Shape
  <2>1. records \in Seq(Records)
    BY EmptySeq DEF Init
  <2>2. daemon \in Daemons
    BY DEF Init, Daemons
  <2> QED BY <2>1, <2>2, BridgeAssumption DEF Init, Shape
<1>3. Minting
  <2>1. DOMAIN records = {}
    BY EmptySeq DEF Init
  <2> QED BY <1>1, <2>1, NobodyMakes, BridgeAssumption DEF Init, Minting
<1>4. DOMAIN records = {}
  BY EmptySeq DEF Init
<1>5. Owned
  BY <1>4 DEF Owned, Init
<1>6. Fit
  BY <1>1, EmptyTable DEF Init
<1>7. PureInv
  BY <1>1, EmptyPure DEF Init
<1> QED BY <1>2, <1>3, <1>5, <1>6, <1>7 DEF Inv

LEMMA ProcessEndsKeeps ==
  ASSUME Inv, ProcessEnds
  PROVE  Inv'
<1>1. /\ records' = <<>> /\ channels' = {} /\ calls' = [i \in Slots |-> Idle]
      /\ byThread' = [t \in Threads |-> 0] /\ byProvider' = [n \in Names |-> 0]
      /\ daemon' = [daemon EXCEPT !.seated = {}, !.wire = "up"]
      /\ UNCHANGED <<told, gone, mixed>>
  BY DEF ProcessEnds, Cleared, Empty
<1>2. CountsKept
  BY FaultyCounts DEF ProcessEnds, Inv
<1>3. (\A i \in Slots : ~Live(i))'
  BY <1>1 DEF Live, Idle
<1>4. /\ daemon' \in Daemons /\ daemon'.live = daemon.live /\ daemon'.saved = daemon.saved
      /\ daemon'.minted = daemon.minted /\ daemon'.seated = {}
  BY <1>1 DEF Inv, Shape, Daemons
<1>5. DOMAIN records' = {}
  BY <1>1, EmptySeq
<1>6. Shape'
  <2>1. records' \in Seq(Records)
    BY <1>1, EmptySeq
  <2> QED BY <1>1, <1>2, <1>4, <2>1 DEF Inv, Shape, CountsKept
<1>7. Minting'
  <2>1. Cardinality(Makers') = 0
    <3>1. Makers' = {}
      BY <1>3 DEF Makers, MakesSession
    <3> QED BY <3>1, FS_EmptySet
  <2>2. Makers \subseteq Slots /\ IsFiniteSet(Slots)
    BY FS_Interval, BridgeAssumption DEF Makers, Slots
  <2>3. Cardinality(Makers) \in Nat
    BY <2>2, FS_Subset, FS_CardinalityType
  <2> QED BY <1>1, <1>2, <1>4, <1>5, <2>1, <2>3 DEF Inv, Minting, Shape, Daemons, CountsKept
<1>8. Owned'
  BY <1>1, <1>5 DEF Inv, Owned
<1>11. /\ \A n \in Names : byProvider'[n] = 0
       /\ \A t \in Threads : byThread'[t] = 0
  BY <1>1
<1>9. Fit'
  BY <1>3, <1>5, <1>11 DEF Fit, Indexed, OneBuilder, Builds
<1>10. PureInv'
  <2>1. (PureIndex /\ PureLane /\ PureSeat /\ PureChannel)'
    BY <1>1, <1>5, <1>11 DEF PureIndex, PureLane, PureSeat, PureChannel
  <2>2. (PureWorker /\ PureTurn /\ PureCalls)'
    BY <1>3 DEF PureWorker, Works, PureTurn, PureCalls
  <2>3. PureGone'
    BY <1>1, <1>3, <1>4 DEF Inv, PureInv, PureGone, Works
  <2> QED BY <2>1, <2>2, <2>3 DEF PureInv
<1> QED BY <1>6, <1>7, <1>8, <1>9, <1>10 DEF Inv

-----------------------------------------------------------------------------
(* The invariant holds of every state of the bridge. *)

LEMMA UnchangedKeeps ==
  ASSUME Inv, UNCHANGED vars
  PROVE  Inv'
<1>1. /\ UNCHANGED <<records, byThread, byProvider, channels, calls, daemon, told, gone, mixed,
                    counts>>
  BY DEF vars, table
<1>2. Shape' /\ Minting' /\ Owned'
  BY <1>1 DEF Inv, Shape, Minting, Makers, MakesSession, Live, Owned
<1>3. Fit'
  BY <1>1 DEF Inv, Fit, Named, Indexed, OneBuilder, Builds, Live, Called, MakesSession
<1>4. (PureIndex /\ PureLane /\ PureWorker /\ PureTurn /\ PureChannel)'
  BY <1>1 DEF Inv, PureInv, PureIndex, PureLane, PureWorker, PureTurn, PureChannel, Pure,
              Constructing, Works, Live
<1>5. (PureGone /\ PureSeat /\ PureCalls)'
  BY <1>1 DEF Inv, PureInv, PureGone, PureSeat, PureCalls, PureCall, Hears, Pure, Works, Live
<1> QED BY <1>2, <1>3, <1>4, <1>5 DEF Inv, PureInv

LEMMA RequestKeeps ==
  ASSUME Inv, AskStarts \/ AskResumes \/ AskTurns \/ AskStops
  PROVE  Inv'
<1>1. CASE AskStarts
  BY <1>1, AskStartKeeps DEF AskStarts
<1>2. CASE AskResumes
  <2>1. PICK i \in Slots, t \in Threads : AskResume(i, t)
    BY <1>2 DEF AskResumes
  <2>2. CASE Found(t) = 0
    BY <2>1, <2>2, AskResumeNewKeeps
  <2>3. CASE Found(t) # 0
    BY <2>1, <2>3, AskResumeFoundKeeps
  <2> QED BY <2>2, <2>3
<1>3. CASE AskTurns
  BY <1>3, AskTurnKeeps DEF AskTurns
<1>4. CASE AskStops
  BY <1>4, AskStopKeeps DEF AskStops
<1> QED BY <1>1, <1>2, <1>3, <1>4

LEMMA ConstructKeeps ==
  ASSUME Inv, Construct
  PROVE  Inv'
<1>1. PICK i \in Slots :
        Listens(i) \/ Branches(i) \/ Creates(i) \/ Attaches(i) \/ Publishes(i)
  BY DEF Construct
<1>2. CASE Listens(i)
  BY <1>2, ListensKeeps
<1>3. CASE Branches(i)
  BY <1>3, BranchesKeeps
<1>4. CASE Creates(i)
  BY <1>4, CreatesKeeps
<1>5. CASE Attaches(i) /\ calls[i].kind = "resume"
  BY <1>5, AttachesResumeKeeps
<1>6. CASE Attaches(i) /\ calls[i].kind # "resume"
  BY <1>6, AttachesBuildKeeps
<1>7. CASE Publishes(i)
  BY <1>7, PublishesKeeps
<1> QED BY <1>1, <1>2, <1>3, <1>4, <1>5, <1>6, <1>7

LEMMA StepKeeps ==
  ASSUME Inv, Next
  PROVE  Inv'
<1>1. CASE AskStarts \/ AskResumes \/ AskTurns \/ AskStops
  BY <1>1, RequestKeeps
<1>2. CASE Construct
  BY <1>2, ConstructKeeps
<1>3. CASE RunTurn
  BY <1>3, PromptsKeeps DEF RunTurn
<1>4. CASE Release
  BY <1>4, ChannelClosedKeeps, DetachesKeeps, LetsGoKeeps DEF Release
<1>5. CASE Destroy
  BY <1>5, KillsKeeps, DeletesKeeps DEF Destroy
<1>6. CASE CommandFails
  BY <1>6, FailsKeeps DEF CommandFails
<1>7. CASE DaemonCloses
  BY <1>7, SessionClosesKeeps DEF DaemonCloses
<1>8. CASE Lost
  BY <1>8, LostKeeps
<1>9. CASE Restored
  BY <1>9, RestoredKeeps
<1>10. CASE Reattach
  BY <1>10, LaneAttachesKeeps, AttachRefusedKeeps, LaneSettlesKeeps DEF Reattach
<1>11. CASE ProcessEnds
  BY <1>11, ProcessEndsKeeps
<1>12. CASE AskNothing
  BY <1>12, AskUnknownKeeps DEF AskNothing
<1>13. CASE WorkerReplaced
  BY <1>13, ReplacementFailsKeeps DEF WorkerReplaced
<1> QED BY <1>1, <1>2, <1>3, <1>4, <1>5, <1>6, <1>7, <1>8, <1>9, <1>10, <1>11, <1>12, <1>13
     DEF Next

(* The inductive invariant the theorems below follow from. *)
THEOREM BridgeInvariant == Spec => []Inv
<1>1. Init => Inv
  BY InitInv
<1>2. Inv /\ [Next]_vars => Inv'
  BY StepKeeps, UnchangedKeeps
<1> QED BY <1>1, <1>2, PTL DEF Spec

-----------------------------------------------------------------------------
(* The state of the bridge is what its types say: an index leads into the   *)
(* table, a session a record or bb knows is one the daemon minted, and only *)
(* a live session is streamed here.                                          *)
LEMMA InvType ==
  ASSUME Inv
  PROVE  TypeOK
<1>1. /\ Len(records) \in Nat /\ DOMAIN records = 1..Len(records)
      /\ \A r \in DOMAIN records : records[r] \in Records /\ r # 0 /\ r \in Nat
  BY RecordsAre DEF Inv
<1>2. daemon.minted \in Nat
  BY DEF Inv, Shape, Daemons
<1>3. ASSUME NEW r \in DOMAIN records
      PROVE  /\ records[r].thread \in Threads /\ records[r].name \in Names
             /\ records[r].sid \in 0..daemon.minted
             /\ records[r].lane \in {"none", "open", "closed"}
             /\ records[r].attached => records[r].sid # 0
             /\ records[r].stage \in {"rest", "due", "reads"}
  <2>1. records[r] \in Records
    BY <1>1
  <2>2. records[r].sid \in Nat /\ records[r].sid <= daemon.minted
    BY <2>1 DEF Records, Inv, Minting
  <2>3. Named(r)
    BY DEF Inv, Fit
  <2> QED BY <1>2, <2>1, <2>2, <2>3 DEF Records, Named
<1>4. byThread \in [Threads -> 0..Len(records)]
  <2>1. \A t \in Threads : byThread[t] \in 0..Len(records)
    BY <1>1 DEF Inv, Shape, Fit, Indexed
  <2> QED BY <2>1 DEF Inv, Shape
<1>5. byProvider \in [Names -> 0..Len(records)]
  <2>1. \A n \in Names : byProvider[n] \in 0..Len(records)
    BY <1>1 DEF Inv, Shape, Fit, Indexed
  <2> QED BY <2>1 DEF Inv, Shape
<1>6. told \in [Threads -> 0..daemon.minted]
  <2>1. \A t \in Threads : told[t] \in Nat /\ told[t] <= daemon.minted
    BY DEF Inv, Shape, Minting
  <2> QED BY <1>2, <2>1 DEF Inv, Shape
<1>7. ASSUME NEW i \in Slots, Live(i)
      PROVE  /\ calls[i].kind \in Kinds /\ calls[i].at \in Steps
             /\ calls[i].rec \in DOMAIN records
  BY <1>7, CallIs DEF Requests
<1>8. /\ channels \subseteq Threads /\ gone \subseteq Threads /\ mixed \subseteq Threads
      /\ daemon.seated \subseteq daemon.live
  BY DEF Inv, Shape, Minting
<1> QED BY <1>3, <1>4, <1>5, <1>6, <1>7, <1>8 DEF TypeOK

THEOREM BridgeTypeCorrect == Spec => []TypeOK
BY BridgeInvariant, InvType, PTL

LEMMA InvOneLane ==
  ASSUME Inv
  PROVE  OneLanePerSession
<1> SUFFICES ASSUME NEW r \in DOMAIN records, NEW q \in DOMAIN records,
                    r # q, records[r].sid = records[q].sid,
                    Heard(records[r]), Heard(records[q]),
                    ~records[r].failed, ~records[q].failed, records[r].thread \notin mixed
             PROVE  FALSE
  BY DEF OneLanePerSession
<1>1. records[r].lane = "open" /\ records[q].lane = "open" /\ records[r].attached
  BY DEF Heard
<1>2. records[r].sid # 0
  BY <1>1 DEF Inv, Fit, Named
<1>3. records[r].thread = records[q].thread
  BY <1>2 DEF Inv, Owned
<1>4. byThread[records[r].thread] = r /\ byThread[records[q].thread] = q
  BY <1>1, <1>3 DEF Inv, PureInv, PureLane, Pure
<1> QED BY <1>3, <1>4

(* Two records never stream one session into bb at once, whatever requests  *)
(* bb makes and whatever fails, except for a lane whose construction failed *)
(* and for a thread two of whose requests overlapped: a lane that listens   *)
(* is that of the record its thread has, and a session is of one thread.    *)
THEOREM SessionsHaveOneLane == Spec => []OneLanePerSession
BY BridgeInvariant, InvOneLane, PTL

LEMMA InvRest ==
  ASSUME Inv
  PROVE  RestIsClean
<1> SUFFICES ASSUME \A i \in Slots : ~Live(i)
             PROVE
    /\ \A n \in Names : LET r == byProvider[n] IN
         r # 0 /\ records[r].thread \notin mixed => byThread[records[r].thread] = r
    /\ \A t \in Threads \ mixed :
         /\ byThread[t] # 0 => byProvider[records[byThread[t]].name] = byThread[t]
         /\ t \in channels => byThread[t] # 0 \/ \E r \in DOMAIN records :
                                records[r].thread = t /\ records[r].failed
         /\ t \in gone => told[t] \notin daemon.live \cup daemon.saved
  BY DEF RestIsClean
<1>1. ASSUME NEW n \in Names, byProvider[n] # 0, records[byProvider[n]].thread \notin mixed
      PROVE  byThread[records[byProvider[n]].thread] = byProvider[n]
  BY <1>1 DEF Inv, PureInv, PureIndex, Pure
<1>2. ASSUME NEW t \in Threads \ mixed, byThread[t] # 0
      PROVE  byProvider[records[byThread[t]].name] = byThread[t]
  BY <1>2 DEF Inv, PureInv, PureIndex
<1>3. ASSUME NEW t \in Threads \ mixed, t \in channels
      PROVE  byThread[t] # 0 \/ \E r \in DOMAIN records : records[r].thread = t /\ records[r].failed
  BY <1>3 DEF Inv, PureInv, PureChannel
<1>4. ASSUME NEW t \in Threads \ mixed, t \in gone
      PROVE  told[t] \notin daemon.live \cup daemon.saved
  BY <1>4 DEF Inv, PureInv, PureGone
<1> QED BY <1>1, <1>2, <1>3, <1>4

(* Whenever no request is under way, the two indices of the table know the  *)
(* same records, a channel listens only for a thread that has one (or whose *)
(* construction failed), and a thread whose discard found a record and was  *)
(* answered ok has neither a live session nor a transcript; whatever failed *)
(* on the way, except for a thread two of whose requests overlapped.         *)
THEOREM BridgeRestsClean == Spec => []RestIsClean
BY BridgeInvariant, InvRest, PTL

LEMMA PromptHeard ==
  ASSUME Inv, NEW i \in Slots, Prompts(i), Rec(i).sid \in daemon.live, ~Rec(i).letGo,
         ~Rec(i).cut, Rec(i).thread \notin mixed
  PROVE  Heard(Rec(i))
<1>1. PICK r, t : r = calls[i].rec /\ t = calls[i].thread
  OBVIOUS
<1>2. /\ Live(i) /\ calls[i].at = "ready" /\ Rec(i) = records[r]
      /\ ~records[r].gap /\ daemon.wire = "up"
  BY <1>1 DEF Prompts, Rec
<1>3. /\ calls[i] \in Requests /\ Called(i) /\ r \in DOMAIN records /\ records[r] \in Records
      /\ records[r].thread = t /\ Named(r)
  BY <1>1, <1>2, CallIs
<1>4. t \in Threads /\ Pure(t) /\ PureCall(i)
  BY <1>1, <1>2, <1>3, CallIs DEF Requests, Pure
<1>5. calls[i].kind \in {"start", "turn"}
  BY <1>2, <1>3 DEF Called, StepsOf
<1>6. records[r].attached
  BY <1>1, <1>2, <1>3, <1>4, <1>5 DEF Called, HasAttached, PureCall
<1>7. byThread[t] = r /\ r # 0
  BY <1>1, <1>2, <1>3, <1>4, <1>5, RecordsAre DEF PureCall, Inv
<1>8. Hears(r)
  BY <1>4, <1>7 DEF Inv, PureInv, PureSeat, Pure
<1>9. records[r].lane = "open" /\ ~records[r].cut
  BY <1>2, <1>3, <1>6 DEF Named, Records
<1> QED BY <1>2, <1>6, <1>8, <1>9 DEF Hears, Heard

(* A prompt that goes out is answered into its thread: the lane is attached *)
(* and still seated with the daemon while its session lives, for a turn of a *)
(* thread bb has not asked to let go and whose requests did not overlap,     *)
(* through losses of the wire, refused and late attaches, failed commands    *)
(* and ends of the bridge's process before it.  The lane is not seated when  *)
(* the wire dropped while it read the queue of its last re-attach or when it *)
(* could not attach to a replaced worker: both are left out.                 *)
THEOREM PromptsAreHeard == Spec => PromptIsHeard
<1>1. Inv /\ [Next]_vars
      => [\A i \in Slots : Prompts(i) /\ Rec(i).sid \in daemon.live
            => Heard(Rec(i)) \/ Rec(i).letGo \/ Rec(i).cut \/ Rec(i).thread \in mixed]_vars
  BY PromptHeard
<1> QED BY <1>1, BridgeInvariant, PTL DEF Spec, PromptIsHeard
=============================================================================
