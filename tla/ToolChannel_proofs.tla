-------------------------- MODULE ToolChannel_proofs --------------------------
(***************************************************************************)
(* Proofs about ToolChannel, for any number of setTools, workers,          *)
(* connections and tool calls.                                             *)
(***************************************************************************)
EXTENDS ToolChannel, SequenceTheorems, TLAPS

-----------------------------------------------------------------------------
(* The inductive invariant of ServedSetIsPublished. *)

(* The calls of setTools wait in the order they were made, and an open       *)
(* channel desires the last of those it has published.                       *)
ChainInv ==
  /\ \A j \in DOMAIN chain : outcome[chain[j]] # "new"
  /\ \A i, j \in DOMAIN chain : i < j => chain[i] < chain[j]
  /\ \A s, t \in Sets : s < t /\ outcome[t] # "new" => outcome[s] # "new"
  /\ publishing # Idle => outcome[publishing.set] # "new"

DesiredInv ==
  /\ desired = NoSet <=> Published = {}
  /\ desired # NoSet => desired \in Published /\ \A s \in Published : s <= desired
  /\ \A j \in DOMAIN chain : desired < chain[j]

(* A closed channel holds no connection. *)
ConnectionInv == current # None => ~closed

(* A connection not yet accepted is new to both ends. *)
BacklogInv ==
  /\ \A k \in Connections : IF k <= made THEN owner[k] \in Instances ELSE toExt[k] = <<>>
  /\ \A j \in DOMAIN backlog : backlog[j] # current /\ toExt[backlog[j]] = <<>>
  /\ \A i, j \in DOMAIN backlog : i # j => backlog[i] # backlog[j]
  /\ current <= made /\ \A j \in DOMAIN backlog : backlog[j] <= made

(* An instance's socket is a connection it made. *)
SocketInv ==
  \A e \in Instances : sock[e] # None => sock[e] <= made /\ owner[sock[e]] = e

(* The last set on its way to the extension the channel holds, or the one it *)
(* has in force when none is, is the desired one.                            *)
IsSet(line) == line.type = "tools/set"

EndsWith(lines, s) ==
  \E j \in DOMAIN lines :
    /\ lines[j] = ToolsSet(s)
    /\ \A i \in DOMAIN lines : i > j => ~IsSet(lines[i])

NoSetIn(lines) == \A i \in DOMAIN lines : ~IsSet(lines[i])

ServedInv ==
  current # None /\ desired # NoSet /\ HeldByExtension(current) =>
    \/ EndsWith(toExt[current], desired)
    \/ /\ NoSetIn(toExt[current])
       /\ active[owner[current]] \in {desired, Mixed}

IInv ==
  /\ TypeOK /\ ChainInv /\ (~closed => DesiredInv)
  /\ ConnectionInv /\ BacklogInv /\ SocketInv /\ ServedInv
-----------------------------------------------------------------------------
(* Types. *)

(* What the two ends write are lines of the protocol. *)
LEMMA LinesAreTyped ==
  /\ \A s \in Sets : ToolsSet(s) \in ToExtension
  /\ \A c \in ToolCalls : ToolResult(c) \in ToExtension
  /\ \A ok \in BOOLEAN : ToolsAck(ok) \in ToBridge
  /\ \A c \in ToolCalls : ToolCall(c) \in ToBridge
  BY DEF ToolsSet, ToolResult, ToolsAck, ToolCall, ToExtension, ToBridge

(* What the two ends find in a line of a type. *)
LEMMA LinesAreRead ==
  /\ \A l \in ToExtension :
       IF IsSet(l) THEN l.set \in Sets /\ l = ToolsSet(l.set) ELSE l.of \in ToolCalls
  /\ \A l \in ToBridge :
       IF l.type = "tools/ack" THEN l.ok \in BOOLEAN ELSE l.call \in ToolCalls
  BY DEF IsSet, ToolsSet, ToExtension, ToBridge

(* A line the bridge writes keeps the type of what is on its way. *)
LEMMA WritesAreTyped ==
  ASSUME NEW Line, toExt \in [Connections -> Seq(Line)],
         NEW k \in Connections \cup {None}, NEW line \in Line, Write(k, line)
  PROVE  toExt' \in [Connections -> Seq(Line)]
<1>1. CASE HeldByExtension(k)
  <2>1. k \in Connections
    BY <1>1 DEF HeldByExtension
  <2>2. toExt' = [toExt EXCEPT ![k] = Append(@, line)]
    BY <1>1 DEF Write
  <2>3. Append(toExt[k], line) \in Seq(Line)
    BY <2>1
  <2> QED BY <2>1, <2>2, <2>3
<1>2. CASE ~HeldByExtension(k)
  BY <1>2 DEF Write
<1> QED BY <1>1, <1>2

(* So does a line the extension sends ... *)
LEMMA SendsAreTyped ==
  ASSUME NEW Line, toBridge \in [Connections -> Seq(Line)],
         NEW k \in Connections, NEW line \in Line, Send(k, line)
  PROVE  toBridge' \in [Connections -> Seq(Line)]
<1>1. CASE HeldByBridge(k)
  <2>1. toBridge' = [toBridge EXCEPT ![k] = Append(@, line)]
    BY <1>1 DEF Send
  <2>2. Append(toBridge[k], line) \in Seq(Line)
    OBVIOUS
  <2> QED BY <2>1, <2>2
<1>2. CASE ~HeldByBridge(k)
  BY <1>2 DEF Send
<1> QED BY <1>1, <1>2

(* ... and so does a channel drained. *)
LEMMA DrainsAreTyped ==
  ASSUME NEW Line, NEW channel \in [Connections -> Seq(Line)],
         NEW k \in Connections \cup {None}
  PROVE  Drained(channel, k) \in [Connections -> Seq(Line)]
<1>1. CASE k = None
  BY <1>1 DEF Drained
<1>2. CASE k # None
  <2>1. <<>> \in Seq(Line)
    OBVIOUS
  <2> QED BY <1>2, <2>1 DEF Drained
<1> QED BY <1>1, <1>2

(* Every step keeps the types. *)
LEMMA TypeStep ==
  ASSUME TypeOK, Next
  PROVE  TypeOK'
<1> USE ToolChannelConstants
<1>0. /\ BridgeTyped /\ ExtensionTyped /\ WireTyped
      /\ applied \in SUBSET Sets /\ misanswered \in SUBSET ToolCalls
  BY DEF TypeOK
<1>u. /\ UNCHANGED bridge => BridgeTyped'
      /\ UNCHANGED extension => ExtensionTyped'
      /\ UNCHANGED wire => WireTyped'
  BY <1>0 DEF bridge, extension, wire, BridgeTyped, ExtensionTyped, WireTyped
<1>h. UNCHANGED hist => applied' \in SUBSET Sets /\ misanswered' \in SUBSET ToolCalls
  BY <1>0 DEF hist
<1>1. ASSUME NEW s \in Sets, SetTools(s) PROVE TypeOK'
  <2>1. BridgeTyped'
    <3>1. publishing' \in {publishing} \cup [set : Sets, awaits : {"connection", "ack"}]
      BY <1>1 DEF SetTools, Publish, Awaits
    <3>2. chain' \in {chain, Append(chain, s)} /\ desired' \in {desired, s}
      BY <1>1 DEF SetTools, Publish, Recorded
    <3>3. \E result \in {"failed", "waiting"} : outcome' = [outcome EXCEPT ![s] = result]
      BY <1>1 DEF SetTools
    <3>4. UNCHANGED <<closed, current, executing>>
      BY <1>1 DEF SetTools
    <3> QED BY <1>0, <3>1, <3>2, <3>3, <3>4 DEF BridgeTyped
  <2>2. WireTyped'
    <3>1. Write(current, ToolsSet(s)) \/ toExt' = toExt
      BY <1>1 DEF SetTools, Publish
    <3>2. toExt' \in [Connections -> Seq(ToExtension)]
      BY <1>0, <3>1, LinesAreTyped, WritesAreTyped DEF BridgeTyped, WireTyped
    <3> QED BY <1>0, <1>1, <3>2 DEF SetTools, WireTyped
  <2> QED BY <1>1, <1>u, <1>h, <2>1, <2>2 DEF SetTools, TypeOK
<1>2. CASE ChainGoesOn
  <2>1. Head(chain) \in Sets /\ Tail(chain) \in Seq(Sets)
    BY <1>0, <1>2 DEF ChainGoesOn, BridgeTyped
  <2>2. BridgeTyped'
    <3>1. publishing' \in [set : Sets, awaits : {"connection", "ack"}]
      BY <1>2, <2>1 DEF ChainGoesOn, Publish, Awaits
    <3>2. chain' \in Seq(Sets) /\ desired' \in Sets
      BY <1>2, <2>1 DEF ChainGoesOn, Publish, Recorded
    <3> QED BY <1>0, <1>2, <3>1, <3>2 DEF ChainGoesOn, BridgeTyped
  <2>3. WireTyped'
    <3>1. Write(current, ToolsSet(Head(chain)))
      BY <1>2 DEF ChainGoesOn, Publish
    <3>2. toExt' \in [Connections -> Seq(ToExtension)]
      BY <1>0, <2>1, <3>1, LinesAreTyped, WritesAreTyped DEF BridgeTyped, WireTyped
    <3> QED BY <1>0, <1>2, <3>2 DEF ChainGoesOn, WireTyped
  <2> QED BY <1>2, <1>u, <1>h, <2>2, <2>3 DEF ChainGoesOn, TypeOK
<1>3. CASE PublishTimesOut
  <2>1. BridgeTyped'
    BY <1>0, <1>3 DEF PublishTimesOut, Ends, HasDeadline, Idle, BridgeTyped
  <2> QED BY <1>3, <1>u, <1>h, <2>1 DEF PublishTimesOut, TypeOK
<1>4. CASE Accepts
  <2> DEFINE k == Head(backlog)
  <2>1. k \in Connections /\ Tail(backlog) \in Seq(Connections)
    BY <1>0, <1>4 DEF Accepts, WireTyped
  <2>2. BridgeTyped'
    BY <1>0, <1>4, <2>1 DEF Accepts, Idle, Awaits, BridgeTyped
  <2>3. toExt' \in [Connections -> Seq(ToExtension)]
    <3> HIDE DEF k
    <3>1. Republished(desired) \in Seq(ToExtension)
      BY <1>0, LinesAreTyped DEF Republished, ByPublish, BridgeTyped
    <3>2. toExt[k] \o Republished(desired) \in Seq(ToExtension)
      BY <1>0, <2>1, <3>1 DEF WireTyped
    <3>3. toExt' = IF HeldByExtension(k)
                   THEN [toExt EXCEPT ![k] = @ \o Republished(desired)] ELSE toExt
      BY <1>4 DEF Accepts, k
    <3> QED BY <1>0, <2>1, <3>2, <3>3 DEF WireTyped
  <2>4. toBridge' \in [Connections -> Seq(ToBridge)]
    <3>1. toBridge' = Drained(toBridge, current)
      BY <1>4 DEF Accepts
    <3> QED BY <1>0, <3>1, DrainsAreTyped DEF BridgeTyped, WireTyped
  <2>5. WireTyped'
    BY <1>0, <1>4, <2>1, <2>3, <2>4 DEF Accepts, WireTyped
  <2> QED BY <1>4, <1>u, <1>h, <2>2, <2>5 DEF Accepts, TypeOK
<1>5. CASE BridgeReads
  <2> DEFINE line == Head(toBridge[current])
  <2>1. current \in Connections /\ toBridge[current] # <<>>
    BY <1>0, <1>5 DEF BridgeReads, BridgeTyped
  <2>2. line \in ToBridge /\ Tail(toBridge[current]) \in Seq(ToBridge)
    BY <1>0, <2>1 DEF WireTyped
  <2>3. BridgeTyped'
    <3>1. CASE line.type = "tools/ack"
      BY <1>0, <1>5, <3>1 DEF BridgeReads, Ends, Settled, Idle, BridgeTyped
    <3>2. CASE line.type # "tools/ack"
      <4>1. line.call \in ToolCalls
        BY <2>2, <3>2, LinesAreRead
      <4> QED BY <1>0, <1>5, <3>2, <4>1 DEF BridgeReads, BridgeTyped
    <3> QED BY <3>1, <3>2
  <2>4. WireTyped'
    <3>1. toBridge' = [toBridge EXCEPT ![current] = Tail(@)]
      BY <1>5 DEF BridgeReads
    <3> QED BY <1>0, <1>5, <2>1, <2>2, <3>1 DEF BridgeReads, WireTyped
  <2> QED BY <1>5, <1>u, <1>h, <2>3, <2>4 DEF BridgeReads, TypeOK
<1>6. ASSUME NEW c \in executing, ToolReturns(c) PROVE TypeOK'
  <2>1. BridgeTyped'
    BY <1>0, <1>6 DEF ToolReturns, BridgeTyped
  <2>2. WireTyped'
    <3>1. c \in ToolCalls /\ Write(current, ToolResult(c))
      BY <1>0, <1>6 DEF ToolReturns, BridgeTyped
    <3>2. toExt' \in [Connections -> Seq(ToExtension)]
      BY <1>0, <3>1, LinesAreTyped, WritesAreTyped DEF BridgeTyped, WireTyped
    <3> QED BY <1>0, <1>6, <3>2 DEF ToolReturns, WireTyped
  <2> QED BY <1>6, <1>u, <1>h, <2>1, <2>2 DEF ToolReturns, TypeOK
<1>7. CASE BridgeSeesClose
  <2>1. BridgeTyped'
    BY <1>0, <1>7 DEF BridgeSeesClose, BridgeTyped
  <2>2. WireTyped'
    <3>1. toBridge' \in [Connections -> Seq(ToBridge)]
      BY <1>0, <1>7, DrainsAreTyped DEF BridgeSeesClose, BridgeTyped, WireTyped
    <3> QED BY <1>0, <1>7, <3>1 DEF BridgeSeesClose, WireTyped
  <2> QED BY <1>7, <1>u, <1>h, <2>1, <2>2 DEF BridgeSeesClose, TypeOK
<1>8. CASE Close
  <2>1. BridgeTyped'
    BY <1>0, <1>8 DEF Close, Ends, Idle, BridgeTyped
  <2>2. WireTyped'
    BY <1>0, <1>8 DEF Close, WireTyped
  <2> QED BY <1>8, <1>u, <1>h, <2>1, <2>2 DEF Close, TypeOK
<1>9. CASE Starts
  <2>1. ExtensionTyped'
    BY <1>0, <1>9 DEF Starts, Instances, ExtensionTyped
  <2> QED BY <1>9, <1>u, <1>h, <2>1 DEF Starts, TypeOK
<1>10. ASSUME NEW e \in Instances, Connects(e) PROVE TypeOK'
  <2>1. made + 1 \in Connections /\ made + 1 \in 0..MaxConnections
    BY <1>0, <1>10 DEF Connects, Connections, WireTyped
  <2>2. ExtensionTyped'
    BY <1>0, <1>10, <2>1 DEF Connects, ExtensionTyped
  <2>3. WireTyped'
    BY <1>0, <1>10, <2>1 DEF Connects, WireTyped
  <2> QED BY <1>10, <1>u, <1>h, <2>2, <2>3 DEF Connects, TypeOK
<1>11. ASSUME NEW e \in Instances, ExtReads(e) PROVE TypeOK'
  <2> DEFINE line == Head(toExt[sock[e]])
  <2>1. sock[e] \in Connections /\ toExt[sock[e]] # <<>>
    BY <1>0, <1>11 DEF ExtReads, ExtensionTyped
  <2>2. line \in ToExtension /\ Tail(toExt[sock[e]]) \in Seq(ToExtension)
    BY <1>0, <2>1 DEF WireTyped
  <2>3. toExt' \in [Connections -> Seq(ToExtension)]
    <3>1. toExt' = [toExt EXCEPT ![sock[e]] = Tail(@)]
      BY <1>11 DEF ExtReads
    <3> QED BY <1>0, <2>1, <2>2, <3>1 DEF WireTyped
  <2>4. CASE IsSet(line)
    <3>1. line.set \in Sets /\ AppliesSet(e)
      BY <1>11, <2>2, <2>4, LinesAreRead DEF ExtReads, IsSet
    <3>2. toBridge' \in [Connections -> Seq(ToBridge)]
      <4>1. \E ok \in BOOLEAN : Send(sock[e], ToolsAck(ok))
        BY <3>1 DEF AppliesSet
      <4> QED BY <1>0, <2>1, <4>1, LinesAreTyped, SendsAreTyped DEF WireTyped
    <3>3. WireTyped'
      BY <1>0, <1>11, <2>3, <3>2 DEF ExtReads, WireTyped
    <3>4. ExtensionTyped'
      BY <1>0, <1>11, <3>1 DEF ExtReads, AppliesSet, ExtensionTyped
    <3>5. applied' \in SUBSET Sets /\ misanswered' = misanswered
      BY <1>0, <3>1 DEF AppliesSet
    <3> QED BY <1>0, <1>11, <1>u, <3>3, <3>4, <3>5 DEF ExtReads, TypeOK
  <2>5. CASE ~IsSet(line)
    <3>1. line.of \in ToolCalls /\ TakesResult(e)
      BY <1>11, <2>2, <2>5, LinesAreRead DEF ExtReads, IsSet
    <3>2. WireTyped'
      BY <1>0, <1>11, <2>3, <3>1 DEF ExtReads, TakesResult, WireTyped
    <3>3. ExtensionTyped'
      BY <1>0, <1>11, <3>1 DEF ExtReads, TakesResult, ExtensionTyped
    <3>4. misanswered' \in SUBSET ToolCalls /\ applied' = applied
      BY <1>0, <3>1 DEF TakesResult, Call, ToolCalls
    <3> QED BY <1>0, <1>11, <1>u, <3>2, <3>3, <3>4 DEF ExtReads, TypeOK
  <2> QED BY <2>4, <2>5
<1>12. ASSUME NEW e \in Instances, Calls(e) PROVE TypeOK'
  <2>1. calls[e] + 1 \in Nat /\ sock[e] \in Connections \cup {None}
    BY <1>0 DEF ExtensionTyped
  <2>2. ExtensionTyped'
    <3>1. \A b \in BOOLEAN : [id |-> calls[e] + 1, sent |-> b] \in [id : Nat, sent : BOOLEAN]
      BY <2>1
    <3>2. [id |-> calls[e] + 1, sent |-> sock[e] # None] \in [id : Nat, sent : BOOLEAN]
      BY <3>1, Zenon
    <3> DEFINE p == [id |-> calls[e] + 1, sent |-> sock[e] # None]
    <3> HIDE DEF p
    <3>3. pending' = [pending EXCEPT ![e] = @ \cup {p}]
      BY <1>12 DEF Calls, p
    <3>4. pending' \in [Instances -> SUBSET [id : Nat, sent : BOOLEAN]]
      BY <1>0, <3>2, <3>3 DEF ExtensionTyped, p
    <3> QED BY <1>0, <1>12, <2>1, <3>4 DEF Calls, ExtensionTyped
  <2>3. WireTyped'
    <3>1. \/ toBridge' = toBridge
          \/ sock[e] # None /\ Send(sock[e], ToolCall(Call(e, calls[e] + 1)))
      BY <1>12 DEF Calls
    <3>2. Call(e, calls[e] + 1) \in ToolCalls
      BY <2>1 DEF Call, ToolCalls
    <3>3. toBridge' \in [Connections -> Seq(ToBridge)]
      BY <1>0, <2>1, <3>1, <3>2, LinesAreTyped, SendsAreTyped DEF WireTyped
    <3> QED BY <1>0, <1>12, <3>3 DEF Calls, WireTyped
  <2> QED BY <1>12, <1>u, <1>h, <2>2, <2>3 DEF Calls, TypeOK
<1>13. ASSUME NEW e \in Instances, Aborts(e) PROVE TypeOK'
  <2>1. ExtensionTyped'
    BY <1>0, <1>13 DEF Aborts, ExtensionTyped
  <2> QED BY <1>13, <1>u, <1>h, <2>1 DEF Aborts, TypeOK
<1>14. ASSUME NEW e \in Instances, ExtSeesClose(e) PROVE TypeOK'
  <2>1. ExtensionTyped'
    BY <1>0, <1>14 DEF ExtSeesClose, FailPendingCalls, ExtensionTyped
  <2>2. WireTyped'
    <3>1. toExt' \in [Connections -> Seq(ToExtension)]
      BY <1>0, <1>14, DrainsAreTyped DEF ExtSeesClose, ExtensionTyped, WireTyped
    <3> QED BY <1>0, <1>14, <3>1 DEF ExtSeesClose, WireTyped
  <2> QED BY <1>14, <1>u, <1>h, <2>1, <2>2 DEF ExtSeesClose, TypeOK
<1>15. ASSUME NEW e \in Instances, ShutsDown(e) PROVE TypeOK'
  <2>1. ExtensionTyped'
    BY <1>0, <1>15 DEF ShutsDown, ExtensionTyped
  <2>2. WireTyped'
    <3>1. toExt' \in [Connections -> Seq(ToExtension)]
      BY <1>0, <1>15, DrainsAreTyped DEF ShutsDown, ExtensionTyped, WireTyped
    <3> QED BY <1>0, <1>15, <3>1 DEF ShutsDown, WireTyped
  <2> QED BY <1>15, <1>u, <1>h, <2>1, <2>2 DEF ShutsDown, TypeOK
<1> QED BY <1>1, <1>2, <1>3, <1>4, <1>5, <1>6, <1>7, <1>8, <1>9, <1>10, <1>11, <1>12,
           <1>13, <1>14, <1>15 DEF Next

(* The types hold once the channel listens. *)
LEMMA InitTyped == Init => TypeOK
<1>1. Init => BridgeTyped
  <2>1. Init => /\ outcome \in [Sets -> {"new", "waiting", "acked", "failed"}]
                /\ chain \in Seq(Sets) /\ executing \in SUBSET ToolCalls
    BY DEF Init
  <2> QED BY <2>1 DEF Init, BridgeTyped
<1>2. Init => ExtensionTyped
  BY ToolChannelConstants DEF Init, ExtensionTyped
<1>3. Init => WireTyped
  BY ToolChannelConstants DEF Init, WireTyped
<1> QED BY <1>1, <1>2, <1>3 DEF Init, TypeOK

(* The variables of both ends and of the wire keep their types, however      *)
(* often the worker is replaced and the channel reconnected.                 *)
THEOREM ChannelTypeCorrect == Spec => []TypeOK
<1>1. Init => TypeOK
  BY InitTyped
<1>2. TypeOK /\ [Next]_vars => TypeOK'
  <2>1. ASSUME TypeOK, UNCHANGED vars PROVE TypeOK'
    BY <2>1 DEF TypeOK, BridgeTyped, ExtensionTyped, WireTyped,
                vars, bridge, extension, wire, hist
  <2> QED BY <2>1, TypeStep
<1> QED BY <1>1, <1>2, PTL DEF Spec


-----------------------------------------------------------------------------
(* The last set published. *)

(* A publish() that ends leaves what was published, and in which order. *)
LEMMA EndsStep ==
  ASSUME TypeOK, ChainInv, publishing # Idle,
         NEW result \in {"acked", "failed"}, Ends(result), chain' = chain
  PROVE  ChainInv' /\ Published' = Published
<1>1. publishing.set \in Sets /\ outcome[publishing.set] # "new"
  BY DEF TypeOK, BridgeTyped, ChainInv
<1>2. outcome' = [outcome EXCEPT ![publishing.set] = result] /\ publishing' = Idle
  BY DEF Ends
<1>3. \A s \in Sets : outcome'[s] = "new" <=> outcome[s] = "new"
  BY <1>1, <1>2 DEF TypeOK, BridgeTyped
<1>4. \A j \in DOMAIN chain : chain[j] \in Sets
  BY DEF TypeOK, BridgeTyped
<1>5. Published' = Published
  BY <1>3 DEF Published
<1>6. ChainInv'
  BY <1>2, <1>3, <1>4 DEF ChainInv
<1> QED BY <1>5, <1>6

(* A publish() that begins makes its set the last one published. *)
LEMMA PublishStep ==
  ASSUME IInv, Next
  PROVE  ChainInv' /\ (~closed' => DesiredInv')
<1> USE ToolChannelConstants DEF IInv
<1>0. /\ BridgeTyped
      /\ \A j \in DOMAIN chain : chain[j] \in Sets
      /\ chain \in Seq(Sets)
      /\ \A s \in Sets : s \in Nat /\ s # NoSet /\ s > NoSet
  BY DEF TypeOK, BridgeTyped, Sets, NoSet
<1>f. ASSUME UNCHANGED <<closed, desired, chain, publishing, outcome>>
      PROVE  ChainInv' /\ (~closed' => DesiredInv')
  BY <1>f DEF ChainInv, DesiredInv, Published
<1>e. ASSUME publishing # Idle, NEW result \in {"acked", "failed"}, Ends(result),
             UNCHANGED <<chain, desired>>, closed' = FALSE => closed = FALSE
      PROVE  ChainInv' /\ (~closed' => DesiredInv')
  <2>1. ChainInv' /\ Published' = Published
    BY <1>e, EndsStep
  <2>2. ~closed' => ~closed
    BY <1>0, <1>e, TypeStep DEF TypeOK, BridgeTyped
  <2> QED BY <1>e, <2>1, <2>2 DEF DesiredInv
<1>1. ASSUME NEW s \in Sets, SetTools(s) PROVE ChainInv' /\ (~closed' => DesiredInv')
  <2>1. /\ outcome[s] = "new" /\ \A t \in Sets : t < s => outcome[t] # "new"
        /\ \A t \in Sets : t > s => outcome[t] = "new"
        /\ \A j \in DOMAIN chain : chain[j] < s
    <3>1. outcome[s] = "new" /\ \A t \in 1..s - 1 : outcome[t] # "new"
      BY <1>1 DEF SetTools
    <3>2. \A t \in Sets : t < s => t \in 1..s - 1
      BY DEF Sets
    <3>3. \A t \in Sets : t > s => outcome[t] = "new"
      BY <3>1 DEF ChainInv
    <3> QED BY <1>0, <3>1, <3>2, <3>3 DEF ChainInv
  <2>2. /\ outcome'[s] # "new" /\ \A t \in Sets \ {s} : outcome'[t] = outcome[t]
        /\ closed' = closed
    BY <1>0, <1>1 DEF SetTools, BridgeTyped
  <2>3. CASE closed
    <3>1. UNCHANGED <<chain, publishing>>
      BY <1>1, <2>3 DEF SetTools
    <3>2. ChainInv'
      BY <1>0, <2>1, <2>2, <3>1 DEF ChainInv, BridgeTyped, Idle
    <3> QED BY <2>2, <2>3, <3>2
  <2>4. CASE ~closed /\ publishing = Idle /\ chain = <<>>
    <3>1. /\ desired' = s /\ publishing'.set = s /\ chain' = chain
      BY <1>1, <2>4 DEF SetTools, Publish, Recorded, Awaits
    <3>2. ChainInv'
      BY <1>0, <2>1, <2>2, <2>4, <3>1 DEF ChainInv
    <3>3. Published' = {t \in Sets : t <= s}
      BY <1>0, <2>1, <2>2, <2>4, <3>1 DEF Published
    <3>4. DesiredInv'
      BY <1>0, <2>4, <3>1, <3>3 DEF DesiredInv
    <3> QED BY <3>2, <3>4
  <2>5. CASE ~closed /\ ~(publishing = Idle /\ chain = <<>>)
    <3>1. chain' = Append(chain, s) /\ UNCHANGED <<desired, publishing>>
      BY <1>1, <2>5 DEF SetTools
    <3>2. /\ DOMAIN chain' = DOMAIN chain \cup {Len(chain) + 1}
          /\ chain'[Len(chain) + 1] = s
          /\ \A j \in DOMAIN chain : chain'[j] = chain[j] /\ j < Len(chain) + 1
      BY <1>0, <3>1
    <3>3. ChainInv'
      <4>1. \A j \in DOMAIN chain' : outcome'[chain'[j]] # "new"
        BY <1>0, <2>1, <2>2, <3>2 DEF ChainInv
      <4>2. \A i, j \in DOMAIN chain' : i < j => chain'[i] < chain'[j]
        BY <1>0, <2>1, <3>2 DEF ChainInv
      <4>3. \A t, u \in Sets : t < u /\ outcome'[u] # "new" => outcome'[t] # "new"
        BY <1>0, <2>1, <2>2
      <4>4. publishing' # Idle => outcome'[publishing'.set] # "new"
        BY <1>0, <2>1, <2>2, <3>1 DEF ChainInv, BridgeTyped
      <4> QED BY <4>1, <4>2, <4>3, <4>4 DEF ChainInv, Idle
    <3>4. Published' = Published
      BY <1>0, <2>1, <2>2, <3>2 DEF Published
    <3>5. desired < s
      BY <1>0, <2>1, <2>5 DEF DesiredInv, Published, NoSet
    <3>6. DesiredInv'
      BY <2>5, <3>1, <3>2, <3>4, <3>5 DEF DesiredInv
    <3> QED BY <3>3, <3>6
  <2> QED BY <2>3, <2>4, <2>5
<1>2. ASSUME ChainGoesOn PROVE ChainInv' /\ (~closed' => DesiredInv')
  <2> DEFINE s == Head(chain)
  <2>1. /\ chain # <<>> /\ s = chain[1] /\ s \in Sets
        /\ chain' = Tail(chain) /\ desired' = s /\ publishing'.set = s
        /\ UNCHANGED <<closed, outcome>>
    BY <1>0, <1>2 DEF ChainGoesOn, Publish, Recorded, Awaits
  <2>2. \A j \in DOMAIN chain' : j + 1 \in DOMAIN chain /\ chain'[j] = chain[j + 1]
    BY <1>0, <2>1
  <2>3. \A j \in DOMAIN chain : j = 1 \/ (j - 1 \in DOMAIN chain' /\ chain'[j - 1] = chain[j])
    BY <1>0, <2>1
  <2>4. \A j \in DOMAIN chain' : s < chain'[j]
    <3>1. 1 \in DOMAIN chain /\ \A j \in DOMAIN chain' : 1 < j + 1
      BY <1>0, <2>1
    <3> QED BY <2>1, <2>2, <3>1 DEF ChainInv
  <2>5. ChainInv'
    <3>1. \A i, j \in DOMAIN chain' : i < j => i + 1 < j + 1
      BY <1>0, <2>1
    <3>2. \A i, j \in DOMAIN chain' : i < j => chain'[i] < chain'[j]
      BY <2>2, <3>1 DEF ChainInv
    <3>3. \A j \in DOMAIN chain' : outcome'[chain'[j]] # "new"
      BY <2>1, <2>2 DEF ChainInv
    <3>4. outcome'[publishing'.set] # "new"
      BY <1>0, <2>1 DEF ChainInv
    <3> QED BY <2>1, <3>2, <3>3, <3>4 DEF ChainInv, Idle
  <2>6. Published' = Published \cup {s}
    <3>1. outcome[s] # "new"
      BY <1>0, <2>1 DEF ChainInv
    <3>2. s \in Published'
      BY <1>0, <2>1, <2>4, <3>1 DEF Published
    <3>3. ASSUME NEW t \in Published PROVE t \in Published'
      BY <2>1, <2>2, <3>3 DEF Published
    <3>4. ASSUME NEW t \in Published', t # s PROVE t \in Published
      BY <2>1, <2>3, <3>4 DEF Published
    <3> QED BY <3>2, <3>3, <3>4
  <2>7. ASSUME ~closed PROVE DesiredInv'
    <3>1. desired < s
      BY <1>0, <2>1, <2>7 DEF DesiredInv
    <3>2. \A t \in Published : t <= s
      <4>1. desired # NoSet => \A t \in Published : t <= desired
        BY <2>7 DEF DesiredInv
      <4>2. desired = NoSet => Published = {}
        BY <2>7 DEF DesiredInv
      <4>3. \A t \in Published : t \in Nat
        BY <1>0 DEF Published
      <4> QED BY <1>0, <2>1, <3>1, <4>1, <4>2, <4>3 DEF BridgeTyped
    <3>3. desired' # NoSet /\ Published' # {} /\ desired' \in Published'
      BY <1>0, <2>1, <2>6
    <3>4. \A t \in Published' : t <= desired'
      <4>1. s <= s
        BY <1>0, <2>1
      <4> QED BY <2>1, <2>6, <3>2, <4>1
    <3>5. \A j \in DOMAIN chain' : desired' < chain'[j]
      BY <2>1, <2>4
    <3> HIDE DEF s
    <3> QED BY <3>3, <3>4, <3>5 DEF DesiredInv
  <2> QED BY <2>1, <2>5, <2>7
<1>3. ASSUME PublishTimesOut PROVE ChainInv' /\ (~closed' => DesiredInv')
  <2>1. publishing # Idle /\ Ends("failed") /\ UNCHANGED <<closed, desired, chain>>
    BY <1>3 DEF PublishTimesOut, HasDeadline, Idle
  <2> QED BY <1>e, <2>1
<1>4. ASSUME Accepts PROVE ChainInv' /\ (~closed' => DesiredInv')
  <2>1. UNCHANGED <<closed, desired, chain, outcome>>
    BY <1>4 DEF Accepts
  <2>2. publishing'.set = publishing.set /\ (publishing' # Idle => publishing # Idle)
    BY <1>4 DEF Accepts, Awaits, Idle
  <2> QED BY <2>1, <2>2 DEF ChainInv, DesiredInv, Published, Idle
<1>5. ASSUME BridgeReads PROVE ChainInv' /\ (~closed' => DesiredInv')
  <2>1. \/ UNCHANGED <<publishing, outcome>>
        \/ /\ publishing # Idle
           /\ \E result \in {"acked", "failed"} : Ends(result)
    BY <1>5 DEF BridgeReads, Settled, Idle
  <2>2. UNCHANGED <<closed, desired, chain>>
    BY <1>5 DEF BridgeReads
  <2> QED BY <1>e, <1>f, <2>1, <2>2
<1>6. ASSUME Close PROVE ChainInv' /\ (~closed' => DesiredInv')
  BY <1>6, EndsStep DEF Close, ChainInv
<1>7. ASSUME \/ \E c \in executing : ToolReturns(c)
             \/ BridgeSeesClose \/ Starts
             \/ \E e \in Instances : \/ Connects(e) \/ ExtReads(e) \/ Calls(e) \/ Aborts(e)
                                    \/ ExtSeesClose(e) \/ ShutsDown(e)
      PROVE  ChainInv' /\ (~closed' => DesiredInv')
  <2>1. UNCHANGED <<closed, desired, chain, publishing, outcome>>
    BY <1>7 DEF ToolReturns, BridgeSeesClose, Starts, Connects, ExtReads, Calls, Aborts,
                ExtSeesClose, ShutsDown, bridge
  <2> QED BY <1>f, <2>1
<1> QED BY <1>1, <1>2, <1>3, <1>4, <1>5, <1>6, <1>7 DEF Next

-----------------------------------------------------------------------------
(* The connections. *)

(* Connections are made, accepted and closed one way only: what is not yet   *)
(* accepted is empty, and a socket is its instance's own.                    *)
LEMMA ConnectionStep ==
  ASSUME IInv, Next
  PROVE  ConnectionInv' /\ BacklogInv' /\ SocketInv'
<1> USE ToolChannelConstants DEF IInv
<1>0. /\ BridgeTyped /\ ExtensionTyped /\ WireTyped
      /\ \A j \in DOMAIN backlog : backlog[j] \in Connections
      /\ \A k \in Connections : k \in Nat /\ k # None /\ k > None
      /\ made \in Nat /\ None \in Nat
  BY DEF TypeOK, BridgeTyped, WireTyped, Connections, None
<1>f. ASSUME UNCHANGED <<closed, current, made, owner, sock, backlog, toExt>>
      PROVE  ConnectionInv' /\ BacklogInv' /\ SocketInv'
  BY <1>f DEF ConnectionInv, BacklogInv, SocketInv
<1>w. ASSUME NEW line, Write(current, line),
             UNCHANGED <<closed, current, made, owner, sock, backlog>>
      PROVE  ConnectionInv' /\ BacklogInv' /\ SocketInv'
  <2>1. ConnectionInv' /\ SocketInv'
    BY <1>w DEF ConnectionInv, SocketInv
  <2>2. \A k \in Connections : k # current => toExt'[k] = toExt[k]
    BY <1>0, <1>w DEF Write, WireTyped
  <2>3. BacklogInv'
    BY <1>0, <1>w, <2>2 DEF BacklogInv
  <2> QED BY <2>1, <2>3
<1>d. ASSUME NEW k \in Connections \cup {None}, NEW e \in Instances,
             toExt' = Drained(toExt, k), sock' = [sock EXCEPT ![e] = None],
             UNCHANGED <<closed, current, made, owner, backlog>>
      PROVE  ConnectionInv' /\ BacklogInv' /\ SocketInv'
  <2>1. \A l \in Connections : toExt'[l] \in {toExt[l], <<>>}
    BY <1>0, <1>d DEF Drained, WireTyped
  <2>2. BacklogInv'
    BY <1>0, <1>d, <2>1 DEF BacklogInv
  <2>3. ConnectionInv' /\ SocketInv'
    BY <1>0, <1>d DEF ConnectionInv, SocketInv, ExtensionTyped
  <2> QED BY <2>2, <2>3
<1>1. ASSUME NEW s \in Sets, SetTools(s)
      PROVE  ConnectionInv' /\ BacklogInv' /\ SocketInv'
  <2>1. UNCHANGED <<closed, current, made, owner, sock, backlog>>
    BY <1>1 DEF SetTools, extension
  <2>2. Write(current, ToolsSet(s)) \/ toExt' = toExt
    BY <1>1 DEF SetTools, Publish
  <2> QED BY <1>f, <1>w, <2>1, <2>2
<1>2. ASSUME ChainGoesOn PROVE ConnectionInv' /\ BacklogInv' /\ SocketInv'
  BY <1>2, <1>w DEF ChainGoesOn, Publish, extension
<1>3. ASSUME NEW c \in executing, ToolReturns(c)
      PROVE  ConnectionInv' /\ BacklogInv' /\ SocketInv'
  BY <1>3, <1>w DEF ToolReturns, extension
<1>4. ASSUME Accepts PROVE ConnectionInv' /\ BacklogInv' /\ SocketInv'
  <2> DEFINE k == Head(backlog)
  <2>1. /\ backlog # <<>> /\ 1 \in DOMAIN backlog /\ k = backlog[1] /\ k \in Connections
        /\ current' = k /\ ~closed /\ backlog' = Tail(backlog)
        /\ UNCHANGED <<closed, made, owner, sock>>
    BY <1>0, <1>4 DEF Accepts, extension, WireTyped
  <2>2. /\ \A j \in DOMAIN backlog' : j + 1 \in DOMAIN backlog /\ backlog'[j] = backlog[j + 1]
        /\ \A i, j \in DOMAIN backlog' : i # j => i + 1 # j + 1
        /\ \A j \in DOMAIN backlog' : 1 # j + 1
    BY <1>0, <2>1 DEF WireTyped
  <2>3. \A l \in Connections : l # k => toExt'[l] = toExt[l]
    <3> HIDE DEF k
    <3>1. toExt' = IF HeldByExtension(k)
                   THEN [toExt EXCEPT ![k] = @ \o Republished(desired)] ELSE toExt
      BY <1>4 DEF Accepts, k
    <3> QED BY <1>0, <2>1, <3>1 DEF WireTyped
  <2>4. k <= made
    BY <2>1 DEF BacklogInv
  <2>5. \A j \in DOMAIN backlog' : backlog'[j] # k
    BY <2>1, <2>2 DEF BacklogInv
  <2>6. BacklogInv'
    <3>1. \A l \in Connections : IF l <= made THEN owner[l] \in Instances ELSE toExt'[l] = <<>>
      BY <1>0, <2>1, <2>3, <2>4 DEF BacklogInv
    <3>2. \A j \in DOMAIN backlog' : backlog'[j] # current' /\ toExt'[backlog'[j]] = <<>>
      BY <1>0, <2>1, <2>2, <2>3, <2>5 DEF BacklogInv
    <3>3. \A i, j \in DOMAIN backlog' : i # j => backlog'[i] # backlog'[j]
      BY <2>2 DEF BacklogInv
    <3>4. current' <= made /\ \A j \in DOMAIN backlog' : backlog'[j] <= made
      BY <2>1, <2>2, <2>4 DEF BacklogInv
    <3> QED BY <2>1, <3>1, <3>2, <3>3, <3>4 DEF BacklogInv
  <2> QED BY <2>1, <2>6 DEF ConnectionInv, SocketInv
<1>5. ASSUME BridgeSeesClose PROVE ConnectionInv' /\ BacklogInv' /\ SocketInv'
  <2>1. current' = None /\ UNCHANGED <<closed, made, owner, sock, backlog, toExt>>
    BY <1>5 DEF BridgeSeesClose, extension
  <2>2. \A j \in DOMAIN backlog : backlog[j] # None
    BY <1>0
  <2>3. None <= made
    BY <1>0 DEF None
  <2>4. BacklogInv'
    BY <2>1, <2>2, <2>3 DEF BacklogInv
  <2> QED BY <2>1, <2>4 DEF ConnectionInv, SocketInv
<1>6. ASSUME Close PROVE ConnectionInv' /\ BacklogInv' /\ SocketInv'
  <2>1. current' = None /\ backlog' = <<>> /\ UNCHANGED <<made, owner, sock, toExt>>
    BY <1>6 DEF Close, extension
  <2>2. DOMAIN backlog' = {}
    BY <2>1
  <2>3. None <= made
    BY <1>0 DEF None
  <2>4. BacklogInv'
    BY <2>1, <2>2, <2>3 DEF BacklogInv
  <2> QED BY <2>1, <2>4 DEF ConnectionInv, SocketInv
<1>7. ASSUME NEW e \in Instances, Connects(e)
      PROVE  ConnectionInv' /\ BacklogInv' /\ SocketInv'
  <2> DEFINE k == made + 1
  <2>1. /\ k \in Connections /\ made' = k /\ sock[e] = None
        /\ sock' = [sock EXCEPT ![e] = k] /\ owner' = [owner EXCEPT ![k] = e]
        /\ backlog' = Append(backlog, k)
        /\ UNCHANGED <<closed, current, toExt>>
    BY <1>0, <1>7 DEF Connects, Connections, WireTyped, bridge
  <2>2. /\ DOMAIN backlog' = DOMAIN backlog \cup {Len(backlog) + 1}
        /\ backlog'[Len(backlog) + 1] = k
        /\ \A j \in DOMAIN backlog : backlog'[j] = backlog[j]
    <3> HIDE DEF k
    <3>1. backlog \in Seq(Connections) /\ backlog' = Append(backlog, k)
      BY <1>0, <2>1 DEF WireTyped
    <3>2. /\ Len(Append(backlog, k)) = Len(backlog) + 1
          /\ Append(backlog, k)[Len(backlog) + 1] = k
          /\ \A j \in 1..Len(backlog) : Append(backlog, k)[j] = backlog[j]
          /\ Append(backlog, k) \in Seq(Connections)
      BY <2>1, <3>1, AppendProperties
    <3> QED BY <3>1, <3>2
  <2>3. \A j \in DOMAIN backlog : backlog[j] # k /\ backlog[j] <= k
    BY <1>0 DEF BacklogInv
  <2>4. current # k /\ current <= k /\ toExt[k] = <<>>
    BY <1>0, <2>1 DEF BacklogInv, BridgeTyped
  <2>5. BacklogInv'
    <3>1. \A l \in Connections : IF l <= made' THEN owner'[l] \in Instances ELSE toExt'[l] = <<>>
      <4>1. \A l \in Connections : l # k => owner'[l] = owner[l] /\ (l <= k <=> l <= made)
        BY <1>0, <2>1 DEF WireTyped
      <4>2. owner'[k] = e /\ k <= made'
        BY <1>0, <2>1 DEF WireTyped
      <4> QED BY <2>1, <4>1, <4>2 DEF BacklogInv
    <3>2. \A j \in DOMAIN backlog' : backlog'[j] # current' /\ toExt'[backlog'[j]] = <<>>
      BY <2>1, <2>2, <2>4 DEF BacklogInv
    <3>3. \A i, j \in DOMAIN backlog' : i # j => backlog'[i] # backlog'[j]
      BY <2>2, <2>3 DEF BacklogInv
    <3>4. current' <= made' /\ \A j \in DOMAIN backlog' : backlog'[j] <= made'
      BY <1>0, <2>1, <2>2, <2>3, <2>4 DEF BacklogInv
    <3> QED BY <3>1, <3>2, <3>3, <3>4 DEF BacklogInv
  <2>6. SocketInv'
    BY <1>0, <2>1 DEF SocketInv, ExtensionTyped, WireTyped
  <2> QED BY <2>1, <2>5, <2>6 DEF ConnectionInv
<1>8. ASSUME NEW e \in Instances, ExtReads(e)
      PROVE  ConnectionInv' /\ BacklogInv' /\ SocketInv'
  <2>1. /\ sock[e] \in Connections /\ toExt[sock[e]] # <<>>
        /\ toExt' = [toExt EXCEPT ![sock[e]] = Tail(@)]
        /\ UNCHANGED <<closed, current, made, owner, sock, backlog>>
    BY <1>0, <1>8 DEF ExtReads, bridge, ExtensionTyped
  <2>2. \A l \in Connections : toExt[l] = <<>> => toExt'[l] = toExt[l]
    BY <1>0, <2>1 DEF WireTyped
  <2> QED BY <1>0, <2>1, <2>2 DEF ConnectionInv, BacklogInv, SocketInv
<1>9. ASSUME NEW e \in Instances, ExtSeesClose(e) \/ ShutsDown(e)
      PROVE  ConnectionInv' /\ BacklogInv' /\ SocketInv'
  <2>1. sock[e] \in Connections \cup {None}
    BY <1>0 DEF ExtensionTyped
  <2>2. /\ toExt' = Drained(toExt, sock[e]) /\ sock' = [sock EXCEPT ![e] = None]
        /\ UNCHANGED <<closed, current, made, owner, backlog>>
    BY <1>9 DEF ExtSeesClose, ShutsDown, bridge
  <2> QED BY <1>d, <2>1, <2>2
<1>10. ASSUME \/ PublishTimesOut \/ BridgeReads \/ Starts
              \/ \E e \in Instances : Calls(e) \/ Aborts(e)
       PROVE  ConnectionInv' /\ BacklogInv' /\ SocketInv'
  <2>1. UNCHANGED <<closed, current, made, owner, sock, backlog, toExt>>
    BY <1>10 DEF PublishTimesOut, BridgeReads, Starts, Calls, Aborts, bridge, extension, wire
  <2> QED BY <1>f, <2>1
<1> QED BY <1>1, <1>2, <1>3, <1>4, <1>5, <1>6, <1>7, <1>8, <1>9, <1>10 DEF Next

-----------------------------------------------------------------------------
(* The set in force. *)

(* What a line written or read does to the last set among the lines. *)
LEMMA LastSet ==
  ASSUME NEW lines \in Seq(ToExtension), NEW s \in Sets
  PROVE  /\ EndsWith(Append(lines, ToolsSet(s)), s)
         /\ \A line \in ToExtension :
              ~IsSet(line) => /\ EndsWith(lines, s) => EndsWith(Append(lines, line), s)
                              /\ NoSetIn(lines) => NoSetIn(Append(lines, line))
         /\ lines # <<>> =>
              /\ NoSetIn(lines) => NoSetIn(Tail(lines)) /\ ~IsSet(Head(lines))
              /\ EndsWith(lines, s) =>
                   \/ EndsWith(Tail(lines), s)
                   \/ NoSetIn(Tail(lines)) /\ Head(lines) = ToolsSet(s)
<1>1. EndsWith(Append(lines, ToolsSet(s)), s)
  <2>1. /\ Len(lines) + 1 \in DOMAIN Append(lines, ToolsSet(s))
        /\ Append(lines, ToolsSet(s))[Len(lines) + 1] = ToolsSet(s)
        /\ \A i \in DOMAIN Append(lines, ToolsSet(s)) : ~(i > Len(lines) + 1)
    OBVIOUS
  <2> QED BY <2>1 DEF EndsWith
<1>2. ASSUME NEW line \in ToExtension, ~IsSet(line)
      PROVE  /\ EndsWith(lines, s) => EndsWith(Append(lines, line), s)
             /\ NoSetIn(lines) => NoSetIn(Append(lines, line))
  <2> DEFINE longer == Append(lines, line)
  <2>1. /\ \A i \in DOMAIN lines : i \in DOMAIN longer /\ longer[i] = lines[i]
        /\ \A i \in DOMAIN longer : i \in DOMAIN lines \/ longer[i] = line
    OBVIOUS
  <2> HIDE DEF longer
  <2>2. EndsWith(lines, s) => EndsWith(longer, s)
    <3> SUFFICES ASSUME EndsWith(lines, s) PROVE EndsWith(longer, s)
      OBVIOUS
    <3>1. PICK j \in DOMAIN lines : /\ lines[j] = ToolsSet(s)
                                    /\ \A i \in DOMAIN lines : i > j => ~IsSet(lines[i])
      BY DEF EndsWith
    <3>2. \A i \in DOMAIN longer : i > j => ~IsSet(longer[i])
      BY <1>2, <2>1, <3>1
    <3> QED BY <2>1, <3>1, <3>2 DEF EndsWith
  <2>3. NoSetIn(lines) => NoSetIn(longer)
    BY <1>2, <2>1 DEF NoSetIn
  <2> QED BY <2>2, <2>3 DEF longer
<1>3. ASSUME lines # <<>>
      PROVE  /\ NoSetIn(lines) => NoSetIn(Tail(lines)) /\ ~IsSet(Head(lines))
             /\ EndsWith(lines, s) =>
                  \/ EndsWith(Tail(lines), s)
                  \/ NoSetIn(Tail(lines)) /\ Head(lines) = ToolsSet(s)
  <2> DEFINE rest == Tail(lines)
  <2>1. /\ 1 \in DOMAIN lines /\ Head(lines) = lines[1] /\ DOMAIN rest \subseteq Nat
        /\ \A i \in DOMAIN rest : i + 1 \in DOMAIN lines /\ rest[i] = lines[i + 1] /\ i + 1 > 1
        /\ \A i \in DOMAIN lines :
             i \in Nat /\ (i # 1 => i - 1 \in DOMAIN rest /\ rest[i - 1] = lines[i])
    BY <1>3
  <2> HIDE DEF rest
  <2>2. NoSetIn(lines) => NoSetIn(rest) /\ ~IsSet(Head(lines))
    BY <2>1 DEF NoSetIn
  <2>3. ASSUME EndsWith(lines, s)
        PROVE  EndsWith(rest, s) \/ (NoSetIn(rest) /\ Head(lines) = ToolsSet(s))
    <3>1. PICK j \in DOMAIN lines : /\ lines[j] = ToolsSet(s)
                                    /\ \A i \in DOMAIN lines : i > j => ~IsSet(lines[i])
      BY <2>3 DEF EndsWith
    <3>2. CASE j = 1
      BY <2>1, <3>1, <3>2 DEF NoSetIn
    <3>3. CASE j # 1
      <4>1. \A i \in DOMAIN rest : i > j - 1 => i + 1 > j
        BY <2>1
      <4>2. \A i \in DOMAIN rest : i > j - 1 => ~IsSet(rest[i])
        BY <2>1, <3>1, <4>1
      <4> QED BY <2>1, <3>1, <3>3, <4>2 DEF EndsWith
    <3> QED BY <3>2, <3>3
  <2> QED BY <2>2, <2>3 DEF rest
<1> QED BY <1>1, <1>2, <1>3

(* What an accepted connection is sent ends with the desired set. *)
LEMMA RepublishedEnds ==
  ASSUME NEW s \in Sets
  PROVE  EndsWith(<<>> \o Republished(s), s)
<1> DEFINE line == ToolsSet(s)
           one == <<line>>
<1>1. s # NoSet
  BY ToolChannelConstants DEF Sets, NoSet
<1>2. EndsWith(one, s)
  <2>1. 1 \in DOMAIN one /\ one[1] = line /\ \A i \in DOMAIN one : ~(i > 1)
    OBVIOUS
  <2> QED BY <2>1 DEF EndsWith
<1>3. EndsWith(one \o one, s)
  <2> HIDE DEF line
  <2>1. one \in Seq({line}) /\ Len(one) = 1 /\ one[1] = line
    OBVIOUS
  <2>2. Len(one \o one) = 2 /\ (one \o one)[2] = line /\ one \o one \in Seq({line})
    <3> HIDE DEF one
    <3>1. /\ one \o one \in Seq({line}) /\ Len(one \o one) = Len(one) + Len(one)
          /\ \A i \in 1 .. Len(one) + Len(one) :
               (one \o one)[i] = IF i <= Len(one) THEN one[i] ELSE one[i - Len(one)]
      BY <2>1, ConcatProperties, Zenon
    <3> QED BY <2>1, <3>1
  <2>3. 2 \in DOMAIN (one \o one) /\ \A i \in DOMAIN (one \o one) : ~(i > 2)
    <3> HIDE DEF one
    <3> QED BY <2>2
  <2> QED BY <2>2, <2>3 DEF EndsWith, line
<1>4. <<>> \o one = one /\ one \o <<>> = one /\ <<>> \o (one \o one) = one \o one
  <2> HIDE DEF line
  <2>1. one \in Seq({line})
    OBVIOUS
  <2>2. one \o one \in Seq({line})
    BY <2>1, ConcatProperties
  <2> QED BY <2>1, <2>2, ConcatEmptySeq
<1>5. Republished(s) = one \o one \/ Republished(s) = one \o <<>>
  BY <1>1 DEF Republished, ByPublish
<1> QED BY <1>2, <1>3, <1>4, <1>5

(* Publishing, accepting and reading keep the last set on its way, or the one *)
(* in force, the desired one.                                                *)
LEMMA ServedStep ==
  ASSUME IInv, Next
  PROVE  ServedInv'
<1> USE ToolChannelConstants DEF IInv
<1>0. /\ BridgeTyped /\ ExtensionTyped /\ WireTyped
      /\ \A k \in Connections : toExt[k] \in Seq(ToExtension)
      /\ desired # NoSet => desired \in Sets
      /\ current # None => current \in Connections /\ owner[current] \in Instances
  BY DEF TypeOK, BridgeTyped, WireTyped, BacklogInv
<1>f. ASSUME UNCHANGED <<current, desired, sock, owner, toExt, active>>
      PROVE  ServedInv'
  BY <1>f DEF ServedInv, HeldByExtension
<1>p. ASSUME NEW s \in Sets, Write(current, ToolsSet(s)), desired' = s,
             UNCHANGED <<current, sock, owner, active>>
      PROVE  ServedInv'
  <2> SUFFICES ASSUME current # None, HeldByExtension(current)
               PROVE  EndsWith(toExt'[current], s)
    BY <1>p DEF ServedInv, HeldByExtension
  <2>1. toExt'[current] = Append(toExt[current], ToolsSet(s))
    BY <1>0, <1>p DEF Write, WireTyped
  <2> QED BY <1>0, <2>1, LastSet
<1>1. ASSUME NEW s \in Sets, SetTools(s) PROVE ServedInv'
  <2>1. UNCHANGED <<current, sock, owner, active>>
    BY <1>1 DEF SetTools, extension
  <2>2. \/ UNCHANGED <<desired, toExt>>
        \/ desired' = s /\ Write(current, ToolsSet(s))
    BY <1>1 DEF SetTools, Publish, Recorded
  <2> QED BY <1>f, <1>p, <2>1, <2>2
<1>2. ASSUME ChainGoesOn PROVE ServedInv'
  <2>1. Head(chain) \in Sets
    BY <1>0, <1>2 DEF ChainGoesOn, BridgeTyped
  <2>2. /\ desired' = Head(chain) /\ Write(current, ToolsSet(Head(chain)))
        /\ UNCHANGED <<current, sock, owner, active>>
    BY <1>2 DEF ChainGoesOn, Publish, Recorded, extension
  <2> QED BY <1>p, <2>1, <2>2
<1>3. ASSUME Accepts PROVE ServedInv'
  <2> DEFINE k == Head(backlog)
  <2>1. /\ 1 \in DOMAIN backlog /\ k = backlog[1] /\ k \in Connections /\ current' = k
        /\ UNCHANGED <<desired, sock, owner, active>>
    BY <1>0, <1>3 DEF Accepts, extension, WireTyped
  <2>2. toExt[k] = <<>>
    BY <2>1 DEF BacklogInv
  <2> SUFFICES ASSUME desired # NoSet, HeldByExtension(k)
               PROVE  EndsWith(toExt'[k], desired)
    BY <2>1 DEF ServedInv, HeldByExtension
  <2>3. toExt' = [toExt EXCEPT ![k] = @ \o Republished(desired)]
    BY <1>3 DEF Accepts
  <2>4. toExt'[k] = <<>> \o Republished(desired)
    BY <1>0, <2>1, <2>2, <2>3 DEF WireTyped
  <2> QED BY <1>0, <2>4, RepublishedEnds
<1>4. ASSUME NEW c \in executing, ToolReturns(c) PROVE ServedInv'
  <2>1. /\ Write(current, ToolResult(c)) /\ UNCHANGED <<current, desired, sock, owner, active>>
        /\ ToolResult(c) \in ToExtension /\ ~IsSet(ToolResult(c))
    BY <1>0, <1>4, LinesAreTyped DEF ToolReturns, extension, BridgeTyped, IsSet, ToolResult
  <2> SUFFICES ASSUME current # None, desired # NoSet, HeldByExtension(current)
               PROVE  \/ EndsWith(toExt'[current], desired)
                      \/ /\ NoSetIn(toExt'[current])
                         /\ active[owner[current]] \in {desired, Mixed}
    BY <2>1 DEF ServedInv, HeldByExtension
  <2>2. toExt'[current] = Append(toExt[current], ToolResult(c))
    BY <1>0, <2>1 DEF Write, WireTyped
  <2> QED BY <1>0, <2>1, <2>2, LastSet DEF ServedInv
<1>5. ASSUME BridgeSeesClose \/ Close PROVE ServedInv'
  BY <1>5 DEF BridgeSeesClose, Close, ServedInv
<1>6. ASSUME NEW e \in Instances, Connects(e) PROVE ServedInv'
  <2>1. /\ sock[e] = None /\ sock' = [sock EXCEPT ![e] = made + 1]
        /\ owner' = [owner EXCEPT ![made + 1] = e]
        /\ UNCHANGED <<current, desired, toExt, active>>
    BY <1>6 DEF Connects, bridge
  <2>2. current # None => current # made + 1
    BY <1>0 DEF BacklogInv, WireTyped, BridgeTyped, Connections
  <2>3. current # None => owner'[current] = owner[current]
    BY <1>0, <2>1, <2>2 DEF WireTyped
  <2>4. current # None /\ HeldByExtension(current)' => HeldByExtension(current)
    BY <1>0, <2>1, <2>2, <2>3 DEF HeldByExtension, ExtensionTyped
  <2> QED BY <2>1, <2>3, <2>4 DEF ServedInv
<1>7. ASSUME NEW e \in Instances, ExtReads(e) PROVE ServedInv'
  <2> DEFINE lines == toExt[sock[e]]
  <2>1. /\ sock[e] \in Connections /\ lines # <<>> /\ lines \in Seq(ToExtension)
        /\ owner[sock[e]] = e
        /\ toExt' = [toExt EXCEPT ![sock[e]] = Tail(@)]
        /\ UNCHANGED <<current, desired, sock, owner>>
    BY <1>0, <1>7 DEF ExtReads, bridge, ExtensionTyped, SocketInv
  <2>2. \/ /\ IsSet(Head(lines))
           /\ \/ active' = [active EXCEPT ![e] = Head(lines).set]
              \/ active' = [active EXCEPT ![e] = Mixed]
        \/ ~IsSet(Head(lines)) /\ active' = active
    BY <1>7 DEF ExtReads, IsSet, AppliesSet, TakesResult
  <2> SUFFICES ASSUME current # None, desired # NoSet, HeldByExtension(current)
               PROVE  \/ EndsWith(toExt'[current], desired)
                      \/ /\ NoSetIn(toExt'[current])
                         /\ active'[owner[current]] \in {desired, Mixed}
    BY <2>1 DEF ServedInv, HeldByExtension
  <2>3. CASE sock[e] = current
    <3>1. toExt'[current] = Tail(lines) /\ owner[current] = e
      BY <1>0, <2>1, <2>3 DEF WireTyped
    <3>2. \/ EndsWith(lines, desired)
          \/ NoSetIn(lines) /\ active[e] \in {desired, Mixed}
      BY <2>1, <2>3 DEF ServedInv
    <3>3. CASE EndsWith(Tail(lines), desired)
      BY <3>1, <3>3
    <3>4. CASE NoSetIn(Tail(lines)) /\ Head(lines) = ToolsSet(desired)
      <4>1. IsSet(Head(lines)) /\ Head(lines).set = desired
        BY <3>4 DEF IsSet, ToolsSet
      <4>2. active'[e] \in {desired, Mixed}
        BY <1>0, <2>2, <4>1 DEF ExtensionTyped
      <4> QED BY <3>1, <3>4, <4>2
    <3>5. CASE NoSetIn(lines) /\ active[e] \in {desired, Mixed}
      <4>1. NoSetIn(Tail(lines)) /\ ~IsSet(Head(lines))
        BY <1>0, <2>1, <3>5, LastSet
      <4> QED BY <2>2, <3>1, <3>5, <4>1
    <3> QED BY <1>0, <2>1, <3>2, <3>3, <3>4, <3>5, LastSet
  <2>4. CASE sock[e] # current
    <3>1. toExt'[current] = toExt[current] /\ owner[current] # e
      BY <1>0, <2>1, <2>4 DEF HeldByExtension, WireTyped
    <3>2. active'[owner[current]] = active[owner[current]]
      BY <1>0, <2>2, <3>1 DEF ExtensionTyped
    <3> QED BY <3>1, <3>2 DEF ServedInv
  <2> QED BY <2>3, <2>4
<1>8. ASSUME NEW e \in Instances, ExtSeesClose(e) \/ ShutsDown(e) PROVE ServedInv'
  <2>1. /\ toExt' = Drained(toExt, sock[e]) /\ sock' = [sock EXCEPT ![e] = None]
        /\ UNCHANGED <<current, desired, owner, active>>
    BY <1>8 DEF ExtSeesClose, ShutsDown, bridge
  <2> SUFFICES ASSUME current # None, HeldByExtension(current)'
               PROVE  HeldByExtension(current) /\ toExt'[current] = toExt[current]
    BY <2>1 DEF ServedInv
  <2>2. owner[current] # e /\ sock[owner[current]] = current
    BY <1>0, <2>1 DEF HeldByExtension, ExtensionTyped
  <2>3. sock[e] # current
    BY <1>0, <2>2 DEF SocketInv
  <2>4. toExt'[current] = toExt[current]
    BY <1>0, <2>1, <2>3 DEF Drained, WireTyped
  <2> QED BY <2>2, <2>4 DEF HeldByExtension
<1>9. ASSUME \/ PublishTimesOut \/ BridgeReads \/ Starts
             \/ \E e \in Instances : Calls(e) \/ Aborts(e)
      PROVE  ServedInv'
  <2>1. UNCHANGED <<current, desired, sock, owner, toExt, active>>
    BY <1>9 DEF PublishTimesOut, BridgeReads, Starts, Calls, Aborts, bridge, extension, wire
  <2> QED BY <1>f, <2>1
<1> QED BY <1>1, <1>2, <1>3, <1>4, <1>5, <1>6, <1>7, <1>8, <1>9 DEF Next

(* The inductive invariant holds throughout. *)
LEMMA ChannelInvariant == Spec => []IInv
<1>1. Init => IInv
  <2> SUFFICES ASSUME Init PROVE IInv
    OBVIOUS
  <2>1. TypeOK
    BY InitTyped
  <2>2. ChainInv /\ DesiredInv
    BY DEF Init, ChainInv, DesiredInv, Published, Idle
  <2>3. ConnectionInv /\ BacklogInv /\ SocketInv /\ ServedInv
    BY DEF Init, ConnectionInv, BacklogInv, SocketInv, ServedInv, None, Connections
  <2> QED BY <2>1, <2>2, <2>3 DEF IInv
<1>2. IInv /\ [Next]_vars => IInv'
  <2>1. ASSUME IInv, Next PROVE IInv'
    BY <2>1, TypeStep, PublishStep, ConnectionStep, ServedStep DEF IInv
  <2>2. ASSUME IInv, UNCHANGED vars PROVE IInv'
    <3>1. TypeOK'
      BY <2>2 DEF IInv, TypeOK, BridgeTyped, ExtensionTyped, WireTyped,
                  vars, bridge, extension, wire, hist
    <3>2. /\ ChainInv' /\ (~closed' => DesiredInv') /\ ConnectionInv'
          /\ BacklogInv' /\ SocketInv' /\ ServedInv'
      BY <2>2 DEF IInv, ChainInv, DesiredInv, Published, ConnectionInv, BacklogInv,
                  SocketInv, ServedInv, HeldByExtension, vars, bridge, extension, wire
    <3> QED BY <3>1, <3>2 DEF IInv
  <2> QED BY <2>1, <2>2
<1> QED BY <1>1, <1>2, PTL DEF Spec

(* Whatever is published, replaced, dropped and timed out: the extension the *)
(* channel holds has the last published set in force once it has read what   *)
(* it was sent.                                                              *)
THEOREM PublishedSetIsServed == Spec => []ServedSetIsPublished
<1>1. IInv => ServedSetIsPublished
  <2> SUFFICES ASSUME IInv, current # None, Published # {}, HeldByExtension(current),
                      NoSetIn(toExt[current])
               PROVE  active[owner[current]] \in {LastPublished, Mixed}
    BY DEF ServedSetIsPublished, NoSetIn, IsSet
  <2>1. desired \in Published /\ \A s \in Published : s <= desired
    BY DEF IInv, ConnectionInv, DesiredInv
  <2>2. LastPublished = desired
    <3>1. \A s \in Published : s \in Nat
      BY ToolChannelConstants DEF Published, Sets
    <3>2. \A s \in Published : (\A t \in Published : t <= s) => s = desired
      BY <2>1, <3>1
    <3> QED BY <2>1, <3>2 DEF LastPublished
  <2>3. ~EndsWith(toExt[current], desired)
    BY DEF EndsWith, NoSetIn, IsSet, ToolsSet
  <2> QED BY <2>1, <2>2, <2>3 DEF IInv, ServedInv, DesiredInv, ConnectionInv
<1> QED BY <1>1, ChannelInvariant, PTL

-----------------------------------------------------------------------------
(* Acks. *)

(* A set on its way to an extension, desired or applied is one that a        *)
(* setTools was called with.                                                 *)
Called(s) == outcome[s] # "new"
CalledLines == {l \in ToExtension : IsSet(l) => Called(l.set)}

(* Nothing is acked before an extension has applied something. *)
AckLines == {l \in ToBridge : l = ToolsAck(TRUE) => applied # {}}

AckInv ==
  /\ desired # NoSet => Called(desired)
  /\ \A s \in applied : Called(s)
  /\ toExt \in [Connections -> Seq(CalledLines)]
  /\ toBridge \in [Connections -> Seq(AckLines)]
  /\ \A s \in Sets : outcome[s] = "acked" => applied # {}

(* Sequences of a set are sequences of a larger one. *)
LEMMA ChannelsGrow ==
  ASSUME NEW Small, NEW Large, Small \subseteq Large,
         NEW channel \in [Connections -> Seq(Small)]
  PROVE  channel \in [Connections -> Seq(Large)]
<1>1. \A lines \in Seq(Small) : lines \in Seq(Large)
  <2> TAKE lines \in Seq(Small)
  <2>1. Len(lines) \in Nat /\ lines \in [1..Len(lines) -> Large]
    OBVIOUS
  <2> QED BY <2>1
<1> QED BY <1>1

(* What a connection is sent when it is accepted. *)
LEMMA RepublishedIsCalled ==
  ASSUME AckInv, desired \in Sets \cup {NoSet}, desired # NoSet => desired \in Sets
  PROVE  Republished(desired) \in Seq(CalledLines)
<1>1. CASE desired = NoSet
  BY <1>1 DEF Republished
<1>2. CASE desired # NoSet
  <2>1. ToolsSet(desired) \in CalledLines
    BY <1>2, LinesAreTyped DEF AckInv, CalledLines, ToolsSet, IsSet
  <2>2. <<ToolsSet(desired)>> \in Seq(CalledLines) /\ <<>> \in Seq(CalledLines)
    BY <2>1
  <2>3. ByPublish(desired) \in Seq(CalledLines)
    BY <2>2 DEF ByPublish
  <2> QED BY <1>2, <2>2, <2>3 DEF Republished
<1> QED BY <1>1, <1>2

(* A setTools that was called stays called, and a set that was applied,      *)
(* applied.                                                                  *)
LEMMA HistoryGrows ==
  ASSUME IInv, Next
  PROVE  /\ \A s \in Sets : Called(s) => Called(s)'
         /\ applied \subseteq applied'
         /\ CalledLines \subseteq CalledLines' /\ AckLines \subseteq AckLines'
<1>0. outcome \in [Sets -> {"new", "waiting", "acked", "failed"}]
  BY DEF IInv, TypeOK, BridgeTyped
<1>1. \A s \in Sets : Called(s) => Called(s)'
  <2>1. ASSUME NEW result \in {"acked", "failed"}, Ends(result)
        PROVE  \A s \in Sets : Called(s) => Called(s)'
    BY <1>0, <2>1 DEF Ends, Called
  <2>2. ASSUME NEW s \in Sets, SetTools(s)
        PROVE  \A t \in Sets : Called(t) => Called(t)'
    <3>1. outcome' \in {[outcome EXCEPT ![s] = "failed"], [outcome EXCEPT ![s] = "waiting"]}
      BY <2>2 DEF SetTools
    <3> QED BY <1>0, <3>1 DEF Called
  <2>3. ASSUME PublishTimesOut \/ BridgeReads \/ Close
        PROVE  \/ outcome' = outcome
               \/ Ends("failed") \/ Ends("acked")
    BY <2>3 DEF PublishTimesOut, BridgeReads, Close, Settled
  <2>4. ASSUME \/ ChainGoesOn \/ Accepts \/ BridgeSeesClose \/ Starts
               \/ \E c \in executing : ToolReturns(c)
               \/ \E e \in Instances : \/ Connects(e) \/ ExtReads(e) \/ Calls(e) \/ Aborts(e)
                                      \/ ExtSeesClose(e) \/ ShutsDown(e)
        PROVE  outcome' = outcome
    BY <2>4 DEF ChainGoesOn, Accepts, BridgeSeesClose, Starts, ToolReturns, Connects, ExtReads,
                Calls, Aborts, ExtSeesClose, ShutsDown, bridge
  <2> QED BY <2>1, <2>2, <2>3, <2>4 DEF Next, Called
<1>2. applied \subseteq applied'
  <2>1. ASSUME NEW e \in Instances, ExtReads(e) PROVE applied \subseteq applied'
    BY <2>1 DEF ExtReads, AppliesSet, TakesResult
  <2>2. ASSUME \/ \E s \in Sets : SetTools(s)
               \/ ChainGoesOn \/ PublishTimesOut \/ Accepts \/ BridgeReads
               \/ \E c \in executing : ToolReturns(c)
               \/ BridgeSeesClose \/ Close \/ Starts
               \/ \E e \in Instances : \/ Connects(e) \/ Calls(e) \/ Aborts(e)
                                      \/ ExtSeesClose(e) \/ ShutsDown(e)
        PROVE  applied' = applied
    BY <2>2 DEF SetTools, ChainGoesOn, PublishTimesOut, Accepts, BridgeReads, ToolReturns,
                BridgeSeesClose, Close, Starts, Connects, Calls, Aborts, ExtSeesClose,
                ShutsDown, hist
  <2> QED BY <2>1, <2>2 DEF Next
<1>3. CalledLines \subseteq CalledLines'
  <2>1. \A l \in ToExtension : IsSet(l) => l.set \in Sets
    BY LinesAreRead
  <2>2. CalledLines' = {l \in ToExtension : IsSet(l) => Called(l.set)'}
    BY DEF CalledLines, Called
  <2> QED BY <1>1, <2>1, <2>2 DEF CalledLines
<1>4. AckLines \subseteq AckLines'
  BY <1>2 DEF AckLines
<1> QED BY <1>1, <1>2, <1>3, <1>4

(* Every step keeps it: an ack is sent by the extension that applied a set,  *)
(* and the bridge settles a setTools by an ack that was sent.                *)
LEMMA AckStep ==
  ASSUME IInv, AckInv, Next
  PROVE  AckInv'
<1>0. /\ BridgeTyped /\ ExtensionTyped /\ WireTyped
      /\ desired \in Sets \cup {NoSet} /\ current \in Connections \cup {None}
      /\ \A k \in Connections : toExt[k] \in Seq(CalledLines) /\ toBridge[k] \in Seq(AckLines)
  BY DEF IInv, TypeOK, BridgeTyped, AckInv
<1>g. /\ \A s \in Sets : Called(s) => Called(s)'
      /\ applied \subseteq applied'
      /\ CalledLines \subseteq CalledLines' /\ AckLines \subseteq AckLines'
  BY HistoryGrows
<1>x. toExt \in [Connections -> Seq(CalledLines')]
  BY <1>g, ChannelsGrow DEF AckInv
<1>b. toBridge \in [Connections -> Seq(AckLines')]
  BY <1>g, ChannelsGrow DEF AckInv
<1>d. desired' = desired => (desired' # NoSet => Called(desired)')
  BY <1>0, <1>g DEF AckInv, Called
<1>a. applied' = applied => \A s \in applied' : Called(s)'
  BY <1>g DEF AckInv, IInv, TypeOK, Called
<1>o. outcome' = outcome => \A s \in Sets : outcome'[s] = "acked" => applied' # {}
  BY <1>g DEF AckInv
<1>e. Ends("failed") /\ publishing # Idle
        => \A s \in Sets : outcome'[s] = "acked" => applied' # {}
  BY <1>0, <1>g DEF AckInv, Ends, BridgeTyped
<1>w. ASSUME NEW s \in Sets, Called(s)', Write(current, ToolsSet(s)), desired' = s
      PROVE  /\ desired' # NoSet => Called(desired)'
             /\ toExt' \in [Connections -> Seq(CalledLines')]
  <2>1. ToolsSet(s) \in CalledLines'
    <3>1. CalledLines' = {l \in ToExtension : IsSet(l) => Called(l.set)'}
      BY DEF CalledLines, Called
    <3> QED BY <1>w, <3>1, LinesAreTyped DEF ToolsSet
  <2> QED BY <1>0, <1>x, <1>w, <2>1, WritesAreTyped DEF Called
<1>1. ASSUME NEW s \in Sets, SetTools(s) PROVE AckInv'
  <2>1. applied' = applied /\ toBridge' = toBridge
    BY <1>1 DEF SetTools, hist
  <2>2. outcome' \in {[outcome EXCEPT ![s] = "failed"], [outcome EXCEPT ![s] = "waiting"]}
    BY <1>1 DEF SetTools
  <2>3. Called(s)' /\ \A t \in Sets : outcome'[t] = "acked" => applied' # {}
    BY <1>0, <1>g, <2>1, <2>2 DEF AckInv, Called, BridgeTyped
  <2>4. \/ UNCHANGED <<desired, toExt>>
        \/ Write(current, ToolsSet(s)) /\ desired' = s
    BY <1>1 DEF SetTools, Publish, Recorded
  <2> QED BY <1>x, <1>b, <1>d, <1>a, <1>w, <2>1, <2>3, <2>4 DEF AckInv
<1>2. ASSUME ChainGoesOn PROVE AckInv'
  <2>1. chain \in Seq(Sets) /\ chain # <<>>
    BY <1>0, <1>2 DEF ChainGoesOn, BridgeTyped
  <2>2. PICK s \in Sets : s = Head(chain) /\ \E j \in DOMAIN chain : s = chain[j]
    BY <2>1
  <2>3. Called(s)'
    <3>1. Called(s)
      BY <2>2 DEF IInv, ChainInv, Called
    <3> QED BY <1>g, <3>1
  <2>4. Write(current, ToolsSet(s)) /\ desired' = s /\ UNCHANGED <<outcome, applied, toBridge>>
    BY <1>2, <2>2 DEF ChainGoesOn, Publish, Recorded, hist
  <2> QED BY <1>b, <1>a, <1>o, <1>w, <2>3, <2>4 DEF AckInv
<1>3. ASSUME PublishTimesOut PROVE AckInv'
  <2>1. Ends("failed") /\ publishing # Idle /\ UNCHANGED <<desired, applied, toExt, toBridge>>
    BY <1>3 DEF PublishTimesOut, HasDeadline, Idle, wire, hist
  <2> QED BY <1>x, <1>b, <1>d, <1>a, <1>e, <2>1 DEF AckInv
<1>4. ASSUME Accepts PROVE AckInv'
  <2> DEFINE k == Head(backlog)
  <2>1. /\ k \in Connections
        /\ UNCHANGED <<desired, outcome, applied>>
        /\ toBridge' = Drained(toBridge, current)
        /\ toExt' = IF HeldByExtension(k)
                    THEN [toExt EXCEPT ![k] = @ \o Republished(desired)] ELSE toExt
    BY <1>0, <1>4 DEF Accepts, hist, WireTyped
  <2>2. toBridge' \in [Connections -> Seq(AckLines')]
    BY <1>0, <1>b, <2>1, DrainsAreTyped
  <2>3. CalledLines' = CalledLines
    BY <2>1 DEF CalledLines, Called
  <2>4. toExt' \in [Connections -> Seq(CalledLines')]
    <3>1. Republished(desired) \in Seq(CalledLines)
      BY <1>0, RepublishedIsCalled
    <3>2. toExt[k] \o Republished(desired) \in Seq(CalledLines)
      BY <1>0, <2>1, <3>1
    <3> HIDE DEF k
    <3> QED BY <1>x, <2>1, <2>3, <3>2
  <2> QED BY <1>d, <1>a, <1>o, <2>1, <2>2, <2>4 DEF AckInv
<1>5. ASSUME BridgeReads PROVE AckInv'
  <2> DEFINE lines == toBridge[current]
             line == Head(lines)
  <2>1. /\ current \in Connections /\ lines # <<>> /\ lines \in Seq(AckLines)
        /\ UNCHANGED <<desired, applied, toExt>>
        /\ toBridge' = [toBridge EXCEPT ![current] = Tail(@)]
        /\ \/ outcome' = outcome
           \/ line.type = "tools/ack" /\ publishing.awaits = "ack" /\ Ends(Settled(line.ok))
    BY <1>0, <1>5 DEF BridgeReads, extension, hist
  <2>2. line \in AckLines /\ Tail(lines) \in Seq(AckLines)
    BY <2>1
  <2>3. toBridge' \in [Connections -> Seq(AckLines')]
    <3>1. AckLines' = AckLines
      BY <2>1 DEF AckLines
    <3> HIDE DEF lines
    <3> QED BY <1>b, <2>1, <2>2, <3>1 DEF lines
  <2>4. \A s \in Sets : outcome'[s] = "acked" => applied' # {}
    <3>1. CASE outcome' = outcome
      BY <1>o, <3>1
    <3>2. CASE line.type = "tools/ack" /\ publishing.awaits = "ack" /\ Ends(Settled(line.ok))
      <4>1. publishing # Idle
        BY <3>2 DEF Idle
      <4>2. line \in ToBridge /\ (line = ToolsAck(TRUE) => applied # {})
        BY <2>2 DEF AckLines
      <4>3. line.ok \in BOOLEAN /\ line = ToolsAck(line.ok)
        BY <3>2, <4>2 DEF ToBridge, ToolsAck
      <4> HIDE DEF line
      <4>4. CASE line.ok = TRUE
        BY <2>1, <4>2, <4>3, <4>4
      <4>5. CASE line.ok = FALSE
        BY <1>e, <3>2, <4>1, <4>5 DEF Settled
      <4> QED BY <4>3, <4>4, <4>5
    <3> QED BY <2>1, <3>1, <3>2
  <2> QED BY <1>x, <1>d, <1>a, <2>1, <2>3, <2>4 DEF AckInv
<1>6. ASSUME NEW c \in executing, ToolReturns(c) PROVE AckInv'
  <2>1. Write(current, ToolResult(c)) /\ UNCHANGED <<desired, outcome, applied, toBridge>>
    BY <1>6 DEF ToolReturns, hist
  <2>2. ToolResult(c) \in CalledLines'
    <3>1. CalledLines' = {l \in ToExtension : IsSet(l) => Called(l.set)'}
      BY DEF CalledLines, Called
    <3>2. ToolResult(c) \in ToExtension /\ ~IsSet(ToolResult(c))
      BY <1>0, LinesAreTyped DEF BridgeTyped, IsSet, ToolResult
    <3> QED BY <3>1, <3>2
  <2>3. toExt' \in [Connections -> Seq(CalledLines')]
    BY <1>0, <1>x, <2>1, <2>2, WritesAreTyped
  <2> QED BY <1>b, <1>d, <1>a, <1>o, <2>1, <2>3 DEF AckInv
<1>7. ASSUME BridgeSeesClose PROVE AckInv'
  <2>1. /\ UNCHANGED <<desired, outcome, applied, toExt>>
        /\ toBridge' = Drained(toBridge, current)
    BY <1>7 DEF BridgeSeesClose, hist
  <2>2. toBridge' \in [Connections -> Seq(AckLines')]
    BY <1>0, <1>b, <2>1, DrainsAreTyped
  <2> QED BY <1>x, <1>d, <1>a, <1>o, <2>1, <2>2 DEF AckInv
<1>8. ASSUME Close PROVE AckInv'
  <2>1. /\ UNCHANGED <<desired, applied, toExt>>
        /\ toBridge' = [k \in Connections |-> <<>>]
        /\ \/ outcome' = outcome
           \/ Ends("failed") /\ publishing # Idle
    BY <1>8 DEF Close, hist
  <2>2. toBridge' \in [Connections -> Seq(AckLines')]
    BY <2>1
  <2> QED BY <1>x, <1>d, <1>a, <1>e, <1>o, <2>1, <2>2 DEF AckInv
<1>9. ASSUME NEW e \in Instances, ExtReads(e) PROVE AckInv'
  <2> DEFINE lines == toExt[sock[e]]
             line == Head(lines)
  <2>1. /\ sock[e] \in Connections /\ lines # <<>> /\ lines \in Seq(CalledLines)
        /\ UNCHANGED <<desired, outcome>>
        /\ toExt' = [toExt EXCEPT ![sock[e]] = Tail(@)]
        /\ IF line.type = "tools/set" THEN AppliesSet(e) ELSE TakesResult(e)
    BY <1>0, <1>9 DEF ExtReads, bridge, ExtensionTyped
  <2>2. line \in CalledLines /\ Tail(lines) \in Seq(CalledLines)
    BY <2>1
  <2>3. CalledLines' = CalledLines
    BY <2>1 DEF CalledLines, Called
  <2>4. toExt' \in [Connections -> Seq(CalledLines')]
    <3> HIDE DEF lines
    <3> QED BY <1>x, <2>1, <2>2, <2>3 DEF lines
  <2>5. CASE line.type = "tools/set" /\ AppliesSet(e)
    <3>1. line.set \in Sets /\ Called(line.set)
      BY <2>2, <2>5, LinesAreRead DEF CalledLines, IsSet
    <3>2. \/ applied' = applied \cup {line.set} /\ Send(sock[e], ToolsAck(TRUE))
          \/ applied' = applied /\ Send(sock[e], ToolsAck(FALSE))
      BY <2>5 DEF AppliesSet
    <3>3. \A s \in applied' : Called(s)'
      BY <1>a, <1>g, <3>1, <3>2 DEF AckInv, IInv, TypeOK
    <3>4. \E ok \in BOOLEAN : ToolsAck(ok) \in AckLines' /\ Send(sock[e], ToolsAck(ok))
      <4>1. CASE applied' = applied \cup {line.set} /\ Send(sock[e], ToolsAck(TRUE))
        <5>1. applied' # {}
          BY <4>1
        <5> HIDE DEF line
        <5>2. ToolsAck(TRUE) \in AckLines'
          BY <5>1, LinesAreTyped DEF AckLines
        <5> QED BY <4>1, <5>2
      <4>2. CASE applied' = applied /\ Send(sock[e], ToolsAck(FALSE))
        <5>1. ToolsAck(FALSE) # ToolsAck(TRUE)
          BY DEF ToolsAck
        <5>2. ToolsAck(FALSE) \in AckLines'
          BY <5>1, LinesAreTyped DEF AckLines
        <5> QED BY <4>2, <5>2
      <4> QED BY <3>2, <4>1, <4>2
    <3>5. toBridge' \in [Connections -> Seq(AckLines')]
      BY <1>b, <2>1, <3>4, SendsAreTyped
    <3> QED BY <1>d, <1>o, <2>1, <2>4, <3>3, <3>5 DEF AckInv
  <2>6. CASE TakesResult(e)
    <3>1. UNCHANGED <<applied, toBridge>>
      BY <2>6 DEF TakesResult
    <3> QED BY <1>b, <1>d, <1>a, <1>o, <2>1, <2>4, <3>1 DEF AckInv
  <2> QED BY <2>1, <2>5, <2>6
<1>10. ASSUME NEW e \in Instances, Calls(e) PROVE AckInv'
  <2>1. UNCHANGED <<desired, outcome, applied, toExt>>
    BY <1>10 DEF Calls, bridge, hist
  <2>2. toBridge' \in [Connections -> Seq(AckLines')]
    <3> DEFINE c == Call(e, calls[e] + 1)
    <3>1. \/ sock[e] = None /\ toBridge' = toBridge
          \/ sock[e] # None /\ Send(sock[e], ToolCall(c))
      BY <1>10 DEF Calls
    <3>2. c \in ToolCalls
      BY <1>0 DEF Call, ToolCalls, ExtensionTyped
    <3>3. ToolCall(c) \in AckLines'
      <4> HIDE DEF c
      <4>1. ToolCall(c) \in ToBridge /\ ToolCall(c) # ToolsAck(TRUE)
        BY <3>2, LinesAreTyped DEF ToolCall, ToolsAck
      <4> QED BY <4>1 DEF AckLines
    <3>4. sock[e] # None => sock[e] \in Connections
      BY <1>0 DEF ExtensionTyped
    <3> QED BY <1>b, <3>1, <3>3, <3>4, SendsAreTyped
  <2> QED BY <1>x, <1>d, <1>a, <1>o, <2>1, <2>2 DEF AckInv
<1>11. ASSUME NEW e \in Instances, ExtSeesClose(e) \/ ShutsDown(e) PROVE AckInv'
  <2>1. /\ UNCHANGED <<desired, outcome, applied, toBridge>>
        /\ toExt' = Drained(toExt, sock[e]) /\ sock[e] \in Connections \cup {None}
    BY <1>0, <1>11 DEF ExtSeesClose, ShutsDown, bridge, hist, ExtensionTyped
  <2>2. toExt' \in [Connections -> Seq(CalledLines')]
    BY <1>x, <2>1, DrainsAreTyped
  <2> QED BY <1>b, <1>d, <1>a, <1>o, <2>1, <2>2 DEF AckInv
<1>12. ASSUME Starts \/ \E e \in Instances : Connects(e) \/ Aborts(e) PROVE AckInv'
  <2>1. UNCHANGED <<desired, outcome, applied, toExt, toBridge>>
    BY <1>12 DEF Starts, Connects, Aborts, bridge, wire, hist
  <2> QED BY <1>x, <1>b, <1>d, <1>a, <1>o, <2>1 DEF AckInv
<1> QED BY <1>1, <1>2, <1>3, <1>4, <1>5, <1>6, <1>7, <1>8, <1>9, <1>10, <1>11, <1>12 DEF Next

(* A setTools that returns ok has its set applied by an extension, as long   *)
(* as it is the only one the bridge made on the channel: an ack that is      *)
(* late, or of another connection, is still of a set that was applied.       *)
THEOREM AckOfOneSetIsItsOwn == Spec => []AloneAckIsOwn
<1>1. Init => AckInv
  BY DEF Init, AckInv
<1>2. IInv /\ AckInv /\ [Next]_vars => AckInv'
  <2>1. ASSUME AckInv, UNCHANGED vars PROVE AckInv'
    BY <2>1 DEF AckInv, Called, CalledLines, AckLines, vars, bridge, wire, hist
  <2> QED BY <2>1, AckStep
<1>3. IInv /\ AckInv => AloneAckIsOwn
  BY DEF IInv, TypeOK, AckInv, AloneAckIsOwn, Called
<1> QED BY <1>1, <1>2, <1>3, ChannelInvariant, PTL DEF Spec
=============================================================================
