--------------------------- MODULE SelectionProofs ---------------------------
(***************************************************************************)
(* What TLAPS proves about Selection, for every Modulus, every queue and   *)
(* wire length: types, decoding, routing and TokensAdvance with and        *)
(* without late frames; then, for a Session (no frame outlives a reset, no *)
(* counter comes to half its range), that a token means one output and     *)
(* that a reset switches nothing.                                          *)
(***************************************************************************)
EXTENDS MCSelection, TLAPS

(* Arithmetic of the counter. *)
LEMMA ModRange == ASSUME NEW a \in Int PROVE a % Modulus \in Counter
BY ModulusAssumption DEF Counter, Half

(* Half the range is at least two, so the successor of a counter is newer. *)
LEMMA NextIsNewer ==
  ASSUME NEW c \in Counter PROVE CounterNewer((c + 1) % Modulus, c)
<1>1. Modulus \in Nat /\ Modulus >= 4
  BY ModulusAssumption, Z3 DEF Half
<1>2. CASE c + 1 < Modulus
  <2>1. (c + 1) % Modulus = c + 1  BY <1>1, <1>2 DEF Counter
  <2>2. (c + 1 - c) % Modulus = 1  BY <1>1 DEF Counter
  <2> QED BY <2>1, <2>2, ModulusAssumption DEF CounterNewer, Distance, Counter, Half
<1>3. CASE c + 1 = Modulus
  <2>1. (c + 1) % Modulus = 0  BY <1>1, <1>3 DEF Counter
  <2>2. (0 - c) % Modulus = 1  BY <1>1, <1>3 DEF Counter
  <2> QED BY <2>1, <2>2, ModulusAssumption DEF CounterNewer, Distance, Half
<1> QED BY <1>1, <1>2, <1>3 DEF Counter

-----------------------------------------------------------------------------
(* The operators of selection.c keep the state's type and its phases.      *)

(* The peer of a board is the other board. *)
LEMMA PeerType == ASSUME NEW b \in Board PROVE Peer(b) \in Board /\ Peer(b) # b
BY DEF Board, Peer

(* Zero initialisation gives a well-formed state. *)
LEMMA BootOK == BootState \in SelState /\ PhasesOK(BootState)
<1>1. 0 \in Counter  BY ModulusAssumption DEF Counter, Half
<1> QED BY <1>1 DEF BootState, SelState, PhasesOK, EmptyBoot, Fresh, Zero, Board, Output

(* selection_request keeps the state well formed, and marks what it        *)
(* leaves.                                                                 *)
LEMMA RequestOK ==
  ASSUME NEW s \in SelState, NEW v \in Output, NEW o \in Board
  PROVE  /\ SelRequest(s, v, o) \in SelState
         /\ LegacyRequest(s, v, o) \in SelState
         /\ PhasesOK(s) => PhasesOK(SelRequest(s, v, o))
         /\ PhasesOK(LegacyRequest(s, v, o))
         /\ SelRequest(s, v, o).output = v
         /\ LegacyRequest(s, v, o).output = v
         /\ TokenNewer(SelRequest(s, v, o), s)
         /\ TokenNewer(LegacyRequest(s, v, o), s)
<1>1. s.counter \in Counter  BY DEF SelState
<1>2. (s.counter + 1) % Modulus \in Counter  BY <1>1, ModRange DEF Counter
<1>3. CounterNewer((s.counter + 1) % Modulus, s.counter)  BY <1>1, NextIsNewer
<1>4. SelRequest(s, v, o) \in SelState /\ LegacyRequest(s, v, o) \in SelState
  BY <1>2 DEF SelRequest, LegacyRequest, SelState, Fresh
<1>5. PhasesOK(s) => PhasesOK(SelRequest(s, v, o))
  BY DEF SelRequest, SelState, PhasesOK, Fresh, EmptyBoot
<1>6. PhasesOK(LegacyRequest(s, v, o))
  BY DEF SelRequest, LegacyRequest, SelState, PhasesOK, Fresh, EmptyBoot
<1>7. SelRequest(s, v, o).output = v /\ LegacyRequest(s, v, o).output = v
  BY DEF SelRequest, LegacyRequest, SelState
<1>8. TokenNewer(SelRequest(s, v, o), s) /\ TokenNewer(LegacyRequest(s, v, o), s)
  BY <1>3 DEF SelRequest, LegacyRequest, SelState, TokenNewer
<1> QED BY <1>4, <1>5, <1>6, <1>7, <1>8

(* What selection_encode makes of a well-formed state, the peer can        *)
(* decode.                                                                 *)
LEMMA EncodeOK ==
  ASSUME NEW s \in SelState, PhasesOK(s)
  PROVE  Encode(s) \in Payload /\ Decodable(Encode(s))
BY DEF SelState, PhasesOK, EmptyBoot, Fresh, Zero, Encode, Payload, Decodable

(* What selection_decode accepts is a well-formed state. *)
LEMMA DecodeOK ==
  ASSUME NEW p \in Payload
  PROVE  Decode(p) \in SelState /\ (Decodable(p) => PhasesOK(Decode(p)))
<1>1. Decode(p) \in SelState  BY DEF Payload, Decode, SelState
<1>2. ASSUME Decodable(p) PROVE PhasesOK(Decode(p))
  <2>1. /\ ~(Decode(p).joined /\ Decode(p).joining)
        /\ ~(Decode(p).joined /\ Decode(p).pending)
        /\ ~(Decode(p).joining /\ Decode(p).pending)
    BY <1>2 DEF Decode, Decodable
  <2>2. ASSUME EmptyBoot(Decode(p)) PROVE Zero(Decode(p))
    <3>1. "joined" \notin p.phase /\ "joining" \notin p.phase /\ "pending" \notin p.phase
      BY <2>2 DEF Decode, EmptyBoot, Fresh
    <3>2. p.phase = {}  BY <3>1 DEF Payload
    <3> QED BY <1>2, <3>2 DEF Decodable, Decode, Zero
  <2> QED BY <2>1, <2>2 DEF PhasesOK
<1> QED BY <1>1, <1>2

(* A frame of older firmware is recognised as one. *)
LEMMA LegacyOK ==
  ASSUME NEW v \in Output
  PROVE  LegacyPayload(v) \in Payload /\ IsLegacy(LegacyPayload(v))
<1>1. 0 \in Counter  BY ModulusAssumption DEF Counter, Half
<1> QED BY <1>1 DEF LegacyPayload, Payload, IsLegacy, Board

(* A rebased request is a token of this board. *)
LEMMA RebaseOK ==
  ASSUME NEW s \in SelState, NEW i \in SelState, NEW b \in Board
  PROVE  Rebase(s, i, b) \in SelState
         /\ Rebase(s, i, b).joining = s.joining
         /\ Rebase(s, i, b).pending = s.pending
<1>1. s.counter \in Int /\ i.counter \in Int  BY ModulusAssumption DEF SelState, Counter
<1> DEFINE base == IF CounterNewer(i.counter, s.counter) THEN i.counter ELSE s.counter
<1>2. base \in Int  BY <1>1
<1>3. (base + 1) % Modulus \in Counter  BY <1>2, ModRange
<1> HIDE DEF base
<1>4. Rebase(s, i, b) = [s EXCEPT !.counter = (base + 1) % Modulus, !.origin = b]
  BY DEF Rebase, base
<1> QED BY <1>3, <1>4 DEF SelState

(* selection_merge keeps the state well formed. *)
LEMMA MergeOK ==
  ASSUME NEW s \in SelState, NEW i \in SelState, NEW b \in Board
  PROVE  /\ Merge(s, i, b) \in SelState
         /\ PhasesOK(s) /\ PhasesOK(i) => PhasesOK(Merge(s, i, b))
<1>1. CASE Fresh(s) /\ i.joined
  <2>1. Merge(s, i, b) = JoinLive(s, i, b)  BY <1>1 DEF Merge
  <2>2. JoinLive(s, i, b) \in SelState
    <3> DEFINE t == IF s.pending THEN Rebase(s, i, b) ELSE CopyToken(s, i)
    <3>1. t \in SelState  BY RebaseOK DEF CopyToken, SelState
    <3>2. JoinLive(s, i, b) = [t EXCEPT !.joined = TRUE, !.pending = FALSE]
      BY DEF JoinLive
    <3> HIDE DEF t
    <3> QED BY <3>1, <3>2 DEF SelState
  <2>3. JoinLive(s, i, b).joined /\ ~JoinLive(s, i, b).joining /\ ~JoinLive(s, i, b).pending
    BY <1>1, RebaseOK DEF JoinLive, CopyToken, SelState, Fresh
  <2> QED BY <2>1, <2>2, <2>3 DEF PhasesOK, EmptyBoot, Fresh
<1>2. CASE Fresh(s) /\ ~i.joined
  <2>1. Merge(s, i, b) = JoinFresh(s, i)  BY <1>2 DEF Merge
  <2> QED BY <2>1 DEF JoinFresh, CopyToken, SelState, PhasesOK, EmptyBoot, Fresh
<1>3. CASE ~Fresh(s)
  BY <1>3 DEF Merge, Establish, Establishes, CopyToken, SelState, PhasesOK, EmptyBoot, Fresh
<1> QED BY <1>1, <1>2, <1>3

(* A merge never replaces a joined board's token by an older one. *)
LEMMA MergeAdvances ==
  ASSUME NEW s \in SelState, NEW i \in SelState, NEW b \in Board,
         PhasesOK(s), s.joined
  PROVE  Merge(s, i, b) = s \/ TokenNewer(Merge(s, i, b), s)
<1>1. ~Fresh(s) /\ ~Establishes(s, i)  BY DEF PhasesOK, Fresh, Establishes
<1>2. CASE Supersedes(i, s)
  <2>1. Merge(s, i, b) = CopyToken(s, i)  BY <1>1, <1>2 DEF Merge, Establish
  <2> QED BY <1>2, <2>1 DEF CopyToken, Supersedes, TokenNewer, SelState
<1>3. CASE ~Supersedes(i, s)
  BY <1>1, <1>3 DEF Merge, Establish
<1> QED BY <1>2, <1>3

(* The heartbeat and the answer to a merge carry a frame that decodes. *)
LEMMA SyncFrameOK ==
  ASSUME NEW s \in SelState, PhasesOK(s)
  PROVE  SyncFrame(s) \in GoodFrame
BY EncodeOK DEF SyncFrame, GoodFrame, Frame

-----------------------------------------------------------------------------
(* The inductive invariant: FramesDecode needs the phases of the state     *)
(* that is encoded, the phases need what is decoded from the frames.       *)

IInv == TypeOK /\ PhasesConsistent /\ FramesDecode /\ RoutingFollowsToken

(* The invariant holds when the boards start. *)
LEMMA InitIInv == Init => IInv
<1> SUFFICES ASSUME Init PROVE IInv  OBVIOUS
<1>1. NoPayload \in Payload  BY LegacyOK DEF NoPayload, Output
<1>2. sel \in [Board -> SelState] /\ PhasesConsistent
  <2>1. ASSUME NEW c \in StartTokens, NEW o \in Board, NEW v \in Output
        PROVE  Established(c, o, v) \in SelState /\ PhasesOK(Established(c, o, v))
    BY StartAssumption DEF Established, SelState, PhasesOK, EmptyBoot, Fresh
  <2> QED BY <2>1, BootOK DEF Init, PhasesConsistent
<1>3. active \in [Board -> Output] /\ \A b \in Board : active[b] = sel[b].output
  BY DEF Init, BootState, Established, Output
<1>4. TypeOK
  <2>1. \/ \E boards \in SUBSET OldBoards : old = [b \in Board |-> b \in boards]
        \/ old = [b \in Board |-> FALSE]
    BY Zenon DEF Init
  <2>2. old \in [Board -> BOOLEAN]
    <3>1. CASE \E boards \in SUBSET OldBoards : old = [b \in Board |-> b \in boards]
      <4>1. PICK boards \in SUBSET OldBoards : old = [b \in Board |-> b \in boards]
        BY <3>1
      <4>2. QED
        BY <4>1, SMT
    <3>2. CASE old = [b \in Board |-> FALSE]
      BY <3>2
    <3>3. QED
      BY <2>1, <3>1, <3>2
  <2>3. /\ core0 \in [Board -> {"boot", "announcing", "run"}] /\ requests = 0 /\ reboots = 0
        /\ txq = [b \in Board |-> <<>>] /\ wire = [b \in Board |-> <<>>]
        /\ core1 = [b \in Board |-> "idle"] /\ focus = active
        /\ announce = [b \in Board |-> NoPayload] /\ request = [b \in Board |-> NoPayload]
    BY DEF Init
  <2> QED BY <1>1, <1>2, <1>3, <2>2, <2>3, CapAssumption, BoundAssumption DEF TypeOK, Output, Board
<1>5. FramesDecode  BY DEF Init, FramesDecode
<1>6. RoutingFollowsToken  BY <1>3 DEF Init, RoutingFollowsToken
<1> QED BY <1>2, <1>4, <1>5, <1>6 DEF IInv

(* Frames that a step adds to a queue, and what the step leaves in it. *)
LEMMA QueueOK ==
  ASSUME IInv, NEW b \in Board, NEW f \in GoodFrame
  PROVE  /\ Len(txq[b]) < TxCap =>
               /\ Append(txq[b], f) \in Seq(Frame) /\ Append(txq[b], f) \in Seq(GoodFrame)
               /\ Len(Append(txq[b], f)) <= TxCap
         /\ TryQueue(b, f) \in Seq(Frame) /\ TryQueue(b, f) \in Seq(GoodFrame)
         /\ Len(TryQueue(b, f)) <= TxCap
<1>1. f \in Frame  BY DEF GoodFrame
<1>2. /\ txq[b] \in Seq(Frame) /\ txq[b] \in Seq(GoodFrame)
      /\ Len(txq[b]) <= TxCap /\ Len(txq[b]) \in Nat
  BY DEF IInv, TypeOK, FramesDecode
<1>3. Slots(b) \in Int /\ Slots(b) <= TxCap  BY CapAssumption DEF Slots
<1> QED BY <1>1, <1>2, <1>3, CapAssumption DEF TryQueue

(* What receive_output_selection finds at the head of the wire. *)
LEMMA IncomingOK ==
  ASSUME IInv, NEW b \in Board, wire[Peer(b)] # <<>>
  PROVE  /\ Incoming(b) \in GoodFrame /\ Incoming(b).data \in Payload
         /\ Incoming(b).data.output \in Output
         /\ Decode(Incoming(b).data) \in SelState
         /\ Decodable(Incoming(b).data) => PhasesOK(Decode(Incoming(b).data))
<1>1. wire[Peer(b)] \in Seq(GoodFrame)  BY PeerType DEF IInv, FramesDecode
<1>2. Incoming(b) \in GoodFrame  BY <1>1 DEF Incoming
<1>3. Incoming(b).data \in Payload  BY <1>2 DEF GoodFrame, Frame
<1> QED BY <1>2, <1>3, DecodeOK DEF Payload

(* Taking a frame off the wire leaves frames that decode. *)
LEMMA ConsumeOK ==
  ASSUME IInv, NEW b \in Board, wire[Peer(b)] # <<>>, Consume(b)
  PROVE  /\ wire' \in [Board -> Seq(Frame)]
         /\ \A p \in Board : Len(wire'[p]) <= WireCap /\ wire'[p] \in Seq(GoodFrame)
<1>1. \A p \in Board : /\ wire[p] \in Seq(Frame) /\ wire[p] \in Seq(GoodFrame)
                      /\ Len(wire[p]) <= WireCap
  BY DEF IInv, TypeOK, FramesDecode
<1>2. Peer(b) \in Board /\ wire \in [Board -> Seq(Frame)]
  BY PeerType DEF IInv, TypeOK
<1>3. /\ Tail(wire[Peer(b)]) \in Seq(Frame) /\ Tail(wire[Peer(b)]) \in Seq(GoodFrame)
      /\ Len(Tail(wire[Peer(b)])) <= WireCap
  BY <1>1, <1>2, CapAssumption
<1> QED BY <1>1, <1>2, <1>3 DEF Consume
-----------------------------------------------------------------------------
(* One lemma per action. *)

(* set_active_output, up to the wait for a slot. *)
LEMMA SetActiveOutputStep ==
  ASSUME IInv, NEW b \in Board, SetActiveOutput(b) PROVE IInv'
<1> DEFINE s == SelRequest(sel[b], 1 - active[b], b)
<1>1. sel[b] \in SelState /\ PhasesOK(sel[b]) /\ 1 - active[b] \in Output
  <2>1. active[b] \in Output /\ sel[b] \in SelState  BY DEF IInv, TypeOK
  <2>2. PhasesOK(sel[b])  BY DEF IInv, PhasesConsistent
  <2> QED BY <2>1, <2>2 DEF Output
<1>2. s \in SelState /\ PhasesOK(s) /\ s.output = 1 - active[b]
  BY <1>1, RequestOK
<1>3. Encode(s) \in Payload /\ Decodable(Encode(s))  BY <1>2, EncodeOK
<1> HIDE DEF s
<1>4. sel' = [sel EXCEPT ![b] = s] /\ sel'[b] = s
  BY DEF SetActiveOutput, IInv, TypeOK, s
<1>5. TypeOK'
  <2>1. requests' \in 0 .. MaxRequests
    BY BoundAssumption DEF SetActiveOutput, IInv, TypeOK
  <2>2. active' \in [Board -> Output]
    BY <1>1 DEF SetActiveOutput, IInv, TypeOK
  <2>3. request' \in [Board -> Payload]
    BY <1>3, <1>4 DEF SetActiveOutput, IInv, TypeOK
  <2>4. sel' \in [Board -> SelState]  BY <1>2, <1>4 DEF IInv, TypeOK
  <2> QED BY <2>1, <2>2, <2>3, <2>4 DEF SetActiveOutput, IInv, TypeOK
<1>6. PhasesConsistent'
  BY <1>2, <1>4 DEF IInv, TypeOK, PhasesConsistent
<1>7. FramesDecode'
  BY <1>3, <1>4 DEF SetActiveOutput, IInv, TypeOK, FramesDecode
<1>8. RoutingFollowsToken'
  BY <1>2, <1>4 DEF SetActiveOutput, IInv, TypeOK, RoutingFollowsToken
<1> QED BY <1>5, <1>6, <1>7, <1>8 DEF IInv

(* set_active_output, once it has its slot. *)
LEMMA SetActiveOutputQueuedStep ==
  ASSUME IInv, NEW b \in Board, SetActiveOutputQueued(b) PROVE IInv'
<1> DEFINE f == [type |-> "SELECT", data |-> request[b]]
<1>1. f \in GoodFrame
  BY DEF SetActiveOutputQueued, IInv, TypeOK, FramesDecode, GoodFrame, Frame
<1>2. Len(txq[b]) < TxCap
  BY CapAssumption DEF SetActiveOutputQueued, Slots, IInv, TypeOK
<1>3. NoPayload \in Payload  BY LegacyOK DEF NoPayload, Output
<1> HIDE DEF f
<1>4. txq' = [txq EXCEPT ![b] = Append(@, f)]  BY DEF SetActiveOutputQueued, f
<1>5. TypeOK'
  BY <1>1, <1>2, <1>3, <1>4, QueueOK DEF SetActiveOutputQueued, IInv, TypeOK
<1>6. PhasesConsistent'
  BY DEF SetActiveOutputQueued, IInv, PhasesConsistent
<1>7. FramesDecode'
  BY <1>1, <1>2, <1>4, QueueOK DEF SetActiveOutputQueued, IInv, TypeOK, FramesDecode
<1>8. RoutingFollowsToken'
  BY DEF SetActiveOutputQueued, IInv, TypeOK, RoutingFollowsToken
<1> QED BY <1>5, <1>6, <1>7, <1>8 DEF IInv

(* announce_initial_output encodes ... *)
LEMMA AnnounceStep ==
  ASSUME IInv, NEW b \in Board, AnnounceInitialOutput(b) PROVE IInv'
<1>1. Encode(sel[b]) \in Payload /\ Decodable(Encode(sel[b]))
  BY EncodeOK DEF IInv, TypeOK, PhasesConsistent
<1>2. TypeOK'
  BY <1>1 DEF AnnounceInitialOutput, IInv, TypeOK
<1>3. FramesDecode'
  BY <1>1 DEF AnnounceInitialOutput, IInv, TypeOK, FramesDecode
<1>4. PhasesConsistent' /\ RoutingFollowsToken'
  BY DEF AnnounceInitialOutput, IInv, PhasesConsistent, RoutingFollowsToken
<1> QED BY <1>2, <1>3, <1>4 DEF IInv

(* ... and queues what it encoded. *)
LEMMA AnnounceQueuedStep ==
  ASSUME IInv, NEW b \in Board, AnnounceInitialOutputQueued(b) PROVE IInv'
<1> DEFINE f == [type |-> "SELECT", data |-> announce[b]]
<1>1. f \in GoodFrame
  BY DEF AnnounceInitialOutputQueued, IInv, TypeOK, FramesDecode, GoodFrame, Frame
<1>2. Len(txq[b]) < TxCap  BY DEF AnnounceInitialOutputQueued
<1>3. NoPayload \in Payload  BY LegacyOK DEF NoPayload, Output
<1> HIDE DEF f
<1>4. txq' = [txq EXCEPT ![b] = Append(@, f)]  BY DEF AnnounceInitialOutputQueued, f
<1>5. TypeOK'
  BY <1>1, <1>2, <1>3, <1>4, QueueOK DEF AnnounceInitialOutputQueued, IInv, TypeOK
<1>6. FramesDecode'
  BY <1>1, <1>2, <1>4, QueueOK DEF AnnounceInitialOutputQueued, IInv, TypeOK, FramesDecode
<1>7. PhasesConsistent' /\ RoutingFollowsToken'
  BY DEF AnnounceInitialOutputQueued, IInv, PhasesConsistent, RoutingFollowsToken
<1> QED BY <1>5, <1>6, <1>7 DEF IInv

(* sync_output_selection, from the heartbeat. *)
LEMMA HeartbeatStep ==
  ASSUME IInv, NEW b \in Board, Heartbeat(b) PROVE IInv'
<1>1. SyncFrame(sel[b]) \in GoodFrame
  BY SyncFrameOK DEF IInv, TypeOK, PhasesConsistent
<1>2. TypeOK'
  BY <1>1, QueueOK DEF Heartbeat, IInv, TypeOK
<1>3. FramesDecode'
  BY <1>1, QueueOK DEF Heartbeat, IInv, TypeOK, FramesDecode
<1>4. PhasesConsistent' /\ RoutingFollowsToken'
  BY DEF Heartbeat, IInv, PhasesConsistent, RoutingFollowsToken
<1> QED BY <1>2, <1>3, <1>4 DEF IInv

(* process_uart_tx_task, a lapped receive ring included. *)
LEMMA TransmitStep ==
  ASSUME IInv, NEW b \in Board, Transmit(b) PROVE IInv'
<1> DEFINE f == Head(txq[b])
          w == IF Len(wire[b]) < WireCap THEN Append(wire[b], f) ELSE <<f>>
<1>1. /\ txq[b] \in Seq(Frame) /\ txq[b] \in Seq(GoodFrame) /\ txq[b] # <<>>
      /\ wire[b] \in Seq(Frame) /\ wire[b] \in Seq(GoodFrame)
      /\ Len(txq[b]) <= TxCap
  BY DEF Transmit, IInv, TypeOK, FramesDecode
<1>2. f \in Frame /\ f \in GoodFrame  BY <1>1
<1>3. /\ Tail(txq[b]) \in Seq(Frame) /\ Tail(txq[b]) \in Seq(GoodFrame)
      /\ Len(Tail(txq[b])) <= TxCap
  BY <1>1, CapAssumption
<1>4. w \in Seq(Frame) /\ w \in Seq(GoodFrame) /\ Len(w) <= WireCap
  BY <1>1, <1>2, CapAssumption
<1>5. wire' = [wire EXCEPT ![b] = w] /\ txq' = [txq EXCEPT ![b] = Tail(@)]
  BY DEF Transmit
<1> HIDE DEF w
<1>6. TypeOK'
  <2>1. UNCHANGED <<sel, active, core0, announce, core1, request, focus, old,
                    requests, reboots>>
    BY DEF Transmit
  <2>2. txq' \in [Board -> Seq(Frame)] /\ \A p \in Board : Len(txq'[p]) <= TxCap
    BY <1>3, <1>5 DEF IInv, TypeOK
  <2>3. wire' \in [Board -> Seq(Frame)] /\ \A p \in Board : Len(wire'[p]) <= WireCap
    BY <1>4, <1>5 DEF IInv, TypeOK
  <2> QED BY <2>1, <2>2, <2>3 DEF IInv, TypeOK
<1>7. FramesDecode'
  BY <1>3, <1>4, <1>5 DEF Transmit, IInv, TypeOK, FramesDecode
<1>8. PhasesConsistent' /\ RoutingFollowsToken'
  BY DEF Transmit, IInv, PhasesConsistent, RoutingFollowsToken
<1> QED BY <1>6, <1>7, <1>8 DEF IInv

(* A corrupted frame. *)
LEMMA LoseStep ==
  ASSUME IInv, NEW b \in Board, Lose(b) PROVE IInv'
<1>1. /\ Tail(wire[b]) \in Seq(Frame) /\ Tail(wire[b]) \in Seq(GoodFrame)
      /\ Len(Tail(wire[b])) <= WireCap
  <2>1. /\ wire[b] \in Seq(Frame) /\ wire[b] \in Seq(GoodFrame) /\ wire[b] # <<>>
        /\ Len(wire[b]) <= WireCap
    BY DEF Lose, IInv, TypeOK, FramesDecode
  <2> QED BY <2>1, CapAssumption
<1>2. TypeOK'
  BY <1>1 DEF Lose, IInv, TypeOK
<1>3. FramesDecode'
  BY <1>1 DEF Lose, IInv, TypeOK, FramesDecode
<1>4. PhasesConsistent' /\ RoutingFollowsToken'
  BY DEF Lose, IInv, PhasesConsistent, RoutingFollowsToken
<1> QED BY <1>2, <1>3, <1>4 DEF IInv

(* receive_output_selection, a frame of older firmware. *)
LEMMA ReceiveLegacyStep ==
  ASSUME IInv, NEW b \in Board, ReceiveLegacy(b) PROVE IInv'
<1> DEFINE s == LegacyRequest(sel[b], Incoming(b).data.output, Peer(b))
<1>1. wire[Peer(b)] # <<>> /\ Consume(b)  BY DEF ReceiveLegacy, CanReceive
<1>2. sel[b] \in SelState /\ Incoming(b).data.output \in Output /\ Peer(b) \in Board
  BY <1>1, IncomingOK, PeerType DEF IInv, TypeOK
<1>3. s \in SelState /\ PhasesOK(s) /\ s.output \in Output
  BY <1>2, RequestOK
<1>4. sel' = [sel EXCEPT ![b] = s] /\ active' = [active EXCEPT ![b] = s.output]
      /\ focus' = [focus EXCEPT ![b] = s.output]
  BY DEF ReceiveLegacy, IInv, TypeOK
<1>5. UNCHANGED <<txq, core0, announce, core1, request, old, requests, reboots>>
  BY DEF ReceiveLegacy
<1> HIDE DEF s
<1>6. TypeOK'
  BY <1>1, <1>3, <1>4, <1>5, ConsumeOK DEF IInv, TypeOK
<1>7. PhasesConsistent'
  BY <1>3, <1>4 DEF IInv, TypeOK, PhasesConsistent
<1>8. FramesDecode'
  BY <1>1, <1>5, ConsumeOK DEF IInv, FramesDecode
<1>9. RoutingFollowsToken'
  BY <1>4, <1>5 DEF IInv, TypeOK, RoutingFollowsToken
<1> QED BY <1>6, <1>7, <1>8, <1>9 DEF IInv

(* receive_output_selection, an accepted merge. *)
LEMMA ReceiveAcceptedStep ==
  ASSUME IInv, NEW b \in Board, ReceiveAccepted(b) PROVE IInv'
<1> DEFINE s == Merge(sel[b], Decode(Incoming(b).data), b)
<1>1. wire[Peer(b)] # <<>> /\ Consume(b) /\ Decodable(Incoming(b).data)
  BY DEF ReceiveAccepted, CanReceive
<1>2. sel[b] \in SelState /\ PhasesOK(sel[b])
  BY DEF IInv, TypeOK, PhasesConsistent
<1>3. Decode(Incoming(b).data) \in SelState /\ PhasesOK(Decode(Incoming(b).data))
  BY <1>1, IncomingOK
<1>4. s \in SelState /\ PhasesOK(s)  BY <1>2, <1>3, MergeOK
<1>5. s.output \in Output  BY <1>4 DEF SelState
<1>6. SyncFrame(s) \in GoodFrame  BY <1>4, SyncFrameOK
<1>7. /\ sel' = [sel EXCEPT ![b] = s] /\ sel'[b] = s
      /\ active' = [active EXCEPT ![b] = s.output] /\ active'[b] = s.output
  BY DEF ReceiveAccepted, IInv, TypeOK
<1>8. /\ focus' = [focus EXCEPT ![b] = IF s.output # active[b] THEN s.output ELSE @]
      /\ txq' = [txq EXCEPT ![b] = TryQueue(b, SyncFrame(s))]
  BY <1>7 DEF ReceiveAccepted
<1>9. UNCHANGED <<core0, announce, core1, request, old, requests, reboots>>
  BY DEF ReceiveAccepted
<1> HIDE DEF s
<1>10. TypeOK'
  <2>1. txq' \in [Board -> Seq(Frame)] /\ \A p \in Board : Len(txq'[p]) <= TxCap
    BY <1>6, <1>8, QueueOK DEF IInv, TypeOK
  <2>2. wire' \in [Board -> Seq(Frame)] /\ \A p \in Board : Len(wire'[p]) <= WireCap
    BY <1>1, ConsumeOK
  <2>3. sel' \in [Board -> SelState] /\ active' \in [Board -> Output]
        /\ focus' \in [Board -> Output]
    BY <1>4, <1>5, <1>7, <1>8 DEF IInv, TypeOK
  <2> QED BY <1>9, <2>1, <2>2, <2>3 DEF IInv, TypeOK
<1>11. PhasesConsistent'
  BY <1>4, <1>7 DEF IInv, TypeOK, PhasesConsistent
<1>12. FramesDecode'
  <2>1. \A p \in Board : txq'[p] \in Seq(GoodFrame)
    BY <1>6, <1>8, QueueOK DEF IInv, TypeOK, FramesDecode
  <2> QED BY <1>1, <1>9, <2>1, ConsumeOK DEF IInv, FramesDecode
<1>13. RoutingFollowsToken'
  BY <1>7, <1>8, <1>9 DEF ReceiveAccepted, CanReceive, IInv, TypeOK, RoutingFollowsToken
<1> QED BY <1>10, <1>11, <1>12, <1>13 DEF IInv

(* receive_output_selection, a frame without effect. *)
LEMMA ReceiveIgnoredStep ==
  ASSUME IInv, NEW b \in Board, ReceiveIgnored(b) PROVE IInv'
<1>1. wire[Peer(b)] # <<>> /\ Consume(b)  BY DEF ReceiveIgnored, CanReceive
<1>2. UNCHANGED <<sel, active, txq, core0, announce, core1, request, focus, old,
                  requests, reboots>>
  BY DEF ReceiveIgnored
<1>3. TypeOK'  BY <1>1, <1>2, ConsumeOK DEF IInv, TypeOK
<1>4. FramesDecode'  BY <1>1, <1>2, ConsumeOK DEF IInv, FramesDecode
<1>5. PhasesConsistent' /\ RoutingFollowsToken'
  BY <1>2 DEF IInv, PhasesConsistent, RoutingFollowsToken
<1> QED BY <1>3, <1>4, <1>5 DEF IInv

(* A reset, with or without late frames. *)
LEMMA RebootStep ==
  ASSUME IInv, NEW b \in Board, Reboot(b) PROVE IInv'
<1>1. /\ sel' = [sel EXCEPT ![b] = BootState] /\ active' = [active EXCEPT ![b] = 0]
      /\ focus' = [focus EXCEPT ![b] = 0] /\ core1' = [core1 EXCEPT ![b] = "idle"]
      /\ request' = [request EXCEPT ![b] = NoPayload]
      /\ old' = [old EXCEPT ![b] = FALSE] /\ requests' = requests
      /\ reboots' = reboots + 1 /\ reboots < MaxReboots /\ ResetLink(b)
  BY DEF Reboot, Boot
<1>2. BootState \in SelState /\ PhasesOK(BootState) /\ BootState.output = 0
  BY BootOK DEF BootState
<1>3. NoPayload \in Payload  BY LegacyOK DEF NoPayload, Output
<1>t. /\ txq \in [Board -> Seq(Frame)] /\ wire \in [Board -> Seq(Frame)]
      /\ core0 \in [Board -> {"boot", "announcing", "run"}]
      /\ announce \in [Board -> Payload]
  BY DEF IInv, TypeOK
<1>4. /\ txq' \in [Board -> Seq(Frame)] /\ wire' \in [Board -> Seq(Frame)]
      /\ \A p \in Board : /\ txq'[p] = txq[p] \/ txq'[p] = <<>>
                          /\ wire'[p] = wire[p] \/ wire'[p] = <<>>
  <2>0. <<>> \in Seq(Frame)  OBVIOUS
  <2>1. CASE LateFrames
    <3>1. wire' = wire /\ txq' = [txq EXCEPT ![b] = <<>>]
      BY <1>1, <2>1 DEF ResetLink
    <3> QED BY <1>t, <2>0, <3>1
  <2>2. CASE ~LateFrames
    <3>1. wire' = [p \in Board |-> <<>>] /\ txq' = [p \in Board |-> <<>>]
      BY <1>1, <2>2 DEF ResetLink
    <3> QED BY <2>0, <3>1
  <2> QED BY <2>1, <2>2
<1>5. /\ core0' \in [Board -> {"boot", "announcing", "run"}]
      /\ announce' \in [Board -> Payload]
      /\ \A p \in Board : core0'[p] = "announcing" =>
           core0[p] = "announcing" /\ announce'[p] = announce[p]
  <2>1. CASE LateFrames
    <3>1. /\ core0' = [core0 EXCEPT ![b] = "boot"]
          /\ announce' = [announce EXCEPT ![b] = NoPayload]
      BY <1>1, <2>1 DEF ResetLink
    <3> QED BY <1>t, <1>3, <3>1
  <2>2. CASE ~LateFrames
    <3>1. /\ core0' = [core0 EXCEPT ![b] = "boot",
                       ![Peer(b)] = IF @ = "announcing" THEN "run" ELSE @]
          /\ announce' = [p \in Board |-> NoPayload]
      BY <1>1, <2>2 DEF ResetLink
    <3>2. \A p \in Board : p = b \/ p = Peer(b)  BY DEF Board, Peer
    <3> QED BY <1>t, <1>3, <3>1, <3>2, PeerType
  <2> QED BY <2>1, <2>2
<1>6. TypeOK'
  <2>1. \A p \in Board : Len(txq'[p]) <= TxCap /\ Len(wire'[p]) <= WireCap
    BY <1>4, CapAssumption DEF IInv, TypeOK
  <2>2. reboots' \in 0 .. MaxReboots
    BY <1>1, BoundAssumption DEF IInv, TypeOK
  <2> QED BY <1>1, <1>2, <1>3, <1>4, <1>5, <2>1, <2>2 DEF IInv, TypeOK, Output
<1>7. PhasesConsistent'
  BY <1>1, <1>2 DEF IInv, TypeOK, PhasesConsistent
<1>8. FramesDecode'
  <2>1. \A p \in Board : txq'[p] \in Seq(GoodFrame) /\ wire'[p] \in Seq(GoodFrame)
    <3>1. <<>> \in Seq(GoodFrame)  OBVIOUS
    <3>2. \A p \in Board : txq[p] \in Seq(GoodFrame) /\ wire[p] \in Seq(GoodFrame)
      BY DEF IInv, FramesDecode
    <3> QED BY <1>4, <3>1, <3>2
  <2>2. \A p \in Board : core1'[p] = "waiting" => Decodable(request'[p])
    BY <1>1 DEF IInv, TypeOK, FramesDecode
  <2>3. \A p \in Board : core0'[p] = "announcing" => Decodable(announce'[p])
    BY <1>5 DEF IInv, FramesDecode
  <2> QED BY <2>1, <2>2, <2>3 DEF FramesDecode
<1>9. RoutingFollowsToken'
  BY <1>1, <1>2 DEF IInv, TypeOK, RoutingFollowsToken
<1> QED BY <1>6, <1>7, <1>8, <1>9 DEF IInv

(* Frames of older firmware are among those the queues may hold. *)
LEMMA LegacyFrameOK ==
  ASSUME NEW v \in Output
  PROVE  [type |-> "SELECT", data |-> LegacyPayload(v)] \in GoodFrame
BY LegacyOK DEF GoodFrame, Frame

(* Older firmware announces itself ... *)
LEMMA OldBootStep ==
  ASSUME IInv, NEW b \in Board, OldBoot(b) PROVE IInv'
<1> DEFINE f == [type |-> "SELECT", data |-> LegacyPayload(0)]
<1>1. f \in GoodFrame  BY LegacyFrameOK DEF Output
<1>2. txq' = [txq EXCEPT ![b] = TryQueue(b, f)]  BY DEF OldBoot
<1> HIDE DEF f
<1>3. TypeOK'
  <2>1. txq' \in [Board -> Seq(Frame)] /\ \A p \in Board : Len(txq'[p]) <= TxCap
    BY <1>1, <1>2, QueueOK DEF IInv, TypeOK
  <2>2. core0' \in [Board -> {"boot", "announcing", "run"}]
    BY DEF OldBoot, IInv, TypeOK
  <2>3. UNCHANGED <<sel, active, wire, announce, core1, request, focus, old,
                    requests, reboots>>
    BY DEF OldBoot
  <2> QED BY <2>1, <2>2, <2>3 DEF IInv, TypeOK
<1>4. FramesDecode'
  BY <1>1, <1>2, QueueOK DEF OldBoot, IInv, TypeOK, FramesDecode
<1>5. PhasesConsistent' /\ RoutingFollowsToken'
  BY DEF OldBoot, IInv, PhasesConsistent, RoutingFollowsToken
<1> QED BY <1>3, <1>4, <1>5 DEF IInv

(* ... switches ... *)
LEMMA OldSwitchStep ==
  ASSUME IInv, NEW b \in Board, OldSwitch(b) PROVE IInv'
<1> DEFINE v == 1 - active[b]
          f == [type |-> "SELECT", data |-> LegacyPayload(v)]
<1>1. active[b] \in Output  BY DEF IInv, TypeOK
<1>2. v \in Output  BY <1>1 DEF Output
<1>3. f \in GoodFrame  BY <1>2, LegacyFrameOK
<1>4. active' = [active EXCEPT ![b] = v] /\ active'[b] = v
  BY DEF OldSwitch, IInv, TypeOK
<1>5. /\ focus' = [focus EXCEPT ![b] = v]
      /\ txq' = [txq EXCEPT ![b] = TryQueue(b, f)]
  BY <1>4 DEF OldSwitch
<1>6. /\ UNCHANGED <<sel, wire, core0, announce, core1, request, old, reboots>>
      /\ requests' = requests + 1 /\ requests < MaxRequests /\ old[b]
  BY DEF OldSwitch
<1> HIDE DEF f, v
<1>7. TypeOK'
  <2>1. requests' \in 0 .. MaxRequests
    BY <1>6, BoundAssumption DEF IInv, TypeOK
  <2>2. txq' \in [Board -> Seq(Frame)] /\ \A p \in Board : Len(txq'[p]) <= TxCap
    BY <1>3, <1>5, QueueOK DEF IInv, TypeOK
  <2>3. active' \in [Board -> Output] /\ focus' \in [Board -> Output]
    BY <1>2, <1>4, <1>5 DEF IInv, TypeOK
  <2> QED BY <1>6, <2>1, <2>2, <2>3 DEF IInv, TypeOK
<1>8. FramesDecode'
  BY <1>3, <1>5, <1>6, QueueOK DEF IInv, TypeOK, FramesDecode
<1>9. PhasesConsistent'  BY <1>6 DEF IInv, PhasesConsistent
<1>10. RoutingFollowsToken'
  BY <1>4, <1>5, <1>6 DEF IInv, TypeOK, RoutingFollowsToken
<1> QED BY <1>7, <1>8, <1>9, <1>10 DEF IInv

(* ... and obeys. *)
LEMMA OldReceiveStep ==
  ASSUME IInv, NEW b \in Board, OldReceive(b) PROVE IInv'
<1> DEFINE v == IF Incoming(b).type = "SELECT" THEN Incoming(b).data.output ELSE active[b]
<1>1. wire[Peer(b)] # <<>> /\ Consume(b) /\ old[b]  BY DEF OldReceive
<1>2. v \in Output  BY <1>1, IncomingOK DEF IInv, TypeOK
<1>3. active' = [active EXCEPT ![b] = v] /\ active'[b] = v
  BY DEF OldReceive, IInv, TypeOK
<1>4. focus' = [focus EXCEPT ![b] = v]  BY <1>3 DEF OldReceive
<1>5. UNCHANGED <<sel, txq, core0, announce, core1, request, old, requests, reboots>>
  BY DEF OldReceive
<1> HIDE DEF v
<1>6. TypeOK'
  BY <1>1, <1>2, <1>3, <1>4, <1>5, ConsumeOK DEF IInv, TypeOK
<1>7. FramesDecode'  BY <1>1, <1>5, ConsumeOK DEF IInv, FramesDecode
<1>8. PhasesConsistent'  BY <1>5 DEF IInv, PhasesConsistent
<1>9. RoutingFollowsToken'
  BY <1>1, <1>3, <1>4, <1>5 DEF IInv, TypeOK, RoutingFollowsToken
<1> QED BY <1>6, <1>7, <1>8, <1>9 DEF IInv

(* Every step of either board keeps the invariant. *)
LEMMA StepIInv == IInv /\ [Next]_vars => IInv'
<1> SUFFICES ASSUME IInv, [Next]_vars PROVE IInv'  OBVIOUS
<1>1. CASE UNCHANGED vars
  BY <1>1 DEF vars, IInv, TypeOK, PhasesConsistent, FramesDecode, RoutingFollowsToken
<1>2. CASE Next
  <2>1. PICK b \in Board :
          \/ SetActiveOutput(b) \/ SetActiveOutputQueued(b)
          \/ AnnounceInitialOutput(b) \/ AnnounceInitialOutputQueued(b)
          \/ Heartbeat(b) \/ Transmit(b) \/ Lose(b)
          \/ ReceiveLegacy(b) \/ ReceiveAccepted(b) \/ ReceiveIgnored(b)
          \/ Reboot(b) \/ OldBoot(b) \/ OldSwitch(b) \/ OldReceive(b)
    BY <1>2 DEF Next
  <2> QED
    BY <2>1, SetActiveOutputStep, SetActiveOutputQueuedStep, AnnounceStep,
       AnnounceQueuedStep, HeartbeatStep, TransmitStep, LoseStep, ReceiveLegacyStep,
       ReceiveAcceptedStep, ReceiveIgnoredStep, RebootStep, OldBootStep,
       OldSwitchStep, OldReceiveStep
<1> QED BY <1>1, <1>2

-----------------------------------------------------------------------------
(* The inductive invariant holds in every reachable state. *)
THEOREM Invariance == Spec => []IInv
BY InitIInv, StepIInv, PTL DEF Spec

(* Every variable keeps its type, and no queue or ring outgrows its        *)
(* capacity, for every Modulus, TxCap and WireCap.                         *)
THEOREM TypeCorrect == Spec => []TypeOK
<1>1. IInv => TypeOK  BY DEF IInv
<1> QED BY <1>1, Invariance, PTL

(* selection_decode accepts every payload that selection_encode ever put   *)
(* into a queue, onto the wire, or left waiting for a slot.                *)
THEOREM EveryFrameDecodes == Spec => []FramesDecode
<1>1. IInv => FramesDecode  BY DEF IInv
<1> QED BY <1>1, Invariance, PTL

(* Reports follow the accepted token, and a change of output has released  *)
(* the keys of the host that lost focus before the next input is handled.  *)
THEOREM RoutingIsConsistent == Spec => []RoutingFollowsToken
<1>1. IInv => RoutingFollowsToken  BY DEF IInv
<1> QED BY <1>1, Invariance, PTL

(* Every step keeps a joined board's token, replaces it by a newer one, or *)
(* resets the board.                                                       *)
LEMMA StepAdvances ==
  ASSUME IInv, [Next]_vars, NEW b \in Board, sel[b].joined, sel'[b] # BootState
  PROVE  sel'[b] = sel[b] \/ TokenNewer(sel'[b], sel[b])
<1>0. sel[b] \in SelState /\ PhasesOK(sel[b]) /\ active[b] \in Output
      /\ sel \in [Board -> SelState]
  BY DEF IInv, TypeOK, PhasesConsistent
<1>1. CASE UNCHANGED vars  BY <1>1 DEF vars
<1>2. ASSUME NEW p \in Board, SetActiveOutput(p)
      PROVE  sel'[b] = sel[b] \/ TokenNewer(sel'[b], sel[b])
  <2>1. 1 - active[p] \in Output
    <3>1. active[p] \in Output  BY DEF IInv, TypeOK
    <3> QED BY <3>1 DEF Output
  <2>2. sel' = [sel EXCEPT ![p] = SelRequest(sel[p], 1 - active[p], p)]
    BY <1>2 DEF SetActiveOutput
  <2>3. p = b => sel'[b] = SelRequest(sel[b], 1 - active[b], b)  BY <1>0, <2>2
  <2>4. p # b => sel'[b] = sel[b]  BY <1>0, <2>2
  <2> QED BY <1>0, <2>1, <2>3, <2>4, RequestOK
<1>3. ASSUME NEW p \in Board, ReceiveLegacy(p)
      PROVE  sel'[b] = sel[b] \/ TokenNewer(sel'[b], sel[b])
  <2>1. Incoming(p).data.output \in Output /\ Peer(p) \in Board
    BY <1>3, IncomingOK, PeerType DEF ReceiveLegacy, CanReceive
  <2>2. sel' = [sel EXCEPT ![p] = LegacyRequest(sel[p], Incoming(p).data.output, Peer(p))]
    BY <1>3 DEF ReceiveLegacy
  <2>3. p = b => sel'[b] = LegacyRequest(sel[b], Incoming(b).data.output, Peer(b))
    BY <1>0, <2>2
  <2>4. p # b => sel'[b] = sel[b]  BY <1>0, <2>2
  <2> QED BY <1>0, <2>1, <2>3, <2>4, RequestOK
<1>4. ASSUME NEW p \in Board, ReceiveAccepted(p)
      PROVE  sel'[b] = sel[b] \/ TokenNewer(sel'[b], sel[b])
  <2>1. Decode(Incoming(p).data) \in SelState
    BY <1>4, IncomingOK DEF ReceiveAccepted, CanReceive
  <2>2. sel' = [sel EXCEPT ![p] = Merge(sel[p], Decode(Incoming(p).data), p)]
    BY <1>4 DEF ReceiveAccepted
  <2>3. p = b => sel'[b] = Merge(sel[b], Decode(Incoming(b).data), b)  BY <1>0, <2>2
  <2>4. p # b => sel'[b] = sel[b]  BY <1>0, <2>2
  <2> QED BY <1>0, <2>1, <2>3, <2>4, MergeAdvances
<1>5. ASSUME NEW p \in Board, Reboot(p)
      PROVE  sel'[b] = sel[b]
  <2>1. sel' = [sel EXCEPT ![p] = BootState]  BY <1>5 DEF Reboot, Boot
  <2> QED BY <1>0, <2>1
<1>6. ASSUME NEW p \in Board,
             \/ SetActiveOutputQueued(p) \/ AnnounceInitialOutput(p)
             \/ AnnounceInitialOutputQueued(p) \/ Heartbeat(p) \/ Transmit(p)
             \/ Lose(p) \/ ReceiveIgnored(p) \/ OldBoot(p) \/ OldSwitch(p)
             \/ OldReceive(p)
      PROVE  sel' = sel
  BY <1>6 DEF SetActiveOutputQueued, AnnounceInitialOutput,
     AnnounceInitialOutputQueued, Heartbeat, Transmit, Lose, ReceiveIgnored,
     OldBoot, OldSwitch, OldReceive
<1> QED BY <1>1, <1>2, <1>3, <1>4, <1>5, <1>6 DEF Next

(* A joined board never goes back to an older selection: every step other  *)
(* than its own reset leaves its token or moves to a newer one.            *)
THEOREM TokensNeverRegress == Spec => TokensAdvance
<1>1. IInv /\ [Next]_vars
      => [\A b \in Board : sel[b].joined /\ sel'[b] # BootState
            => sel'[b] = sel[b] \/ TokenNewer(sel'[b], sel[b])]_vars
  BY StepAdvances
<1> QED BY <1>1, Invariance, PTL DEF Spec, TokensAdvance

-----------------------------------------------------------------------------
(***************************************************************************)
(* One output per token.  When no counter of a session comes to half its   *)
(* range and no frame outlives a reset, the half-range order is the plain  *)
(* order.  Then a board's frames are never newer than the board (Line),    *)
(* and nobody holds a newer token of a board's than the board itself       *)
(* (Known), so that a request always makes a token that nobody has.        *)
(***************************************************************************)

(* A session whose counters stay below half the range: 2^31 switches on    *)
(* the device.  (An established session at counter 0 is the start.)        *)
Session ==
  /\ ~LateFrames /\ MaxRequests + MaxReboots + 4 < Half
  /\ \A c \in StartTokens : c > 0 /\ c + MaxRequests + MaxReboots < Half

Same(x, y) == x.counter = y.counter /\ x.origin = y.origin /\ x.output = y.output

Above(x, y) ==
  x.counter > y.counter \/ (x.counter = y.counter /\ x.origin > y.origin)

NotAfter(x, y) == Above(y, x) \/ Same(x, y)

(* Counter 0 is the boot default; and a board that has not joined has the  *)
(* output that as many switches as its counter says lead to.               *)
Held(s) ==
  (s.counter = 0 => Zero(s)) /\ (~s.joined => s.output = s.counter % 2)

(* Below half the range the serial order is the order of numbers. *)
LEMMA NewerIsMore ==
  ASSUME NEW x \in Counter, NEW y \in Counter, x < Half, y < Half
  PROVE  CounterNewer(x, y) <=> x > y
<1>1. Modulus \in Nat /\ Half \in Nat /\ Modulus = 2 * Half /\ Half > 1
  BY ModulusAssumption, Z3 DEF Half
<1>2. x \in Nat /\ y \in Nat
  BY <1>1 DEF Counter
<1>3. CASE x >= y
  <2>1. x - y \in 0 .. Modulus - 1
    BY <1>1, <1>2, <1>3
  <2>2. (x - y) % Modulus = x - y
    BY <1>1, <2>1
  <2>3. QED
    BY <1>1, <1>2, <1>3, <2>2 DEF CounterNewer, Distance
<1>4. CASE x < y
  <2>1. x - y + Modulus \in 0 .. Modulus - 1 /\ x - y + Modulus > Half
    BY <1>1, <1>2, <1>4
  <2>2. (x - y) % Modulus = x - y + Modulus
    BY <1>1, <1>2, <2>1
  <2>3. QED
    BY <1>1, <1>2, <1>4, <2>1, <2>2 DEF CounterNewer, Distance
<1>5. QED
  BY <1>2, <1>3, <1>4

(* ... and the next counter is the next number. *)
LEMMA NextIsPlusOne ==
  ASSUME NEW x \in Counter, x + 1 < Half PROVE (x + 1) % Modulus = x + 1
<1>1. Modulus \in Nat /\ Half \in Nat /\ Modulus = 2 * Half /\ Half > 1
  BY ModulusAssumption, Z3 DEF Half
<1>2. x + 1 \in 0 .. Modulus - 1
  BY <1>1 DEF Counter
<1>3. QED
  BY <1>1, <1>2

(* The fields of a state. *)
LEMMA StateFields ==
  ASSUME NEW s \in SelState
  PROVE  /\ s.counter \in Counter /\ s.counter \in Nat /\ s.origin \in {0, 1}
         /\ s.output \in {0, 1} /\ s.joined \in BOOLEAN /\ s.joining \in BOOLEAN
         /\ s.pending \in BOOLEAN
<1>1. Modulus \in Nat
  BY ModulusAssumption
<1>2. QED
  BY <1>1 DEF SelState, Counter, Board, Output

(* The order of tokens is an order. *)
LEMMA TokenOrder ==
  ASSUME NEW x \in SelState, NEW y \in SelState, NEW z \in SelState
  PROVE  /\ NotAfter(x, x)
         /\ NotAfter(x, y) /\ NotAfter(y, z) => NotAfter(x, z)
         /\ NotAfter(x, y) => x.counter <= y.counter /\ ~Above(x, y)
         /\ NotAfter(x, y) /\ x.counter = y.counter /\ x.origin = y.origin
              => x.output = y.output
  BY StateFields DEF NotAfter, Above, Same

(* A request makes the next token of its board. *)
LEMMA RequestFacts ==
  ASSUME NEW s \in SelState, NEW v \in Output, NEW b \in Board, s.counter + 1 < Half
  PROVE  LET r == SelRequest(s, v, b)
             g == LegacyRequest(s, v, b)
         IN  /\ r \in SelState /\ r.counter = s.counter + 1 /\ r.origin = b /\ r.output = v
             /\ r.joined = s.joined /\ r.joining = s.joining
             /\ g \in SelState /\ g.counter = s.counter + 1 /\ g.origin = b /\ g.output = v
             /\ g.joined
<1>1. (s.counter + 1) % Modulus = s.counter + 1
  BY StateFields, NextIsPlusOne
<1> DEFINE r == SelRequest(s, v, b)
          g == LegacyRequest(s, v, b)
<1>2. r \in SelState /\ g \in SelState /\ r.output = v /\ g.output = v
  BY RequestOK
<1>3. /\ r.counter = s.counter + 1 /\ r.origin = b
      /\ r.joined = s.joined /\ r.joining = s.joining
  BY <1>1 DEF SelRequest, SelState
<1>4. g = [r EXCEPT !.joined = TRUE, !.joining = FALSE, !.pending = FALSE]
  BY DEF LegacyRequest
<1> HIDE DEF r
<1>5. g.counter = r.counter /\ g.origin = r.origin /\ g.joined
  BY <1>2, <1>4 DEF SelState
<1>6. QED
  BY <1>2, <1>3, <1>5 DEF r

(* What a rebased switch is. *)
LEMMA RebaseFacts ==
  ASSUME NEW s \in SelState, NEW i \in SelState, NEW b \in Board,
         s.counter + 1 < Half, i.counter + 1 < Half
  PROVE  LET r == Rebase(s, i, b)
         IN  /\ r.counter = 1 + (IF i.counter > s.counter THEN i.counter ELSE s.counter)
             /\ r.origin = b /\ r.output = s.output
<1> DEFINE base == IF i.counter > s.counter THEN i.counter ELSE s.counter
<1>1. /\ s.counter \in Counter /\ i.counter \in Counter
      /\ s.counter \in Nat /\ i.counter \in Nat /\ Half \in Int
  <2>1. Half \in Int
    BY ModulusAssumption, Z3 DEF Half
  <2>2. QED
    BY <2>1, StateFields
<1>2. CounterNewer(i.counter, s.counter) <=> i.counter > s.counter
  BY <1>1, NewerIsMore
<1>3. (base + 1) % Modulus = base + 1
  BY <1>1, NextIsPlusOne
<1>4. Rebase(s, i, b) = [s EXCEPT !.counter = (base + 1) % Modulus, !.origin = b]
  BY <1>2 DEF Rebase
<1>5. base \in Nat /\ 1 + base = base + 1
  BY <1>1
<1> HIDE DEF base
<1>6. /\ Rebase(s, i, b).counter = 1 + base
      /\ Rebase(s, i, b).origin = b /\ Rebase(s, i, b).output = s.output
  BY <1>3, <1>4, <1>5 DEF SelState
<1>7. QED
  BY <1>6 DEF base

(* What selection_merge leaves: the state's token, the frame's, which is   *)
(* newer, or a switch of a fresh board put above both.                     *)
Rebased(s, i, b, m) ==
  /\ Fresh(s) /\ s.pending /\ i.joined /\ m.joined /\ m.origin = b
  /\ m.counter > s.counter /\ m.counter > i.counter
  /\ m.counter = s.counter + 1 \/ m.counter = i.counter + 1

(* selection_merge does one of the three. *)
LEMMA MergeFacts ==
  ASSUME NEW s \in SelState, NEW i \in SelState, NEW b \in Board,
         PhasesOK(s), PhasesOK(i), Held(s), Held(i), s.counter < Half, i.counter < Half,
         Fresh(s) => s.counter + 1 < Half /\ i.counter + 1 < Half
  PROVE  LET m == Merge(s, i, b)
         IN  /\ m \in SelState /\ ~Fresh(m)
             /\ ~m.joined => ~s.joined /\ ~i.joined
             /\ \/ Same(m, s) /\ (Fresh(s) => ~i.joined /\ ~Above(i, s))
                \/ Same(m, i) /\ (Above(i, s) \/ Same(i, s))
                \/ Rebased(s, i, b, m)
<1> DEFINE m == Merge(s, i, b)
<1>1. /\ s.counter \in Nat /\ i.counter \in Nat /\ s.origin \in {0, 1} /\ i.origin \in {0, 1}
      /\ Half \in Int /\ s.counter < Half /\ i.counter < Half
  <2>1. Half \in Int
    BY ModulusAssumption, Z3 DEF Half
  <2>2. QED
    BY <2>1, StateFields
<1>2. TokenNewer(i, s) <=> Above(i, s)
  <2>1. CounterNewer(i.counter, s.counter) <=> i.counter > s.counter
    BY <1>1, StateFields, NewerIsMore
  <2>2. QED
    BY <2>1 DEF TokenNewer, Above
<1>3. m \in SelState
  BY MergeOK
<1>4. CASE Fresh(s) /\ i.joined /\ s.pending
  <2> DEFINE r == Rebase(s, i, b)
  <2>1. r \in SelState /\ m = [r EXCEPT !.joined = TRUE, !.pending = FALSE]
    BY <1>4, RebaseOK DEF Merge, JoinLive
  <2> HIDE DEF r
  <2>2. m.joined /\ m.counter = r.counter /\ m.origin = r.origin
    BY <2>1 DEF SelState
  <2>3. r.counter = 1 + (IF i.counter > s.counter THEN i.counter ELSE s.counter) /\ r.origin = b
    BY <1>4, RebaseFacts DEF r
  <2> HIDE DEF m
  <2>4. Rebased(s, i, b, m)
    BY <1>1, <1>4, <2>2, <2>3 DEF Rebased
  <2>5. QED
    BY <1>3, <2>2, <2>4 DEF Fresh, m
<1>5. CASE Fresh(s) /\ i.joined /\ ~s.pending
  <2>1. m = [CopyToken(s, i) EXCEPT !.joined = TRUE, !.pending = FALSE]
    BY <1>5 DEF Merge, JoinLive
  <2>2. m.joined /\ Same(m, i)
    BY <2>1 DEF CopyToken, SelState, Same
  <2>3. Zero(s)
    BY <1>5 DEF PhasesOK, EmptyBoot
  <2>4. Above(i, s) \/ Same(i, s)
    BY <1>1, <2>3 DEF Held, Zero, Above, Same
  <2>5. QED
    BY <1>3, <2>2, <2>4 DEF Fresh
<1>6. CASE Fresh(s) /\ ~i.joined
  <2> DEFINE t == IF TokenNewer(i, s) THEN CopyToken(s, i) ELSE s
  <2>1. m = [t EXCEPT !.joined = i.joining, !.joining = ~i.joining, !.pending = FALSE]
    BY <1>6 DEF Merge, JoinFresh
  <2>2. t \in SelState /\ (Above(i, s) => Same(t, i)) /\ (~Above(i, s) => Same(t, s))
    BY <1>2 DEF CopyToken, SelState, Same
  <2> HIDE DEF t
  <2>3. ~Fresh(m) /\ Same(m, t) /\ ~s.joined
    BY <1>6, <2>1, <2>2 DEF SelState, Fresh, Same
  <2> HIDE DEF m
  <2>4. QED
    BY <1>3, <1>6, <2>2, <2>3 DEF Same, m
<1>7. CASE ~Fresh(s)
  <2> DEFINE e == Establish(s, i)
  <2>1. /\ e \in SelState /\ Same(e, s) /\ ~Fresh(e) /\ (~e.joined => ~s.joined /\ ~i.joined)
    BY <1>7 DEF Establish, Establishes, SelState, Same, Fresh
  <2>2. m = e \/ (m = CopyToken(e, i) /\ Above(i, s))
    BY <1>2, <1>7 DEF Merge, Supersedes
  <2> HIDE DEF e
  <2>3. CASE m = e
    BY <1>3, <1>7, <2>1, <2>3
  <2>4. CASE m = CopyToken(e, i) /\ Above(i, s)
    <3>1. Same(m, i) /\ m.joined = e.joined /\ m.joining = e.joining
      BY <2>1, <2>4 DEF CopyToken, SelState, Same
    <3>2. QED
      BY <1>3, <2>1, <2>4, <3>1 DEF Fresh
  <2>5. QED
    BY <2>2, <2>3, <2>4
<1>8. QED
  BY <1>4, <1>5, <1>6, <1>7

-----------------------------------------------------------------------------
(* What a board has under way, from the payload that a core waits to queue *)
(* to the frames its peer has not parsed; and the states these decode to.  *)
Carries(q, x) == \E i \in 1 .. Len(q) : q[i].data = x

Flying(b) ==
  {x \in Payload : \/ core1[b] = "waiting" /\ x = request[b]
                   \/ core0[b] = "announcing" /\ x = announce[b]
                   \/ Carries(txq[b], x) \/ Carries(wire[b], x)}

Sent(b) == {s \in SelState : \E x \in Flying(b) : x.marker /\ s = Decode(x)}

(* How much a session may still add to a counter: a switch and a frame of  *)
(* older firmware add one each, and so does a fresh board's first merge.   *)
Unjoined(b) == IF Fresh(sel[b]) THEN 1 ELSE 0

Backlog(b) ==
  IF old[b] THEN Len(txq[b]) + Len(wire[b]) + (IF core0[b] = "boot" THEN 1 ELSE 0)
  ELSE 0

Left ==
  (MaxRequests - requests) + (MaxReboots - reboots)
    + Unjoined(0) + Unjoined(1) + Backlog(0) + Backlog(1)

(* A board's frames have its own past tokens. *)
Line(b) ==
  /\ Held(sel[b]) /\ sel[b].counter + Left < Half
  /\ \A s \in Sent(b) :
       Held(s) /\ PhasesOK(s) /\ NotAfter(s, sel[b]) /\ (Fresh(sel[b]) => Fresh(s))

(* No board holds a token of its peer that the peer itself is behind.  A   *)
(* peer that has reset and not joined again may be behind, but is ahead as *)
(* soon as it merges anything that is under way to it.                     *)
Known(b, p) ==
  sel[b].origin = p =>
    /\ ~Fresh(sel[p]) =>
         /\ sel[b].counter <= sel[p].counter
         /\ sel[b].counter = sel[p].counter /\ sel[p].origin = p
              => sel[b].output = sel[p].output
    /\ Fresh(sel[p]) /\ ~old[p] =>
         \A f \in Sent(b) :
           /\ sel[b].counter <= f.counter \/ sel[b].counter <= sel[p].counter
           /\ ~f.joined => sel[b].output = sel[b].counter % 2

Tokens == \A b \in Board : Line(b) /\ Known(b, Peer(b))

(* What the queues and the cores say of each other. *)
Link(b) ==
  /\ \A x \in Flying(b) : x.marker <=> ~old[b]
  /\ old[b] => core1[b] = "idle" /\ core0[b] # "announcing" /\ sel[b] = BootState
  /\ core1[b] = "waiting" => Decode(request[b]) = sel[b]

TokenIInv == IInv /\ (\A b \in Board : Link(b)) /\ Tokens

-----------------------------------------------------------------------------
(* What a step does to the tokens. *)
SentKept == \A b \in Board : Sent(b)' \subseteq Sent(b) \cup {sel'[b]}

Keeps == sel' = sel /\ old' = old /\ SentKept /\ Left' <= Left

Asks(a) ==
  /\ sel' = [sel EXCEPT ![a] = SelRequest(@, 1 - sel[a].output, a)]
  /\ old' = old /\ SentKept /\ Left' + 1 <= Left

Obeys(a) ==
  /\ old[Peer(a)] /\ ~old[a]
  /\ \E v \in Output : sel' = [sel EXCEPT ![a] = LegacyRequest(@, v, Peer(a))]
  /\ old' = old /\ SentKept /\ Left' + 1 <= Left

Merges(a) ==
  /\ ~old[a]
  /\ \E i \in Sent(Peer(a)) : sel' = [sel EXCEPT ![a] = Merge(@, i, a)]
  /\ old' = old /\ SentKept /\ Left' + Unjoined(a) <= Left

Resets(a) ==
  /\ sel' = [sel EXCEPT ![a] = BootState] /\ old' = [old EXCEPT ![a] = FALSE]
  /\ Left' <= Left /\ \A b \in Board : Sent(b)' \subseteq {sel'[b]}
  /\ Sent(a)' = {}

(* The two boards. *)
LEMMA OtherBoard ==
  ASSUME NEW b \in Board
  PROVE  /\ Peer(b) \in Board /\ Peer(b) # b /\ Peer(Peer(b)) = b /\ b \in {0, 1}
         /\ \A c \in Board : c = b \/ c = Peer(b)
  BY DEF Board, Peer

(* Two lengths, and one more. *)
LEMMA SumNat == \A x, y \in Nat : x + y + 0 \in Nat /\ x + y + 1 \in Nat
  OBVIOUS

(* Left is a number. *)
LEMMA LeftFacts ==
  ASSUME TypeOK
  PROVE  /\ Left \in Nat /\ MaxRequests - requests \in Nat /\ MaxReboots - reboots \in Nat
         /\ \A b \in Board : Unjoined(b) \in {0, 1} /\ Backlog(b) \in Nat
         /\ \A b \in Board : Unjoined(b) <= Left
<1>1. MaxRequests - requests \in Nat /\ MaxReboots - reboots \in Nat
  BY BoundAssumption DEF TypeOK
<1>2. \A b \in Board : Unjoined(b) \in {0, 1} /\ Backlog(b) \in Nat
  <2>1. \A b \in Board : Len(txq[b]) \in Nat /\ Len(wire[b]) \in Nat
    BY DEF TypeOK
  <2>2. \A b \in Board : Unjoined(b) \in {0, 1}
    BY DEF Unjoined
  <2>3. ASSUME NEW b \in Board PROVE Backlog(b) \in Nat
    <3> DEFINE m == Len(txq[b])
              n == Len(wire[b])
    <3>1. m \in Nat /\ n \in Nat
      BY <2>1
    <3>2. Backlog(b) \in {0, m + n + 0, m + n + 1}
      BY DEF Backlog
    <3> HIDE DEF m, n
    <3>3. QED
      BY <3>1, <3>2, SumNat
  <2>4. QED
    BY <2>2, <2>3
<1>3. Board = {0, 1}
  BY DEF Board
<1>4. QED
  BY <1>1, <1>2, <1>3 DEF Left

(* What is left of a bound. *)
LEMMA Remainder == \A m \in Nat : \A k \in 0 .. m : m - k \in Nat
  OBVIOUS

(* ... after a step as well. *)
LEMMA LeftParts ==
  ASSUME TypeOK'
  PROVE  /\ requests' \in 0 .. MaxRequests /\ reboots' \in 0 .. MaxReboots
         /\ \A b \in Board : Unjoined(b)' \in {0, 1} /\ Backlog(b)' \in Nat
<1>1. requests' \in 0 .. MaxRequests /\ reboots' \in 0 .. MaxReboots
  BY DEF TypeOK
<1>2. \A b \in Board : Unjoined(b)' \in {0, 1}
  BY DEF Unjoined
<1>3. ASSUME NEW b \in Board PROVE Backlog(b)' \in Nat
  <2> DEFINE m == Len(txq'[b])
            n == Len(wire'[b])
  <2>1. m \in Nat /\ n \in Nat
    BY DEF TypeOK
  <2>2. Backlog(b)' \in {0, m + n + 0, m + n + 1}
    BY DEF Backlog
  <2> HIDE DEF m, n
  <2>3. QED
    BY <2>1, <2>2, SumNat
<1>4. QED
  BY <1>1, <1>2, <1>3

(* ... and stays one. *)
LEMMA LeftStays ==
  ASSUME TypeOK'
  PROVE  Left' \in Nat /\ Left' \in Int
<1>1. MaxRequests - requests' \in Nat /\ MaxReboots - reboots' \in Nat
  <2>1. MaxRequests \in Nat /\ MaxReboots \in Nat
    BY BoundAssumption
  <2>2. QED
    BY <2>1, LeftParts, Remainder
<1>2. \A b \in Board : Unjoined(b)' \in Nat /\ Backlog(b)' \in Nat
  BY LeftParts
<1>3. Board = {0, 1}
  BY DEF Board
<1>4. QED
  BY <1>1, <1>2, <1>3 DEF Left

(* The facts about one board's state. *)
LEMMA StateFacts ==
  ASSUME TokenIInv, NEW b \in Board
  PROVE  /\ TypeOK /\ sel \in [Board -> SelState] /\ sel[b] \in SelState /\ PhasesOK(sel[b])
         /\ Held(sel[b]) /\ sel[b].counter \in Nat /\ sel[b].counter + Left < Half
         /\ Left \in Nat /\ Half \in Int /\ Link(b) /\ Line(b) /\ Known(b, Peer(b))
         /\ \A s \in Sent(b) : /\ s \in SelState /\ Held(s) /\ PhasesOK(s) /\ NotAfter(s, sel[b])
                               /\ s.counter \in Nat /\ s.counter <= sel[b].counter
<1>1. /\ TypeOK /\ sel \in [Board -> SelState] /\ sel[b] \in SelState /\ PhasesOK(sel[b])
      /\ Held(sel[b]) /\ sel[b].counter + Left < Half /\ Link(b) /\ Line(b) /\ Known(b, Peer(b))
  BY DEF TokenIInv, IInv, TypeOK, PhasesConsistent, Tokens, Line
<1>2. sel[b].counter \in Nat /\ Left \in Nat /\ Half \in Int
  <2>1. Half \in Int
    BY ModulusAssumption, Z3 DEF Half
  <2>2. QED
    BY <1>1, <2>1, StateFields, LeftFacts
<1>3. ASSUME NEW s \in Sent(b)
      PROVE  /\ s \in SelState /\ Held(s) /\ PhasesOK(s) /\ NotAfter(s, sel[b])
             /\ s.counter \in Nat /\ s.counter <= sel[b].counter
  <2>1. s \in SelState /\ Held(s) /\ PhasesOK(s) /\ NotAfter(s, sel[b])
    BY <1>1 DEF Line, Sent
  <2>2. QED
    BY <1>1, <2>1, TokenOrder, StateFields
<1>4. QED
  BY <1>1, <1>2, <1>3

(* A board whose token stays or grows keeps its line. *)
LEMMA LineKept ==
  ASSUME TokenIInv, NEW b \in Board, sel'[b] \in SelState, PhasesOK(sel'[b]), Held(sel'[b]),
         Sent(b)' \subseteq Sent(b) \cup {sel'[b]}, NotAfter(sel[b], sel'[b]),
         Fresh(sel'[b]) => Fresh(sel[b]), sel'[b].counter + Left' < Half
  PROVE  Line(b)'
<1>1. ASSUME NEW s \in Sent(b)'
      PROVE  Held(s) /\ PhasesOK(s) /\ NotAfter(s, sel'[b]) /\ (Fresh(sel'[b]) => Fresh(s))
  <2>1. CASE s = sel'[b]
    BY <2>1, TokenOrder
  <2>2. CASE s \in Sent(b)
    <3>1. /\ s \in SelState /\ Held(s) /\ PhasesOK(s) /\ NotAfter(s, sel[b])
          /\ sel[b] \in SelState /\ (Fresh(sel[b]) => Fresh(s))
      BY <2>2, StateFacts DEF Line
    <3>2. QED
      BY <3>1, TokenOrder
  <2>3. QED
    BY <2>1, <2>2
<1>2. QED
  BY <1>1 DEF Line

(* The parts put together. *)
LEMMA TokensFrom ==
  ASSUME NEW a \in Board, Line(a)', Line(Peer(a))', Known(a, Peer(a))', Known(Peer(a), a)'
  PROVE  Tokens'
<1>1. Peer(Peer(a)) = a /\ \A c \in Board : c = a \/ c = Peer(a)
  BY OtherBoard
<1>2. \A c \in Board : (Line(c) /\ Known(c, Peer(c)))'
  BY <1>1
<1>3. QED
  BY <1>2 DEF Tokens

(* A step that leaves the tokens. *)
LEMMA KeepsTokens ==
  ASSUME TokenIInv, IInv', Keeps PROVE Tokens'
<1>1. ASSUME NEW b \in Board PROVE Line(b)' /\ Known(b, Peer(b))'
  <2>1. /\ TypeOK' /\ sel'[b] = sel[b] /\ sel' = sel /\ old' = old
        /\ Sent(b)' \subseteq Sent(b) \cup {sel[b]} /\ Left' <= Left
    BY DEF Keeps, SentKept, IInv
  <2>2. Left' \in Int
    BY <2>1, LeftStays
  <2>3. Line(b)'
    <3>1. NotAfter(sel[b], sel'[b]) /\ sel'[b].counter + Left' < Half
      BY <2>1, <2>2, StateFacts, TokenOrder
    <3>2. QED
      BY <2>1, <3>1, StateFacts, LineKept
  <2>4. Known(b, Peer(b))'
    <3>1. sel[b].counter <= sel[b].counter /\ (~sel[b].joined => sel[b].output = sel[b].counter % 2)
      BY StateFacts DEF Held
    <3>2. QED
      BY <2>1, <3>1, StateFacts DEF Known
  <2>5. QED
    BY <2>3, <2>4
<1>2. QED
  BY <1>1 DEF Tokens

(* What is spent is not left. *)
LEMMA Spending ==
  \A c, x, y, h \in Int :
    c + x < h /\ y + 1 <= x /\ y >= 0 => y <= x /\ c + 1 < h /\ c + 1 + y < h
  OBVIOUS

(* The other board, when only a changes its token. *)
LEMMA OtherLine ==
  ASSUME TokenIInv, TypeOK', SentKept, NEW b \in Board, sel'[b] = sel[b], Left' <= Left
  PROVE  Line(b)'
<1>1. Left' \in Int
  BY LeftStays
<1>2. NotAfter(sel[b], sel'[b]) /\ sel'[b].counter + Left' < Half
  BY <1>1, StateFacts, TokenOrder
<1>3. QED
  BY <1>2, StateFacts, LineKept DEF SentKept

(* set_active_output: nobody has the next token of this board. *)
LEMMA AsksTokens ==
  ASSUME TokenIInv, IInv', NEW a \in Board, Asks(a) PROVE Tokens'
<1> DEFINE p == Peer(a)
          s == sel[a]
          r == SelRequest(s, 1 - s.output, a)
<1>1. /\ TypeOK' /\ p \in Board /\ p # a /\ Peer(p) = a
  BY OtherBoard DEF IInv
<1>2. /\ sel' = [sel EXCEPT ![a] = r] /\ old' = old /\ SentKept /\ Left' + 1 <= Left
  BY DEF Asks
<1>3. /\ sel \in [Board -> SelState] /\ s \in SelState /\ Held(s) /\ s.counter \in Nat
      /\ s.counter + Left < Half /\ Left \in Nat /\ Half \in Int
  BY StateFacts
<1>4. Left' <= Left /\ s.counter + 1 < Half /\ s.counter + 1 + Left' < Half
  <2>1. s.counter \in Int /\ Left \in Int /\ Left' \in Int /\ Half \in Int /\ Left' >= 0
    BY <1>1, <1>3, LeftStays
  <2>2. s.counter + Left < Half /\ Left' + 1 <= Left
    BY <1>2, <1>3
  <2>3. QED
    BY <2>1, <2>2, Spending
<1>5. 1 - s.output \in Output /\ s.output \in {0, 1}
  BY <1>3, StateFields DEF Output
<1>6. /\ r \in SelState /\ r.counter = s.counter + 1 /\ r.origin = a /\ r.output = 1 - s.output
      /\ r.joined = s.joined /\ r.joining = s.joining
  BY <1>3, <1>4, <1>5, RequestFacts
<1> HIDE DEF r
<1>7. sel'[a] = r /\ sel'[p] = sel[p] /\ (Fresh(r) <=> Fresh(s))
  BY <1>1, <1>2, <1>3, <1>6 DEF Fresh
<1>8. Line(a)'
  <2>1. Held(r)
    <3>1. r.counter # 0 /\ (~r.joined => s.output = s.counter % 2)
      BY <1>3, <1>6 DEF Held
    <3>2. ~r.joined => r.output = r.counter % 2
      BY <1>3, <1>5, <1>6, <3>1
    <3>3. QED
      BY <3>1, <3>2 DEF Held
  <2>2. NotAfter(s, r)
    BY <1>3, <1>6 DEF NotAfter, Above
  <2>3. r.counter + Left' < Half
    BY <1>4, <1>6
  <2>4. PhasesOK(r)
    BY <1>7 DEF IInv, PhasesConsistent
  <2>5. QED
    BY <1>2, <1>6, <1>7, <2>1, <2>2, <2>3, <2>4, LineKept DEF SentKept
<1>9. Line(p)'
  BY <1>1, <1>2, <1>3, <1>4, <1>7, OtherLine
<1>10. Known(a, p)'
  BY <1>1, <1>6, <1>7 DEF Known
<1>11. Known(p, a)'
  <2>1. /\ Known(p, a) /\ sel[p].counter \in Nat /\ Sent(p)' \subseteq Sent(p) \cup {sel[p]}
        /\ Held(sel[p])
    <3>1. /\ Known(p, Peer(p)) /\ sel[p].counter \in Nat /\ Held(sel[p])
      BY <1>1, StateFacts
    <3>2. QED
      BY <1>1, <1>2, <1>7, <3>1 DEF SentKept
  <2>2. ASSUME sel[p].origin = a, ~Fresh(s)
        PROVE  sel[p].counter <= r.counter /\ sel[p].counter # r.counter
    BY <1>3, <1>6, <2>1, <2>2 DEF Known
  <2>3. ASSUME sel[p].origin = a, Fresh(s), ~old[a], NEW f \in Sent(p)'
        PROVE  /\ sel[p].counter <= f.counter \/ sel[p].counter <= r.counter
               /\ ~f.joined => sel[p].output = sel[p].counter % 2
    <3>1. CASE f \in Sent(p)
      BY <1>3, <1>6, <2>1, <2>3, <3>1 DEF Known
    <3>2. CASE f = sel[p]
      BY <2>1, <3>2 DEF Held
    <3>3. QED
      BY <2>1, <2>3, <3>1, <3>2
  <2>4. QED
    BY <1>2, <1>7, <2>2, <2>3 DEF Known
<1>12. QED
  BY <1>8, <1>9, <1>10, <1>11, TokensFrom

(* receive_output_selection, an old peer: it has no tokens. *)
LEMMA ObeysTokens ==
  ASSUME TokenIInv, IInv', NEW a \in Board, Obeys(a) PROVE Tokens'
<1> DEFINE p == Peer(a)
          s == sel[a]
<1>1. /\ TypeOK' /\ p \in Board /\ p # a /\ Peer(p) = a
  BY OtherBoard DEF IInv
<1>2. PICK v \in Output : sel' = [sel EXCEPT ![a] = LegacyRequest(s, v, p)]
  BY DEF Obeys
<1> DEFINE r == LegacyRequest(s, v, p)
<1>3. /\ old' = old /\ SentKept /\ Left' + 1 <= Left /\ old[p] /\ sel' = [sel EXCEPT ![a] = r]
  BY <1>2 DEF Obeys
<1>4. /\ sel \in [Board -> SelState] /\ s \in SelState /\ Held(s) /\ s.counter \in Nat
      /\ s.counter + Left < Half /\ Left \in Nat /\ Half \in Int
  BY StateFacts
<1>5. Left' <= Left /\ s.counter + 1 < Half /\ s.counter + 1 + Left' < Half
  <2>1. s.counter \in Int /\ Left \in Int /\ Left' \in Int /\ Half \in Int /\ Left' >= 0
    BY <1>1, <1>4, LeftStays
  <2>2. s.counter + Left < Half /\ Left' + 1 <= Left
    BY <1>3, <1>4
  <2>3. QED
    BY <2>1, <2>2, Spending
<1>6. /\ r \in SelState /\ r.counter = s.counter + 1 /\ r.origin = p /\ r.joined
  BY <1>1, <1>4, <1>5, RequestFacts
<1> HIDE DEF r
<1>7. sel'[a] = r /\ sel'[p] = sel[p] /\ ~Fresh(r) /\ sel[p] = BootState
  <2>1. sel[p] = BootState
    BY <1>1, <1>3, StateFacts DEF Link
  <2>2. QED
    BY <1>1, <1>3, <1>4, <1>6, <2>1 DEF Fresh
<1>8. Line(a)'
  <2>1. Held(r) /\ NotAfter(s, r) /\ r.counter + Left' < Half
    <3>1. r.counter + Left' < Half
      BY <1>5, <1>6
    <3>2. QED
      BY <1>4, <1>6, <3>1 DEF Held, NotAfter, Above
  <2>2. PhasesOK(r)
    BY <1>7 DEF IInv, PhasesConsistent
  <2>3. QED
    BY <1>3, <1>6, <1>7, <2>1, <2>2, LineKept DEF SentKept
<1>9. Line(p)'
  BY <1>1, <1>3, <1>4, <1>5, <1>7, OtherLine
<1>10. Known(a, p)'
  BY <1>3, <1>7 DEF Known, BootState, Fresh
<1>11. Known(p, a)'
  BY <1>4, <1>6, <1>7 DEF Known, BootState
<1>12. QED
  BY <1>8, <1>9, <1>10, <1>11, TokensFrom

(* What stays below half the range. *)
LEMMA Room ==
  \A c, x, y, h \in Int :
    /\ y + 0 <= x \/ y + 1 <= x => y <= x
    /\ c >= 0 /\ x >= 0 /\ c + x < h /\ y <= x => c < h /\ 0 + y < h /\ c + y < h
  OBVIOUS

(* What a step that merges a frame leaves. *)
Outcome(s, i, b, m) ==
  /\ m \in SelState /\ ~Fresh(m) /\ (~m.joined => ~s.joined /\ ~i.joined)
  /\ \/ Same(m, s) /\ (Fresh(s) => ~i.joined /\ ~Above(i, s))
     \/ Same(m, i) /\ (Above(i, s) \/ Same(i, s))
     \/ Rebased(s, i, b, m)

(* A merge never runs out of counters. *)
LEMMA MergeOutcome ==
  ASSUME TokenIInv, IInv', NEW a \in Board, Merges(a)
  PROVE  /\ Left' <= Left /\ Left' \in Nat /\ (Fresh(sel[a]) => Left' + 1 <= Left)
         /\ \E i \in Sent(Peer(a)) : Outcome(sel[a], i, a, sel'[a])
         /\ sel'[Peer(a)] = sel[Peer(a)]
<1> DEFINE p == Peer(a)
          s == sel[a]
          t == sel[p]
<1>1. /\ TypeOK' /\ p \in Board /\ p # a /\ Peer(p) = a
  BY OtherBoard DEF IInv
<1>2. PICK i \in Sent(p) : sel' = [sel EXCEPT ![a] = Merge(s, i, a)]
  BY DEF Merges
<1> DEFINE m == Merge(s, i, a)
<1>3. /\ old' = old /\ SentKept /\ ~old[a] /\ Left' + Unjoined(a) <= Left
  BY DEF Merges
<1>4. /\ sel \in [Board -> SelState] /\ s \in SelState /\ Held(s) /\ PhasesOK(s)
      /\ s.counter \in Nat /\ s.counter + Left < Half /\ Left \in Nat /\ Half \in Int
  BY StateFacts
<1>5. /\ t \in SelState /\ Held(t) /\ t.counter \in Nat /\ t.counter + Left < Half
      /\ i \in SelState /\ Held(i) /\ PhasesOK(i) /\ NotAfter(i, t) /\ i.counter \in Nat
      /\ i.counter <= t.counter /\ i.counter + Left < Half /\ (Fresh(t) => Fresh(i))
  <2>1. /\ t \in SelState /\ Held(t) /\ t.counter \in Nat /\ t.counter + Left < Half
        /\ i \in SelState /\ Held(i) /\ PhasesOK(i) /\ NotAfter(i, t) /\ i.counter \in Nat
        /\ i.counter <= t.counter /\ Line(p)
    BY <1>1, StateFacts
  <2>2. QED
    BY <1>4, <2>1 DEF Line
<1>6. /\ Left' <= Left /\ Left' \in Nat
      /\ Fresh(s) => Left' + 1 <= Left
  <2>1. Left' \in Nat
    BY <1>1, LeftStays
  <2>2. Unjoined(a) \in {0, 1} /\ (Fresh(s) => Unjoined(a) = 1)
    BY DEF Unjoined
  <2>3. Left' + 0 <= Left \/ Left' + 1 <= Left
    BY <1>3, <2>2
  <2>4. Left' \in Int /\ Left \in Int
    BY <1>4, <2>1
  <2>5. Left' <= Left
    BY <2>3, <2>4, Room
  <2>6. Fresh(s) => Left' + 1 <= Left
    BY <1>3, <2>2
  <2>7. QED
    BY <2>1, <2>5, <2>6
<1>7. /\ s.counter < Half /\ i.counter < Half
      /\ Fresh(s) => s.counter + 1 < Half /\ i.counter + 1 < Half
  <2>1. /\ s.counter \in Int /\ i.counter \in Int /\ Left \in Int /\ Left' \in Int /\ Half \in Int
        /\ s.counter >= 0 /\ i.counter >= 0 /\ Left >= 0 /\ Left' >= 0
    BY <1>4, <1>5, <1>6
  <2>2. s.counter + Left < Half /\ i.counter + Left < Half /\ Left' <= Left
    BY <1>4, <1>5, <1>6
  <2>3. s.counter < Half /\ i.counter < Half
    BY <2>1, <2>2, Room
  <2>4. ASSUME Fresh(s) PROVE s.counter + 1 < Half /\ i.counter + 1 < Half
    <3>1. Left' + 1 <= Left
      BY <1>6, <2>4
    <3>2. QED
      BY <2>1, <2>2, <3>1, Spending
  <2>5. QED
    BY <2>3, <2>4
<1>8. sel'[a] = m /\ sel'[p] = t
  BY <1>1, <1>2, <1>4
<1>9. Outcome(s, i, a, m)
  BY <1>4, <1>5, <1>7, MergeFacts DEF Outcome
<1>10. QED
  BY <1>6, <1>8, <1>9

(* A merge leaves the board's own token, the frame's or a rebased one. *)
LEMMA MergesTokens ==
  ASSUME TokenIInv, IInv', NEW a \in Board, Merges(a) PROVE Tokens'
<1> DEFINE p == Peer(a)
          s == sel[a]
          t == sel[p]
<1>1. /\ TypeOK' /\ p \in Board /\ p # a /\ Peer(p) = a
  BY OtherBoard DEF IInv
<1>2. PICK i \in Sent(p) : Outcome(s, i, a, sel'[a])
  BY MergeOutcome
<1> DEFINE m == sel'[a]
<1>3. /\ old' = old /\ SentKept /\ ~old[a] /\ Left' + Unjoined(a) <= Left
  BY DEF Merges
<1>4. /\ sel \in [Board -> SelState] /\ s \in SelState /\ Held(s) /\ PhasesOK(s)
      /\ s.counter \in Nat /\ s.counter + Left < Half /\ Left \in Nat /\ Half \in Int
  BY StateFacts
<1>5. /\ t \in SelState /\ Held(t) /\ t.counter \in Nat /\ t.counter + Left < Half
      /\ i \in SelState /\ Held(i) /\ PhasesOK(i) /\ NotAfter(i, t) /\ i.counter \in Nat
      /\ i.counter <= t.counter /\ i.counter + Left < Half /\ (Fresh(t) => Fresh(i))
  <2>1. /\ t \in SelState /\ Held(t) /\ t.counter \in Nat /\ t.counter + Left < Half
        /\ i \in SelState /\ Held(i) /\ PhasesOK(i) /\ NotAfter(i, t) /\ i.counter \in Nat
        /\ i.counter <= t.counter /\ Line(p)
    BY <1>1, StateFacts
  <2>2. QED
    BY <1>4, <2>1 DEF Line
<1>6. /\ Left' <= Left /\ Left' \in Nat /\ (Fresh(s) => Left' + 1 <= Left)
      /\ sel'[a] = m /\ sel'[p] = t
  BY MergeOutcome
<1> HIDE DEF m
<1>7. /\ m \in SelState /\ ~Fresh(m) /\ (~m.joined => ~s.joined /\ ~i.joined)
      /\ \/ Same(m, s) /\ (Fresh(s) => ~i.joined /\ ~Above(i, s))
         \/ Same(m, i) /\ (Above(i, s) \/ Same(i, s))
         \/ Rebased(s, i, a, m)
  BY <1>2 DEF Outcome, m
<1>8. /\ sel'[a] = m /\ sel'[p] = t /\ PhasesOK(m)
      /\ m.counter \in Nat /\ m.origin \in {0, 1} /\ s.origin \in {0, 1} /\ i.origin \in {0, 1}
      /\ t.origin \in {0, 1} /\ Half \in Int
  BY <1>4, <1>5, <1>6, <1>7, StateFields DEF IInv, PhasesConsistent
<1>9. Held(m) /\ NotAfter(s, m)
  <2>1. CASE Same(m, s)
    BY <1>4, <1>7, <2>1 DEF Held, Zero, Same, NotAfter
  <2>2. CASE Same(m, i) /\ (Above(i, s) \/ Same(i, s))
    BY <1>5, <1>7, <2>2 DEF Held, Zero, Same, NotAfter, Above
  <2>3. CASE Rebased(s, i, a, m)
    BY <1>4, <2>3 DEF Held, Rebased, NotAfter, Above
  <2>4. QED
    BY <1>7, <2>1, <2>2, <2>3
<1>10. m.counter + Left' < Half
  <2>1. CASE Same(m, s)
    BY <1>4, <1>6, <2>1 DEF Same
  <2>2. CASE Same(m, i)
    BY <1>4, <1>5, <1>6, <2>2 DEF Same
  <2>3. CASE Rebased(s, i, a, m)
    <3>1. Left' + 1 <= Left /\ (m.counter = s.counter + 1 \/ m.counter = i.counter + 1)
      BY <1>6, <2>3 DEF Rebased
    <3>2. /\ s.counter \in Int /\ i.counter \in Int /\ Left \in Int /\ Left' \in Int
          /\ Half \in Int /\ Left' >= 0 /\ s.counter + Left < Half /\ i.counter + Left < Half
      BY <1>4, <1>5, <1>6
    <3>3. s.counter + 1 + Left' < Half /\ i.counter + 1 + Left' < Half
      BY <3>1, <3>2, Spending
    <3>4. QED
      BY <3>1, <3>3
  <2>4. QED
    BY <1>7, <2>1, <2>2, <2>3
<1>11. Line(a)'
  BY <1>3, <1>7, <1>8, <1>9, <1>10, LineKept DEF SentKept
<1>12. Line(p)'
  BY <1>1, <1>3, <1>6, <1>8, OtherLine
<1>13. Known(a, p)'
  <2>1. Known(a, p)
    BY StateFacts
  <2>2. ASSUME m.origin = p PROVE Same(m, s) \/ Same(m, i)
    BY <1>1, <1>7, <2>2 DEF Rebased
  <2>3. ASSUME m.origin = p, ~Fresh(t)
        PROVE  /\ m.counter <= t.counter
               /\ m.counter = t.counter /\ t.origin = p => m.output = t.output
    <3>1. CASE Same(m, s)
      BY <2>1, <2>3, <3>1 DEF Known, Same
    <3>2. CASE Same(m, i)
      BY <1>5, <2>3, <3>2, TokenOrder DEF Same
    <3>3. QED
      BY <2>2, <2>3, <3>1, <3>2
  <2>4. ASSUME m.origin = p, Fresh(t), ~old[p], NEW f \in Sent(a)'
        PROVE  /\ m.counter <= f.counter \/ m.counter <= t.counter
               /\ ~f.joined => m.output = m.counter % 2
    <3>1. f \in Sent(a) \/ f = m
      BY <1>3, <1>8, <2>4 DEF SentKept
    <3>2. CASE f = m
      BY <1>8, <1>9, <3>2 DEF Held
    <3>3. CASE f \in Sent(a) /\ Same(m, s)
      BY <2>1, <2>4, <3>3 DEF Known, Same
    <3>4. CASE Same(m, i)
      <4>1. ~i.joined
        BY <1>5, <2>4 DEF Fresh
      <4>2. QED
        BY <1>5, <3>4, <4>1 DEF Held, Same
    <3>5. QED
      BY <2>2, <2>4, <3>1, <3>2, <3>3, <3>4
  <2>5. QED
    BY <1>3, <1>8, <2>3, <2>4 DEF Known
<1>14. Known(p, a)'
  <2>1. Known(p, a)
    BY <1>1, StateFacts
  <2>2. ASSUME t.origin = a, ~Fresh(s)
        PROVE  /\ t.counter <= m.counter
               /\ t.counter = m.counter /\ m.origin = a => t.output = m.output
    <3>1. t.counter <= s.counter /\ (t.counter = s.counter /\ s.origin = a => t.output = s.output)
      BY <2>1, <2>2 DEF Known
    <3>2. s.counter <= m.counter
      BY <1>4, <1>7, <1>9, TokenOrder
    <3>3. CASE Same(m, s)
      BY <3>1, <3>3 DEF Same
    <3>4. CASE Same(m, i)
      <4>1. t.counter <= m.counter
        BY <1>4, <1>5, <1>8, <3>1, <3>2
      <4>2. ASSUME t.counter = m.counter, m.origin = a PROVE t.output = m.output
        BY <1>5, <2>2, <3>4, <4>2, TokenOrder DEF Same
      <4>3. QED
        BY <4>1, <4>2
    <3>5. QED
      BY <1>7, <2>2, <3>3, <3>4 DEF Rebased
  <2>3. ASSUME t.origin = a, Fresh(s)
        PROVE  /\ t.counter <= m.counter
               /\ t.counter = m.counter /\ m.origin = a => t.output = m.output
    <3>1. /\ t.counter <= i.counter \/ t.counter <= s.counter
          /\ ~i.joined => t.output = t.counter % 2
      BY <1>2, <1>3, <2>1, <2>3 DEF Known
    <3>2. CASE Same(m, s) /\ ~i.joined /\ ~Above(i, s)
      <4>1. i.counter <= s.counter /\ s.output = s.counter % 2
        BY <1>4, <1>5, <2>3, <3>2 DEF Above, Held, Fresh
      <4>2. t.counter <= s.counter
        BY <1>4, <1>5, <3>1, <4>1
      <4>3. QED
        BY <3>1, <3>2, <4>1, <4>2 DEF Same
    <3>3. CASE Same(m, i) /\ (Above(i, s) \/ Same(i, s))
      <4>1. s.counter <= i.counter
        BY <1>4, <1>5, <3>3 DEF Above, Same
      <4>2. t.counter <= i.counter
        BY <1>4, <1>5, <3>1, <4>1
      <4>3. ASSUME t.counter = m.counter, m.origin = a PROVE t.output = m.output
        BY <1>5, <2>3, <3>3, <4>3, TokenOrder DEF Same
      <4>4. QED
        BY <3>3, <4>2, <4>3 DEF Same
    <3>4. CASE Rebased(s, i, a, m)
      <4>1. m.counter > s.counter /\ m.counter > i.counter
        BY <3>4 DEF Rebased
      <4>2. QED
        BY <1>4, <1>5, <1>8, <3>1, <4>1
    <3>5. QED
      BY <1>7, <2>3, <3>2, <3>3, <3>4
  <2>4. QED
    BY <1>7, <1>8, <2>2, <2>3 DEF Known
<1>15. QED
  BY <1>11, <1>12, <1>13, <1>14, TokensFrom

(* A reset: the peer's token may be one of the board's own, from before. *)
LEMMA ResetsTokens ==
  ASSUME TokenIInv, IInv', NEW a \in Board, Resets(a) PROVE Tokens'
<1> DEFINE p == Peer(a)
          t == sel[p]
<1>1. /\ TypeOK' /\ p \in Board /\ p # a /\ Peer(p) = a
  BY OtherBoard DEF IInv
<1>2. /\ sel' = [sel EXCEPT ![a] = BootState] /\ Left' <= Left
      /\ Sent(p)' \subseteq {sel'[p]} /\ Sent(a)' = {}
  BY <1>1 DEF Resets
<1>3. /\ sel \in [Board -> SelState] /\ sel[a].counter \in Nat /\ sel[a].counter + Left < Half
      /\ Left \in Nat /\ Half \in Int
  BY StateFacts
<1>4. t \in SelState /\ Held(t) /\ t.counter \in Nat /\ t.counter + Left < Half
  BY <1>1, StateFacts
<1>5. sel'[a] = BootState /\ sel'[p] = t
  BY <1>1, <1>2, <1>3
<1>6. Left' \in Nat
  BY <1>1, LeftStays
<1>7. Line(a)'
  <2>1. Held(BootState) /\ BootState.counter = 0
    BY DEF Held, BootState, Zero
  <2>2. 0 + Left' < Half
    <3>1. /\ sel[a].counter \in Int /\ Left \in Int /\ Left' \in Int /\ sel[a].counter >= 0
          /\ Left >= 0 /\ Half \in Int
      BY <1>3, <1>6
    <3>2. QED
      BY <1>2, <1>3, <3>1, Room
  <2>3. QED
    BY <1>2, <1>5, <2>1, <2>2 DEF Line
<1>8. Line(p)'
  <2>1. t.counter + Left' < Half
    BY <1>2, <1>3, <1>4, <1>6
  <2>2. NotAfter(t, t) /\ PhasesOK(t)
    BY <1>1, <1>4, TokenOrder, StateFacts
  <2>3. QED
    BY <1>1, <1>2, <1>4, <1>5, <2>1, <2>2, LineKept
<1>9. Known(a, p)'
  <2>1. 0 <= t.counter /\ (0 = t.counter => t.output = 0)
    BY <1>4 DEF Held, Zero
  <2>2. BootState.counter = 0 /\ BootState.output = 0
    BY DEF BootState
  <2>3. QED
    BY <1>2, <1>5, <2>1, <2>2 DEF Known
<1>10. Known(p, a)'
  <2>1. Fresh(BootState) /\ t.counter <= t.counter /\ (~t.joined => t.output = t.counter % 2)
    BY <1>4 DEF Fresh, BootState, Held
  <2>2. QED
    BY <1>2, <1>5, <2>1 DEF Known
<1>11. QED
  BY <1>7, <1>8, <1>9, <1>10, TokensFrom

-----------------------------------------------------------------------------
(* What the queues carry. *)

(* Decoding takes back what encoding did. *)
LEMMA CodecOK ==
  ASSUME NEW s \in SelState PROVE Decode(Encode(s)) = s /\ Encode(s).marker
  BY DEF Decode, Encode, SelState

(* Taking from a queue and adding to it. *)
LEMMA CarriesFacts ==
  ASSUME NEW q \in Seq(Frame), NEW f \in Frame, NEW x
  PROVE  /\ ~Carries(<<>>, x)
         /\ Carries(<<f>>, x) => x = f.data
         /\ Carries(Append(q, f), x) => Carries(q, x) \/ x = f.data
         /\ q # <<>> => /\ Carries(Tail(q), x) => Carries(q, x)
                        /\ Carries(q, Head(q).data) /\ Head(q) \in Frame
                        /\ Tail(q) \in Seq(Frame) /\ Len(Tail(q)) + 1 = Len(q)
<1>1. Len(q) \in Nat
  OBVIOUS
<1>2. ~Carries(<<>>, x)
  BY DEF Carries
<1>3. Carries(<<f>>, x) => x = f.data
  BY DEF Carries
<1>4. Carries(Append(q, f), x) => Carries(q, x) \/ x = f.data
  <2> SUFFICES ASSUME NEW k \in 1 .. Len(Append(q, f)), Append(q, f)[k].data = x
               PROVE  Carries(q, x) \/ x = f.data
    BY DEF Carries
  <2>1. k \in 1 .. Len(q) \/ k = Len(q) + 1
    BY <1>1
  <2>2. QED
    BY <2>1 DEF Carries
<1>5. ASSUME q # <<>>
      PROVE  /\ Carries(Tail(q), x) => Carries(q, x)
             /\ Carries(q, Head(q).data) /\ Head(q) \in Frame
             /\ Tail(q) \in Seq(Frame) /\ Len(Tail(q)) + 1 = Len(q)
  <2>1. /\ Len(q) \in Nat \ {0} /\ Head(q) = q[1] /\ Tail(q) \in Seq(Frame)
        /\ Len(Tail(q)) = Len(q) - 1
    BY <1>1, <1>5
  <2>2. Head(q) \in Frame /\ 1 \in 1 .. Len(q)
    BY <1>5, <2>1
  <2>3. Carries(q, Head(q).data)
    BY <2>1, <2>2 DEF Carries
  <2>4. ASSUME NEW k \in 1 .. Len(Tail(q)), Tail(q)[k].data = x PROVE Carries(q, x)
    <3>1. k + 1 \in 1 .. Len(q) /\ Tail(q)[k] = q[k + 1]
      BY <1>5, <2>1, <2>4
    <3>2. QED
      BY <2>4, <3>1 DEF Carries
  <2>5. Carries(Tail(q), x) => Carries(q, x)
    BY <2>4 DEF Carries
  <2>6. QED
    BY <2>1, <2>2, <2>3, <2>5
<1>6. QED
  BY <1>2, <1>3, <1>4, <1>5

(* A board sends what it had under way, and the state it has now. *)
FlightKept(b) ==
  \A x \in Flying(b)' : \/ x \in Flying(b)
                        \/ ~old[b] /\ x = Encode(sel'[b])
                        \/ old[b] /\ ~x.marker

(* Then the tokens it has under way are the old ones and its own. *)
LEMMA FlightStep ==
  ASSUME TokenIInv, IInv', NEW b \in Board, old'[b] = old[b], FlightKept(b)
  PROVE  /\ Sent(b)' \subseteq Sent(b) \cup {sel'[b]}
         /\ \A x \in Flying(b)' : x.marker <=> ~old'[b]
<1>1. sel'[b] \in SelState /\ (\A x \in Flying(b) : x.marker <=> ~old[b])
  BY StateFacts DEF IInv, TypeOK, Link
<1>2. Decode(Encode(sel'[b])) = sel'[b] /\ Encode(sel'[b]).marker
  BY <1>1, CodecOK
<1>3. \A x \in Flying(b)' : x.marker <=> ~old'[b]
  BY <1>1, <1>2 DEF FlightKept
<1>4. ASSUME NEW s \in Sent(b)' PROVE s \in Sent(b) \/ s = sel'[b]
  <2>1. PICK x \in Flying(b)' : x.marker /\ s = Decode(x) /\ s \in SelState
    BY <1>4 DEF Sent
  <2>2. x \in Flying(b) \/ x = Encode(sel'[b])
    BY <1>1, <1>2, <2>1 DEF FlightKept
  <2>3. QED
    BY <1>2, <2>1, <2>2 DEF Sent
<1>5. QED
  BY <1>3, <1>4

(* The board that a step does not concern. *)
Untouched(c) ==
  /\ txq'[c] = txq[c] /\ wire'[c] = wire[c] /\ core0'[c] = core0[c]
  /\ announce'[c] = announce[c] /\ core1'[c] = core1[c] /\ request'[c] = request[c]

(* ... keeps all that is said of it. *)
LEMMA BoardKept ==
  ASSUME NEW c \in Board, Untouched(c), old'[c] = old[c], sel'[c] = sel[c], Link(c)
  PROVE  /\ Flying(c)' = Flying(c) /\ FlightKept(c) /\ Backlog(c)' = Backlog(c)
         /\ Unjoined(c)' = Unjoined(c) /\ Link(c)'
<1>1. Flying(c)' = Flying(c)
  BY DEF Untouched, Flying
<1>2. Backlog(c)' = Backlog(c) /\ Unjoined(c)' = Unjoined(c)
  BY DEF Untouched, Backlog, Unjoined
<1>3. Link(c)'
  BY <1>1 DEF Untouched, Link
<1>4. QED
  BY <1>1, <1>2, <1>3 DEF FlightKept

(* The accounts of a step. *)
LEMMA LeftStep ==
  ASSUME TypeOK, TypeOK', NEW a \in Board, NEW k \in Int,
         Unjoined(a)' + Unjoined(Peer(a))' + Backlog(a)' + Backlog(Peer(a))' + k
           <= Unjoined(a) + Unjoined(Peer(a)) + Backlog(a) + Backlog(Peer(a))
                + (requests' - requests) + (reboots' - reboots)
  PROVE  Left' + k <= Left
<1>1. /\ MaxRequests \in Int /\ MaxReboots \in Int /\ requests \in Int /\ reboots \in Int
      /\ requests' \in Int /\ reboots' \in Int
  BY BoundAssumption DEF TypeOK
<1>2. \A b \in Board : Unjoined(b) \in Int /\ Backlog(b) \in Int
  BY LeftFacts
<1>3. \A b \in Board : Unjoined(b)' \in Int /\ Backlog(b)' \in Int
  BY LeftParts
<1>4. QED
  BY <1>1, <1>2, <1>3 DEF Left, Board, Peer

-----------------------------------------------------------------------------
(* The steps, one lemma per action. *)

(* What a proof about board a's step starts from. *)
LEMMA StepFacts ==
  ASSUME TokenIInv, IInv', NEW a \in Board
  PROVE  /\ TypeOK /\ TypeOK' /\ IInv /\ Peer(a) \in Board /\ Peer(a) # a /\ Peer(Peer(a)) = a
         /\ \A c \in Board : c = a \/ c = Peer(a)
         /\ \A c \in Board :
              /\ Link(c) /\ txq[c] \in Seq(Frame) /\ wire[c] \in Seq(Frame)
              /\ Unjoined(c) \in Int /\ Backlog(c) \in Int /\ Unjoined(c) \in {0, 1}
              /\ Unjoined(c)' \in Int /\ Backlog(c)' \in Int /\ Unjoined(c)' \in {0, 1}
         /\ requests \in Int /\ reboots \in Int /\ requests' \in Int /\ reboots' \in Int
<1>1. TypeOK /\ TypeOK' /\ IInv /\ \A c \in Board : Link(c)
  BY DEF TokenIInv, IInv
<1>2. \A c \in Board : txq[c] \in Seq(Frame) /\ wire[c] \in Seq(Frame)
  BY <1>1 DEF TypeOK
<1>3. requests \in Int /\ reboots \in Int /\ requests' \in Int /\ reboots' \in Int
  BY <1>1, BoundAssumption DEF TypeOK
<1>4. QED
  BY <1>1, <1>2, <1>3, OtherBoard, LeftFacts, LeftParts

(* A step of board a that leaves every token. *)
LEMMA QuietStep ==
  ASSUME TokenIInv, IInv', NEW a \in Board, sel' = sel, old' = old,
         FlightKept(a), FlightKept(Peer(a)),
         old[a] => core1'[a] = "idle" /\ core0'[a] # "announcing",
         old[Peer(a)] => core1'[Peer(a)] = "idle" /\ core0'[Peer(a)] # "announcing",
         \A c \in Board : core1'[c] = "waiting" => core1[c] = "waiting" /\ request'[c] = request[c],
         Backlog(a)' + Backlog(Peer(a))' <= Backlog(a) + Backlog(Peer(a)) + (requests' - requests),
         reboots' = reboots
  PROVE  TokenIInv' /\ Keeps
<1>1. \A c \in Board : c = a \/ c = Peer(a)
  BY OtherBoard
<1>2. SentKept
  BY <1>1, FlightStep DEF SentKept
<1>3. Unjoined(a)' = Unjoined(a) /\ Unjoined(Peer(a))' = Unjoined(Peer(a))
  BY DEF Unjoined
<1>4. Unjoined(a)' + Unjoined(Peer(a))' + Backlog(a)' + Backlog(Peer(a))' + 0
           <= Unjoined(a) + Unjoined(Peer(a)) + Backlog(a) + Backlog(Peer(a))
                + (requests' - requests) + (reboots' - reboots)
  <2>1. /\ Unjoined(a) \in Int /\ Unjoined(Peer(a)) \in Int /\ Backlog(a) \in Int
        /\ Backlog(Peer(a)) \in Int /\ Backlog(a)' \in Int /\ Backlog(Peer(a))' \in Int
        /\ requests' \in Int /\ requests \in Int /\ reboots \in Int
    BY StepFacts
  <2>2. requests' - requests \in Int /\ reboots' - reboots = 0
    BY <2>1
  <2>3. QED
    BY <1>3, <2>1, <2>2
<1>5. Left' + 0 <= Left
  BY <1>4, StepFacts, LeftStep
<1>6. Left' <= Left
  <2>1. Left' \in Int /\ Left \in Int
    BY StepFacts, LeftStays, LeftFacts
  <2>2. QED
    BY <1>5, <2>1, Room
<1>7. Keeps /\ Tokens'
  BY <1>2, <1>6, KeepsTokens DEF Keeps
<1>8. ASSUME NEW c \in Board PROVE Link(c)'
  <2>1. \A x \in Flying(c)' : x.marker <=> ~old'[c]
    BY <1>1, FlightStep
  <2>2. Link(c)
    BY StepFacts
  <2>3. QED
    BY <1>1, <2>1, <2>2 DEF Link
<1>9. QED
  BY <1>7, <1>8 DEF TokenIInv

(* set_active_output gets its slot. *)
LEMMA SetActiveOutputQueuedTokens ==
  ASSUME TokenIInv, IInv', NEW a \in Board, SetActiveOutputQueued(a) PROVE TokenIInv' /\ Keeps
<1> DEFINE p == Peer(a)
          f == [type |-> "SELECT", data |-> request[a]]
<1>1. p \in Board /\ p # a /\ Link(a) /\ Link(p) /\ TypeOK /\ txq[a] \in Seq(Frame)
  BY StepFacts
<1>2. /\ core1[a] = "waiting" /\ txq' = [txq EXCEPT ![a] = Append(@, f)]
      /\ core1' = [core1 EXCEPT ![a] = "idle"] /\ request' = [request EXCEPT ![a] = NoPayload]
      /\ UNCHANGED <<sel, wire, core0, announce, old, requests, reboots>>
  BY DEF SetActiveOutputQueued
<1>3. /\ txq'[a] = Append(txq[a], f) /\ core1'[a] = "idle" /\ Untouched(p) /\ f \in Frame
      /\ wire'[a] = wire[a] /\ core0'[a] = core0[a] /\ announce'[a] = announce[a] /\ ~old[a]
  BY <1>1, <1>2 DEF TypeOK, Untouched, Link, Frame
<1>4. FlightKept(p) /\ Backlog(p)' = Backlog(p)
  BY <1>1, <1>2, <1>3, BoardKept
<1>5. FlightKept(a)
  <2>1. ASSUME NEW x \in Flying(a)' PROVE x \in Flying(a)
    <3>1. x \in Payload /\ ((core0[a] = "announcing" /\ x = announce[a])
                           \/ Carries(txq'[a], x) \/ Carries(wire[a], x))
      BY <1>2, <1>3 DEF Flying
    <3>2. Carries(txq'[a], x) => Carries(txq[a], x) \/ x = f.data
      <4>1. ASSUME Carries(Append(txq[a], f), x) PROVE Carries(txq[a], x) \/ x = f.data
        <5> HIDE DEF f
        <5>1. QED
          BY <1>1, <1>3, <4>1, CarriesFacts
      <4>2. QED
        BY <1>3, <4>1
    <3>3. f.data = request[a]
      OBVIOUS
    <3> HIDE DEF f
    <3>4. QED
      BY <1>2, <3>1, <3>2, <3>3 DEF Flying
  <2>2. QED
    BY <2>1 DEF FlightKept
<1>6. Backlog(a)' = Backlog(a)
  BY <1>2, <1>3 DEF Backlog
<1>7. Backlog(a)' + Backlog(p)' <= Backlog(a) + Backlog(p) + (requests' - requests)
  BY <1>1, <1>2, <1>4, <1>6, StepFacts
<1>8. /\ old[p] => core1'[p] = "idle" /\ core0'[p] # "announcing"
      /\ \A c \in Board : core1'[c] = "waiting" => core1[c] = "waiting" /\ request'[c] = request[c]
  BY <1>1, <1>2 DEF Link, TypeOK
<1>9. QED
  BY <1>2, <1>3, <1>4, <1>5, <1>7, <1>8, QuietStep

(* announce_initial_output encodes ... *)
LEMMA AnnounceTokens ==
  ASSUME TokenIInv, IInv', NEW a \in Board, AnnounceInitialOutput(a) PROVE TokenIInv' /\ Keeps
<1> DEFINE p == Peer(a)
<1>1. p \in Board /\ p # a /\ Link(a) /\ Link(p) /\ TypeOK
  BY StepFacts
<1>2. /\ ~old[a] /\ announce' = [announce EXCEPT ![a] = Encode(sel[a])]
      /\ core0' = [core0 EXCEPT ![a] = "announcing"]
      /\ UNCHANGED <<sel, txq, wire, core1, request, old, requests, reboots>>
  BY DEF AnnounceInitialOutput
<1>3. announce'[a] = Encode(sel'[a]) /\ Untouched(p)
  BY <1>1, <1>2 DEF TypeOK, Untouched
<1>4. FlightKept(p) /\ Backlog(p)' = Backlog(p)
  BY <1>1, <1>2, <1>3, BoardKept
<1>5. FlightKept(a)
  BY <1>2, <1>3 DEF Flying, FlightKept
<1>6. Backlog(a)' = Backlog(a)
  BY <1>2 DEF Backlog
<1>7. Backlog(a)' + Backlog(p)' <= Backlog(a) + Backlog(p) + (requests' - requests)
  BY <1>1, <1>2, <1>4, <1>6, StepFacts
<1>8. old[p] => core1'[p] = "idle" /\ core0'[p] # "announcing"
  BY <1>1, <1>2 DEF Link, TypeOK
<1>9. QED
  BY <1>2, <1>4, <1>5, <1>7, <1>8, QuietStep

(* ... and queues what it encoded. *)
LEMMA AnnounceQueuedTokens ==
  ASSUME TokenIInv, IInv', NEW a \in Board, AnnounceInitialOutputQueued(a) PROVE TokenIInv' /\ Keeps
<1> DEFINE p == Peer(a)
          f == [type |-> "SELECT", data |-> announce[a]]
<1>1. p \in Board /\ p # a /\ Link(a) /\ Link(p) /\ TypeOK /\ txq[a] \in Seq(Frame)
  BY StepFacts
<1>2. /\ core0[a] = "announcing" /\ txq' = [txq EXCEPT ![a] = Append(@, f)]
      /\ core0' = [core0 EXCEPT ![a] = "run"] /\ announce' = [announce EXCEPT ![a] = NoPayload]
      /\ UNCHANGED <<sel, wire, core1, request, old, requests, reboots>>
  BY DEF AnnounceInitialOutputQueued
<1>3. /\ txq'[a] = Append(txq[a], f) /\ core0'[a] = "run" /\ Untouched(p) /\ f \in Frame
      /\ wire'[a] = wire[a] /\ ~old[a]
  BY <1>1, <1>2 DEF TypeOK, Untouched, Link, Frame
<1>4. FlightKept(p) /\ Backlog(p)' = Backlog(p)
  BY <1>1, <1>2, <1>3, BoardKept
<1>5. FlightKept(a)
  <2>1. ASSUME NEW x \in Flying(a)' PROVE x \in Flying(a)
    <3>1. x \in Payload /\ ((core1[a] = "waiting" /\ x = request[a])
                           \/ Carries(txq'[a], x) \/ Carries(wire[a], x))
      BY <1>2, <1>3 DEF Flying
    <3>2. Carries(txq'[a], x) => Carries(txq[a], x) \/ x = f.data
      <4>1. ASSUME Carries(Append(txq[a], f), x) PROVE Carries(txq[a], x) \/ x = f.data
        <5> HIDE DEF f
        <5>1. QED
          BY <1>1, <1>3, <4>1, CarriesFacts
      <4>2. QED
        BY <1>3, <4>1
    <3>3. f.data = announce[a]
      OBVIOUS
    <3> HIDE DEF f
    <3>4. QED
      BY <1>2, <3>1, <3>2, <3>3 DEF Flying
  <2>2. QED
    BY <2>1 DEF FlightKept
<1>6. Backlog(a)' = Backlog(a)
  BY <1>2, <1>3 DEF Backlog
<1>7. Backlog(a)' + Backlog(p)' <= Backlog(a) + Backlog(p) + (requests' - requests)
  BY <1>1, <1>2, <1>4, <1>6, StepFacts
<1>8. old[p] => core1'[p] = "idle" /\ core0'[p] # "announcing"
  BY <1>1, <1>2 DEF Link, TypeOK
<1>9. QED
  BY <1>2, <1>3, <1>4, <1>5, <1>7, <1>8, QuietStep

(* What queue_packet_try leaves in the queue. *)
LEMMA TryQueueFacts ==
  ASSUME TokenIInv, IInv', NEW a \in Board, NEW f \in Frame
  PROVE  /\ \A x : Carries(TryQueue(a, f), x) => Carries(txq[a], x) \/ x = f.data
         /\ Len(TryQueue(a, f)) <= Len(txq[a]) + 1
<1>1. txq[a] \in Seq(Frame) /\ Len(txq[a]) \in Nat
  <2>1. txq[a] \in Seq(Frame)
    BY StepFacts
  <2>2. QED
    BY <2>1
<1>2. TryQueue(a, f) = Append(txq[a], f) \/ TryQueue(a, f) = txq[a]
  BY DEF TryQueue
<1>3. Len(Append(txq[a], f)) = Len(txq[a]) + 1
  BY <1>1
<1>4. \A x : Carries(Append(txq[a], f), x) => Carries(txq[a], x) \/ x = f.data
  BY <1>1, CarriesFacts
<1>5. CASE TryQueue(a, f) = txq[a]
  BY <1>1, <1>5
<1>6. CASE TryQueue(a, f) = Append(txq[a], f)
  BY <1>1, <1>3, <1>4, <1>6
<1>7. QED
  BY <1>2, <1>5, <1>6

(* The heartbeat repeats the state. *)
LEMMA HeartbeatTokens ==
  ASSUME TokenIInv, IInv', NEW a \in Board, Heartbeat(a) PROVE TokenIInv' /\ Keeps
<1> DEFINE p == Peer(a)
          f == SyncFrame(sel[a])
<1>1. p \in Board /\ p # a /\ Link(a) /\ Link(p) /\ TypeOK /\ IInv /\ txq[a] \in Seq(Frame)
  BY StepFacts
<1>2. /\ ~old[a] /\ txq' = [txq EXCEPT ![a] = TryQueue(a, f)]
      /\ UNCHANGED <<sel, wire, core0, announce, core1, request, old, requests, reboots>>
  BY DEF Heartbeat
<1>3. f \in Frame /\ f.data = Encode(sel[a])
  <2>1. f \in GoodFrame
    BY <1>1, SyncFrameOK DEF IInv, TypeOK, PhasesConsistent
  <2>2. QED
    BY <2>1 DEF GoodFrame, SyncFrame
<1> HIDE DEF f
<1>4. txq'[a] = TryQueue(a, f) /\ Untouched(p)
  BY <1>1, <1>2 DEF TypeOK, Untouched
<1>5. FlightKept(p) /\ Backlog(p)' = Backlog(p)
  BY <1>1, <1>2, <1>4, BoardKept
<1>6. FlightKept(a)
  <2>1. ASSUME NEW x \in Flying(a)' PROVE x \in Flying(a) \/ x = Encode(sel'[a])
    BY <1>2, <1>3, <1>4, TryQueueFacts DEF Flying
  <2>2. QED
    BY <1>2, <2>1 DEF FlightKept
<1>7. Backlog(a)' = Backlog(a)
  BY <1>2 DEF Backlog
<1>8. Backlog(a)' + Backlog(p)' <= Backlog(a) + Backlog(p) + (requests' - requests)
  BY <1>1, <1>2, <1>5, <1>7, StepFacts
<1>9. old[p] => core1'[p] = "idle" /\ core0'[p] # "announcing"
  BY <1>1, <1>2 DEF Link
<1>10. QED
  BY <1>2, <1>5, <1>6, <1>8, <1>9, QuietStep

(* A frame less on the way from board b. *)
LEMMA WireShrinks ==
  ASSUME TokenIInv, IInv', NEW b \in Board, wire[b] # <<>>, wire'[b] = Tail(wire[b]),
         txq'[b] = txq[b], core0'[b] = core0[b], announce'[b] = announce[b],
         core1'[b] = core1[b], request'[b] = request[b], old'[b] = old[b]
  PROVE  /\ FlightKept(b) /\ Backlog(b)' <= Backlog(b)
         /\ old[b] => Backlog(b)' + 1 <= Backlog(b)
<1>1. wire[b] \in Seq(Frame) /\ txq[b] \in Seq(Frame)
  BY StepFacts
<1>2. wire[b] \in Seq(Frame) => Head(wire[b]) \in Frame
  BY StepFacts
<1>3. /\ \A x : Carries(Tail(wire[b]), x) => Carries(wire[b], x)
      /\ Len(Tail(wire[b])) + 1 = Len(wire[b])
  BY <1>1, <1>2, CarriesFacts
<1>4. FlightKept(b)
  <2>1. ASSUME NEW x \in Flying(b)' PROVE x \in Flying(b)
    BY <1>3 DEF Flying
  <2>2. QED
    BY <2>1 DEF FlightKept
<1>5. /\ old[b] => Backlog(b)' + 1 <= Backlog(b)
      /\ ~old[b] => Backlog(b)' = 0 /\ Backlog(b) = 0
  <2> DEFINE l == Len(wire[b])
            m == Len(Tail(wire[b]))
            n == Len(txq[b])
  <2>1. l \in Nat /\ m \in Nat /\ n \in Nat /\ m + 1 = l
    BY <1>1, <1>3
  <2>2. /\ old[b] => /\ Backlog(b) = n + l + (IF core0[b] = "boot" THEN 1 ELSE 0)
                     /\ Backlog(b)' = n + m + (IF core0[b] = "boot" THEN 1 ELSE 0)
        /\ ~old[b] => Backlog(b)' = 0 /\ Backlog(b) = 0
    BY DEF Backlog
  <2> HIDE DEF l, m, n
  <2>3. CASE core0[b] = "boot"
    BY <2>1, <2>2, <2>3
  <2>4. CASE core0[b] # "boot"
    BY <2>1, <2>2, <2>4
  <2>5. QED
    BY <2>3, <2>4
<1>6. Backlog(b)' \in Int /\ Backlog(b) \in Int
  BY StepFacts
<1>7. QED
  BY <1>4, <1>5, <1>6

(* A frame is lost. *)
LEMMA LoseTokens ==
  ASSUME TokenIInv, IInv', NEW a \in Board, Lose(a) PROVE TokenIInv' /\ Keeps
<1> DEFINE p == Peer(a)
<1>1. p \in Board /\ p # a /\ Link(a) /\ Link(p) /\ TypeOK
  BY StepFacts
<1>2. /\ wire[a] # <<>> /\ wire' = [wire EXCEPT ![a] = Tail(@)]
      /\ UNCHANGED <<sel, txq, core0, announce, core1, request, old, requests, reboots>>
  BY DEF Lose
<1>3. wire'[a] = Tail(wire[a]) /\ Untouched(p)
  BY <1>1, <1>2 DEF TypeOK, Untouched
<1>4. FlightKept(p) /\ Backlog(p)' = Backlog(p)
  BY <1>1, <1>2, <1>3, BoardKept
<1>5. FlightKept(a) /\ Backlog(a)' <= Backlog(a)
  BY <1>2, <1>3, WireShrinks
<1>6. Backlog(a)' + Backlog(p)' <= Backlog(a) + Backlog(p) + (requests' - requests)
  BY <1>1, <1>2, <1>4, <1>5, StepFacts
<1>7. /\ old[a] => core1'[a] = "idle" /\ core0'[a] # "announcing"
      /\ old[p] => core1'[p] = "idle" /\ core0'[p] # "announcing"
  BY <1>1, <1>2 DEF Link
<1>8. QED
  BY <1>2, <1>4, <1>5, <1>6, <1>7, QuietStep

(* A frame is taken and leaves the tokens as they are. *)
LEMMA ConsumeTokens ==
  ASSUME TokenIInv, IInv', NEW a \in Board, wire[Peer(a)] # <<>>, Consume(a),
         UNCHANGED <<sel, txq, core0, announce, core1, request, old, requests, reboots>>
  PROVE  TokenIInv' /\ Keeps
<1> DEFINE p == Peer(a)
<1>1. p \in Board /\ p # a /\ Link(a) /\ Link(p) /\ TypeOK
  BY StepFacts
<1>2. wire' = [wire EXCEPT ![p] = Tail(@)]
  BY DEF Consume
<1>3. wire'[p] = Tail(wire[p]) /\ Untouched(a)
  BY <1>1, <1>2 DEF TypeOK, Untouched
<1>4. FlightKept(a) /\ Backlog(a)' = Backlog(a)
  BY <1>1, <1>3, BoardKept
<1>5. FlightKept(p) /\ Backlog(p)' <= Backlog(p)
  BY <1>1, <1>3, WireShrinks
<1>6. Backlog(a)' + Backlog(p)' <= Backlog(a) + Backlog(p) + (requests' - requests)
  BY <1>1, <1>4, <1>5, StepFacts
<1>7. /\ old[a] => core1'[a] = "idle" /\ core0'[a] # "announcing"
      /\ old[p] => core1'[p] = "idle" /\ core0'[p] # "announcing"
  BY <1>1 DEF Link
<1>8. QED
  BY <1>4, <1>5, <1>6, <1>7, QuietStep

(* process_uart_tx_task. *)
LEMMA TransmitTokens ==
  ASSUME TokenIInv, IInv', NEW a \in Board, Transmit(a) PROVE TokenIInv' /\ Keeps
<1> DEFINE p == Peer(a)
          h == Head(txq[a])
          q == Tail(txq[a])
<1>1. /\ p \in Board /\ p # a /\ Link(a) /\ Link(p) /\ TypeOK
      /\ txq[a] \in Seq(Frame) /\ wire[a] \in Seq(Frame)
  BY StepFacts
<1>2. /\ txq[a] # <<>> /\ txq' = [txq EXCEPT ![a] = q]
      /\ wire' = [wire EXCEPT ![a] = IF Len(@) < WireCap THEN Append(@, h) ELSE <<h>>]
      /\ UNCHANGED <<sel, core0, announce, core1, request, old, requests, reboots>>
  BY DEF Transmit
<1>3. /\ txq'[a] = q /\ Untouched(p)
      /\ wire'[a] = Append(wire[a], h) \/ wire'[a] = <<h>>
  BY <1>1, <1>2 DEF TypeOK, Untouched
<1>4. FlightKept(p) /\ Backlog(p)' = Backlog(p)
  BY <1>1, <1>2, <1>3, BoardKept
<1>5. h \in Frame /\ q \in Seq(Frame) /\ Len(q) + 1 = Len(txq[a])
  BY <1>1, <1>2
<1>6. /\ Carries(txq[a], h.data)
      /\ \A x : Carries(q, x) => Carries(txq[a], x)
      /\ \A x : Carries(Append(wire[a], h), x) => Carries(wire[a], x) \/ x = h.data
      /\ \A x : Carries(<<h>>, x) => x = h.data
  <2>1. Carries(txq[a], h.data)
    BY <1>1, <1>2, <1>5, CarriesFacts
  <2>2. \A x : Carries(q, x) => Carries(txq[a], x)
    BY <1>1, <1>2, <1>5, CarriesFacts
  <2> HIDE DEF h, q
  <2>3. \A x : Carries(Append(wire[a], h), x) => Carries(wire[a], x) \/ x = h.data
    BY <1>1, <1>5, CarriesFacts
  <2>4. \A x : Carries(<<h>>, x) => x = h.data
    BY <1>1, <1>5, CarriesFacts
  <2>5. QED
    BY <2>1, <2>2, <2>3, <2>4
<1> HIDE DEF h, q
<1>7. Len(wire'[a]) <= Len(wire[a]) + 1 /\ Len(wire'[a]) \in Nat /\ Len(wire[a]) \in Nat
  <2>1. Len(wire[a]) \in Nat /\ Len(Append(wire[a], h)) = Len(wire[a]) + 1 /\ Len(<<h>>) = 1
    BY <1>1, <1>5
  <2>2. CASE wire'[a] = Append(wire[a], h)
    <3>1. Len(wire'[a]) = Len(wire[a]) + 1
      BY <2>1, <2>2
    <3>2. QED
      BY <2>1, <3>1
  <2>3. CASE wire'[a] = <<h>>
    <3>1. Len(wire'[a]) = 1
      BY <2>1, <2>3
    <3>2. QED
      BY <2>1, <3>1
  <2>4. QED
    BY <1>3, <2>2, <2>3
<1>8. FlightKept(a)
  <2>1. ASSUME NEW x \in Flying(a)' PROVE x \in Flying(a)
    <3>1. /\ Carries(txq'[a], x) => Carries(txq[a], x)
          /\ Carries(wire'[a], x) => Carries(wire[a], x) \/ Carries(txq[a], x)
      BY <1>3, <1>6
    <3>2. QED
      BY <1>2, <3>1 DEF Flying
  <2>2. QED
    BY <2>1 DEF FlightKept
<1>9. Backlog(a)' <= Backlog(a)
  <2> DEFINE k == Len(txq[a])
            l == Len(q)
            m == Len(wire[a])
            n == Len(wire'[a])
  <2>1. k \in Nat /\ l \in Nat /\ m \in Nat /\ n \in Nat /\ l + 1 = k /\ n <= m + 1
    BY <1>1, <1>5, <1>7
  <2>2. /\ old[a] => /\ Backlog(a) = k + m + (IF core0[a] = "boot" THEN 1 ELSE 0)
                     /\ Backlog(a)' = l + n + (IF core0[a] = "boot" THEN 1 ELSE 0)
        /\ ~old[a] => Backlog(a)' = 0 /\ Backlog(a) = 0
    BY <1>2, <1>3 DEF Backlog
  <2> HIDE DEF k, l, m, n
  <2>3. CASE core0[a] = "boot"
    BY <2>1, <2>2, <2>3
  <2>4. CASE core0[a] # "boot"
    BY <2>1, <2>2, <2>4
  <2>5. QED
    BY <2>3, <2>4
<1>10. Backlog(a)' + Backlog(p)' <= Backlog(a) + Backlog(p) + (requests' - requests)
  BY <1>1, <1>2, <1>4, <1>9, StepFacts
<1>11. /\ old[a] => core1'[a] = "idle" /\ core0'[a] # "announcing"
       /\ old[p] => core1'[p] = "idle" /\ core0'[p] # "announcing"
  BY <1>1, <1>2 DEF Link
<1>12. QED
  BY <1>2, <1>4, <1>8, <1>10, <1>11, QuietStep

(* Older firmware queues a frame without a token. *)
LEMMA OldQueues ==
  ASSUME TokenIInv, IInv', NEW a \in Board, NEW v \in Output, old[a], old'[a] = old[a],
         txq'[a] = TryQueue(a, [type |-> "SELECT", data |-> LegacyPayload(v)]),
         wire'[a] = wire[a], core1'[a] = core1[a], core0'[a] = "run"
  PROVE  /\ FlightKept(a)
         /\ Backlog(a)' <= Backlog(a) + (IF core0[a] = "boot" THEN 0 ELSE 1)
<1> DEFINE f == [type |-> "SELECT", data |-> LegacyPayload(v)]
<1>1. f \in Frame /\ f.data = LegacyPayload(v) /\ ~LegacyPayload(v).marker
  BY LegacyFrameOK DEF GoodFrame, LegacyPayload
<1>2. txq'[a] = TryQueue(a, f)
  OBVIOUS
<1>3. core1[a] = "idle" /\ txq[a] \in Seq(Frame) /\ wire[a] \in Seq(Frame)
  BY StepFacts DEF Link
<1> HIDE DEF f
<1>4. FlightKept(a)
  <2>1. ASSUME NEW x \in Flying(a)' PROVE x \in Flying(a) \/ x = LegacyPayload(v)
    BY <1>1, <1>2, <1>3, TryQueueFacts DEF Flying
  <2>2. QED
    BY <1>1, <2>1 DEF FlightKept
<1>5. Backlog(a)' <= Backlog(a) + (IF core0[a] = "boot" THEN 0 ELSE 1)
  <2> DEFINE k == Len(txq[a])
            l == Len(txq'[a])
            m == Len(wire[a])
  <2>1. k \in Nat /\ l \in Nat /\ m \in Nat /\ l <= k + 1
    <3>1. txq'[a] \in Seq(Frame)
      BY StepFacts DEF TypeOK
    <3>2. QED
      BY <1>1, <1>2, <1>3, <3>1, TryQueueFacts
  <2>2. /\ Backlog(a) = k + m + (IF core0[a] = "boot" THEN 1 ELSE 0)
        /\ Backlog(a)' = l + m + 0
    BY DEF Backlog
  <2> HIDE DEF k, l, m
  <2>3. CASE core0[a] = "boot"
    BY <2>1, <2>2, <2>3
  <2>4. CASE core0[a] # "boot"
    BY <2>1, <2>2, <2>4
  <2>5. QED
    BY <2>3, <2>4
<1>6. QED
  BY <1>4, <1>5

(* Older firmware starts ... *)
LEMMA OldBootTokens ==
  ASSUME TokenIInv, IInv', NEW a \in Board, OldBoot(a) PROVE TokenIInv' /\ Keeps
<1> DEFINE p == Peer(a)
<1>1. p \in Board /\ p # a /\ Link(a) /\ Link(p) /\ TypeOK
  BY StepFacts
<1>2. /\ old[a] /\ core0[a] = "boot" /\ core0' = [core0 EXCEPT ![a] = "run"]
      /\ txq' = [txq EXCEPT ![a] = TryQueue(a, [type |-> "SELECT", data |-> LegacyPayload(0)])]
      /\ UNCHANGED <<sel, wire, announce, core1, request, old, requests, reboots>>
  BY DEF OldBoot
<1>3. /\ txq'[a] = TryQueue(a, [type |-> "SELECT", data |-> LegacyPayload(0)])
      /\ core0'[a] = "run" /\ Untouched(p) /\ 0 \in Output
  BY <1>1, <1>2 DEF TypeOK, Untouched, Output
<1>4. FlightKept(p) /\ Backlog(p)' = Backlog(p)
  BY <1>1, <1>2, <1>3, BoardKept
<1>5. FlightKept(a) /\ Backlog(a)' <= Backlog(a) + 0
  BY <1>2, <1>3, OldQueues
<1>6. Backlog(a)' + Backlog(p)' <= Backlog(a) + Backlog(p) + (requests' - requests)
  BY <1>1, <1>2, <1>4, <1>5, StepFacts
<1>7. /\ core1'[a] = "idle" /\ core0'[a] # "announcing"
      /\ old[p] => core1'[p] = "idle" /\ core0'[p] # "announcing"
  BY <1>1, <1>2, <1>3 DEF Link, Untouched
<1>8. QED
  BY <1>2, <1>4, <1>5, <1>6, <1>7, QuietStep

(* ... and switches. *)
LEMMA OldSwitchTokens ==
  ASSUME TokenIInv, IInv', NEW a \in Board, OldSwitch(a) PROVE TokenIInv' /\ Keeps
<1> DEFINE p == Peer(a)
          v == active'[a]
<1>1. p \in Board /\ p # a /\ Link(a) /\ Link(p) /\ TypeOK /\ TypeOK'
  BY StepFacts
<1>2. /\ old[a] /\ core0[a] = "run" /\ requests' = requests + 1
      /\ txq' = [txq EXCEPT ![a] = TryQueue(a, [type |-> "SELECT", data |-> LegacyPayload(v)])]
      /\ UNCHANGED <<sel, wire, core0, announce, core1, request, old, reboots>>
  BY DEF OldSwitch
<1>3. /\ txq'[a] = TryQueue(a, [type |-> "SELECT", data |-> LegacyPayload(v)])
      /\ core0'[a] = "run" /\ Untouched(p) /\ v \in Output
  BY <1>1, <1>2 DEF TypeOK, Untouched
<1>4. FlightKept(p) /\ Backlog(p)' = Backlog(p)
  BY <1>1, <1>2, <1>3, BoardKept
<1>5. FlightKept(a) /\ Backlog(a)' <= Backlog(a) + 1
  BY <1>2, <1>3, OldQueues
<1>6. Backlog(a)' + Backlog(p)' <= Backlog(a) + Backlog(p) + (requests' - requests)
  BY <1>1, <1>2, <1>4, <1>5, StepFacts
<1>7. /\ core1'[a] = "idle" /\ core0'[a] # "announcing"
      /\ old[p] => core1'[p] = "idle" /\ core0'[p] # "announcing"
  BY <1>1, <1>2, <1>3 DEF Link, Untouched
<1>8. QED
  BY <1>2, <1>4, <1>5, <1>6, <1>7, QuietStep

(* A step of a that changes a's token: the links. *)
LEMMA LinksFrom ==
  ASSUME TokenIInv, IInv', NEW a \in Board, ~old[a], old' = old, sel'[Peer(a)] = sel[Peer(a)],
         FlightKept(a), FlightKept(Peer(a)), core0' = core0,
         core1'[Peer(a)] = core1[Peer(a)], request'[Peer(a)] = request[Peer(a)],
         core1'[a] = "waiting" => Decode(request'[a]) = sel'[a]
  PROVE  SentKept /\ \A c \in Board : Link(c)'
<1>1. \A c \in Board : c = a \/ c = Peer(a)
  BY OtherBoard
<1>2. \A c \in Board : /\ Sent(c)' \subseteq Sent(c) \cup {sel'[c]} /\ Link(c)
                       /\ \A x \in Flying(c)' : x.marker <=> ~old'[c]
  BY <1>1, FlightStep, StepFacts
<1>3. Link(a)'
  BY <1>2 DEF Link
<1>4. Link(Peer(a))'
  BY <1>2, OtherBoard DEF Link
<1>5. QED
  BY <1>1, <1>2, <1>3, <1>4 DEF SentKept

(* set_active_output: a token of this board. *)
LEMMA SetActiveOutputTokens ==
  ASSUME TokenIInv, IInv', NEW a \in Board, SetActiveOutput(a) PROVE TokenIInv' /\ Asks(a)
<1> DEFINE p == Peer(a)
          r == SelRequest(sel[a], 1 - sel[a].output, a)
<1>1. p \in Board /\ p # a /\ Link(a) /\ Link(p) /\ TypeOK /\ TypeOK' /\ IInv
  BY StepFacts
<1>2. /\ ~old[a] /\ core1[a] = "idle" /\ requests' = requests + 1
      /\ sel' = [sel EXCEPT ![a] = SelRequest(sel[a], 1 - active[a], a)]
      /\ request' = [request EXCEPT ![a] = Encode(sel'[a])]
      /\ core1' = [core1 EXCEPT ![a] = "waiting"]
      /\ UNCHANGED <<txq, wire, core0, announce, old, reboots>>
  BY DEF SetActiveOutput
<1>3. active[a] = sel[a].output /\ sel \in [Board -> SelState]
  BY <1>1, <1>2 DEF IInv, RoutingFollowsToken, TypeOK
<1>4. sel' = [sel EXCEPT ![a] = r] /\ sel'[a] = r /\ sel'[p] = sel[p] /\ r \in SelState
  <2>1. sel' = [sel EXCEPT ![a] = r]
    BY <1>2, <1>3
  <2>2. sel'[a] \in SelState
    BY <1>1 DEF TypeOK
  <2>3. QED
    BY <1>1, <1>3, <2>1, <2>2
<1>5. Unjoined(a)' = Unjoined(a)
  <2>1. r.joined = sel[a].joined /\ r.joining = sel[a].joining
    BY <1>3 DEF SelRequest, SelState
  <2> HIDE DEF r
  <2>2. QED
    BY <1>4, <2>1 DEF Unjoined, Fresh
<1> HIDE DEF r
<1>6. request'[a] = Encode(sel'[a]) /\ core1'[a] = "waiting" /\ Untouched(p)
  BY <1>1, <1>2 DEF TypeOK, Untouched
<1>7. FlightKept(p) /\ Backlog(p)' = Backlog(p) /\ Unjoined(p)' = Unjoined(p)
  BY <1>1, <1>2, <1>4, <1>6, BoardKept
<1>8. FlightKept(a)
  BY <1>2, <1>6 DEF Flying, FlightKept
<1>9. Backlog(a)' = Backlog(a)
  BY <1>2 DEF Backlog
<1>10. Left' + 1 <= Left
  <2>1. Unjoined(a)' + Unjoined(p)' + Backlog(a)' + Backlog(p)' + 1
           <= Unjoined(a) + Unjoined(p) + Backlog(a) + Backlog(p)
                + (requests' - requests) + (reboots' - reboots)
    BY <1>1, <1>2, <1>5, <1>7, <1>9, StepFacts
  <2>2. QED
    BY <1>1, <2>1, LeftStep
<1>11. Decode(request'[a]) = sel'[a]
  BY <1>4, <1>6, CodecOK
<1>12. SentKept /\ \A c \in Board : Link(c)'
  BY <1>2, <1>4, <1>6, <1>7, <1>8, <1>11, LinksFrom DEF Untouched
<1>13. Asks(a)
  BY <1>2, <1>4, <1>10, <1>12 DEF Asks, r
<1>14. QED
  BY <1>12, <1>13, AsksTokens DEF TokenIInv

(* The frame that a board is about to parse is one of its peer's. *)
LEMMA IncomingFlies ==
  ASSUME TokenIInv, IInv', NEW a \in Board, wire[Peer(a)] # <<>>
  PROVE  Incoming(a).data \in Flying(Peer(a))
<1> DEFINE p == Peer(a)
<1>1. p \in Board /\ wire[p] \in Seq(Frame)
  BY StepFacts
<1>2. Head(wire[p]) \in Frame
  BY <1>1
<1>3. Carries(wire[p], Head(wire[p]).data)
  BY <1>1, <1>2, CarriesFacts
<1>4. Head(wire[p]).data \in Payload
  BY <1>2 DEF Frame
<1>5. QED
  BY <1>3, <1>4 DEF Flying, Incoming

(* After a merge a board is no longer fresh. *)
LEMMA MergeJoins ==
  ASSUME NEW s \in SelState, NEW i \in SelState, NEW b \in Board PROVE ~Fresh(Merge(s, i, b))
<1>1. CASE Fresh(s) /\ i.joined
  <2> DEFINE t == IF s.pending THEN Rebase(s, i, b) ELSE CopyToken(s, i)
  <2>1. t \in SelState /\ Merge(s, i, b) = [t EXCEPT !.joined = TRUE, !.pending = FALSE]
    BY <1>1, RebaseOK DEF Merge, JoinLive, CopyToken, SelState
  <2> HIDE DEF t
  <2>2. QED
    BY <2>1 DEF Fresh, SelState
<1>2. CASE Fresh(s) /\ ~i.joined
  BY <1>2 DEF Merge, JoinFresh, CopyToken, SelState, Fresh
<1>3. CASE ~Fresh(s)
  BY <1>3 DEF Merge, Establish, Establishes, CopyToken, SelState, Fresh
<1>4. QED
  BY <1>1, <1>2, <1>3

(* receive_output_selection, a frame of older firmware. *)
LEMMA ReceiveLegacyTokens ==
  ASSUME TokenIInv, IInv', NEW a \in Board, ReceiveLegacy(a) PROVE TokenIInv' /\ Obeys(a)
<1> DEFINE p == Peer(a)
          v == Incoming(a).data.output
          r == LegacyRequest(sel[a], v, p)
<1>1. p \in Board /\ p # a /\ Link(a) /\ Link(p) /\ TypeOK /\ TypeOK' /\ IInv
  BY StepFacts
<1>2. /\ ~old[a] /\ core1[a] = "idle" /\ wire[p] # <<>> /\ IsLegacy(Incoming(a).data)
      /\ Consume(a) /\ sel' = [sel EXCEPT ![a] = r]
      /\ UNCHANGED <<txq, core0, announce, core1, request, old, requests, reboots>>
  BY DEF ReceiveLegacy, CanReceive, ReceivesLegacy
<1>3. v \in Output /\ Incoming(a).data \in Flying(p)
  BY <1>1, <1>2, IncomingOK, IncomingFlies
<1>4. old[p]
  <2>1. ~Incoming(a).data.marker
    BY <1>2 DEF IsLegacy, LegacyPayload
  <2>2. QED
    BY <1>1, <1>3, <2>1 DEF Link
<1>5. sel'[a] = r /\ sel'[p] = sel[p] /\ wire'[p] = Tail(wire[p]) /\ wire'[a] = wire[a]
  BY <1>1, <1>2 DEF TypeOK, Consume
<1>6. r.joined
  BY <1>1 DEF TypeOK, LegacyRequest, SelRequest, SelState
<1>7. v \in Output /\ sel' = [sel EXCEPT ![a] = LegacyRequest(@, v, p)]
  BY <1>2, <1>3
<1> HIDE DEF r, v
<1>8. Unjoined(a)' = 0 /\ Unjoined(p)' = Unjoined(p)
  BY <1>5, <1>6 DEF Unjoined, Fresh
<1>9. FlightKept(p) /\ Backlog(p)' + 1 <= Backlog(p)
  BY <1>1, <1>2, <1>4, <1>5, WireShrinks
<1>10. FlightKept(a) /\ Backlog(a)' = Backlog(a)
  BY <1>2, <1>5 DEF FlightKept, Flying, Backlog
<1>11. Left' + 1 <= Left
  <2>1. Unjoined(a)' + Unjoined(p)' + Backlog(a)' + Backlog(p)' + 1
           <= Unjoined(a) + Unjoined(p) + Backlog(a) + Backlog(p)
                + (requests' - requests) + (reboots' - reboots)
    <3>1. /\ Unjoined(a) >= 0 /\ Unjoined(a) \in Int /\ Unjoined(p) \in Int
          /\ Backlog(a) \in Int /\ Backlog(p) \in Int /\ Backlog(p)' \in Int
      BY <1>1, LeftFacts, StepFacts
    <3>2. requests' - requests = 0 /\ reboots' - reboots = 0
      BY <1>2, StepFacts
    <3>3. QED
      BY <1>8, <1>9, <1>10, <3>1, <3>2
  <2>2. QED
    BY <1>1, <2>1, LeftStep
<1>12. SentKept /\ \A c \in Board : Link(c)'
  BY <1>2, <1>5, <1>9, <1>10, LinksFrom
<1>13. Obeys(a)
  BY <1>2, <1>4, <1>7, <1>11, <1>12 DEF Obeys
<1>14. QED
  BY <1>12, <1>13, ObeysTokens DEF TokenIInv

(* receive_output_selection, an accepted merge. *)
LEMMA ReceiveAcceptedTokens ==
  ASSUME TokenIInv, IInv', NEW a \in Board, ReceiveAccepted(a) PROVE TokenIInv' /\ Merges(a)
<1> DEFINE p == Peer(a)
          i == Decode(Incoming(a).data)
          m == Merge(sel[a], i, a)
          f == SyncFrame(m)
<1>1. p \in Board /\ p # a /\ Link(a) /\ Link(p) /\ TypeOK /\ TypeOK' /\ IInv
  BY StepFacts
<1>2. /\ ~old[a] /\ core1[a] = "idle" /\ wire[p] # <<>> /\ Decodable(Incoming(a).data)
      /\ Consume(a) /\ sel' = [sel EXCEPT ![a] = m]
      /\ txq' = [txq EXCEPT ![a] = TryQueue(a, SyncFrame(sel'[a]))]
      /\ UNCHANGED <<core0, announce, core1, request, old, requests, reboots>>
  BY DEF ReceiveAccepted, CanReceive
<1>3. i \in Sent(p)
  <2>1. Incoming(a).data \in Flying(p) /\ Incoming(a).data.marker /\ i \in SelState
    BY <1>1, <1>2, IncomingOK, IncomingFlies DEF Decodable
  <2>2. QED
    BY <2>1 DEF Sent
<1>4. /\ sel'[a] = m /\ sel'[p] = sel[p] /\ wire'[p] = Tail(wire[p]) /\ wire'[a] = wire[a]
      /\ txq'[a] = TryQueue(a, f) /\ txq'[p] = txq[p]
  BY <1>1, <1>2 DEF TypeOK, Consume
<1>5. m \in SelState /\ PhasesOK(m) /\ f \in Frame /\ f.data = Encode(m)
  <2>1. sel'[a] \in SelState /\ PhasesOK(sel'[a])
    BY <1>1 DEF IInv, TypeOK, PhasesConsistent
  <2> HIDE DEF m
  <2>2. SyncFrame(m) \in GoodFrame
    BY <1>4, <2>1, SyncFrameOK
  <2>3. QED
    BY <1>4, <2>1, <2>2 DEF GoodFrame, SyncFrame
<1>6. Unjoined(a)' = 0 /\ Unjoined(p)' = Unjoined(p)
  <2>1. ~Fresh(m)
    BY <1>1, <1>3, MergeJoins DEF TypeOK, Sent
  <2> HIDE DEF m
  <2>2. QED
    BY <1>4, <2>1 DEF Unjoined
<1> HIDE DEF i, m, f
<1>7. FlightKept(p) /\ Backlog(p)' <= Backlog(p)
  BY <1>1, <1>2, <1>4, WireShrinks
<1>8. FlightKept(a)
  <2>1. ASSUME NEW x \in Flying(a)' PROVE x \in Flying(a) \/ x = Encode(sel'[a])
    BY <1>2, <1>4, <1>5, TryQueueFacts DEF Flying
  <2>2. QED
    BY <1>2, <2>1 DEF FlightKept
<1>9. Backlog(a)' = Backlog(a)
  BY <1>2 DEF Backlog
<1>10. Left' + Unjoined(a) <= Left
  <2>1. Unjoined(a)' + Unjoined(p)' + Backlog(a)' + Backlog(p)' + Unjoined(a)
           <= Unjoined(a) + Unjoined(p) + Backlog(a) + Backlog(p)
                + (requests' - requests) + (reboots' - reboots)
    <3>1. /\ Unjoined(a) \in Int /\ Unjoined(p) \in Int /\ Backlog(a) \in Int
          /\ Backlog(p) \in Int /\ Backlog(p)' \in Int /\ requests \in Int /\ reboots \in Int
      BY <1>1, StepFacts
    <3>2. requests' - requests = 0 /\ reboots' - reboots = 0
      BY <1>2, <3>1
    <3>3. QED
      BY <1>6, <1>7, <1>9, <3>1, <3>2
  <2>2. Unjoined(a) \in Int
    BY StepFacts
  <2>3. QED
    BY <1>1, <2>1, <2>2, LeftStep
<1>11. SentKept /\ \A c \in Board : Link(c)'
  BY <1>2, <1>4, <1>7, <1>8, LinksFrom
<1>12. Merges(a)
  BY <1>2, <1>3, <1>10, <1>11 DEF Merges, m
<1>13. QED
  BY <1>11, <1>12, MergesTokens DEF TokenIInv

(* A reset. *)
LEMMA RebootTokens ==
  ASSUME ~LateFrames, TokenIInv, IInv', NEW a \in Board, Reboot(a) PROVE TokenIInv' /\ Resets(a)
<1> DEFINE p == Peer(a)
<1>1. p \in Board /\ p # a /\ Link(a) /\ Link(p) /\ TypeOK /\ TypeOK' /\ IInv
  BY StepFacts
<1>2. /\ reboots' = reboots + 1 /\ requests' = requests
      /\ sel' = [sel EXCEPT ![a] = BootState] /\ core1' = [core1 EXCEPT ![a] = "idle"]
      /\ request' = [request EXCEPT ![a] = NoPayload] /\ old' = [old EXCEPT ![a] = FALSE]
      /\ wire' = [c \in Board |-> <<>>] /\ txq' = [c \in Board |-> <<>>]
      /\ core0' = [core0 EXCEPT ![a] = "boot",
                                ![p] = IF @ = "announcing" THEN "run" ELSE @]
  BY DEF Reboot, Boot, ResetLink
<1>3. /\ sel'[a] = BootState /\ sel'[p] = sel[p] /\ core1'[a] = "idle" /\ core1'[p] = core1[p]
      /\ request'[p] = request[p] /\ ~old'[a] /\ old'[p] = old[p]
      /\ core0'[a] = "boot" /\ core0'[p] = (IF core0[p] = "announcing" THEN "run" ELSE core0[p])
  BY <1>1, <1>2 DEF TypeOK
<1>4. \A c \in Board : txq'[c] = <<>> /\ wire'[c] = <<>>
  BY <1>2
<1>5. \A x : ~Carries(<<>>, x)
  BY DEF Carries
<1>6. /\ Flying(a)' = {}
      /\ Flying(p)' \subseteq {x \in Payload : core1[p] = "waiting" /\ x = request[p]}
  BY <1>1, <1>3, <1>4, <1>5 DEF Flying
<1>7. Flying(p)' \subseteq Flying(p)
  BY <1>6 DEF Flying
<1>8. Sent(a)' = {} /\ Sent(p)' \subseteq {sel'[p]}
  <2>1. Sent(a)' = {}
    BY <1>6 DEF Sent
  <2>2. ASSUME NEW s \in Sent(p)' PROVE s = sel[p]
    <3>1. PICK x \in Flying(p)' : s = Decode(x)
      BY <2>2 DEF Sent
    <3>2. QED
      BY <1>1, <1>6, <3>1 DEF Link
  <2>3. QED
    BY <1>3, <2>1, <2>2
<1>9. /\ Backlog(a)' = 0 /\ Backlog(p)' <= Backlog(p)
      /\ Unjoined(a)' = 1 /\ Unjoined(p)' = Unjoined(p)
  <2>1. Backlog(a)' = 0 /\ Unjoined(a)' = 1 /\ Unjoined(p)' = Unjoined(p)
    BY <1>3 DEF Backlog, Unjoined, BootState, Fresh
  <2> DEFINE m == Len(txq[p])
            n == Len(wire[p])
  <2>2. m \in Nat /\ n \in Nat
    BY <1>1, StepFacts
  <2>3. /\ Backlog(p) = IF old[p] THEN m + n + (IF core0[p] = "boot" THEN 1 ELSE 0) ELSE 0
        /\ Backlog(p)' = IF old[p] THEN 0 + 0 + (IF core0[p] = "boot" THEN 1 ELSE 0) ELSE 0
    <3>1. core0'[p] = "boot" <=> core0[p] = "boot"
      BY <1>3
    <3>2. Len(txq'[p]) = 0 /\ Len(wire'[p]) = 0
      BY <1>1, <1>4
    <3>3. Backlog(p) = IF old[p] THEN m + n + (IF core0[p] = "boot" THEN 1 ELSE 0) ELSE 0
      BY DEF Backlog
    <3>4. Backlog(p)' = IF old[p] THEN 0 + 0 + (IF core0[p] = "boot" THEN 1 ELSE 0) ELSE 0
      BY <1>3, <3>1, <3>2 DEF Backlog
    <3>5. QED
      BY <3>3, <3>4
  <2> HIDE DEF m, n
  <2>4. Backlog(p)' <= Backlog(p)
    <3>1. CASE ~old[p]
      BY <2>3, <3>1
    <3>2. CASE old[p] /\ core0[p] = "boot"
      BY <2>2, <2>3, <3>2
    <3>3. CASE old[p] /\ core0[p] # "boot"
      BY <2>2, <2>3, <3>3
    <3>4. QED
      BY <3>1, <3>2, <3>3
  <2>5. QED
    BY <2>1, <2>4
<1>10. Left' <= Left
  <2>1. Unjoined(a)' + Unjoined(p)' + Backlog(a)' + Backlog(p)' + 0
           <= Unjoined(a) + Unjoined(p) + Backlog(a) + Backlog(p)
                + (requests' - requests) + (reboots' - reboots)
    <3>1. Unjoined(a) >= 0 /\ Backlog(a) >= 0
      BY <1>1, LeftFacts
    <3>2. /\ Unjoined(a) \in Int /\ Unjoined(p) \in Int /\ Backlog(a) \in Int
          /\ Backlog(p) \in Int /\ Backlog(p)' \in Int
          /\ requests' - requests = 0 /\ reboots' - reboots = 1
      BY <1>1, <1>2, StepFacts
    <3>3. QED
      BY <1>9, <3>1, <3>2
  <2>2. Left' + 0 <= Left
    BY <1>1, <2>1, LeftStep
  <2>3. Left' \in Int /\ Left \in Int
    BY <1>1, LeftStays, LeftFacts
  <2>4. QED
    BY <2>2, <2>3, Room
<1>11. Resets(a)
  BY <1>1, <1>2, <1>8, <1>10, OtherBoard DEF Resets
<1>12. Link(a)' /\ Link(p)'
  BY <1>1, <1>3, <1>6, <1>7 DEF Link
<1>13. QED
  BY <1>11, <1>12, ResetsTokens, OtherBoard DEF TokenIInv

(* The start: both boards hold the same token, and nothing is under way. *)
LEMMA InitTokens == Session /\ Init => TokenIInv
<1> SUFFICES ASSUME Session, Init PROVE TokenIInv
  OBVIOUS
<1>1. IInv /\ TypeOK
  BY InitIInv DEF IInv
<1>2. /\ txq = [b \in Board |-> <<>>] /\ wire = [b \in Board |-> <<>>]
      /\ core1 = [b \in Board |-> "idle"] /\ \A b \in Board : core0[b] # "announcing"
      /\ requests = 0 /\ reboots = 0 /\ old \in [Board -> BOOLEAN]
  <2>1. old \in [Board -> BOOLEAN]
    BY <1>1 DEF TypeOK
  <2>2. QED
    BY <2>1 DEF Init
<1>3. \A b \in Board : Flying(b) = {} /\ Sent(b) = {}
  BY <1>2 DEF Flying, Sent, Carries
<1>4. /\ MaxRequests \in Int /\ MaxReboots \in Int /\ Half \in Int
      /\ MaxRequests - requests = MaxRequests /\ MaxReboots - reboots = MaxReboots
  <2>1. Half \in Int
    BY ModulusAssumption, Z3 DEF Half
  <2>2. QED
    BY <1>2, <2>1, BoundAssumption
<1>5. \A b \in Board : Unjoined(b) \in {0, 1}
  BY DEF Unjoined
<1>6. \A b \in Board : Backlog(b) \in {0, 1} /\ (~old[b] => Backlog(b) = 0)
  BY <1>2 DEF Backlog
<1>7. 0 \in Board /\ 1 \in Board
  BY DEF Board
<1>8. \E s \in SelState : /\ sel = [b \in Board |-> s] /\ Held(s) /\ s.counter + Left < Half
                          /\ \A b \in Board : old[b] => s = BootState
  <2>1. CASE sel = [b \in Board |-> BootState]
    <3>1. Left <= MaxRequests + MaxReboots + 4 /\ Left \in Int
      BY <1>4, <1>5, <1>6, <1>7 DEF Left
    <3>2. 0 + Left < Half
      BY <1>4, <3>1 DEF Session
    <3>3. BootState \in SelState /\ Held(BootState) /\ BootState.counter = 0
      BY BootOK DEF Held, BootState, Zero
    <3>4. QED
      BY <2>1, <3>2, <3>3
  <2>2. CASE /\ old = [b \in Board |-> FALSE]
             /\ \E c \in StartTokens, o \in Board, v \in Output :
                  sel = [b \in Board |-> Established(c, o, v)]
    <3>1. PICK c \in StartTokens, o \in Board, v \in Output :
            sel = [b \in Board |-> Established(c, o, v)]
      BY <2>2
    <3>2. \A b \in Board : ~old[b] /\ Unjoined(b) = 0
      BY <1>2, <2>2, <3>1 DEF Unjoined, Established, Fresh
    <3>3. Left = MaxRequests + MaxReboots
      BY <1>4, <1>6, <1>7, <3>2 DEF Left
    <3>4. c \in Int
      BY ModulusAssumption, StartAssumption DEF Counter
    <3>5. c + Left < Half /\ c # 0
      BY <1>4, <3>3, <3>4 DEF Session
    <3>6. /\ Established(c, o, v) \in SelState /\ Established(c, o, v).counter = c
          /\ Held(Established(c, o, v))
      <4>1. Established(c, o, v) \in SelState
        BY StartAssumption DEF Established, SelState
      <4>2. QED
        BY <3>5, <4>1 DEF Established, Held
    <3>7. QED
      BY <3>1, <3>2, <3>5, <3>6
  <2>3. QED
    BY <2>1, <2>2 DEF Init
<1>9. PICK s \in SelState : /\ sel = [b \in Board |-> s] /\ Held(s) /\ s.counter + Left < Half
                            /\ \A b \in Board : old[b] => s = BootState
  BY <1>8
<1>10. s.counter \in Nat /\ s.counter <= s.counter
  BY StateFields
<1>11. Tokens
  <2>1. ASSUME NEW b \in Board PROVE Line(b)
    BY <1>3, <1>9 DEF Line
  <2>2. ASSUME NEW b \in Board PROVE Known(b, Peer(b))
    BY <1>3, <1>9, <1>10, OtherBoard DEF Known
  <2>3. QED
    BY <2>1, <2>2 DEF Tokens
<1>12. \A b \in Board : Link(b)
  BY <1>2, <1>3, <1>9 DEF Link
<1>13. QED
  BY <1>1, <1>11, <1>12 DEF TokenIInv

(* Nothing happens. *)
LEMMA StutterTokens ==
  ASSUME TokenIInv, UNCHANGED vars PROVE TokenIInv' /\ Keeps
<1>1. \A b \in Board : Flying(b)' = Flying(b)
  BY DEF vars, Flying
<1>2. \A b \in Board : Sent(b)' = Sent(b)
  BY <1>1 DEF Sent
<1>3. Left' = Left
  BY DEF vars, Left, Unjoined, Backlog
<1>4. \A b \in Board : Link(b)'
  BY <1>1 DEF vars, Link, TokenIInv
<1>5. Tokens'
  BY <1>2, <1>3 DEF vars, Tokens, Line, Known, TokenIInv
<1>6. IInv'
  BY DEF vars, TokenIInv, IInv, TypeOK, PhasesConsistent, FramesDecode, RoutingFollowsToken
<1>7. Keeps
  <2>1. Left <= Left
    BY LeftFacts DEF TokenIInv, IInv
  <2>2. SentKept
    BY <1>2 DEF SentKept
  <2>3. QED
    BY <1>3, <2>1, <2>2 DEF Keeps, vars
<1>8. QED
  BY <1>4, <1>5, <1>6, <1>7 DEF TokenIInv

(* What a step is to the tokens. *)
Moves ==
  \/ Keeps \/ requests' # requests
  \/ \E a \in Board : Obeys(a) \/ Merges(a) \/ Resets(a)

(* Every step of either board keeps the tokens in order. *)
LEMMA StepTokens ==
  ASSUME Session, TokenIInv, [Next]_vars PROVE TokenIInv' /\ Moves
<1>1. CASE UNCHANGED vars
  BY <1>1, StutterTokens DEF Moves
<1>2. CASE Next
  <2>1. IInv'
    BY <1>2, StepIInv DEF TokenIInv
  <2>2. PICK b \in Board :
          \/ SetActiveOutput(b) \/ SetActiveOutputQueued(b)
          \/ AnnounceInitialOutput(b) \/ AnnounceInitialOutputQueued(b)
          \/ Heartbeat(b) \/ Transmit(b) \/ Lose(b)
          \/ ReceiveLegacy(b) \/ ReceiveAccepted(b) \/ ReceiveIgnored(b)
          \/ Reboot(b) \/ OldBoot(b) \/ OldSwitch(b) \/ OldReceive(b)
    BY <1>2 DEF Next
  <2>3. CASE ReceiveIgnored(b) \/ OldReceive(b)
    <3>1. wire[Peer(b)] # <<>> /\ Consume(b)
          /\ UNCHANGED <<sel, txq, core0, announce, core1, request, old, requests, reboots>>
      BY <2>3 DEF ReceiveIgnored, CanReceive, OldReceive
    <3>2. QED
      BY <2>1, <3>1, ConsumeTokens DEF Moves
  <2>4. CASE Reboot(b)
    BY <2>1, <2>4, RebootTokens DEF Session, Moves
  <2>5. CASE SetActiveOutput(b)
    <3>1. requests' = requests + 1 /\ requests \in Int
      BY <2>1, <2>5, StepFacts DEF SetActiveOutput
    <3>2. requests' # requests
      BY <3>1
    <3>3. QED
      BY <2>1, <2>5, <3>2, SetActiveOutputTokens DEF Moves
  <2>6. CASE ReceiveLegacy(b) \/ ReceiveAccepted(b)
    BY <2>1, <2>6, ReceiveLegacyTokens, ReceiveAcceptedTokens DEF Moves
  <2>7. CASE \/ SetActiveOutputQueued(b) \/ AnnounceInitialOutput(b)
             \/ AnnounceInitialOutputQueued(b) \/ Heartbeat(b) \/ Transmit(b)
             \/ Lose(b) \/ OldBoot(b) \/ OldSwitch(b)
    BY <2>1, <2>7, SetActiveOutputQueuedTokens, AnnounceTokens, AnnounceQueuedTokens,
       HeartbeatTokens, TransmitTokens, LoseTokens, OldBootTokens, OldSwitchTokens DEF Moves
  <2>8. QED
    BY <2>2, <2>3, <2>4, <2>5, <2>6, <2>7
<1>3. QED
  BY <1>1, <1>2

(* The invariant of the tokens, for every session that keeps its counters  *)
(* below half the range and its links free of late frames.                 *)
THEOREM TokenInvariance == Session => (Spec => []TokenIInv)
<1> SUFFICES ASSUME Session PROVE Spec => []TokenIInv
  OBVIOUS
<1>1. Init => TokenIInv
  BY InitTokens
<1>2. TokenIInv /\ [Next]_vars => TokenIInv'
  BY StepTokens
<1>3. QED
  BY <1>1, <1>2, PTL DEF Spec

(* Two boards with the same token route to the same host: no request or    *)
(* merge of either board makes a token that the other one already has for  *)
(* another output.                                                         *)
THEOREM SameTokenSameOutput == Session => (Spec => []OneOutputPerToken)
<1>1. ASSUME TokenIInv PROVE OneOutputPerToken
  <2> SUFFICES ASSUME \A b \in Board : sel[b].joined, sel[0].counter = sel[1].counter,
                      sel[0].origin = sel[1].origin
               PROVE  sel[0].output = sel[1].output
    BY DEF OneOutputPerToken
  <2>1. 0 \in Board /\ 1 \in Board /\ Peer(0) = 1 /\ Peer(1) = 0
    BY DEF Board, Peer
  <2>2. Known(0, 1) /\ Known(1, 0) /\ sel[0].origin \in {0, 1} /\ ~Fresh(sel[0]) /\ ~Fresh(sel[1])
    BY <1>1, <2>1, StateFacts, StateFields DEF Fresh
  <2>3. QED
    BY <2>2 DEF Known
<1>2. QED
  BY <1>1, TokenInvariance, PTL

-----------------------------------------------------------------------------
(* Resets are passive.  While the boards are settled, two joined boards    *)
(* have the same token; a board that has reset since is at its boot        *)
(* default, and all that its peer has under way is the settled token.      *)
Settled(b) ==
  LET s == sel[b]
      t == sel[Peer(b)]
  IN  /\ ~old[b] /\ (s.joined => s.output = settled)
      /\ s.joined /\ t.joined => Same(s, t)
      /\ ~s.joined => /\ s = BootState /\ t.joined
                      /\ \A f \in Sent(Peer(b)) : f.joined /\ Same(f, t)

Passive == settled # None => \A b \in Board : Settled(b)

PassiveIInv == TokenIInv /\ Passive

(* The boards that have just agreed are settled. *)
LEMMA SettledAgree ==
  ASSUME TokenIInv, SettledNow, settled = active[0] PROVE Passive
<1>1. 0 \in Board /\ 1 \in Board /\ Peer(0) = 1 /\ Peer(1) = 0 /\ \A b \in Board : b = 0 \/ b = 1
  BY DEF Board, Peer
<1>2. \A b \in Board : ~old[b] /\ sel[b].joined /\ active[b] = sel[b].output
  BY DEF SettledNow, Agreed, TokenIInv, IInv, RoutingFollowsToken
<1>3. /\ sel[0].counter = sel[1].counter /\ sel[0].origin = sel[1].origin
      /\ sel[0].output = sel[1].output /\ settled = sel[0].output
  BY <1>1, <1>2 DEF SettledNow, Agreed, SameToken
<1>4. Same(sel[0], sel[1]) /\ Same(sel[1], sel[0])
  BY <1>3 DEF Same
<1>5. QED
  BY <1>1, <1>2, <1>3, <1>4 DEF Passive, Settled

(* ... also after the step by which they agreed. *)
LEMMA SettledAgreeNext ==
  ASSUME TokenIInv', SettledNow', settled' = active'[0] PROVE Passive'
<1>1. 0 \in Board /\ 1 \in Board /\ Peer(0) = 1 /\ Peer(1) = 0 /\ \A b \in Board : b = 0 \/ b = 1
  BY DEF Board, Peer
<1>2. \A b \in Board : ~old'[b] /\ sel'[b].joined /\ active'[b] = sel'[b].output
  BY DEF SettledNow, Agreed, TokenIInv, IInv, RoutingFollowsToken
<1>3. /\ sel'[0].counter = sel'[1].counter /\ sel'[0].origin = sel'[1].origin
      /\ sel'[0].output = sel'[1].output /\ settled' = sel'[0].output
  BY <1>1, <1>2 DEF SettledNow, Agreed, SameToken
<1>4. Same(sel'[0], sel'[1]) /\ Same(sel'[1], sel'[0])
  BY <1>3 DEF Same
<1>5. QED
  BY <1>1, <1>2, <1>3, <1>4 DEF Passive, Settled

(* A step that leaves the tokens. *)
LEMMA KeepsPassive ==
  ASSUME TokenIInv, Passive, settled' = settled, Keeps PROVE Passive'
<1>1. sel' = sel /\ old' = old /\ \A b \in Board : Sent(b)' \subseteq Sent(b) \cup {sel[b]}
  BY DEF Keeps, SentKept
<1>2. \A x : Same(x, x)
  BY DEF Same
<1>3. ASSUME NEW b \in Board, Settled(b) PROVE Settled(b)'
  BY <1>1, <1>2, <1>3, OtherBoard DEF Settled
<1>4. QED
  BY <1>3 DEF Passive

(* A merge: nothing under way says anything new. *)
LEMMA MergesPassive ==
  ASSUME TokenIInv, IInv', Passive, settled' = settled, NEW a \in Board, Merges(a) PROVE Passive'
<1> SUFFICES ASSUME settled # None PROVE \A b \in Board : Settled(b)'
  BY DEF Passive
<1> DEFINE p == Peer(a)
          s == sel[a]
          t == sel[p]
          m == sel'[a]
<1>1. /\ p \in Board /\ p # a /\ Peer(p) = a /\ Settled(a) /\ Settled(p)
      /\ \A c \in Board : c = a \/ c = p
  BY OtherBoard DEF Passive
<1>2. PICK i \in Sent(p) : Outcome(s, i, a, m)
  BY MergeOutcome
<1>3. sel'[p] = t /\ old' = old /\ SentKept
  BY MergeOutcome DEF Merges
<1>4. /\ s \in SelState /\ t \in SelState /\ i \in SelState /\ NotAfter(i, t) /\ m \in SelState
      /\ (\A f \in Sent(a) : f \in SelState /\ NotAfter(f, s))
  BY <1>1, <1>2, StateFacts DEF Outcome
<1>5. /\ s.counter \in Nat /\ t.counter \in Nat /\ i.counter \in Nat /\ s.origin \in {0, 1}
      /\ t.origin \in {0, 1} /\ i.origin \in {0, 1}
  BY <1>4, StateFields
<1> HIDE DEF m
<1>6. CASE s.joined
  <2>1. ~Above(i, s)
    <3>1. CASE t.joined
      <4>1. Same(s, t)
        BY <1>1, <1>6, <3>1 DEF Settled
      <4>2. QED
        BY <1>5, <1>4, <4>1 DEF Same, NotAfter, Above
    <3>2. CASE ~t.joined
      <4>1. t.counter = 0 /\ t.origin = 0
        BY <1>1, <3>2 DEF Settled, BootState
      <4>2. QED
        BY <1>4, <1>5, <4>1 DEF Same, NotAfter, Above
    <3>3. QED
      BY <3>1, <3>2
  <2>2. m.joined /\ Same(m, s)
    BY <1>2, <1>6, <2>1 DEF Outcome, Rebased, Fresh, Same
  <2>3. Settled(a)'
    BY <1>1, <1>3, <1>6, <2>2 DEF Settled, Same, m
  <2>4. Settled(p)'
    <3>1. ASSUME ~t.joined, NEW f \in Sent(a)' PROVE f.joined /\ Same(f, m)
      <4>1. f \in Sent(a) \/ f = m
        BY <1>3, <3>1 DEF SentKept, m
      <4>2. f \in Sent(a) => f.joined /\ Same(f, s)
        BY <1>1, <3>1 DEF Settled
      <4>3. QED
        BY <2>2, <4>1, <4>2 DEF Same
    <3>2. QED
      BY <1>1, <1>3, <1>6, <2>2, <3>1 DEF Settled, Same, m
  <2>5. QED
    BY <1>1, <2>3, <2>4
<1>7. CASE ~s.joined
  <2>1. s = BootState /\ t.joined /\ i.joined /\ Same(i, t)
    BY <1>1, <1>2, <1>7 DEF Settled
  <2>2. Fresh(s) /\ ~s.pending
    BY <2>1 DEF BootState, Fresh
  <2>3. m.joined /\ Same(m, t)
    BY <1>2, <2>1, <2>2 DEF Outcome, Rebased, Same
  <2>4. Settled(a)' /\ Settled(p)'
    BY <1>1, <1>3, <2>1, <2>3 DEF Settled, Same, m
  <2>5. QED
    BY <1>1, <2>4
<1>8. QED
  BY <1>6, <1>7

(* A reset: as long as the peer has joined, all it sends is its token. *)
LEMMA ResetsPassive ==
  ASSUME TokenIInv, Passive, settled' = settled, NEW a \in Board, Resets(a),
         \E b \in Board : sel'[b].joined
  PROVE  Passive'
<1> SUFFICES ASSUME settled # None PROVE \A b \in Board : Settled(b)'
  BY DEF Passive
<1> DEFINE p == Peer(a)
          t == sel[p]
<1>1. /\ p \in Board /\ p # a /\ Peer(p) = a /\ Settled(a) /\ Settled(p)
      /\ \A c \in Board : c = a \/ c = p
  BY OtherBoard DEF Passive
<1>2. /\ sel'[a] = BootState /\ sel'[p] = t /\ ~old'[a] /\ old'[p] = old[p]
      /\ Sent(p)' \subseteq {t}
  <2>1. sel \in [Board -> SelState] /\ old \in [Board -> BOOLEAN]
    BY DEF TokenIInv, IInv, TypeOK
  <2>2. QED
    BY <1>1, <2>1 DEF Resets
<1>3. ~BootState.joined
  BY DEF BootState
<1>4. t.joined
  BY <1>1, <1>2, <1>3
<1>5. Same(t, t)
  BY DEF Same
<1>6. Settled(a)' /\ Settled(p)'
  BY <1>1, <1>2, <1>3, <1>4, <1>5 DEF Settled
<1>7. QED
  BY <1>1, <1>6

(* Every step keeps the boards settled or forgets that they were. *)
LEMMA StepPassive ==
  ASSUME Session, PassiveIInv, [MCNext]_mcvars PROVE PassiveIInv'
<1>1. [Next]_vars /\ TokenIInv /\ Passive
  BY DEF MCNext, mcvars, PassiveIInv
<1>2. TokenIInv' /\ Moves /\ IInv'
  BY <1>1, StepTokens DEF TokenIInv
<1>3. CASE settled' = None
  BY <1>2, <1>3 DEF Passive, PassiveIInv
<1>4. CASE SettledNow' /\ settled' = active'[0]
  BY <1>2, <1>4, SettledAgreeNext DEF PassiveIInv
<1>5. CASE UNCHANGED mcvars
  <2>1. UNCHANGED vars /\ settled' = settled
    BY <1>5 DEF mcvars
  <2>2. Keeps
    BY <1>1, <2>1, StutterTokens
  <2>3. QED
    BY <1>1, <1>2, <2>1, <2>2, KeepsPassive DEF PassiveIInv
<1>6. CASE settled' = settled /\ settled # None /\ requests' = requests
             /\ \E b \in Board : sel'[b].joined
  <2>1. ~\E a \in Board : Obeys(a)
    BY <1>1, <1>6, OtherBoard DEF Obeys, Passive, Settled
  <2>2. CASE Keeps
    BY <1>1, <1>2, <1>6, <2>2, KeepsPassive DEF PassiveIInv
  <2>3. ASSUME NEW a \in Board, Merges(a) PROVE PassiveIInv'
    BY <1>1, <1>2, <1>6, <2>3, MergesPassive DEF PassiveIInv
  <2>4. ASSUME NEW a \in Board, Resets(a) PROVE PassiveIInv'
    BY <1>1, <1>2, <1>6, <2>4, ResetsPassive DEF PassiveIInv
  <2>5. QED
    BY <1>2, <1>6, <2>1, <2>2, <2>3, <2>4 DEF Moves
<1>7. QED
  BY <1>3, <1>4, <1>5, <1>6 DEF MCNext, Remember

(* As long as one board stays up and nobody asks for a switch, every       *)
(* joined board keeps routing to the output the boards had settled on,     *)
(* whichever of them resets, and as often as it does.                      *)
THEOREM ResetsNeverSwitch == Session => (MCSpec => []ResetsArePassive)
<1> SUFFICES ASSUME Session PROVE MCSpec => []ResetsArePassive
  OBVIOUS
<1>1. MCInit => PassiveIInv
  <2> SUFFICES ASSUME MCInit PROVE PassiveIInv
    OBVIOUS
  <2>1. TokenIInv
    BY InitTokens DEF MCInit
  <2>2. CASE SettledNow
    BY <2>1, <2>2, SettledAgree DEF MCInit, PassiveIInv
  <2>3. CASE ~SettledNow
    BY <2>1, <2>3 DEF MCInit, PassiveIInv, Passive
  <2>4. QED
    BY <2>2, <2>3
<1>2. PassiveIInv /\ [MCNext]_mcvars => PassiveIInv'
  BY StepPassive
<1>3. PassiveIInv => ResetsArePassive
  <2> SUFFICES ASSUME PassiveIInv, settled # None, NEW b \in Board, sel[b].joined
               PROVE  active[b] = settled
    BY DEF ResetsArePassive
  <2>1. ~old[b] /\ sel[b].output = settled
    BY DEF PassiveIInv, Passive, Settled
  <2>2. QED
    BY <2>1 DEF PassiveIInv, TokenIInv, IInv, RoutingFollowsToken
<1>4. QED
  BY <1>1, <1>2, <1>3, PTL DEF MCSpec
==============================================================================
