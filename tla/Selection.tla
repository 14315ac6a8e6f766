------------------------------ MODULE Selection ------------------------------
(***************************************************************************)
(* Which of the two hosts gets the keyboard and the mouse.                 *)
(*                                                                         *)
(* Both DeskHop boards keep a selection token (counter, origin, output)    *)
(* and agree on it over a lossy UART: every local switch is announced at   *)
(* once (OUTPUT_SELECT_MSG) and the whole state is repeated by the 1 Hz    *)
(* heartbeat (OUTPUT_SELECT_SYNC_MSG).  The module has one action per      *)
(* handler or task of selection.c / handlers.c / tasks.c that touches this *)
(* state, with the two places where a core gives up the firmware lock and  *)
(* waits for a queue slot (set_active_output on core 1 and                 *)
(* announce_initial_output on core 0) split into two steps.                *)
(***************************************************************************)
EXTENDS Integers, Sequences, FiniteSets

CONSTANTS
  Modulus,      \* size of the counter's range: 2^32 in the firmware
  TxCap,        \* slots of a board's uart_tx_queue
  WireCap,      \* frames between a TX queue and the peer's packet parser
  OldBoards,    \* boards that may start out on firmware older than the tokens
  LateFrames,   \* TRUE: frames in flight when a board resets may outlive the reset
  StartTokens,  \* counters at which an established session may be picked up
  MaxRequests,  \* bound: switches the user asks for
  MaxReboots    \* bound: resets of either board

Board  == {0, 1}                 \* board_role: A is 0, B is 1
Output == {0, 1}
Peer(b) == 1 - b
Half == Modulus \div 2
Counter == 0 .. Modulus - 1

ASSUME ModulusAssumption == Modulus \in Nat /\ Half > 1 /\ Modulus = 2 * Half
ASSUME CapAssumption == TxCap \in Nat \ {0} /\ WireCap \in Nat \ {0}
ASSUME BoundAssumption ==
  MaxRequests \in Nat /\ MaxReboots \in Nat /\ LateFrames \in BOOLEAN
ASSUME StartAssumption == OldBoards \subseteq Board /\ StartTokens \subseteq Counter

(* selection_state_t, and its zero initialisation at boot. *)
SelState == [counter : Counter, origin : Board, output : Output,
             joined : BOOLEAN, joining : BOOLEAN, pending : BOOLEAN]

BootState == [counter |-> 0, origin |-> 0, output |-> 0,
              joined |-> FALSE, joining |-> FALSE, pending |-> FALSE]

Established(c, o, v) ==
  [counter |-> c, origin |-> o, output |-> v,
   joined |-> TRUE, joining |-> FALSE, pending |-> FALSE]

-----------------------------------------------------------------------------
(* The token order: serial-number arithmetic on the counter, ties to the   *)
(* larger origin.                                                          *)

Distance(incoming, current) == (incoming - current) % Modulus

CounterNewer(incoming, current) ==
  /\ Distance(incoming, current) # 0
  /\ Distance(incoming, current) < Half

TokenNewer(incoming, current) ==
  \/ CounterNewer(incoming.counter, current.counter)
  \/ incoming.counter = current.counter /\ incoming.origin > current.origin

CopyToken(dest, source) ==
  [dest EXCEPT !.counter = source.counter,
               !.origin  = source.origin,
               !.output  = source.output]

Fresh(s) == ~s.joined /\ ~s.joining

(* Mutants of SelRequest: a counter wider than the wire field, and a       *)
(* request that does not mark a board which has not joined yet.            *)
SelRequestWide(s, output, origin) ==
  [s EXCEPT !.counter = s.counter + 1, !.origin = origin,
            !.output = output, !.pending = Fresh(s)]

SelRequestUnmarked(s, output, origin) ==
  [s EXCEPT !.counter = (s.counter + 1) % Modulus, !.origin = origin,
            !.output = output]

SelRequest(s, output, origin) ==
  [s EXCEPT !.counter = (s.counter + 1) % Modulus,
            !.origin  = origin,
            !.output  = output,
            !.pending = Fresh(s)]

LegacyRequest(s, output, origin) ==
  [SelRequest(s, output, origin) EXCEPT !.joined  = TRUE,
                                        !.joining = FALSE,
                                        !.pending = FALSE]

(* Mutant of Rebase: takes the peer's counter instead of the next one. *)
RebaseOnto(s, incoming, local) ==
  [s EXCEPT !.counter = IF CounterNewer(incoming.counter, s.counter)
                        THEN incoming.counter ELSE s.counter,
            !.origin = local]

(* A fresh board hears a joined peer: a switch the user asked for before   *)
(* joining is put above the peer's token, otherwise the peer's is taken.   *)
Rebase(s, incoming, local) ==
  LET base == IF CounterNewer(incoming.counter, s.counter)
              THEN incoming.counter ELSE s.counter
  IN  [s EXCEPT !.counter = (base + 1) % Modulus, !.origin = local]

JoinLive(s, incoming, local) ==
  [(IF s.pending THEN Rebase(s, incoming, local) ELSE CopyToken(s, incoming))
     EXCEPT !.joined = TRUE, !.pending = FALSE]

(* Two fresh boards meet: a handshake, JOINING answered by JOINED. *)
JoinFresh(s, incoming) ==
  [(IF TokenNewer(incoming, s) THEN CopyToken(s, incoming) ELSE s)
     EXCEPT !.joined  = incoming.joining,
            !.joining = ~incoming.joining,
            !.pending = FALSE]

Establishes(s, incoming) == s.joining /\ (incoming.joining \/ incoming.joined)

(* Mutant of EmptyBoot: a boot default counts as a selection. *)
EmptyBootNever(incoming) == FALSE

EmptyBoot(incoming) == Fresh(incoming) /\ ~incoming.pending

Establish(s, incoming) ==
  IF Establishes(s, incoming)
  THEN [s EXCEPT !.joining = FALSE, !.joined = TRUE] ELSE s

(* Mutant of Supersedes: whatever was received last wins. *)
SupersedesAlways(incoming, s) == ~EmptyBoot(incoming)

Supersedes(incoming, s) == ~EmptyBoot(incoming) /\ TokenNewer(incoming, s)

(* selection_merge: the state it leaves, and whether it returns true. *)
Merge(s, incoming, local) ==
  IF Fresh(s)
  THEN IF incoming.joined THEN JoinLive(s, incoming, local)
                          ELSE JoinFresh(s, incoming)
  ELSE IF Supersedes(incoming, s)
       THEN CopyToken(Establish(s, incoming), incoming)
       ELSE Establish(s, incoming)

MergeAccepts(s, incoming) ==
  Fresh(s) \/ Establishes(s, incoming) \/ Supersedes(incoming, s)

-----------------------------------------------------------------------------
(* The eight payload bytes: output, origin with the phase bits, the "S1"   *)
(* marker and the counter.  A legacy frame carries the output alone.       *)

Payload == [output : Output, origin : Board,
            phase : SUBSET {"joining", "pending", "joined"},
            marker : BOOLEAN, counter : Counter]

Encode(s) ==
  [output |-> s.output, origin |-> s.origin, counter |-> s.counter,
   marker |-> TRUE,
   phase  |-> (IF s.joined  THEN {"joined"}  ELSE {})
                \cup (IF s.joining THEN {"joining"} ELSE {})
                \cup (IF s.pending THEN {"pending"} ELSE {})]

Decode(p) ==
  [counter |-> p.counter, origin |-> p.origin, output |-> p.output,
   joined  |-> "joined"  \in p.phase,
   joining |-> "joining" \in p.phase,
   pending |-> "pending" \in p.phase]

(* At most one phase bit, and without one only the boot default. *)
Decodable(p) ==
  /\ p.marker
  /\ \A x, y \in p.phase : x = y
  /\ p.phase = {} => p.counter = 0 /\ p.origin = 0 /\ p.output = 0

LegacyPayload(output) ==
  [output |-> output, origin |-> 0, phase |-> {}, marker |-> FALSE, counter |-> 0]

IsLegacy(p) == p = LegacyPayload(p.output)

Frame == [type : {"SELECT", "SYNC"}, data : Payload]

-----------------------------------------------------------------------------
VARIABLES
  sel,       \* sel[b]: device_t.selection
  active,    \* active[b]: device_t.active_output
  txq,       \* txq[b]: selection frames in b's uart_tx_queue
  wire,      \* wire[b]: frames b has sent and its peer has not parsed
  core0,     \* core0[b]: "boot", "announcing" or "run"
  announce,  \* announce[b]: payload that core 0 encoded for its announcement
  core1,     \* core1[b]: "idle", or "waiting" for a slot in set_active_output
  request,   \* request[b]: payload that core 1 waits to queue
  focus,     \* focus[b]: output for which keyboard_focus_changed last ran
  old,       \* old[b]: b runs firmware that knows no tokens
  requests,  \* number of switches the user has asked for
  reboots    \* number of resets so far

vars == <<sel, active, txq, wire, core0, announce, core1, request, focus, old,
          requests, reboots>>

TypeOK ==
  /\ sel \in [Board -> SelState]
  /\ active \in [Board -> Output]
  /\ txq \in [Board -> Seq(Frame)]
  /\ wire \in [Board -> Seq(Frame)]
  /\ core0 \in [Board -> {"boot", "announcing", "run"}]
  /\ announce \in [Board -> Payload]
  /\ core1 \in [Board -> {"idle", "waiting"}]
  /\ request \in [Board -> Payload]
  /\ focus \in [Board -> Output]
  /\ old \in [Board -> BOOLEAN]
  /\ requests \in 0 .. MaxRequests
  /\ reboots \in 0 .. MaxReboots
  /\ \A b \in Board : Len(txq[b]) <= TxCap /\ Len(wire[b]) <= WireCap

NoPayload == LegacyPayload(0)

(* Both boards power up together, or an established session is picked up   *)
(* at one of StartTokens (the state two boards are in after that many      *)
(* switches).                                                              *)
Init ==
  /\ \/ /\ sel = [b \in Board |-> BootState]
        /\ active = [b \in Board |-> 0]
        /\ core0 = [b \in Board |-> "boot"]
        /\ \E boards \in SUBSET OldBoards : old = [b \in Board |-> b \in boards]
     \/ /\ old = [b \in Board |-> FALSE]
        /\ \E c \in StartTokens, o \in Board, v \in Output :
             /\ sel = [b \in Board |-> Established(c, o, v)]
             /\ active = [b \in Board |-> v]
        /\ core0 = [b \in Board |-> "run"]
  /\ txq = [b \in Board |-> <<>>]
  /\ wire = [b \in Board |-> <<>>]
  /\ announce = [b \in Board |-> NoPayload]
  /\ core1 = [b \in Board |-> "idle"]
  /\ request = [b \in Board |-> NoPayload]
  /\ focus = active
  /\ requests = 0
  /\ reboots = 0

(* The queue has 256 slots and core 1 is live only for moments before core *)
(* 0 announces and starts to drain it: core 1 never takes the last slot    *)
(* before that.                                                            *)
Slots(b) == IF core0[b] = "run" THEN TxCap ELSE TxCap - 1

(* queue_packet_try: a full queue drops the frame. *)
TryQueue(b, frame) ==
  IF Len(txq[b]) < Slots(b) THEN Append(txq[b], frame) ELSE txq[b]

SyncFrame(s) == [type |-> "SYNC", data |-> Encode(s)]

-----------------------------------------------------------------------------
(* Core 1: a hotkey or the pointer crossing the border asks for the other  *)
(* output (set_active_output up to the blocking queue operation) ...       *)
SetActiveOutput(b) ==
  /\ ~old[b] /\ core1[b] = "idle"
  /\ requests < MaxRequests
  /\ requests' = requests + 1
  /\ sel' = [sel EXCEPT ![b] = SelRequest(@, 1 - active[b], b)]
  /\ active' = [active EXCEPT ![b] = 1 - @]
  /\ request' = [request EXCEPT ![b] = Encode(sel'[b])]
  /\ core1' = [core1 EXCEPT ![b] = "waiting"]
  /\ UNCHANGED <<txq, wire, core0, announce, focus, old, reboots>>

(* Mutant of SetActiveOutputQueued: the focus change is forgotten. *)
SetActiveOutputQueuedNoFocus(b) ==
  /\ core1[b] = "waiting"
  /\ Len(txq[b]) < Slots(b)
  /\ txq' = [txq EXCEPT ![b] =
               Append(@, [type |-> "SELECT", data |-> request[b]])]
  /\ core1' = [core1 EXCEPT ![b] = "idle"]
  /\ request' = [request EXCEPT ![b] = NoPayload]
  /\ UNCHANGED <<sel, active, wire, core0, announce, focus, old, requests, reboots>>

(* ... and gets its slot; then the old host's keys and buttons go up. *)
SetActiveOutputQueued(b) ==
  /\ core1[b] = "waiting"
  /\ Len(txq[b]) < Slots(b)
  /\ txq' = [txq EXCEPT ![b] =
               Append(@, [type |-> "SELECT", data |-> request[b]])]
  /\ core1' = [core1 EXCEPT ![b] = "idle"]
  /\ request' = [request EXCEPT ![b] = NoPayload]
  /\ focus' = [focus EXCEPT ![b] = active[b]]
  /\ UNCHANGED <<sel, active, wire, core0, announce, old, requests, reboots>>

(* Core 0 after boot, while core 1 already handles input and packets:      *)
(* announce_initial_output encodes under the lock ...                      *)
AnnounceInitialOutput(b) ==
  /\ ~old[b] /\ core0[b] = "boot"
  /\ announce' = [announce EXCEPT ![b] = Encode(sel[b])]
  /\ core0' = [core0 EXCEPT ![b] = "announcing"]
  /\ UNCHANGED <<sel, active, txq, wire, core1, request, focus, old,
                 requests, reboots>>

(* ... and queues what it encoded, then starts the task loop. *)
AnnounceInitialOutputQueued(b) ==
  /\ core0[b] = "announcing"
  /\ Len(txq[b]) < TxCap
  /\ txq' = [txq EXCEPT ![b] =
               Append(@, [type |-> "SELECT", data |-> announce[b]])]
  /\ core0' = [core0 EXCEPT ![b] = "run"]
  /\ announce' = [announce EXCEPT ![b] = NoPayload]
  /\ UNCHANGED <<sel, active, wire, core1, request, focus, old, requests,
                 reboots>>

(* Mutant of Heartbeat: the state is repeated only until the board joined. *)
HeartbeatUntilJoined(b) ==
  /\ ~old[b] /\ core1[b] = "idle"
  /\ txq' = [txq EXCEPT ![b] = IF sel[b].joined THEN @ ELSE TryQueue(b, SyncFrame(sel[b]))]
  /\ UNCHANGED <<sel, active, wire, core0, announce, core1, request, focus,
                 old, requests, reboots>>

(* Core 1: the selection part of the 1 Hz heartbeat. *)
Heartbeat(b) ==
  /\ ~old[b] /\ core1[b] = "idle"
  /\ txq' = [txq EXCEPT ![b] = TryQueue(b, SyncFrame(sel[b]))]
  /\ UNCHANGED <<sel, active, wire, core0, announce, core1, request, focus,
                 old, requests, reboots>>

(* Core 0: process_uart_tx_task puts the oldest frame on the wire.  There  *)
(* is no flow control: a writer that laps the peer's receive ring costs    *)
(* the peer every unread frame.                                            *)
Transmit(b) ==
  /\ core0[b] = "run"
  /\ txq[b] # <<>>
  /\ wire' = [wire EXCEPT ![b] =
                IF Len(@) < WireCap THEN Append(@, Head(txq[b]))
                ELSE <<Head(txq[b])>>]
  /\ txq' = [txq EXCEPT ![b] = Tail(@)]
  /\ UNCHANGED <<sel, active, core0, announce, core1, request, focus, old,
                 requests, reboots>>

(* A frame is corrupted: the receiver's CRC check discards it. *)
Lose(b) ==
  /\ wire[b] # <<>>
  /\ wire' = [wire EXCEPT ![b] = Tail(@)]
  /\ UNCHANGED <<sel, active, txq, core0, announce, core1, request, focus, old,
                 requests, reboots>>

-----------------------------------------------------------------------------
(* Core 1: receive_output_selection, for the frame at the head of the wire *)
(* from the peer.                                                          *)
Incoming(b) == Head(wire[Peer(b)])

CanReceive(b) == ~old[b] /\ core1[b] = "idle" /\ wire[Peer(b)] # <<>>

Consume(b) == wire' = [wire EXCEPT ![Peer(b)] = Tail(@)]

ReceivesLegacy(b) == Incoming(b).type = "SELECT" /\ IsLegacy(Incoming(b).data)

ReceiveLegacy(b) ==
  /\ CanReceive(b) /\ ReceivesLegacy(b)
  /\ Consume(b)
  /\ sel' = [sel EXCEPT ![b] =
               LegacyRequest(@, Incoming(b).data.output, Peer(b))]
  /\ active' = [active EXCEPT ![b] = sel'[b].output]
  /\ focus' = [focus EXCEPT ![b] = active'[b]]
  /\ UNCHANGED <<txq, core0, announce, core1, request, old, requests, reboots>>

(* An accepted merge publishes the selected output, releases the keys and  *)
(* buttons of a host that lost the focus, and answers with its own state.  *)
ReceiveAccepted(b) ==
  /\ CanReceive(b) /\ ~ReceivesLegacy(b)
  /\ Decodable(Incoming(b).data)
  /\ MergeAccepts(sel[b], Decode(Incoming(b).data))
  /\ Consume(b)
  /\ sel' = [sel EXCEPT ![b] = Merge(@, Decode(Incoming(b).data), b)]
  /\ active' = [active EXCEPT ![b] = sel'[b].output]
  /\ focus' = [focus EXCEPT ![b] = IF active'[b] # active[b] THEN active'[b] ELSE @]
  /\ txq' = [txq EXCEPT ![b] = TryQueue(b, SyncFrame(sel'[b]))]
  /\ UNCHANGED <<core0, announce, core1, request, old, requests, reboots>>

(* Malformed frames return before the lock; a merge that is not accepted   *)
(* leaves the state as it was.                                             *)
ReceiveIgnored(b) ==
  /\ CanReceive(b) /\ ~ReceivesLegacy(b)
  /\ Decodable(Incoming(b).data) => ~MergeAccepts(sel[b], Decode(Incoming(b).data))
  /\ Consume(b)
  /\ UNCHANGED <<sel, active, txq, core0, announce, core1, request, focus, old,
                 requests, reboots>>

Receive(b) == ReceiveLegacy(b) \/ ReceiveAccepted(b) \/ ReceiveIgnored(b)

-----------------------------------------------------------------------------
(* A reset (watchdog, hotkey, power, update): the board's memory, its TX   *)
(* queue and the frames already in its receive ring are gone.  Booting     *)
(* takes longer than draining the link, so normally whatever either board  *)
(* had encoded by then has been sent, and parsed or lost, when the board   *)
(* comes back.  With LateFrames the peer may have been stalled that long:  *)
(* what it had queued, or not yet parsed, outlives the reset (and what     *)
(* does not is a Lose step before it).                                     *)
ResetLink(b) ==
  IF LateFrames
  THEN /\ UNCHANGED wire
       /\ txq' = [txq EXCEPT ![b] = <<>>]
       /\ core0' = [core0 EXCEPT ![b] = "boot"]
       /\ announce' = [announce EXCEPT ![b] = NoPayload]
  ELSE /\ wire' = [p \in Board |-> <<>>]
       /\ txq' = [p \in Board |-> <<>>]
       /\ core0' = [core0 EXCEPT ![b] = "boot",
                                 ![Peer(b)] = IF @ = "announcing" THEN "run" ELSE @]
       /\ announce' = [p \in Board |-> NoPayload]

Boot(b) ==
  /\ sel' = [sel EXCEPT ![b] = BootState]
  /\ active' = [active EXCEPT ![b] = 0]
  /\ focus' = [focus EXCEPT ![b] = 0]
  /\ core1' = [core1 EXCEPT ![b] = "idle"]
  /\ request' = [request EXCEPT ![b] = NoPayload]
  /\ ResetLink(b)

(* A board that ran older firmware comes back upgraded. *)
Reboot(b) ==
  /\ reboots < MaxReboots
  /\ reboots' = reboots + 1
  /\ Boot(b)
  /\ old' = [old EXCEPT ![b] = FALSE]
  /\ UNCHANGED requests

-----------------------------------------------------------------------------
(* Firmware without tokens, as far as the source describes it: it sends    *)
(* the output byte alone, obeys byte zero of every OUTPUT_SELECT_MSG and   *)
(* ignores the newer message id.                                           *)
OldBoot(b) ==
  /\ old[b] /\ core0[b] = "boot"
  /\ core0' = [core0 EXCEPT ![b] = "run"]
  /\ txq' = [txq EXCEPT ![b] =
               TryQueue(b, [type |-> "SELECT", data |-> LegacyPayload(0)])]
  /\ UNCHANGED <<sel, active, wire, announce, core1, request, focus, old,
                 requests, reboots>>

OldSwitch(b) ==
  /\ old[b] /\ core0[b] = "run"
  /\ requests < MaxRequests
  /\ requests' = requests + 1
  /\ active' = [active EXCEPT ![b] = 1 - @]
  /\ focus' = [focus EXCEPT ![b] = active'[b]]
  /\ txq' = [txq EXCEPT ![b] =
               TryQueue(b, [type |-> "SELECT", data |-> LegacyPayload(active'[b])])]
  /\ UNCHANGED <<sel, wire, core0, announce, core1, request, old, reboots>>

OldReceive(b) ==
  /\ old[b] /\ wire[Peer(b)] # <<>>
  /\ Consume(b)
  /\ active' = [active EXCEPT ![b] = IF Incoming(b).type = "SELECT"
                                     THEN Incoming(b).data.output ELSE @]
  /\ focus' = [focus EXCEPT ![b] = active'[b]]
  /\ UNCHANGED <<sel, txq, core0, announce, core1, request, old, requests, reboots>>

Next ==
  \E b \in Board :
    \/ SetActiveOutput(b) \/ SetActiveOutputQueued(b)
    \/ AnnounceInitialOutput(b) \/ AnnounceInitialOutputQueued(b)
    \/ Heartbeat(b) \/ Transmit(b) \/ Lose(b)
    \/ ReceiveLegacy(b) \/ ReceiveAccepted(b) \/ ReceiveIgnored(b)
    \/ Reboot(b)
    \/ OldBoot(b) \/ OldSwitch(b) \/ OldReceive(b)

Spec == Init /\ [][Next]_vars

(* Both task loops keep running; a slot that keeps opening is eventually   *)
(* found by the core that waits for one; a frame that keeps being sent     *)
(* eventually arrives intact.                                              *)
Fairness ==
  \A b \in Board :
    /\ WF_vars(AnnounceInitialOutput(b)) /\ WF_vars(AnnounceInitialOutputQueued(b))
    /\ WF_vars(OldBoot(b))
    /\ SF_vars(SetActiveOutputQueued(b)) /\ SF_vars(Heartbeat(b))
    /\ WF_vars(Transmit(b)) /\ SF_vars(Receive(b)) /\ WF_vars(OldReceive(b))
-----------------------------------------------------------------------------
(* Properties. *)

Zero(s) == s.counter = 0 /\ s.origin = 0 /\ s.output = 0

(* The three phases exclude each other, and a board in none of them is     *)
(* still at its boot default.                                              *)
PhasesOK(s) ==
  /\ ~(s.joined /\ s.joining) /\ ~(s.joined /\ s.pending) /\ ~(s.joining /\ s.pending)
  /\ EmptyBoot(s) => Zero(s)

PhasesConsistent == \A b \in Board : PhasesOK(sel[b])

GoodFrame == {f \in Frame : IsLegacy(f.data) \/ Decodable(f.data)}

(* Whatever a board has encoded, however long ago and whatever happened    *)
(* since, its peer's selection_decode accepts (no selection is lost to     *)
(* the decoder's checks), unless it is a legacy frame.                     *)
FramesDecode ==
  \A b \in Board :
    /\ txq[b] \in Seq(GoodFrame) /\ wire[b] \in Seq(GoodFrame)
    /\ core1[b] = "waiting" => Decodable(request[b])
    /\ core0[b] = "announcing" => Decodable(announce[b])

(* Outside set_active_output, reports are routed by the output of the      *)
(* accepted token, and every change of it has gone through                 *)
(* keyboard_focus_changed: no key stays down on a host that lost focus.    *)
RoutingFollowsToken ==
  \A b \in Board :
    /\ ~old[b] => active[b] = sel[b].output
    /\ core1[b] = "idle" => focus[b] = active[b]

(* A joined board's token is replaced only by a newer one (a reset apart): *)
(* no delayed, repeated or stale frame takes a switch back.                *)
TokensAdvance ==
  [][\A b \in Board :
       sel[b].joined /\ sel'[b] # BootState
         => sel'[b] = sel[b] \/ TokenNewer(sel'[b], sel[b])]_vars

(* Two boards that hold the same token route to the same host.  Equal      *)
(* tokens never update each other, so a violation would never heal.  It    *)
(* needs that no frame outlives a reset (LateFrames FALSE): a late frame   *)
(* may carry a token that the board, after its reset, has made once more.  *)
OneOutputPerToken ==
  (\A b \in Board : sel[b].joined) /\ sel[0].counter = sel[1].counter
     /\ sel[0].origin = sel[1].origin
   => sel[0].output = sel[1].output

Agreed ==
  /\ \A b \in Board : sel[b].joined /\ core1[b] = "idle"
  /\ active[0] = active[1]

(* Once the user stops switching and the boards stop rebooting, both       *)
(* boards (on current firmware) join and agree for good, whatever was      *)
(* lost, delayed or refused by a full queue.                               *)
Converges == <>[]((\A b \in Board : ~old[b]) => Agreed)
=============================================================================
