-------------------------------- MODULE Mouse --------------------------------
(***************************************************************************)
(* Mouse buttons on two boards and two hosts.                              *)
(*                                                                         *)
(* Mice may be attached to both boards; the board of the selected output   *)
(* (the active one) reports the union of the buttons held on either board  *)
(* to its host.  A board forwards its own mask with every physical report  *)
(* while it is inactive, mirrors changes with MOUSE_BUTTONS_SYNC_MSG while *)
(* it is active, and repeats its mask once a second.  Reports go to one of *)
(* two HID interfaces (absolute or relative), which hold a button each on  *)
(* its own.                                                                *)
(*                                                                         *)
(* One button stands for the mask: every operation on it is bitwise.       *)
(* Positions, wheels and acceleration are left out; crossing a screen edge *)
(* is a choice of the environment.  Packet handlers and mouse reports all  *)
(* run on core 1, the mouse queue is drained by core 0.  The boards have   *)
(* heard each other's first heartbeat (peer_mouse_state_known).            *)
(***************************************************************************)
EXTENDS Integers, Sequences, FiniteSets

CONSTANTS
  Mice,            \* mouse interfaces of a board
  QueueCap,        \* slots of the mouse queue
  WireCap,         \* frames between core 1 of a board and its peer's parser
  MaxEvents,       \* bound: physical reports, hotkeys, unplugged mice and faults
  MaxFaults        \* bound: lost frames and USB disconnects among them

Board == {0, 1}
Peer(b) == 1 - b

ASSUME CapAssumption == QueueCap \in Nat /\ QueueCap > 1 /\ WireCap \in Nat /\ WireCap > 2
ASSUME MouseBounds == MaxEvents \in Nat /\ MaxFaults \in Nat

Report == [down : BOOLEAN, rel : BOOLEAN]
Token == [counter : Nat, origin : Board, output : Board]

Message ==
  [type : {"SOURCE", "NONMOTION", "SYNTHETIC"}, down : BOOLEAN, rel : BOOLEAN]
    \cup [type : {"BUTTONS"}, down : BOOLEAN, detached : BOOLEAN]
    \cup [type : {"SELECT"}, token : Token]
    \cup [type : {"GAMING"}, on : BOOLEAN]

VARIABLES
  held,     \* held[b]: interfaces whose iface.mouse_buttons is set
  peer,     \* peer[b]: peer_mouse_buttons, the mirror of the other board's mask
  token,    \* token[b]: the selection; its output is active_output
  gaming,   \* gaming[b]: gaming_mode, which makes reports relative
  queue,    \* queue[b]: mouse_queue
  mounted,  \* mounted[b]: tud_connected
  host,     \* host[b]: for each interface (relative or not), button down at the host
  wire,     \* wire[b]: frames b has queued and its peer has not handled
  ended,    \* ended[b]: b's host was told all-up when the selection left it,
            \* and no edge report of a drag has come for it since (history)
  inputs, faults

vars == <<held, peer, token, gaming, queue, mounted, host, wire, ended,
          inputs, faults>>

MouseTypeOK ==
  /\ held \in [Board -> SUBSET Mice]
  /\ peer \in [Board -> BOOLEAN]
  /\ token \in [Board -> Token]
  /\ gaming \in [Board -> BOOLEAN]
  /\ queue \in [Board -> Seq(Report)]
  /\ mounted \in [Board -> BOOLEAN]
  /\ host \in [Board -> [BOOLEAN -> BOOLEAN]]
  /\ wire \in [Board -> Seq(Message)]
  /\ ended \in [Board -> BOOLEAN]
  /\ inputs \in Nat /\ faults \in Nat
  /\ \A b \in Board : Len(queue[b]) <= QueueCap /\ Len(wire[b]) <= WireCap

Init ==
  /\ held = [b \in Board |-> {}]
  /\ peer = [b \in Board |-> FALSE]
  /\ token = [b \in Board |-> [counter |-> 0, origin |-> 0, output |-> 0]]
  /\ gaming = [b \in Board |-> FALSE]
  /\ queue = [b \in Board |-> <<>>]
  /\ mounted = [b \in Board |-> TRUE]
  /\ host = [b \in Board |-> [r \in BOOLEAN |-> FALSE]]
  /\ wire = [b \in Board |-> <<>>]
  /\ ended = [b \in Board |-> FALSE]
  /\ inputs = 0
  /\ faults = 0

-----------------------------------------------------------------------------
Active(b) == token[b].output = b              \* CURRENT_BOARD_IS_ACTIVE_OUTPUT
Local(b) == held[b] # {}                      \* local_mouse_buttons

(* combined_mouse_buttons *)
Combined(b) == Local(b) \/ peer[b]

Up(rel) == [down |-> FALSE, rel |-> rel]

Buttons(down, detached) ==
  [type |-> "BUTTONS", down |-> down, detached |-> detached]

Select(t) == [type |-> "SELECT", token |-> t]

(* queue_try_add for each element in turn: what does not fit is dropped. *)
TryAdd(seq, cap, new) ==
  seq \o SubSeq(new, 1, IF Len(new) <= cap - Len(seq) THEN Len(new) ELSE cap - Len(seq))

(* queue_mouse_report: nothing is queued for an unmounted host. *)
Queued(b, reports) ==
  IF mounted[b] THEN TryAdd(queue[b], QueueCap, reports) ELSE queue[b]

(* queue_packet: a full queue drops the frame. *)
Sent(b, msgs) == TryAdd(wire[b], WireCap, msgs)

(* Mutant of QueueCritical: no wait for room. *)
QueueCriticalAtOnce(b, before, reports) ==
  queue' = [queue EXCEPT ![b] = before \o IF mounted[b] THEN reports ELSE <<>>]

(* queue_mouse_report_critical: waits for core 0 to make room.  before is  *)
(* the queue when it is called.  That it gives up after 100 ms and asks    *)
(* for a reboot is the subject of FirmwarePull.                            *)
QueueCritical(b, before, reports) ==
  LET added == IF mounted[b] THEN reports ELSE <<>>
  IN  /\ Len(before) + Len(added) <= QueueCap
      /\ queue' = [queue EXCEPT ![b] = before \o added]

(* release_mouse_host_buttons, at every change of active_output: a held    *)
(* button goes up on both interfaces of this board's host.  Its two waits, *)
(* one for each report, are one.                                           *)
ReleaseHost(b, before) ==
  /\ QueueCritical(b, before, IF Combined(b)' THEN <<Up(FALSE), Up(TRUE)>> ELSE <<>>)
  /\ ended' = [ended EXCEPT ![b] = token'[b].output # b /\ mounted[b] /\ Combined(b)']

(* set_active_output for the other output: msgs and reports are what the   *)
(* caller queued first; OUTPUT_SELECT_MSG waits for a slot.                *)
SetActiveOutput(b, msgs, reports) ==
  /\ token' = [token EXCEPT ![b] = [counter |-> @.counter + 1, origin |-> b,
                                    output |-> 1 - @.output]]
  /\ Len(wire[b]) + Len(msgs) < WireCap
  /\ wire' = [wire EXCEPT ![b] = @ \o msgs \o <<Select(token'[b])>>]
  /\ ReleaseHost(b, Queued(b, reports))

(* output_mouse_report: a synthetic report to wherever the output is, with *)
(* the message type of a peer that has announced itself.                   *)
SyntheticMsgs(b, reports) ==
  IF Active(b) THEN <<>>
  ELSE [i \in DOMAIN reports |->
          [type |-> "SYNTHETIC", down |-> reports[i].down, rel |-> reports[i].rel]]

SyntheticReports(b, reports) == IF Active(b) THEN reports ELSE <<>>

-----------------------------------------------------------------------------
(* process_mouse_report up to the screen switch: interface m reports its   *)
(* button as d, with or without motion.  A report of neither motion nor a  *)
(* change is one of the wheel; without that it is ignored.                 *)
Observe(b, m, d, moved) ==
  /\ inputs + faults < MaxEvents
  /\ inputs' = inputs + 1
  /\ held' = [held EXCEPT ![b] = IF d THEN @ \cup {m} ELSE @ \ {m}]
  /\ UNCHANGED <<peer, gaming, mounted, host, faults>>

PhysicalMsgs(b, moved) ==
  IF Active(b)
  THEN IF Local(b)' # Local(b) THEN <<Buttons(Local(b)', FALSE)>> ELSE <<>>
  ELSE <<[type |-> IF moved THEN "SOURCE" ELSE "NONMOTION",
          down |-> Local(b)', rel |-> gaming[b]]>>

PhysicalReports(b) ==
  IF Active(b) THEN <<[down |-> Combined(b)', rel |-> gaming[b]]>> ELSE <<>>

(* The pointer stays on its screen. *)
MouseReport(b, m, d, moved) ==
  /\ Observe(b, m, d, moved)
  /\ queue' = [queue EXCEPT ![b] = Queued(b, PhysicalReports(b))]
  /\ wire' = [wire EXCEPT ![b] = Sent(b, PhysicalMsgs(b, moved))]
  /\ UNCHANGED <<token, ended>>

(* It crosses the border to the other computer (do_screen_switch and       *)
(* switch_to_another_pc): the pointer is parked at the old output.         *)
CrossBorder(b, m, d) ==
  /\ Observe(b, m, d, TRUE)
  /\ ~gaming[b] /\ ~Combined(b)'
  /\ SetActiveOutput(b, PhysicalMsgs(b, TRUE) \o SyntheticMsgs(b, <<Up(FALSE)>>),
                     PhysicalReports(b) \o SyntheticReports(b, <<Up(FALSE)>>))

(* It crosses to another desktop of a macOS host: an absolute report at    *)
(* the edge with the buttons, then relative motion without.                *)
CrossDesktop(b, m, d) ==
  /\ Observe(b, m, d, TRUE)
  /\ ~gaming[b]
  /\ LET steps == <<[down |-> Combined(b)', rel |-> FALSE], Up(TRUE)>>
     IN  /\ queue' = [queue EXCEPT ![b] =
                        Queued(b, PhysicalReports(b) \o SyntheticReports(b, steps))]
         /\ wire' = [wire EXCEPT ![b] =
                       Sent(b, PhysicalMsgs(b, TRUE) \o SyntheticMsgs(b, steps))]
  /\ UNCHANGED <<token, ended>>

(* mouse_interface_removed: the peer hears of it for certain, and so does  *)
(* the host of an active board.                                            *)
Unplug(b, m) ==
  /\ inputs + faults < MaxEvents
  /\ inputs' = inputs + 1
  /\ m \in held[b]
  /\ held' = [held EXCEPT ![b] = @ \ {m}]
  /\ UNCHANGED peer
  /\ IF Local(b)'
     THEN UNCHANGED <<wire, queue>>
     ELSE /\ Len(wire[b]) < WireCap
          /\ wire' = [wire EXCEPT ![b] = Append(@, Buttons(FALSE, TRUE))]
          /\ IF Active(b)
             THEN QueueCritical(b, queue[b], <<[down |-> Combined(b)', rel |-> gaming[b]]>>)
             ELSE UNCHANGED queue
  /\ UNCHANGED <<token, gaming, mounted, host, ended, faults>>

(* output_toggle_hotkey_handler *)
ToggleOutput(b) ==
  /\ inputs + faults < MaxEvents
  /\ inputs' = inputs + 1
  /\ UNCHANGED <<held, peer>>
  /\ SetActiveOutput(b, <<>>, <<>>)
  /\ UNCHANGED <<gaming, mounted, host, faults>>

(* toggle_gaming_mode_handler *)
ToggleGaming(b) ==
  /\ inputs + faults < MaxEvents
  /\ inputs' = inputs + 1
  /\ gaming' = [gaming EXCEPT ![b] = ~@]
  /\ wire' = [wire EXCEPT ![b] = Sent(b, <<[type |-> "GAMING", on |-> ~gaming[b]]>>)]
  /\ UNCHANGED <<held, peer, token, queue, mounted, host, ended, faults>>

(* Mutant of Heartbeat: the mask is not repeated. *)
HeartbeatWithoutButtons(b) ==
  /\ wire[b] = <<>>
  /\ wire' = [wire EXCEPT ![b] = Sent(b, <<Select(token[b])>>)]
  /\ UNCHANGED <<held, peer, token, gaming, queue, mounted, host, ended,
                 inputs, faults>>

(* The part of heartbeat_output_task that concerns the mouse.  Once a      *)
(* second it finds an idle link, which is where it is modelled.            *)
Heartbeat(b) ==
  /\ wire[b] = <<>>
  /\ wire' = [wire EXCEPT ![b] =
                Sent(b, <<Buttons(Local(b), FALSE), Select(token[b])>>)]
  /\ UNCHANGED <<held, peer, token, gaming, queue, mounted, host, ended,
                 inputs, faults>>

-----------------------------------------------------------------------------
(* Core 1 takes the oldest frame from the peer; replies are frames of its  *)
(* own.                                                                    *)
Take(b, type) ==
  /\ wire[Peer(b)] # <<>>
  /\ Head(wire[Peer(b)]).type = type

Incoming(b) == Head(wire[Peer(b)])

Taken(b, replies) ==
  wire' = [wire EXCEPT ![Peer(b)] = Tail(@), ![b] = Sent(b, replies)]

(* Mutant of ReceiveSource: a frame for the previous output is not told    *)
(* apart.                                                                  *)
ReceiveSourceAnywhere(b) ==
  /\ Take(b, "SOURCE")
  /\ Taken(b, <<>>)
  /\ peer' = [peer EXCEPT ![b] = Incoming(b).down]
  /\ UNCHANGED held
  /\ queue' = [queue EXCEPT ![b] =
                 Queued(b, <<[down |-> Combined(b)', rel |-> Incoming(b).rel]>>)]
  /\ UNCHANGED <<token, gaming, mounted, host, ended, inputs, faults>>

(* handle_mouse_source_uart_msg, handle_mouse_abs_uart_msg *)
ReceiveSource(b) ==
  /\ Take(b, "SOURCE")
  /\ Taken(b, <<>>)
  /\ peer' = [peer EXCEPT ![b] = Incoming(b).down]
  /\ UNCHANGED held
  /\ queue' = [queue EXCEPT ![b] =
                 IF Active(b)
                 THEN Queued(b, <<[down |-> Combined(b)', rel |-> Incoming(b).rel]>>)
                 ELSE @]
  /\ UNCHANGED <<token, gaming, mounted, host, ended, inputs, faults>>

(* handle_mouse_nonmotion_uart_msg *)
ReceiveNonmotion(b) ==
  /\ Take(b, "NONMOTION")
  /\ Taken(b, <<>>)
  /\ peer' = [peer EXCEPT ![b] = Incoming(b).down]
  /\ UNCHANGED held
  /\ queue' = [queue EXCEPT ![b] =
                 IF Active(b)
                 THEN Queued(b, <<[down |-> Combined(b)',
                                   rel |-> gaming[b] \/ Incoming(b).rel]>>)
                 ELSE @]
  /\ UNCHANGED <<token, gaming, mounted, host, ended, inputs, faults>>

(* handle_mouse_synthetic_uart_msg: queued as it is, whatever the output. *)
ReceiveSynthetic(b) ==
  /\ Take(b, "SYNTHETIC")
  /\ Taken(b, <<>>)
  /\ queue' = [queue EXCEPT ![b] =
                 Queued(b, <<[down |-> Incoming(b).down, rel |-> Incoming(b).rel]>>)]
  /\ ended' = [ended EXCEPT ![b] = @ /\ ~Incoming(b).down]
  /\ UNCHANGED <<held, peer, token, gaming, mounted, host, inputs, faults>>

(* handle_mouse_buttons_sync_msg: only a detached mouse makes a report. *)
ReceiveButtons(b) ==
  /\ Take(b, "BUTTONS")
  /\ Taken(b, <<>>)
  /\ peer' = [peer EXCEPT ![b] = Incoming(b).down]
  /\ UNCHANGED held
  /\ IF Incoming(b).detached /\ Combined(b)' # Combined(b) /\ Active(b)
     THEN QueueCritical(b, queue[b], <<[down |-> Combined(b)', rel |-> gaming[b]]>>)
     ELSE UNCHANGED queue
  /\ UNCHANGED <<token, gaming, mounted, host, ended, inputs, faults>>

(* handle_toggle_gaming_msg *)
ReceiveGaming(b) ==
  /\ Take(b, "GAMING")
  /\ Taken(b, <<>>)
  /\ gaming' = [gaming EXCEPT ![b] = Incoming(b).on]
  /\ UNCHANGED <<held, peer, token, queue, mounted, host, ended, inputs, faults>>

(* The order of selection tokens (Selection has the whole protocol). *)
Newer(t, u) ==
  t.counter > u.counter \/ (t.counter = u.counter /\ t.origin > u.origin)

(* receive_output_selection between joined boards. *)
ReceiveSelect(b) ==
  /\ Take(b, "SELECT")
  /\ LET t == Incoming(b).token
         accepted == Newer(t, token[b])
     IN  /\ token' = [token EXCEPT ![b] = IF accepted THEN t ELSE @]
         /\ UNCHANGED <<held, peer>>
         /\ IF accepted /\ t.output # token[b].output
            THEN ReleaseHost(b, queue[b]) ELSE UNCHANGED <<queue, ended>>
         /\ Taken(b, IF accepted THEN <<Select(token'[b])>> ELSE <<>>)
  /\ UNCHANGED <<gaming, mounted, host, inputs, faults>>

Receive(b) ==
  \/ ReceiveSource(b) \/ ReceiveNonmotion(b) \/ ReceiveSynthetic(b)
  \/ ReceiveButtons(b) \/ ReceiveGaming(b) \/ ReceiveSelect(b)

-----------------------------------------------------------------------------
(* process_mouse_queue_task on core 0: the host gets the oldest report. *)
Drain(b) ==
  /\ mounted[b] /\ queue[b] # <<>>
  /\ host' = [host EXCEPT ![b][Head(queue[b]).rel] = Head(queue[b]).down]
  /\ queue' = [queue EXCEPT ![b] = Tail(@)]
  /\ UNCHANGED <<held, peer, token, gaming, mounted, wire, ended, inputs, faults>>

(* The host goes away and forgets the device; the queue stays. *)
Unmount(b) ==
  /\ faults < MaxFaults /\ inputs + faults < MaxEvents
  /\ faults' = faults + 1
  /\ mounted[b]
  /\ mounted' = [mounted EXCEPT ![b] = FALSE]
  /\ host' = [host EXCEPT ![b] = [r \in BOOLEAN |-> FALSE]]
  /\ UNCHANGED <<held, peer, token, gaming, queue, wire, ended, inputs>>

Mount(b) ==
  /\ ~mounted[b]
  /\ mounted' = [mounted EXCEPT ![b] = TRUE]
  /\ UNCHANGED <<held, peer, token, gaming, queue, host, wire, ended,
                 inputs, faults>>

(* A frame is lost on the way to board b. *)
Lose(b) ==
  /\ faults < MaxFaults /\ inputs + faults < MaxEvents
  /\ faults' = faults + 1
  /\ wire[Peer(b)] # <<>>
  /\ Taken(b, <<>>)
  /\ UNCHANGED <<held, peer, token, gaming, queue, mounted, host, ended, inputs>>

Next ==
  \E b \in Board :
    \/ \E m \in Mice, d \in BOOLEAN :
         \/ \E moved \in BOOLEAN : MouseReport(b, m, d, moved)
         \/ CrossBorder(b, m, d)
         \/ CrossDesktop(b, m, d)
    \/ \E m \in Mice : Unplug(b, m)
    \/ ToggleOutput(b) \/ ToggleGaming(b) \/ Heartbeat(b)
    \/ Receive(b) \/ Drain(b) \/ Unmount(b) \/ Mount(b) \/ Lose(b)

(* Both cores' loops keep running, and the link is idle once in a while    *)
(* when the heartbeat is due.                                              *)
Fairness ==
  \A b \in Board :
    /\ WF_vars(Receive(b)) /\ WF_vars(Drain(b))
    /\ SF_vars(Heartbeat(b))

Spec == Init /\ [][Next]_vars /\ Fairness

-----------------------------------------------------------------------------
(* What interface rel of board b's host will show once the queue has been  *)
(* drained.                                                                *)
WillShow(b, rel) ==
  LET of == {i \in DOMAIN queue[b] : queue[b][i].rel = rel}
  IN  IF of = {} THEN host[b][rel]
      ELSE queue[b][CHOOSE i \in of : \A j \in of : j <= i].down

(* A drag that a board knows of ends with its focus: from the moment the   *)
(* selection leaves a mounted host with a button held, neither interface   *)
(* of it will show the button until the selection returns, whatever        *)
(* physical report is still in flight or queued and whatever is lost,      *)
(* unplugged or reconnected.  The one exception is the edge report of a    *)
(* desktop crossing: handle_mouse_uart_report looks at the output only for *)
(* a physical report.                                                      *)
HeldDragEnds ==
  \A b \in Board : ended[b] => \A rel \in BOOLEAN : ~WillShow(b, rel)

(* Lost frames leave no trace: after the last input both boards end up     *)
(* with one selection and true mirrors of each other's buttons.            *)
MirrorsConverge ==
  <>[](token[0] = token[1] /\ \A b \in Board : peer[b] = Local(Peer(b)))
=============================================================================
