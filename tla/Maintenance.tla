----------------------------- MODULE Maintenance -----------------------------
(***************************************************************************)
(* How a console command puts a board, this one or the peer, into its ROM  *)
(* bootloader (maintenance.c), beside everything that must not happen at   *)
(* the same time: a firmware pull, a reboot, the bootloader requests of    *)
(* the web page and of the keyboard.  A client asks, a server admits, and  *)
(* from then on the board is reserved until it resets or gives up.         *)
(*                                                                         *)
(* Deadlines are not counted: a step that the code takes when one has      *)
(* passed may be taken at any time.  One exception: the three seconds for  *)
(* which a board counts as a source (LeaseExpires) are taken to outlast    *)
(* the pauses of a peer that pulls.  Core 1 parses frames and pulls        *)
(* firmware, the rest is core 0.  An action is one critical section of the *)
(* firmware lock, or the code of one core between two of them.             *)
(***************************************************************************)
EXTENDS Integers, Sequences, FiniteSets

CONSTANTS
  Older,         \* boards whose peer advertises newer firmware
  TxCap,         \* slots of uart_tx_queue
  WireCap,       \* frames between the UART and the peer's parser
  IngressCap,    \* slots of the hand-over from core 1 to core 0: 8
  MaxEvents      \* bound: console commands, bootloader requests of the web page
                 \* or the keyboard, pulls begun, resets and corrupted frames

Board == {0, 1}
Peer(b) == 1 - b

ASSUME MaintAssumption ==
  /\ Older \subseteq Board
  /\ {TxCap, WireCap, IngressCap} \subseteq Nat \ {0}
  /\ MaxEvents \in Nat

VARIABLES
  client,     \* client[b]: client_phase, client_payload, client_config, ...
  server,     \* server[b]: server_phase, server_payload, last_request, ...
  reserved,   \* reserved[b]: maintenance_reserved
  console,    \* console[b]: what the console waits for
  web,        \* web[b]: config_bootloader_peer_pending, ..._local_pending
  reboot,     \* reboot[b]: reboot_requested
  rom,        \* rom[b]: what put b into its ROM bootloader
  txq,        \* txq[b]: uart_tx_queue
  out,        \* out[b]: the frame in b's DMA channel and UART, if any
  wire,       \* wire[b]: frames from b that the peer has not parsed
  ingress,    \* ingress[b]: maintenance frames core 1 has handed to core 0
  answering,  \* answering[b]: core 1 waits for a slot for a firmware word
  pull,       \* pull[b]: b's own update, from its peer or its host, see Pull
  older,      \* older[b]: b runs older firmware than its peer
  lease,      \* lease[b]: b has served a firmware word in the last 3 s
  events      \* number of events so far

maint   == <<client, server, reserved, console>>
link    == <<txq, out, wire, ingress, answering>>
updater == <<pull, older, lease>>
vars    == <<maint, web, reboot, rom, link, updater, events>>

(* The payload of a request: the board and boot session it came from and   *)
(* its token, numbered through.  Number 0 stands for no request, and for   *)
(* the paths into the ROM that do not go through maintenance.c.            *)
Request   == [from : Board, n : 1 .. MaxEvents]
NoRequest == [from |-> 0, n |-> 0]
Shortcut  == [from |-> 1, n |-> 0]
AnyRequest == Request \cup {NoRequest, Shortcut}

Status  == {"ACCEPTED", "BUSY", "UPDATE_ACTIVE", "REBOOT_PENDING"}
Outcome == Status \cup {"NONE", "LOCAL_READY", "NOT_SENT", "UNCONFIRMED", "ABORTED"}

Client == [phase : {"IDLE", "LOCAL", "ADMISSION", "REPLY"}, req : AnyRequest,
           config : BOOLEAN, done : BOOLEAN, result : Outcome]
Server == [phase : {"IDLE", "ACK", "DRAIN"}, req : AnyRequest, status : Status,
           queued : BOOLEAN, sent : BOOLEAN]

MaintFrame == [type : {"REQUEST"}, req : Request]
                \cup [type : {"ACK"}, req : Request, status : Status]
Frame == MaintFrame \cup [type : {"UPGRADE", "ASK", "WORD"}]

NoClient == [phase |-> "IDLE", req |-> NoRequest, config |-> FALSE,
             done |-> FALSE, result |-> "NONE"]
NoServer == [phase |-> "IDLE", req |-> NoRequest, status |-> "BUSY",
             queued |-> FALSE, sent |-> FALSE]

(* "dirty" and "resumed" are one state of the code, a slot partly written  *)
(* and a pull that asks for more: "dirty" if the peer has served this      *)
(* attempt since it booted.  "drop": a host writes the slot.               *)
Pull == {"none", "clean", "dirty", "resumed", "paused", "drop"}

MaintTypeOK ==
  /\ client \in [Board -> Client] /\ server \in [Board -> Server]
  /\ console \in [Board -> {"IDLE", "WAIT", "REPLY"}]
  /\ web \in [Board -> SUBSET {"PEER", "LOCAL"}]
  /\ rom \in [Board -> AnyRequest]
  /\ pull \in [Board -> Pull]
  /\ reserved \in [Board -> BOOLEAN] /\ reboot \in [Board -> BOOLEAN]
  /\ answering \in [Board -> BOOLEAN] /\ older \in [Board -> BOOLEAN]
  /\ lease \in [Board -> BOOLEAN]
  /\ txq \in [Board -> Seq(Frame)] /\ out \in [Board -> Seq(Frame)]
  /\ wire \in [Board -> Seq(Frame)] /\ ingress \in [Board -> Seq(MaintFrame)]
  /\ \A b \in Board : /\ Len(txq[b]) <= TxCap /\ Len(out[b]) <= 1
                      /\ Len(wire[b]) <= WireCap /\ Len(ingress[b]) <= IngressCap
  /\ events \in 0 .. MaxEvents

Init ==
  /\ client = [b \in Board |-> NoClient] /\ server = [b \in Board |-> NoServer]
  /\ reserved = [b \in Board |-> FALSE] /\ console = [b \in Board |-> "IDLE"]
  /\ web = [b \in Board |-> {}]
  /\ reboot = [b \in Board |-> FALSE] /\ rom = [b \in Board |-> NoRequest]
  /\ txq = [b \in Board |-> <<>>] /\ out = [b \in Board |-> <<>>]
  /\ wire = [b \in Board |-> <<>>] /\ ingress = [b \in Board |-> <<>>]
  /\ answering = [b \in Board |-> FALSE]
  /\ pull = [b \in Board |-> "none"] /\ older = [b \in Board |-> b \in Older]
  /\ lease = [b \in Board |-> FALSE]
  /\ events = 0

-----------------------------------------------------------------------------
Up(b) == rom[b] = NoRequest

Event == events < MaxEvents /\ events' = events + 1

Room(b) == Len(txq[b]) < TxCap

Send(b, frame) == txq' = [txq EXCEPT ![b] = Append(@, frame)]

Pulling(b) == pull[b] \in {"clean", "dirty", "resumed"}

WireIdle(b) == txq[b] = <<>> /\ out[b] = <<>>

(* Mutant of Updating: a board that only serves firmware is not updating. *)
UpdatingSelf(b) == pull[b] # "none"

Updating(b) == pull[b] # "none" \/ lease[b]

(* safety_locked *)
Safe(b) == ~reboot[b] /\ ~Updating(b) /\ web[b] = {}

(* update_reservation_locked *)
Reserves(c, s) ==
  c.phase # "IDLE" \/ (s.phase # "IDLE" /\ s.status = "ACCEPTED")

SetClient(b, c) ==
  /\ client' = [client EXCEPT ![b] = c]
  /\ reserved' = [reserved EXCEPT ![b] = Reserves(c, server[b])]
  /\ UNCHANGED server

SetServer(b, s) ==
  /\ server' = [server EXCEPT ![b] = s]
  /\ reserved' = [reserved EXCEPT ![b] = Reserves(client[b], s)]
  /\ UNCHANGED client

(* finish_client; the payload of an idle client is not looked at. *)
Finished(outcome) == [NoClient EXCEPT !.result = outcome]

-----------------------------------------------------------------------------
(* The console. *)

(* begin_console_maintenance and request; a refusal changes nothing. *)
Begin(b, target, config) ==
  /\ Up(b) /\ console[b] = "IDLE" /\ Event
  /\ client[b].phase = "IDLE" /\ server[b].phase = "IDLE" /\ client[b].result = "NONE"
  /\ Safe(b)
  /\ config => target = b
  /\ SetClient(b, [phase |-> IF target = b THEN "LOCAL" ELSE "ADMISSION",
                   req |-> [from |-> b, n |-> events'], config |-> config,
                   done |-> FALSE,
                   result |-> IF target = b THEN "LOCAL_READY" ELSE "NONE"])
  /\ console' = [console EXCEPT ![b] = "WAIT"]
  /\ UNCHANGED <<web, reboot, rom, link, updater>>

(* poll_bootloader *)
Poll(b) ==
  /\ Up(b) /\ client[b].result # "NONE"
  /\ SetClient(b, [client[b] EXCEPT !.result = "NONE"])
  /\ console' = [console EXCEPT ![b] =
                   IF @ # "IDLE" /\ client[b].result = "LOCAL_READY" THEN "REPLY" ELSE "IDLE"]
  /\ UNCHANGED <<web, reboot, rom, link, updater, events>>

(* The host has read the whole reply: maintenance_console_reply_complete,  *)
(* in time or not.                                                         *)
ReplyComplete(b) ==
  /\ Up(b) /\ console[b] = "REPLY"
  /\ console' = [console EXCEPT ![b] = "WAIT"]
  /\ \/ client[b].phase = "LOCAL" /\ SetClient(b, [client[b] EXCEPT !.done = TRUE])
     \/ UNCHANGED <<client, server, reserved>>
  /\ UNCHANGED <<web, reboot, rom, link, updater, events>>

(* Mutant of Cancel: the reservation is forgotten. *)
CancelKeepsReservation(b) ==
  /\ Up(b) /\ console[b] # "IDLE"
  /\ client' = [client EXCEPT ![b] = Finished("NONE")]
  /\ console' = [console EXCEPT ![b] = "IDLE"]
  /\ UNCHANGED <<server, reserved, web, reboot, rom, link, updater, events>>

(* maintenance_cancel: the terminal was closed or the console gave up. *)
Cancel(b) ==
  /\ Up(b) /\ console[b] # "IDLE"
  /\ SetClient(b, Finished("NONE"))
  /\ console' = [console EXCEPT ![b] = "IDLE"]
  /\ UNCHANGED <<web, reboot, rom, link, updater, events>>

-----------------------------------------------------------------------------
(* maintenance_task: the client. *)

(* No longer safe, or out of time. *)
ClientGivesUp(b) ==
  /\ Up(b) /\ client[b].phase # "IDLE"
  /\ SetClient(b, Finished(CASE client[b].phase = "REPLY" -> "UNCONFIRMED"
                             [] client[b].phase = "ADMISSION" /\ Safe(b) -> "NOT_SENT"
                             [] OTHER -> "ABORTED"))
  /\ UNCHANGED <<console, web, reboot, rom, link, updater, events>>

(* The local board resets: into the ROM, or into configuration mode. *)
LocalEnter(b) ==
  /\ Up(b) /\ client[b].phase = "LOCAL" /\ Safe(b)
  /\ client[b].done /\ WireIdle(b)
  /\ SetClient(b, [client[b] EXCEPT !.phase = "IDLE"])
  /\ IF client[b].config
     THEN reboot' = [reboot EXCEPT ![b] = TRUE] /\ UNCHANGED rom
     ELSE rom' = [rom EXCEPT ![b] = client[b].req] /\ UNCHANGED reboot
  /\ UNCHANGED <<console, web, link, updater, events>>

Admit(b) ==
  /\ Up(b) /\ client[b].phase = "ADMISSION" /\ Safe(b) /\ Room(b)
  /\ Send(b, [type |-> "REQUEST", req |-> client[b].req])
  /\ SetClient(b, [client[b] EXCEPT !.phase = "REPLY"])
  /\ UNCHANGED <<console, web, reboot, rom, out, wire, ingress, answering, updater, events>>

-----------------------------------------------------------------------------
(* maintenance_task: frames handed over by core 1. *)

HandedOver(b, type) ==
  Up(b) /\ ingress[b] # <<>> /\ Head(ingress[b]).type = type

TakeIngress(b) ==
  /\ ingress' = [ingress EXCEPT ![b] = Tail(@)]
  /\ UNCHANGED <<console, web, reboot, rom, txq, out, wire, answering, updater, events>>

(* receive_ack, in time or not *)
ReceiveAck(b) ==
  /\ HandedOver(b, "ACK")
  /\ LET ack == Head(ingress[b]) IN
     \/ /\ client[b].phase = "REPLY" /\ ack.req = client[b].req
        /\ SetClient(b, Finished(ack.status))
     \/ UNCHANGED <<client, server, reserved>>
  /\ TakeIngress(b)

(* Mutant of AckStatus: a board that waits for its own answer admits. *)
AckStatusCrossed(b) ==
  IF client[b].phase \in {"IDLE", "REPLY"} /\ client[b].result = "NONE" /\ Safe(b) THEN "ACCEPTED"
  ELSE IF reboot[b] THEN "REBOOT_PENDING"
  ELSE IF Updating(b) THEN "UPDATE_ACTIVE"
  ELSE "BUSY"

AckStatus(b) ==
  IF client[b].phase = "IDLE" /\ client[b].result = "NONE" /\ Safe(b) THEN "ACCEPTED"
  ELSE IF reboot[b] THEN "REBOOT_PENDING"
  ELSE IF Updating(b) THEN "UPDATE_ACTIVE"
  ELSE "BUSY"

(* receive_request; server.req is last_request as well *)
ReceiveRequest(b) ==
  /\ HandedOver(b, "REQUEST")
  /\ LET req == Head(ingress[b]).req IN
     \/ /\ server[b].phase = "IDLE" /\ server[b].req # req
        /\ SetServer(b, [phase |-> "ACK", req |-> req, status |-> AckStatus(b),
                         queued |-> FALSE, sent |-> FALSE])
     \/ UNCHANGED <<client, server, reserved>>
  /\ TakeIngress(b)

-----------------------------------------------------------------------------
(* maintenance_task: the server (service_server). *)

StillSafe(b) == server[b].status = "ACCEPTED" => Safe(b)

(* No longer safe, or out of time. *)
ServerGivesUp(b) ==
  /\ Up(b) /\ server[b].phase # "IDLE"
  /\ SetServer(b, [server[b] EXCEPT !.phase = "IDLE"])
  /\ UNCHANGED <<console, web, reboot, rom, link, updater, events>>

ServerAck(b) ==
  /\ Up(b) /\ server[b].phase = "ACK" /\ StillSafe(b) /\ Room(b)
  /\ Send(b, [type |-> "ACK", req |-> server[b].req, status |-> server[b].status])
  /\ SetServer(b, [server[b] EXCEPT
                     !.phase = IF server[b].status = "ACCEPTED" THEN "DRAIN" ELSE "IDLE",
                     !.queued = TRUE])
  /\ UNCHANGED <<console, web, reboot, rom, out, wire, ingress, answering, updater, events>>

(* Mutant of ServerEnter: an empty queue is taken for a sent answer. *)
ServerEnterDrained(b) ==
  /\ Up(b) /\ server[b].phase = "DRAIN" /\ StillSafe(b) /\ WireIdle(b)
  /\ SetServer(b, [server[b] EXCEPT !.phase = "IDLE"])
  /\ rom' = [rom EXCEPT ![b] = server[b].req]
  /\ UNCHANGED <<console, web, reboot, link, updater, events>>

ServerEnter(b) ==
  /\ Up(b) /\ server[b].phase = "DRAIN" /\ StillSafe(b)
  /\ server[b].sent /\ WireIdle(b)
  /\ SetServer(b, [server[b] EXCEPT !.phase = "IDLE"])
  /\ rom' = [rom EXCEPT ![b] = server[b].req]
  /\ UNCHANGED <<console, web, reboot, link, updater, events>>

-----------------------------------------------------------------------------
(* Core 0: process_uart_tx_task.  A maintenance frame that is no longer    *)
(* wanted, or out of time, is thrown away when it leaves the queue.        *)

(* Mutant of Allowed: frames are sent whatever happened meanwhile. *)
AllowedAlways(b, frame) == TRUE

Allowed(b, frame) ==
  CASE frame.type = "REQUEST" -> client[b].phase = "REPLY" /\ client[b].req = frame.req
    [] frame.type = "ACK" ->
         /\ server[b].queued
         /\ server[b].req = frame.req /\ server[b].status = frame.status
         /\ frame.status = "ACCEPTED" => server[b].phase = "DRAIN"
    [] OTHER -> TRUE

Transmit(b) ==
  /\ Up(b) /\ txq[b] # <<>> /\ out[b] = <<>>
  /\ LET frame == Head(txq[b]) IN
     /\ Allowed(b, frame)
     /\ out' = [out EXCEPT ![b] = <<frame>>]
     /\ IF frame.type = "ACK"
        THEN SetServer(b, [server[b] EXCEPT !.queued = FALSE,
                                            !.sent = frame.status = "ACCEPTED"])
        ELSE UNCHANGED <<client, server, reserved>>
  /\ txq' = [txq EXCEPT ![b] = Tail(@)]
  /\ UNCHANGED <<console, web, reboot, rom, wire, ingress, answering, updater, events>>

Discard(b) ==
  /\ Up(b) /\ txq[b] # <<>> /\ out[b] = <<>>
  /\ Head(txq[b]).type \in {"REQUEST", "ACK"}
  /\ txq' = [txq EXCEPT ![b] = Tail(@)]
  /\ UNCHANGED <<maint, web, reboot, rom, out, wire, ingress, answering, updater, events>>

(* The last bit leaves the UART; a ring that is lapped loses what it held. *)
Shift(b) ==
  /\ out[b] # <<>>
  /\ out' = [out EXCEPT ![b] = <<>>]
  /\ wire' = [wire EXCEPT ![b] = IF Len(@) < WireCap THEN @ \o out[b] ELSE out[b]]
  /\ UNCHANGED <<maint, web, reboot, rom, txq, ingress, answering, updater, events>>

Lose(b) ==
  /\ wire[b] # <<>> /\ Event
  /\ wire' = [wire EXCEPT ![b] = Tail(@)]
  /\ UNCHANGED <<maint, web, reboot, rom, txq, out, ingress, answering, updater>>

-----------------------------------------------------------------------------
(* Core 1: frames of the peer. *)

Arrives(b, types) ==
  /\ Up(b) /\ ~answering[b]
  /\ wire[Peer(b)] # <<>> /\ Head(wire[Peer(b)]).type \in types

Parse(b) == wire' = [wire EXCEPT ![Peer(b)] = Tail(@)]

(* Mutant of HandOver: the bound of the queue is not observed. *)
HandOverUnbounded(b) ==
  /\ Arrives(b, {"REQUEST", "ACK"})
  /\ ingress' = [ingress EXCEPT ![b] = Append(@, Head(wire[Peer(b)]))]
  /\ Parse(b)
  /\ UNCHANGED <<maint, web, reboot, rom, txq, out, answering, updater, events>>

(* maintenance_receive: a bounded hand-over to core 0. *)
HandOver(b) ==
  /\ Arrives(b, {"REQUEST", "ACK"})
  /\ ingress' = [ingress EXCEPT ![b] = IF Len(@) < IngressCap
                                       THEN Append(@, Head(wire[Peer(b)])) ELSE @]
  /\ Parse(b)
  /\ UNCHANGED <<maint, web, reboot, rom, txq, out, answering, updater, events>>

(* handle_fw_upgrade_msg *)
ReceiveUpgrade(b) ==
  /\ Arrives(b, {"UPGRADE"})
  /\ rom' = [rom EXCEPT ![b] = IF reserved[b] THEN @ ELSE Shortcut]
  /\ Parse(b)
  /\ UNCHANGED <<maint, web, reboot, txq, out, ingress, answering, updater, events>>

(* Mutant of Serves: words are served under a reservation. *)
ServesReserved(b) == ~reboot[b] /\ pull[b] = "none"

Serves(b) == ~reboot[b] /\ pull[b] = "none" /\ ~reserved[b]

(* handle_request_byte_msg: a word is served, then core 1 waits for a slot. *)
ReceiveAsk(b) ==
  /\ Arrives(b, {"ASK"})
  /\ lease' = [lease EXCEPT ![b] = @ \/ Serves(b)]
  /\ answering' = [answering EXCEPT ![b] = Serves(b)]
  /\ Parse(b)
  /\ UNCHANGED <<maint, web, reboot, rom, txq, out, ingress, pull, older, events>>

QueueWord(b) ==
  /\ Up(b) /\ answering[b] /\ Room(b)
  /\ Send(b, [type |-> "WORD"])
  /\ answering' = [answering EXCEPT ![b] = FALSE]
  /\ UNCHANGED <<maint, web, reboot, rom, out, wire, ingress, updater, events>>

(* A word, in short for the rest of a page: the page is written, or it was *)
(* the last one and the image is whole.                                    *)
ReceiveWord(b) ==
  /\ Arrives(b, {"WORD"})
  /\ \/ /\ Pulling(b) /\ ~reboot[b]
        /\ pull' = [pull EXCEPT ![b] = "dirty"]
        /\ UNCHANGED <<reboot, older>>
     \/ /\ pull[b] = "dirty" /\ ~reboot[b]
        /\ pull' = [pull EXCEPT ![b] = "none"]
        /\ reboot' = [reboot EXCEPT ![b] = TRUE]
        /\ older' = [older EXCEPT ![b] = FALSE]
     \/ /\ ~Pulling(b) \/ reboot[b]
        /\ UNCHANGED <<pull, reboot, older>>
  /\ Parse(b)
  /\ UNCHANGED <<maint, web, rom, txq, out, ingress, answering, lease, events>>

-----------------------------------------------------------------------------
(* Core 1: the updater, as far as it meets maintenance (see FirmwarePull). *)

Holds(q, type) == \E i \in 1 .. Len(q) : q[i].type = type

InFlight(b, type) ==
  Holds(txq[b], type) \/ Holds(out[b], type) \/ Holds(wire[b], type)

(* handle_heartbeat_msg_locked: a pull begins, or a paused one resumes. *)
BeginPull(b) ==
  /\ Up(b) /\ Up(Peer(b)) /\ ~answering[b]
  /\ ~reboot[b] /\ ~reserved[b] /\ older[b] /\ pull[Peer(b)] # "drop"
  /\ \/ pull[b] = "none" /\ pull' = [pull EXCEPT ![b] = "clean"] /\ Event
     \/ pull[b] = "paused" /\ pull' = [pull EXCEPT ![b] = "resumed"] /\ UNCHANGED events
  /\ UNCHANGED <<maint, web, reboot, rom, link, older, lease>>

(* firmware_upgrade_task: the next word, or the same one after 100 ms *)
Ask(b) ==
  /\ Up(b) /\ Pulling(b) /\ ~reboot[b] /\ ~answering[b]
  /\ ~InFlight(b, "ASK") /\ Room(b)
  /\ Send(b, [type |-> "ASK"])
  /\ UNCHANGED <<maint, web, reboot, rom, out, wire, ingress, answering, updater, events>>

(* 30 s without progress: a clean pull is abandoned, a dirty one goes on   *)
(* as long as the peer is heard and is paused when it is not.              *)
Stall(b) ==
  /\ Up(b) /\ ~answering[b]
  /\ \/ pull[b] = "clean" /\ pull' = [pull EXCEPT ![b] = "none"]
     \/ pull[b] \in {"dirty", "resumed"} /\ ~Up(Peer(b)) /\ pull' = [pull EXCEPT ![b] = "paused"]
  /\ UNCHANGED <<maint, web, reboot, rom, link, older, lease, events>>

(* 3 s without a request: the peer asks every 100 ms as long as it pulls. *)
LeaseExpires(b) ==
  /\ lease[b] /\ ~Pulling(Peer(b))
  /\ ~answering[b] /\ ~InFlight(Peer(b), "ASK") /\ ~InFlight(b, "WORD")
  /\ lease' = [lease EXCEPT ![b] = FALSE]
  /\ UNCHANGED <<maint, web, reboot, rom, link, pull, older, events>>

(* tud_msc_write10_cb: the first UF2 block claims the updater, the last    *)
(* one asks for a reboot, or finds the image invalid and erases it.        *)
Drop(b) ==
  /\ Up(b) /\ ~reboot[b] /\ ~reserved[b]
  /\ pull' = [pull EXCEPT ![b] = "drop"]
  /\ \/ pull[b] # "drop" /\ Event /\ UNCHANGED <<reboot, rom, older>>
     \/ /\ pull[b] = "drop"
        /\ reboot' = [reboot EXCEPT ![b] = TRUE]
        /\ older' \in [Board -> BOOLEAN] /\ \E x \in Board : ~older'[x]
        /\ UNCHANGED <<rom, events>>
     \/ /\ pull[b] = "drop"
        /\ rom' = [rom EXCEPT ![b] = Shortcut]
        /\ UNCHANGED <<reboot, older, events>>
  /\ UNCHANGED <<maint, web, link, lease>>

-----------------------------------------------------------------------------
(* Bootloader requests that do not go through maintenance.c. *)

(* tud_hid_set_report_cb, then process_config_bootloader_request. *)
WebRequest(b, target) ==
  /\ Up(b) /\ Event
  /\ pull[b] = "none" /\ ~reserved[b]
  /\ web' = [web EXCEPT ![b] = @ \cup {target}]
  /\ UNCHANGED <<maint, reboot, rom, link, updater>>

(* The code also drops the requests while a burst of pages is being served *)
(* (batch.tx.active); here they go on.                                     *)
WebTask(b) ==
  /\ Up(b) /\ web[b] # {} /\ ~reserved[b]
  /\ IF pull[b] # "none"
     THEN web' = [web EXCEPT ![b] = {}] /\ UNCHANGED <<rom, txq>>
     ELSE LET sends == "PEER" \in web[b] /\ Room(b)
              ready == "LOCAL" \in web[b] /\ "PEER" \notin web[b] /\ WireIdle(b)
          IN  /\ sends \/ ready
              /\ IF sends THEN Send(b, [type |-> "UPGRADE"]) ELSE UNCHANGED txq
              /\ web' = [web EXCEPT ![b] = @ \ (IF sends THEN {"PEER"} ELSE {"LOCAL"})]
              /\ rom' = [rom EXCEPT ![b] = IF ready THEN Shortcut ELSE @]
  /\ UNCHANGED <<maint, reboot, out, wire, ingress, answering, updater, events>>

(* fw_upgrade_hotkey_handler_A and _B *)
Hotkey(b, target) ==
  /\ Up(b) /\ Event /\ ~answering[b] /\ ~reserved[b]
  /\ IF target = b
     THEN rom' = [rom EXCEPT ![b] = Shortcut] /\ UNCHANGED txq
     ELSE /\ txq' = [txq EXCEPT ![b] = IF Room(b) THEN Append(@, [type |-> "UPGRADE"]) ELSE @]
          /\ UNCHANGED rom
  /\ UNCHANGED <<maint, web, reboot, out, wire, ingress, answering, updater>>

(* request_graceful_reboot, on the chord or on the peer's REBOOT_MSG *)
RequestReboot(b) ==
  /\ Up(b) /\ Event
  /\ pull[b] = "none" /\ ~reserved[b]
  /\ reboot' = [reboot EXCEPT ![b] = TRUE]
  /\ UNCHANGED <<maint, web, rom, link, updater>>

(* config_enable_hotkey_handler and queue_mouse_report_critical: the       *)
(* updater is not looked at, but the reservation is.                       *)
RequestRebootBlindly(b) ==
  /\ Up(b) /\ Event /\ ~reserved[b]
  /\ reboot' = [reboot EXCEPT ![b] = TRUE]
  /\ UNCHANGED <<maint, web, rom, link, updater>>

(* The watchdog, a spontaneous reset, or the way back from the ROM: all    *)
(* memory and the frames not yet sent or parsed are gone (initial_setup,   *)
(* maintenance_init).  Frames it has sent may still be on their way when   *)
(* it is back, but no firmware word is: the peer is quick to take those.   *)
Restart(b) ==
  /\ \/ (reboot[b] \/ ~Up(b)) /\ UNCHANGED events
     \/ Up(b) /\ Event /\ pull[b] \in {"none", "clean"}
  /\ client' = [client EXCEPT ![b] = NoClient]
  /\ server' = [server EXCEPT ![b] = NoServer]
  /\ reserved' = [reserved EXCEPT ![b] = FALSE]
  /\ console' = [console EXCEPT ![b] = "IDLE"]
  /\ web' = [web EXCEPT ![b] = {}]
  /\ reboot' = [reboot EXCEPT ![b] = FALSE]
  /\ rom' = [rom EXCEPT ![b] = NoRequest]
  /\ txq' = [txq EXCEPT ![b] = <<>>]
  /\ out' = [out EXCEPT ![b] = <<>>]
  /\ \E late \in {wire[b], <<>>} :
       ~Holds(late, "WORD") /\ wire' = [wire EXCEPT ![Peer(b)] = <<>>, ![b] = late]
  /\ ingress' = [ingress EXCEPT ![b] = <<>>]
  /\ answering' = [answering EXCEPT ![b] = FALSE]
  /\ pull' = [pull EXCEPT ![b] = "none",
                          ![Peer(b)] = IF @ = "dirty" THEN "resumed" ELSE @]
  /\ lease' = [lease EXCEPT ![b] = FALSE]
  /\ UNCHANGED older

-----------------------------------------------------------------------------
Next ==
  \E b \in Board :
    \/ \E target \in Board, config \in BOOLEAN : Begin(b, target, config)
    \/ Poll(b) \/ ReplyComplete(b) \/ Cancel(b)
    \/ ClientGivesUp(b) \/ LocalEnter(b) \/ Admit(b)
    \/ ReceiveAck(b) \/ ReceiveRequest(b)
    \/ ServerGivesUp(b) \/ ServerAck(b) \/ ServerEnter(b)
    \/ Transmit(b) \/ Discard(b) \/ Shift(b) \/ Lose(b)
    \/ HandOver(b) \/ ReceiveUpgrade(b)
    \/ ReceiveAsk(b) \/ QueueWord(b) \/ ReceiveWord(b)
    \/ BeginPull(b) \/ Ask(b) \/ Stall(b) \/ LeaseExpires(b) \/ Drop(b)
    \/ \E target \in {"PEER", "LOCAL"} : WebRequest(b, target)
    \/ WebTask(b)
    \/ \E target \in Board : Hotkey(b, target)
    \/ RequestReboot(b) \/ RequestRebootBlindly(b) \/ Restart(b)

Spec == Init /\ [][Next]_vars

(* Core 0's loop keeps running, and deadlines pass. *)
Fairness ==
  \A b \in Board :
    WF_vars(ClientGivesUp(b)) /\ WF_vars(ServerGivesUp(b))

FairSpec == Spec /\ Fairness

-----------------------------------------------------------------------------
(* Properties. *)

(* A reservation keeps what it was granted for: as long as a board is      *)
(* reserved, no pull, no UF2 drop, no serving of the peer, no reboot and   *)
(* no web bootloader request begins on it, on either core.  (So the second *)
(* check before the reset, which the code makes all the same, never fires.)*)
ReservedIsSafe == \A b \in Board : reserved[b] => Safe(b)

(* A board never enters its ROM on a maintenance request while the peer's  *)
(* slot is partly written with words that it has served: the reservation,  *)
(* the refusal to serve under it and the lease of the last word served     *)
(* leave no gap between the check and the reset.                           *)
SourceNotAbandoned ==
  \A b \in Board : rom[b] \in Request => pull[Peer(b)] # "dirty"

(* Every reservation ends: a board that is not reset in the end serves     *)
(* firmware, reboots and updates again, whatever was lost, cancelled,      *)
(* refused or overtaken.                                                   *)
ReservationsEnd == \A b \in Board : reserved[b] ~> ~reserved[b] \/ ~Up(b)
=============================================================================
