------------------------------ MODULE KbdQueue -------------------------------
(***************************************************************************)
(* One board's path from keyboard state to its own host: the contributions *)
(* of its own keyboards and of the peer's, combined into one report; the   *)
(* bounded FIFO with a durable tail; core 0's task that submits reports to *)
(* USB; and everything that throws reports away (bus reset, unplug, change *)
(* of focus).  Core 1 produces, core 0 consumes and runs the USB           *)
(* callbacks.  Every action is one critical section of the firmware lock,  *)
(* or the code of one core between two of them.                            *)
(***************************************************************************)
EXTENDS Integers, Sequences, FiniteSets

CONSTANTS
  LocalKeys,    \* keys of the keyboards plugged into this board
  PeerKeys,     \* keys of the keyboards plugged into the peer
  Lock,         \* the synthetic lock-screen chord
  Cap,          \* slots of kbd_queue: 128 in the firmware
  MountRace,    \* TRUE: core 1 may reconcile inside core 0's mount callback
  MaxInputs,    \* bound: reports of the keyboards, of the peer, lock chords
  MaxResets     \* bound: mounts, unmounts and changes of focus

Keys   == LocalKeys \cup PeerKeys \cup {Lock}
Report == SUBSET Keys               \* a report is the set of keys held
AllUp  == {}

ASSUME CapAssumption == Cap \in Nat \ {0}
(* A key is known by the board whose keyboard it is on. *)
ASSUME KeysAssumption == LocalKeys \cap PeerKeys = {} /\ Lock \notin PeerKeys
ASSUME KbdBoundAssumption ==
  MaxInputs \in Nat /\ MaxResets \in Nat /\ MountRace \in BOOLEAN

VARIABLES
  local,      \* local_kbd_states, all keyboards of this board together
  remote,     \* remote_kbd_state
  remoteGen,  \* kbd_remote_generation
  gen,        \* kbd_host_generation
  syncGen,    \* sync.host_generation: what core 1 has reconciled
  queue,      \* kbd_queue
  latest,     \* kbd_latest
  pending,    \* kbd_latest_pending: latest waits behind a full queue
  connected,  \* tud_connected
  active,     \* CURRENT_BOARD_IS_ACTIVE_OUTPUT
  synthetic,  \* sync.synthetic_pending: a lock chord awaits its release
  core1,      \* where core 1 stands between two critical sections
  offered,    \* the peer's report that core 1 is about to publish
  usb,        \* where core 0 stands in a USB callback
  host,       \* the report the host has seen last
  inputs, resets

vars == <<local, remote, remoteGen, gen, syncGen, queue, latest, pending,
          connected, active, synthetic, core1, offered, usb, host, inputs, resets>>

Core1 == {"idle", "queue", "publish", "clear", "reconcile", "switch",
          "release", "empty"}
Usb   == {"boot", "idle", "mounting", "unmounting"}

KbdTypeOK ==
  /\ local \in SUBSET LocalKeys
  /\ remote \in SUBSET PeerKeys
  /\ gen \in Nat /\ remoteGen \in Nat /\ syncGen \in Nat
  /\ queue \in Seq(Report) /\ Len(queue) <= Cap
  /\ latest \in Report
  /\ pending \in BOOLEAN /\ connected \in BOOLEAN /\ active \in BOOLEAN
  /\ synthetic \in BOOLEAN
  /\ core1 \in Core1
  /\ offered \in SUBSET PeerKeys
  /\ usb \in Usb
  /\ host \in Report
  /\ inputs \in 0 .. MaxInputs /\ resets \in 0 .. MaxResets

(* Core 1 is launched before core 0 announces the output and mounts USB. *)
Init ==
  /\ local = AllUp /\ remote = AllUp /\ latest = AllUp /\ host = AllUp
  /\ remoteGen = 0 /\ gen = 0 /\ syncGen = 0
  /\ queue = <<>>
  /\ pending = FALSE /\ connected = FALSE /\ synthetic = FALSE
  /\ active \in BOOLEAN
  /\ core1 = "idle" /\ offered = AllUp /\ usb = "boot"
  /\ inputs = 0 /\ resets = 0

-----------------------------------------------------------------------------
(* Mutant of Combined: the peer's keys outlive the session. *)
CombinedAnySession == local \cup remote

(* combine_kbd_states: the peer's keys count only in the host session they *)
(* were accepted in.                                                       *)
Combined == local \cup (IF remoteGen = gen THEN remote ELSE AllUp)

(* Mutants of Enqueue: one slot too many; a full queue drops the new       *)
(* report, or the oldest one.                                              *)
EnqueueOverCap(r) ==
  IF ~connected THEN UNCHANGED <<queue, latest, pending>>
  ELSE /\ latest' = r
       /\ IF pending \/ Len(queue) > Cap
          THEN pending' = TRUE /\ UNCHANGED queue
          ELSE queue' = Append(queue, r) /\ UNCHANGED pending

EnqueueDropNewest(r) ==
  IF ~connected \/ Len(queue) = Cap
  THEN latest' = (IF connected THEN r ELSE latest) /\ UNCHANGED <<queue, pending>>
  ELSE latest' = r /\ queue' = Append(queue, r) /\ UNCHANGED pending

EnqueueDropOldest(r) ==
  IF ~connected THEN UNCHANGED <<queue, latest, pending>>
  ELSE /\ latest' = r
       /\ queue' = Append(IF Len(queue) = Cap THEN Tail(queue) ELSE queue, r)
       /\ UNCHANGED pending

(* queue_kbd_report_locked *)
Enqueue(r) ==
  IF ~connected THEN UNCHANGED <<queue, latest, pending>>
  ELSE /\ latest' = r
       /\ IF pending \/ Len(queue) = Cap
          THEN pending' = TRUE /\ UNCHANGED queue
          ELSE queue' = Append(queue, r) /\ UNCHANGED pending

(* Mutant of HostReset: the session keeps its generation. *)
HostResetSameSession ==
  /\ queue' = <<>>
  /\ pending' = FALSE
  /\ latest' = AllUp
  /\ UNCHANGED gen

(* keyboard_host_reset *)
HostReset ==
  /\ queue' = <<>>
  /\ pending' = FALSE
  /\ latest' = AllUp
  /\ gen' = gen + 1

Input == inputs < MaxInputs /\ inputs' = inputs + 1
Reset == resets < MaxResets /\ resets' = resets + 1

-----------------------------------------------------------------------------
(* Core 1. *)

(* process_keyboard_report: the stored contribution, then send_key. *)
KeyReport(r) ==
  /\ core1 = "idle" /\ Input
  /\ local' = r
  /\ core1' = IF active THEN "queue" ELSE "idle"
  /\ UNCHANGED <<remote, remoteGen, gen, syncGen, queue, latest, pending,
                 connected, active, synthetic, offered, usb, host, resets>>

(* keyboard_queue_current *)
QueueCurrent ==
  /\ core1 = "queue"
  /\ Enqueue(Combined)
  /\ core1' = "idle"
  /\ UNCHANGED <<local, remote, remoteGen, gen, syncGen, connected, active,
                 synthetic, offered, usb, host, inputs, resets>>

(* keyboard_sync_receive has checked a snapshot of the peer ... *)
PeerAccept(r) ==
  /\ core1 = "idle" /\ Input
  /\ active /\ connected /\ gen = syncGen
  /\ offered' = r
  /\ core1' = "publish"
  /\ UNCHANGED <<local, remote, remoteGen, gen, syncGen, queue, latest, pending,
                 connected, active, synthetic, usb, host, resets>>

(* ... or its lease has run out ... *)
PeerExpire ==
  /\ core1 = "idle" /\ remote # AllUp
  /\ offered' = AllUp
  /\ core1' = "publish"
  /\ UNCHANGED <<local, remote, remoteGen, gen, syncGen, queue, latest, pending,
                 connected, active, synthetic, usb, host, inputs, resets>>

(* ... and publish_peer stores it for the session core 1 has reconciled. *)
PublishPeer ==
  /\ core1 = "publish"
  /\ remote' = offered /\ remoteGen' = syncGen
  /\ offered' = AllUp
  /\ core1' = IF remote # offered /\ active THEN "queue" ELSE "idle"
  /\ UNCHANGED <<local, gen, syncGen, queue, latest, pending, connected, active,
                 synthetic, usb, host, inputs, resets>>

(* keyboard_sync_task notices that the host session changed ... *)
SyncGeneration ==
  /\ core1 = "idle" /\ gen # syncGen
  /\ syncGen' = gen
  /\ core1' = "clear"
  /\ UNCHANGED <<local, remote, remoteGen, gen, queue, latest, pending,
                 connected, active, synthetic, offered, usb, host, inputs, resets>>

SyncClear ==
  /\ core1 = "clear"
  /\ remote' = AllUp /\ remoteGen' = syncGen
  /\ core1' = "reconcile"
  /\ UNCHANGED <<local, gen, syncGen, queue, latest, pending, connected, active,
                 synthetic, offered, usb, host, inputs, resets>>

(* ... and tells the new session which keys are down.  The look at         *)
(* tud_connected just before the critical section is part of this step.    *)
SyncReconcile ==
  /\ core1 = "reconcile"
  /\ usb = "mounting" => MountRace
  /\ IF active /\ connected /\ (syncGen > 1 \/ Combined # AllUp)
     THEN Enqueue(Combined) ELSE UNCHANGED <<queue, latest, pending>>
  /\ core1' = "idle"
  /\ UNCHANGED <<local, remote, remoteGen, gen, syncGen, connected, active,
                 synthetic, offered, usb, host, inputs, resets>>

(* set_active_output or receive_output_selection: the output changes (or,  *)
(* for a legacy packet and before a reboot, stays), core 1 may wait for a  *)
(* UART slot, then keyboard_focus_changed runs.                            *)
SwitchOutput ==
  /\ core1 = "idle" /\ Reset
  /\ active' \in BOOLEAN
  /\ core1' = "switch"
  /\ UNCHANGED <<local, remote, remoteGen, gen, syncGen, queue, latest, pending,
                 connected, synthetic, offered, usb, host, inputs>>

FocusReset ==
  /\ core1 = "switch"
  /\ HostReset
  /\ synthetic' = FALSE
  /\ core1' = "release"
  /\ UNCHANGED <<local, remote, remoteGen, syncGen, connected, active, offered,
                 usb, host, inputs, resets>>

(* release_all_keys, in two critical sections *)
ReleaseAllKeys ==
  /\ core1 = "release"
  /\ local' = AllUp /\ remote' = AllUp
  /\ core1' = "empty"
  /\ UNCHANGED <<remoteGen, gen, syncGen, queue, latest, pending, connected,
                 active, synthetic, offered, usb, host, inputs, resets>>

QueueAllUp ==
  /\ core1 = "empty"
  /\ Enqueue(AllUp)
  /\ core1' = "idle"
  /\ UNCHANGED <<local, remote, remoteGen, gen, syncGen, connected, active,
                 synthetic, offered, usb, host, inputs, resets>>

(* screenlock_hotkey_handler for this board's own host. *)
ScreenLock ==
  /\ core1 = "idle" /\ Input
  /\ Enqueue({Lock})
  /\ core1' = "release"
  /\ UNCHANGED <<local, remote, remoteGen, gen, syncGen, connected, active,
                 synthetic, offered, usb, host, resets>>

(* keyboard_synthetic_receive: the peer's lock chord ... *)
SyntheticReceive ==
  /\ core1 = "idle" /\ Input
  /\ ~synthetic
  /\ Enqueue({Lock})
  /\ synthetic' = TRUE
  /\ UNCHANGED <<local, remote, remoteGen, gen, syncGen, connected, active,
                 core1, offered, usb, host, resets>>

(* ... released by its all-up packet or, when that is lost, after 20 ms. *)
SyntheticRelease ==
  /\ core1 = "idle" /\ synthetic
  /\ synthetic' = FALSE
  /\ Enqueue(IF active THEN Combined ELSE AllUp)
  /\ UNCHANGED <<local, remote, remoteGen, gen, syncGen, connected, active,
                 core1, offered, usb, host, inputs, resets>>

-----------------------------------------------------------------------------
(* Core 0. *)

(* announce_initial_output ends with a host reset, before the task loop. *)
Announce ==
  /\ usb = "boot"
  /\ HostReset
  /\ usb' = "idle"
  /\ UNCHANGED <<local, remote, remoteGen, syncGen, connected, active, synthetic,
                 core1, offered, host, inputs, resets>>

(* Mutant of Submit: the tail waits until the queue has run empty. *)
SubmitLeavesTail(sent) ==
  /\ usb = "idle" /\ connected /\ queue # <<>>
  /\ LET rest == IF sent THEN Tail(queue) ELSE queue
     IN  /\ queue' = IF pending /\ rest = <<>> THEN <<latest>> ELSE rest
         /\ pending' = (pending /\ rest # <<>>)
  /\ host' = IF sent THEN Head(queue) ELSE host
  /\ UNCHANGED <<local, remote, remoteGen, gen, syncGen, latest, connected,
                 active, synthetic, core1, offered, usb, inputs, resets>>

(* process_kbd_queue_task: USB takes the oldest report, or refuses it; the *)
(* tail moves up when there is room.                                       *)
Submit(sent) ==
  /\ usb = "idle" /\ connected /\ queue # <<>>
  /\ LET rest == IF sent THEN Tail(queue) ELSE queue
         room == Len(rest) < Cap
     IN  /\ queue' = IF pending /\ room THEN Append(rest, latest) ELSE rest
         /\ pending' = (pending /\ ~room)
  /\ host' = IF sent THEN Head(queue) ELSE host
  /\ UNCHANGED <<local, remote, remoteGen, gen, syncGen, latest, connected,
                 active, synthetic, core1, offered, usb, inputs, resets>>

(* tud_mount_cb: a first enumeration, or a bus reset of a mounted device. *)
Mount ==
  /\ usb = "idle" /\ Reset
  /\ HostReset
  /\ host' = AllUp
  /\ usb' = "mounting"
  /\ UNCHANGED <<local, remote, remoteGen, syncGen, connected, active, synthetic,
                 core1, offered, inputs>>

Mounted ==
  /\ usb = "mounting"
  /\ connected' = TRUE
  /\ usb' = "idle"
  /\ UNCHANGED <<local, remote, remoteGen, gen, syncGen, queue, latest, pending,
                 active, synthetic, core1, offered, host, inputs, resets>>

(* tud_umount_cb *)
Unmount ==
  /\ usb = "idle" /\ connected /\ Reset
  /\ connected' = FALSE
  /\ host' = AllUp
  /\ usb' = "unmounting"
  /\ UNCHANGED <<local, remote, remoteGen, gen, syncGen, queue, latest, pending,
                 active, synthetic, core1, offered, inputs>>

Unmounted ==
  /\ usb = "unmounting"
  /\ HostReset
  /\ usb' = "idle"
  /\ UNCHANGED <<local, remote, remoteGen, syncGen, connected, active, synthetic,
                 core1, offered, host, inputs, resets>>

Next ==
  \/ \E r \in SUBSET LocalKeys : KeyReport(r)
  \/ \E r \in SUBSET PeerKeys : PeerAccept(r)
  \/ QueueCurrent \/ PeerExpire \/ PublishPeer
  \/ SyncGeneration \/ SyncClear \/ SyncReconcile
  \/ SwitchOutput \/ FocusReset \/ ReleaseAllKeys \/ QueueAllUp
  \/ ScreenLock \/ SyntheticReceive \/ SyntheticRelease
  \/ Announce \/ \E sent \in BOOLEAN : Submit(sent)
  \/ Mount \/ Mounted \/ Unmount \/ Unmounted

Spec == Init /\ [][Next]_vars

(* Both task loops keep running, and a host that is there keeps polling.   *)
Fairness ==
  /\ WF_vars(QueueCurrent) /\ WF_vars(PublishPeer)
  /\ SF_vars(SyncGeneration) /\ WF_vars(SyncClear) /\ WF_vars(SyncReconcile)
  /\ WF_vars(FocusReset) /\ WF_vars(ReleaseAllKeys) /\ WF_vars(QueueAllUp)
  /\ SF_vars(SyntheticRelease)
  /\ WF_vars(Announce) /\ WF_vars(Mounted) /\ WF_vars(Unmounted)
  /\ SF_vars(Submit(TRUE))

FairSpec == Spec /\ Fairness

-----------------------------------------------------------------------------
(* Properties. *)

(* The tail waits only behind a full queue: core 0's task looks at the     *)
(* tail only after it found a report in the queue, so a tail behind an     *)
(* empty queue would be a key that stays down.                             *)
TailBehindFullQueue == pending => Len(queue) = Cap

(* Core 1 has emptied the queue of the old focus, its all-up report not    *)
(* queued yet.                                                             *)
Refocusing == core1 \in {"release", "empty"}

(* The report a connected host saw last, once nothing is waiting, is the   *)
(* last report anyone queued: overflow loses transitions, never the state. *)
LastReportShown ==
  /\ queue # <<>> /\ ~pending => queue[Len(queue)] = latest
  /\ connected /\ queue = <<>> /\ ~Refocusing => host = latest

(* The queue and its tail are one backlog. *)
Fifo == INSTANCE KbdFifo WITH
  backlog <- IF pending THEN Append(queue, latest) ELSE queue,
  shown   <- host

(* What core 0 submits is what core 1 produced, in order, with nothing     *)
(* skipped but the newest report of a full backlog: the queue and its tail *)
(* implement KbdFifo.                                                      *)
RefinesFifo == Fifo!FifoSpec

(* Once nothing happens any more, a connected host shows exactly the keys  *)
(* that are held, and an unselected one shows none.                        *)
ShowsHeldKeys ==
  <>[](connected => host = IF active THEN Combined ELSE AllUp)
=============================================================================
