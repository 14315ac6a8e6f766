# DeskHop verification project

TLA+ models of the DeskHop firmware, TLC runs that check them on small
instances, and TLAPS proofs of their main invariants. Source paths are relative
to the repository root: the firmware is `src/`, its unit tests `tests/`.

Two RP2040 boards, A (0) and B (1), each sit between one host computer (USB
device side) and some keyboards and mice (USB host side). They are joined by a
UART without acknowledgements: 32-byte frames carry a CRC and a bad frame is
dropped. One of the two hosts is *selected*; whatever is typed on either board
goes to it. Each board runs two cores, each a loop over a fixed list of tasks
(`src/main.c`):

* core 0: USB device, watchdog, keyboard, mouse and HID queues, UART transmit,
  console, confirmed configuration;
* core 1: USB host, packet receiver (which calls the message handlers of
  `src/handlers.c`), LEDs, screensaver, firmware updater, 1 Hz heartbeat, zoom,
  peer diagnostics, keyboard snapshots.

The cores share `global_state`. A critical section (`firmware_update_lock`)
makes short sections atomic; nobody may wait for a queue while holding it, since
core 0 needs it to drain the queues. So the interesting interleavings are
those *between* two critical sections.

## Inventory

| Component | State | Operations | What makes it correct |
|---|---|---|---|
| Output selection: `selection.c`, `handlers.c` 395-429 and 774-825, `tasks.c` heartbeat | token (counter, origin, output), phase, active output | switch, boot announcement, heartbeat, merge of the peer's frame, reset, peer on old firmware | no delayed or repeated frame takes a switch back; one output per token; a reset never switches hosts; the boards agree in the end |
| Keyboard report queue: `keyboard.c`, `usb.c` | own and peer's keys, FIFO of 128 with a durable tail, host generation | report, queue, submit, mount, unmount, focus change, lock chord | in order; overflow loses transitions but never the final state; nothing of an old host session is typed; the host shows what is held |
| Keyboard snapshots: `keyboard_sync.c` | nonce, lease, epoch, source queue, fragments | challenge, snapshot, accept, expire, reconcile, focus change | no stale key state is accepted; the selected board converges to the peer's keys |
| Firmware update: `fw_update.c`, `fw_batch.c`, `firmware_batch.c`, `ramdisk.c`, handlers and task | one flash slot, page buffer, updater state, page protocol | heartbeat, probe, page, word, commit, finish, stall, pause, UF2 block, reboot | the dirty bit is truthful; no reboot of a partial image; no downgrade; both boards reach the newest version |
| UART: `uart.c`, `tasks.c` 415-508, `utils.c` | transmit queue, DMA receive ring | queue, transmit, parse, resynchronise | no good frame is lost to the parser; it never stops |
| Maintenance (bootloader entry): `maintenance.c`, `uart.c` 81-153, console | client and server phase, reservation, hand-over from core 1, lease of the last word served | request, admit, answer, drain, enter, cancel, give up; web page, chords and the legacy message beside it | never entered while the peer depends on this board, nor on a request reported as refused; the answer leaves first; a reservation always ends |
| Confirmed configuration: `config_confirm.c`, `webconfig/templates/script.js` 45-140 | one transaction, replay cache, ingress queue, USB epoch | assemble, execute, forward, acknowledge, expire, disconnect | a request is decided at most once; the page hears that decision or nothing; the slot is freed |
| Configuration store and page: `utils.c`, `config_migration.c`, `script.js` 408-664 | settings in RAM and flash, page buffer; form, edits not confirmed | edit, save, wipe, load, migrate; apply, query, check, save on two boards | what is reported as saved is in flash and stays; the buffer is not shared with the updater |
| Mouse: `mouse.c`, handlers 262-365 | position, buttons of both boards, queue, switch lock | report, switch screen, release, drag | no button stays down on a host that lost focus |
| Clipboard, zoom, reboot chord, screensaver | small state machines | | one text per transaction; zoom debt returned once; chord only when exactly held |
| Diagnostics, console, HID parsing, LEDs, setup | read-only queries, text, descriptors, pins | | not control logic of the pair, see *Not modelled* |

Components interact through the selected output (routing for keyboard, mouse,
clipboard and zoom), the firmware lock and `page_buffer` (updater, UF2 drop,
configuration store), `reboot_requested` (updater, chord, configuration chord,
mouse queue, maintenance) and the one UART queue every message shares.

The hard behaviours, listed with their lines under `hazards` in `PROJECT.json`:
frames lost, late, repeated and crossing a reset; the two cores between two
critical sections; queues at their limit; serial arithmetic at the wrap; timeouts
racing late answers; a bus reset in the middle of a check-then-publish; an
image written into the slot the board will boot from.

## Modules

| Module | Models |
|---|---|
| `Selection`, `MCSelection` | both boards, TX queues, wires; `MC` adds the history variable `settled` |
| `SelectionProofs` | their invariants and `TokensAdvance` |
| `KbdFifo` | what the keyboard queue promises: an abstract backlog |
| `KbdQueue`, `MCKbdQueue` | one board's path from key state to its host; `MC` adds `vouched` |
| `KbdQueueProofs` | its invariants, that it implements `KbdFifo`, and that only vouched keys of the peer are typed |
| `KeyboardSync`, `MCKeyboardSync` | both boards' snapshot protocol; `MC` adds `floor` |
| `KeyboardSyncProofs` | its types and `NoStaleKeys` |
| `FirmwarePull`, `MCFirmwarePull` | both boards' updater, flash, link, UF2 drops and reboots; `MC` gives the versions |
| `FirmwarePullProofs` | its types and, with guarded reboots, `RebootsWholeImage`, `NoDowngrade` and `PullsNeverSpoil`; `CleanMeansBootable` always |
| `Maintenance`, `MCMaintenance` | both boards' bootloader requests, composed with a reduced updater, the link and every other way to a reset; `MC` adds `dead`, `unsure` and `acked` |
| `MaintenanceProofs` | its types, `ReservedIsSafe`, `SourceNotAbandoned` and what becomes of a request: `AckPrecedesEntry`, `CrossRequestsExclusive`, `DeadRequestsStayDead` |
| `ConfirmedCall` | what the page may rely on: an abstract call, decided at most once |
| `ConfigConfirm` | the confirmed configuration service of both boards and the page's requests; implements `ConfirmedCall` |
| `ConfigConfirmProofs` | its types, `EndedSessionsAreInert` and, for a page that does not repeat its requests, that it implements `ConfirmedCall` |
| `ConfigStore` | the settings of the boards, flash, the page buffer and its users on both cores |
| `ConfigPage`, `MCConfigPage` | the page's edits and save sequence over `ConfigStore`, with requests that behave as `ConfirmedCall` says; `MC` gives the settings |
| `ConfigPageProofs` | types and `BufferHasOneUser` of `ConfigStore`; that the page implements `StoreSpec`; its types and `SavedIsKept` |
| `Mouse` | mouse buttons from the interfaces of both boards to both hosts |
| `MouseProofs` | its types and `HeldDragEnds` |

Definitions named as mutants in a comment (`...Mutant of X`) are plausible bugs
of the definition after them. They are not used by any specification; each shows
that a property would notice.

### Selection

`sel[b]` is `selection_state_t`, `txq` and `wire` are the frames of a board before
and after its transmit queue. `Merge` and `SelRequest` follow `selection.c` case by
case; `Encode`/`Decode` keep the payload fields with their refusals. A local switch
is two steps, because `set_active_output` gives up the lock and waits for a slot
before it releases the keys (`core1 = "waiting"`), and so is the boot announcement
of core 0. A peer on firmware without tokens is external: the one-byte message
and its reading are taken from what `handlers.c` and the tests say of it. Not
included: the heartbeat is silent while a UF2 file is being dropped (the board
reboots at the end of it anyway).

A reset empties the link unless `LateFrames` is TRUE: booting takes longer than
draining 1 KiB at 3.7 Mbaud, so a frame outlives a reset only if the *peer* was
stalled meanwhile. `LateFrames` is FALSE in the runs; the
theorems hold for both values unless they name `Session`. With TRUE, `OneOutputPerToken`
fails, see *Known gaps*.

### KbdQueue

A report is the set of keys held. `gen` is `kbd_host_generation`; a peer key counts
only if `remoteGen = gen`. Core 1 is a small program counter (`core1`) over the
critical sections of `keyboard_sync.c` and `handlers.c`; core 0's USB callbacks
have theirs (`usb`). The refinement maps `backlog` to the queue with the pending
tail behind it and `shown` to the host's last report. Left out: the six-key
limit, hotkey matching (a hotkey is an input that is not queued), and which
interface a key came from.

`MountRace` FALSE takes the two statements of `tud_mount_cb` as one step as far as
core 1's reconciliation goes; TRUE is what the code does, see *Findings*. The
proofs do not assume either.

### KeyboardSync

A key state is the number of the key event that produced it, so that old and new
can be compared. The five fragments of a snapshot are two (`HEAD`, `REST`), enough
to mix two snapshots. The 64-bit nonce is a value not in use (its uniqueness is
random in the code); the serial number that rejects duplicates is not modelled,
since the link here does not duplicate. `token` stands for the selection of the
other module. Both hosts are taken to be plugged in (`tud_connected`).

### FirmwarePull

An image is an identity, its CRC; a flash word holds the image it came from, so
"CRC matches" is "all words are of one image". A flash sector is one page. The 64
data frames and the end frame of a page are one packet that arrives whole or in
part (`ReceivePage` with a set of words). `pending_tag` is merged with sending.
The sentinel request that lets an old peer answer by words is `WORD_REQUEST` of
address 0. `TaskStalled` (30 s without progress) happens only when nothing is
under way, and `maintenance_reserved` is FALSE (`Maintenance` is about it). Words of two builds can mix when
the peer changes its image in the middle of a pull; the model shows what the code
does about it, which is that the final CRC fails and the pull starts again. `PullsNeverSpoil`
supposes that no file was dropped and does not speak of that case; `CleanMeansBootable` and
`NoDowngrade` do.
`AnyReboot` adds the two reboot requests that ignore the updater, see *Findings*.
An external loss of power with a dirty slot is not modelled: nothing in the code
handles it.

The comment at `src/include/fw_update.h:27-29` says that a dirty board without a
source enters ROM recovery after a stall; the code pauses the pull
(`FW_UPDATE_PAUSE`) and waits for the peer, and that is what is modelled.

### Maintenance

`client[b]` and `server[b]` are the static variables of `maintenance.c`, `ingress` is
its queue from core 1 to core 0, `console[b]` the part of the console that waits for
an outcome or for the host to read the reply. A request is the board it came from and
a number that is never used again, which stands for the token, the role and the
16-bit session tag. Deadlines are not counted: what the code does when one has
passed (give up, ignore an answer or a request, discard a frame) may happen at any
time, so every order that any timing allows is there, and more, except for `LeaseExpires`
(below).

The updater is reduced to what meets maintenance: who pulls from whom, one `ASK` and
one `WORD` for the rest of a page, and whether the slot is partly written. "dirty" and
"resumed" are one state of the code; they differ in whether the peer has served
words of this attempt *since it booted*. `batch.tx.active` is part of the lease (a page
that is being sent was asked for less than 3 s ago). A UF2 drop, the web page, the two
chords, `FIRMWARE_UPGRADE_MSG` and the two unguarded reboot requests are actions,
since each looks at `maintenance_reserved`. Leaving configuration mode by timeout and
the `DH_DEBUG` entries look at it in the same way and are left out, as is the answer
"already in configuration mode". `Shortcut` marks a ROM entry that did not go through
`maintenance.c`; nothing is claimed of those, and `docs/future-projects.md` lists their
missing checks.

Three assumptions about time. `LeaseExpires` happens only when the peer no longer pulls
and none of its requests is on the way: a pulling board asks every 100 ms, the lease
is 3 s. `docs/diagnostics.md` says what remains when this fails ("not a peer-health
proof: a dirty peer that has been paused/offline longer can still exist"). A frame may
outlive its sender's reset, but no firmware word does. The requests of a console do not
come back with the same token and session tag.

### ConfigConfirm and ConfirmedCall

`cur[b]` and `prev[b]` are `current` and `previous` of `config_confirm.c`, `ingress` its
queue; what is on its way from one board to the other is in the queue of the receiver,
and `Lose` takes a packet away. A token is the number of a request, never used twice (the
page keeps the tokens it has drawn); since it determines role, operation, key and value,
the contents of the frames and the checks that compare them are left out, and `role[t]` is
the board request `t` is for. Executing gives any outcome: what it does is the subject of
`ConfigStore`. `Task` is one pass of `config_confirm_task`: cancel, expire, take one packet,
transport one packet. Configuration mode is on; leaving it has the effect of a
disconnection.

Time is left out: a transaction may expire at any pass. One order of deadlines is kept
(`MayExpire`): what the peer assembles began earlier at the bridge, so the bridge gives up
first. `ImplementsCall` maps the abstract outcome to what the board `role[t]` decided. The
page never repeats a request (`Retries` FALSE); `HostRepeat` is the client of
`tests/sim/test_config_confirm.py`, which may, whole or with only the `EXEC` frame (`Retries`
TRUE, as in the run: it need not repeat, so the page's behaviours are among these). Nobody
can repeat across a reset: what a board remembers is in RAM, and the model does not let
a client try (`recalled`). `ConfirmedCall` promises a client that repeats one thing less
than the page: its request is still decided at most once, but nothing is said of what it
hears. A repetition may be answered with EXPIRED or INCOMPLETE although the first attempt
went through, as `config_confirm.h` says ("no automatic replay after an unknown outcome"),
and worse; `ReceiptsAreWhole` states what the comments of the code do claim of it, and
`config_retry` refutes it, see *Findings*. Sending to the peer always succeeds; the retry on
a full transmit queue ends in the loss of a packet at worst, and `Lose` is bounded by
`MaxTrouble`. A session ends by `tud_umount_cb` or a reset of the bridge; a bus reset
without either does not change the epoch in the code, nor here.

### ConfigStore and ConfigPage

`config[b]` and `flash[b]` are the settings in RAM and flash, `buffer[b]` is `page_buffer`.
`core0` and `core1` say where `config_save_confirmed` and the older `save_config`, `wipe_config`
and `load_config` are; a save is at least two steps, so that edits (which take only
`config_lock`) come in between. The older messages run on core 0 when they come from the
board's own host (`usb.c:101`) and on core 1 when they come from the peer: an older edit may be
made by whichever core is free, older saves and wipes are core 1's here, so that two of them
at once on the two cores of one board are left out. `firmware_update_lock` is `Locked`. The updater is reduced to
`PullBegin`, `PullFill`, `PullCommit` and `PullEnd`; the reboot that follows a complete image
is a `Restart`. A power cut may hit a flash write and leave the sector erased
(`Restart(b, Blank)`). The settings of that board are then gone, whatever was confirmed
before, and `SavedIsKept` does not speak of them any more (`src/utils.c:595` makes no
promise either); a cut at any other moment is covered. A migration writes flash during the restart itself. A digest is the settings it
digests, a border pair counts as one field, invalid values are refused before they
reach the model, and `SET` with the digest it returns is one step.

`ConfigPage` adds the page: `want` and `base` are the form and its `fetched-value`s, `unconf`
and `tried` are `unconfirmedConfigEdits` and `attemptedConfigEdits`, `page` is the handler
that runs. Its requests are not `ConfigConfirm` again but the promise of `ConfirmedCall`: a
board decides at most once, the page hears it or gives up, and a request given up on may
still be carried out later (`late`), in the order asked for: the link keeps the order of
frames and a board has one transaction at a time. `sure[b]` is a history variable: what the last save
that `b` confirmed has settled, until another writer changes `b`.

### Mouse

`held[b]` are the interfaces of `b` whose mask is not empty, `peer[b]` is `peer_mouse_buttons`,
`host[b]` what the two HID interfaces (absolute, relative) of `b`'s host show. One button
stands for the mask, whose operations are all bitwise. Gaming mode stands for all that
makes reports relative. Whether the pointer crosses a border is a choice of the
environment, as `switch_lock` is; positions, wheels, acceleration, zoom and
`POINTER_SYNC_MSG` are left out. The boards are joined and have heard each other's first
heartbeat (`peer_mouse_state_known`), and neither resets; tokens are a counter and an
origin, `Selection` has the whole protocol. `queue_mouse_report_critical` waits for room;
its time-out, which requests a reboot, is in `FirmwarePull` and `Maintenance`. The heartbeat
is modelled when the link is idle.

## Runs

| Run | Bounds | Shows |
|---|---|---|
| `selection` | counter modulo 16, 2 switches, 1 reset, 1 TX slot, 1 frame on the wire, any loss; from power-up, where board 1 may run old firmware until its reset, or established at counter 7 or 15 | `TokensAdvance`, `OneOutputPerToken`, `ResetsArePassive`, `FramesDecode`, `RoutingFollowsToken`, `Converges` |
| `kbd_queue` | 2 slots, one key on each board and the lock chord, 4 inputs, 3 resets or focus changes | order, overflow, sessions, and the host ends up showing the held keys |
| `kbd_mount_race` | as above, `MountRace` | violates `ShowsHeldKeys` (finding) |
| `keyboard_sync` | 2 key events, 1 switch/reset/expiry/reboot, 1 fault, source queue of 1, 3 packets each way | `NoStaleKeys`, `SnapshotsConverge` |
| `firmware_pull` | 2 pages of 2 words, 3 images of 2 versions, one without the page protocol, 2 losses/late answers/stalls, 2 UF2 blocks, 1 reboot, 4 tags, 2 attempts | `CleanMeansBootable`, `RebootsWholeImage`, `PullsNeverSpoil`, `NoDowngrade` |
| `firmware_live` | 1 fault, 1 reboot | `SameVersion` |
| `firmware_blind_reboot` | unguarded reboot requests | violates `RebootsWholeImage` (finding) |
| `maintenance` | 2 events (commands, pulls or drops begun, web and keyboard requests, reboots, resets, lost frames), 2 TX slots, 1 frame on the wire and in the hand-over, board 1 is older | `ReservedIsSafe`, `SourceNotAbandoned`, `AckPrecedesEntry`, `CrossRequestsExclusive`, `DeadRequestsStayDead`, `ReservationsEnd` |
| `config_confirm` | 2 requests to either board, or one and its repetition (`Retries`); two among lost packets, disconnections and resets; ingress queues of 7 | `ImplementsCall`, `EndedSessionsAreInert`, `ServiceFrees` |
| `config_retry` | as above, ingress queues of 8 | violates `ReceiptsAreWhole` (finding) |
| `config_page` | 2 settings of 2 values, flash of an older version, 4 steps of the user, 2 events (other writers, wipes, pulls, restarts, answers lost or late) | `SavedIsKept`, `BufferHasOneUser` |
| `mouse` | 2 mice on each board, queue of 2, wire of 3, 3 events of which one may be a lost frame or a disconnected host | `HeldDragEnds`, `MirrorsConverge` |

Why these bounds are enough. Modulus 16 has all the relations of the 32-bit counter
(newer, older, equal, half a range away); 15 starts at the wrap, 7 below half the range,
where a reset board is as far behind as it can be. With modulus 8, a reset and two switches
put the boards exactly half a range apart, where neither token is newer and they never
agree; the device needs 2^31 switches for that. One transmit slot is full whenever
anything waits in it. In the keyboard queue two slots are
the least for which "full", "one left" and "empty" differ; four inputs overflow
them with the tail overwritten and a reset still to come. Two pages of two words
have an inner page, a metadata page, a page boundary and a word inside a page; two
attempts and two faults force the fallback from pages to words; three images give
a newer one and a different build of the same version. Two events are the least for two crossing requests, a request and a pull, a
request and the reset of either board, or a request that is lost and one that is not;
what follows from them (giving up, answers, cancelling, restarts after a ROM entry) is
not counted. One epoch change with one
fault puts a packet of the old epoch behind every step of the new one. Four steps of the user are an edit, a
save, a second edit and its save (or a retry), and two events put a restart and a lost
answer, or another writer and a power cut, into one save. Two requests of four frames
overflow an ingress queue of seven; the firmware's eight slots are never overflowed by two
requests. Two troubles are a lost packet and a reset, or what it takes for a repetition to
meet the receipts of the first attempt. With three mouse events
a button goes down, the focus moves and a mouse is unplugged, the mode changes or a
frame is lost, with every report still in flight or queued. Larger
instances were tried and also passed: `KeyboardSync` with `LinkCap` 2 and two epochs
(6.9 million states), `firmware_pull` with drops, the blind reboots, a fault and two tags (4.2 million), `Maintenance` with three
events and a one-slot queue (2.2 million, before UF2 drops were added), the safety
properties of `selection` with two TX slots (1.1 million) and of `config_confirm` with queues of 8
and two or three troubles (850 thousand and 1.8 million), `ReceiptsAreWhole` for the page alone
(`Retries` FALSE, queues of 8, two troubles: 660 thousand), and a
complete UF2 drop next to a pull with three blocks and `RebootsWholeImage`, without
the blind reboots (2.3 million).

The runs whose work can be over (all switches, inputs or reboots used, everything
delivered) set `CHECK_DEADLOCK FALSE`: the boards are then idle. The selection,
snapshot and mouse runs check for deadlock, since their periodic messages never end.

### Fairness

Weak fairness is given to what a task loop does when it is due. Strong fairness is
given to steps that need a free slot or an idle core, which come and go: the
loops run thousands of times a second, are not synchronised with each other and
will find the slot. In `Selection`, strong fairness of receiving says that a frame
repeated every second eventually gets through; loss itself is unlimited there.
In the other modules losses are bounded by `MaxFaults`. `Submit(TRUE)` says that a
plugged-in host polls. User actions, resets, losses and timeouts have no fairness.
In `FirmwarePull`, `reboot[b] /\ Restart(b)` is fair because the watchdog expires. In
`Maintenance` only giving up is fair: deadlines pass and core 0's loop looks at them. In
`ConfigConfirm` only a pass that finds the two seconds over is fair. In `Mouse` receiving and
draining are weakly fair, and the heartbeat strongly, since the link it needs is idle
again and again.

## Proofs

For every value of the constants that satisfies the `ASSUME`s (even counter range
of at least 4, positive capacities, natural bounds):

* `SelectionProofs`: `Invariance` shows `IInv`, the conjunction of `TypeOK`,
  `PhasesConsistent`, `FramesDecode` and `RoutingFollowsToken`, from which
  `TypeCorrect`, `EveryFrameDecodes` and `RoutingIsConsistent` follow, and
  `TokensNeverRegress` shows the action property `TokensAdvance`.
  `FramesDecode` alone is not inductive: `selection_decode` refuses a frame in no
  phase that is not the boot default, so one needs that a *board* in no phase is at
  its boot default (`PhasesConsistent`), which is in turn preserved by merging only
  because incoming frames decode. `TokensAdvance` rests on the lemmas of the
  half-range order (the successor of a counter is newer, the rebased counter is
  newer than both), which is where `Half > 1` is used. These proofs cover late
  frames and old peers.
  `SameTokenSameOutput` and `ResetsNeverSwitch` show `OneOutputPerToken` and
  `ResetsArePassive` for every `Session`: no late frames (with them the first is false) and
  no counter that comes to half its range, which on the device takes 2^31 switches; old peers
  are included. Then the half-range order is the order of numbers. `TokenIInv` adds three
  things to `IInv`. `Link`: marked frames come from boards with tokens, and what a waiting
  core has encoded is still its board's state. `Line`: whatever a board has under way, from
  the encoded payload to the peer's ring, is at most as new as the board's own token, which
  has room for all that the session may still add. `Known`: a board holds a token of its
  peer's making only if the peer has got at least that far, or has reset since and will get
  there with any frame that is on its way to it; so a request makes a token that nobody
  has. Both halves are needed: a peer that has reset makes low counters again, and only the
  frames it must merge first lift it above its former tokens. A boot default and the switches
  made before joining can collide between two fresh boards; `Held` (an unjoined board's
  output is its counter's parity) says why that is harmless. `Passive` then follows the boards
  from the moment they agree: of two joined boards both have that token, and a board that has
  reset since is at its boot default while everything under way to it is that token.
  The run `selection` covers what `Session` leaves out, a counter that wraps.
* `KbdQueueProofs`: `KbdInvariance` shows the inductive `KbdIInv`: types,
  `TailBehindFullQueue`, `LastReportShown` and `SessionStarts`. `QueueImplementsFifo` shows `Spec => RefinesFifo`:
  Init maps to `FifoInit`, and each action is a put, an overwrite, a delivery, a
  reset or a stutter of the backlog. The case that needs the invariant is
  overflow: a pending tail implies a full queue, so the backlog has length
  `Cap + 1` exactly when the newest report may be overwritten.
  `OtherSessionsKeysStayOut` shows `PeerKeysAreVouched` from `VouchIInv`: peer keys that the
  current generation accepts were announced in it, and so was every peer key in the
  queue, in the tail and at the host. It uses `KeysAssumption` (the model's local and
  peer keys are told apart, and the lock key is a local one).

* `KeyboardSyncProofs`: `SyncInvariance` shows `SyncIInv`, from which `SyncTypeCorrect` and
  `StaleKeysStayOut` (`NoStaleKeys`) follow, for every length of the source queue and of the link.
  `NoStaleKeys` is about the moment a snapshot is accepted; the invariant is about everything
  that may still be. `InOrder`: what a board has sent, has queued and holds is in the order of its
  key events, so that accepting one snapshot makes none of those behind it stale. `Current`:
  whatever can answer the receiver's challenge is no older than its host session, and once the
  first challenge of an epoch has been answered, nothing that is queued or on the link is. A
  new session therefore asks for nothing until `epoch_pending` is set, the RESET that follows
  empties the source's queue, and a plain REQUEST is only sent when there is nothing old left.
  `AskedOnce` says that a challenge travels once and that its answerer has not heard it yet:
  otherwise `n # target[b]`, the duplicate test of the handler, could keep a RESET from
  emptying the queue. The proof covers lost packets, expired challenges and reboots of either
  board in the middle of an exchange. That no nonce is used twice is part of the model.

* `MaintenanceProofs`: `MaintInvariance` shows `MaintIInv`, from which `MaintTypeCorrect`,
  `ReservationKeepsSafe` and `SourceStays` follow. `ReservedIsSafe` needs `ReservationOK`:
  the flag the other core reads equals what the phases say, and a client and an
  accepting server are never active together, or a local reset into configuration
  mode would set `reboot_requested` under the server's reservation.
  `SourceNotAbandoned` needs `LeaseCovers`: a word is under the lease while core 1 waits
  to queue it, while it is in the queue, the UART or on the wire, and as long as the
  peer's slot holds it. Types need that a phase other than idle has a request and
  that only an accepted one drains.
  `RequestInvariance` adds what follows one request from board to board (`RequestIInv`):
  `Traffic`, that a request has at most one copy over transmit queue, UART, wire and
  hand-over, that its number was given out and that it is used once; and `History`, that a
  board in the ROM has nothing else under way, that a server knows only requests that were
  sent, that an accepted request excludes a crossing one, and that an answer says what
  the server decided. From it `AnswersPrecedeResets`, `CrossedRequestsExclude` and
  `DeadRequestsNeverReset` follow. Each action is first shown to be a `StepOK` step (messages
  only move forward, a phase is entered only with the message that allows it, an ended
  request stays ended); each part of the invariant then follows from `StepOK` alone.

* `ConfigPageProofs`, the store: `StoreInvariance` shows `StoreInv`, from which `StoreTypeCorrect` and
  `BufferIsExclusive` follow. `BufferHasOneUser` needs `SavesExclude`: a save on either
  core excludes a save on the other and a transfer for as long as it lasts, which is
  what holding `firmware_update_lock` to the end of the write gives.

* `ConfigPageProofs`, the page: `PageUsesStore` shows that the page's specification implements
  `StoreSpec`, so `PageBufferIsExclusive` carries `BufferHasOneUser` over to the page.
  `PageInvariance` shows `PageIInv`, from which `PageTypeCorrect` and `SavesAreKept`
  (`SavedIsKept`) follow. Beyond `StoreInv` it says what each stage of the save handler has
  established: which writes are still to come, that the fields already read back agree with
  the board, that a late answer belongs to an abandoned call, and that from the moment the
  page is sure of a board, nothing on that board has changed the saved settings.

* `FirmwarePullProofs`: `FirmwareInvariance` shows `FirmwareIInv`: per board, requests lie in
  the slot and pages begin at page boundaries, a pull is for an image that is not older, an
  untouched slot holds the running image, and a board that asked for its reboot after a
  pull holds a whole image. `FirmwareTypeCorrect` and `CleanSlotsBoot` (`CleanMeansBootable`) follow
  for every environment. `GuardedRebootsAreSafe` (`RebootsWholeImage`), `PullsNeverDowngrade`
  (`NoDowngrade`) and `PullsEndWell` (`PullsNeverSpoil`) assume `~AnyReboot`, that is, that neither
  of the two requests that look at nothing is made; with them the first is false, which is
  finding 2. `PullsEndWell` needs `PairOK`, a statement about both boards: while no file
  is dropped, one of them leads (it serves and never pulls, and each of its packets in
  flight carries its image) and the other follows (every word it has seen is in its slot or in
  its page buffer).

* `MouseProofs`: `MouseInvariance` shows `MouseIInv`, from which `MouseTypeCorrect` and `DragsEnd`
  (`HeldDragEnds`) follow. The property speaks of a host whose queue is empty; the
  invariant is about the queue: once a drag has ended its board is inactive, and the last
  report queued for each interface is a release, or none is queued and the host
  shows the button up.

* `ConfigConfirmProofs`: `ConfirmInvariance` shows `ConfirmIInv`: every frame and every
  transaction belongs to a request that was made, requests go from host to bridge to peer
  and answers back, and whatever is of the present USB epoch has a token above `ended`.
  `ConfirmTypeCorrect` and `EndedSessionsStayInert` (`EndedSessionsAreInert`) follow, for
  clients that repeat requests as well. `Task` is followed in its own order: each part of a
  pass (cancel, expire, receive, transport) is shown to keep `LiveOK`, the invariant of one
  service, and the pass is put together from the parts.
  `PageCallsImplementCall` shows `ImplementsCall` under `~Retries`, the page as it is. It needs
  `CallIInv`, which adds `Fresh` and `Truth`: the META frame of a request, without which
  nothing is assembled, is in at most one place from the page to the board the request is
  for, and nowhere once it is decided; and whatever is remembered, sent, put together by the
  bridge or heard by the page agrees with the decision. Then a first frame sent is `Ask`; a
  time-out, a disconnection, a reset or a contradictory answer is `GiveUp`; a pass is `Decide`,
  `DecideLate`, `Answer` or a stutter. Deciding and answering never fall together, because
  a page that has heard half an answer waits for a request that is already decided.

Only model-checked:

* all liveness: `Converges`, `ShowsHeldKeys`, `SnapshotsConverge`, `SameVersion`,
  `ReservationsEnd`, `ServiceFrees`, `MirrorsConverge`. The prover does not do fairness;
* `OneOutputPerToken` and `ResetsArePassive` when a counter wraps within the session;
* `ImplementsCall` for a client that repeats its requests (`Retries`), that is, that they are
  decided once.

## Findings

1. `kbd_mount_race`. `tud_mount_cb` (core 0) starts a new generation before it sets
   `tud_connected`. If `keyboard_sync_task` (core 1) runs in between, it notes the
   generation, skips the reconciliation and never does it again: a key held across
   enumeration is not shown until the next key event.
2. `firmware_blind_reboot`. The configuration chord and a mouse queue that stays full
   set `reboot_requested` without looking at the updater, so a partly written slot is
   rebooted, against the comments at `src/handlers.c:30` and `src/utils.c:488`;
   `docs/future-projects.md:168` names both paths as a remaining issue.
3. `config_retry`. `src/config_confirm.c:184` says "Do not combine one status with another
   value", but an ACK_VALUE is taken with whatever ACK_META came before it, and the receipts of two
   attempts have the same token. The bridge gives a request up and the client repeats it; the
   peer answers the first attempt with ACK_META (OK), its two seconds end before the
   ACK_VALUE; the repetition loses a part on the way and is answered INCOMPLETE with 0, and
   that ACK_META is lost. The bridge then answers OK with 0, which the peer never said. It takes
   a peer that is slower than the bridge's two seconds, and a client that repeats: the page
   does not, and for it `PageCallsImplementCall` proves that it hears the decision or nothing.

### Known gaps

What the models show of the code and no run states as a violation:

* With `LateFrames` TRUE a token can name two outputs. A switches (token 3, output 0);
  the frame is late; A resets, the user switches again before A has joined, and A
  rebases that switch on the peer's token 2: token 3 again, output 1. When the late
  frame arrives, both boards hold token 3 with different outputs, and equal tokens
  never update each other. `tests/test_selection.c:16` says a token cannot name two
  values; `docs/testing/coverage.md:151` leaves stale traffic across resets open.
* `handle_mouse_synthetic_uart_msg` (`src/handlers.c:315`) queues its report whatever the
  output. The edge report of a macOS desktop crossing carries the buttons; if it is still
  in flight when the focus leaves, the button is pressed again on the old host and stays
  down. `HeldDragEnds` is stated without this case (`ended` is cleared by it).
* `release_mouse_host_buttons` (`src/mouse.c:275`) does nothing when no button is held. A
  button that a mode change during a drag, or a release dropped by a full queue or a lost frame, has
  left down on one interface therefore stays down when the focus leaves, although the
  comment above it says "A focus change ends a drag on both HID interfaces of the old
  host". `HeldDragEnds` is about drags the board knows of.
* Gaming mode and switch lock are sent once and not repeated: after a lost frame the
  boards disagree until the next toggle.

## Not modelled

HID descriptor parsing and report extraction (byte-level, sequential, covered by the
unit tests); console text; LEDs, pins, clocks and DMA setup; diagnostics (read-only queries); clipboard
typing, zoom assist, the reboot chord, activity ages (small state machines, see the
plan); the receive ring and its parser, of which the models keep the effect, that a frame
arrives or not; page generation, host tools and vendored SDKs. Individual locks are not
modelled: an action is a critical section. RAM corruption, flash wear and loss of
power with a dirty firmware slot are outside the code's own guarantees.

## Plan

In order of importance; the first seven exist.

1. `Selection` and its proofs.
2. `KbdFifo`, `KbdQueue` and their proofs.
3. `KeyboardSync` and its proofs.
4. `FirmwarePull` and its proofs.
5. `Maintenance` and its proofs.
6. `ConfirmedCall`, `ConfigConfirm`, `ConfigStore` and `ConfigPage` with their proofs.
7. `Mouse` and its proofs.
8. `UartParser`: the receive ring with its DMA writer, against the reference "every
   intact frame is delivered once, in order" (`tasks.c` 415-508).
9. Clipboard transaction, zoom debt, reboot chord, activity ages, history ring.
