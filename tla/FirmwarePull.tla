---------------------------- MODULE FirmwarePull -----------------------------
(***************************************************************************)
(* How a DeskHop pair keeps both boards on the newest firmware.  A board   *)
(* that hears a newer version in its peer's heartbeat copies the peer's    *)
(* image over the UART into the flash slot it is itself executing from     *)
(* RAM: in pages when the peer can send them, else word by word.  A host   *)
(* may drop a UF2 file on either board at any moment.  There is one slot   *)
(* and no way back: from the first page written until the last one is      *)
(* validated the board must not reset.                                     *)
(*                                                                         *)
(* Every action is one critical section of the firmware lock.  An image is *)
(* an identity (its CRC); a word of flash holds the image it came from.    *)
(***************************************************************************)
EXTENDS Integers, Sequences, FiniteSets

CONSTANTS
  Image,        \* firmware images, numbers other than 0
  Version,      \* Version[i]: the version that image i advertises
  Unmarked,     \* images older than the protocol marker and the page protocol
  Start,        \* images the boards may run at first
  Pages,        \* pages of the slot: 1024 in the firmware; the last is the metadata
  Words,        \* words of a page: 64 in the firmware
  LinkCap,      \* packets between one board's queue and the other's parser
  MaxTag,       \* tags of one boot: fw_batch_token_next fails above it
  MaxAttempts,  \* FW_BATCH_MAX_ATTEMPTS
  AnyReboot,    \* TRUE: also the two reboot requests that do not look at the image
  MaxBlocks,    \* bound: UF2 blocks written by the hosts
  MaxReboots,   \* bound: reboots asked for, and resets
  MaxFaults     \* bound: packets lost or late, stalls and UF2 blocks, together

ASSUME ImageAssumption ==
  /\ Image \subseteq Nat \ {0} /\ Version \in [Image -> Nat]
  /\ Unmarked \subseteq Image /\ Start \subseteq Image
ASSUME SizeAssumption ==
  /\ Pages \in Nat \ {0, 1} /\ Words \in Nat \ {0} /\ LinkCap \in Nat \ {0}
  /\ MaxTag \in Nat /\ MaxAttempts \in Nat /\ AnyReboot \in BOOLEAN
ASSUME PullBoundAssumption ==
  MaxBlocks \in Nat /\ MaxReboots \in Nat /\ MaxFaults \in Nat

Board == {0, 1}
Peer(b) == 1 - b
None == 0
Cell == Image \cup {None}

Size == Pages * Words
Address == 0 .. Size - 1
Meta == (Pages - 1) * Words          \* firmware_metadata_t, in the last page
Page == 0 .. Pages - 1
PageOf(p) == (p * Words) .. (p * Words + Words - 1)

VARIABLES
  up,      \* up[b]: FALSE once b sits in the ROM bootloader
  run,     \* run[b]: _running_fw, the image b executes and advertises
  flash,   \* flash[b]: the running slot
  buffer,  \* buffer[b]: page_buffer
  fw,      \* fw[b]: fw_upgrade_state_t
  batch,   \* batch[b]: fw_batch_state_t
  tags,    \* tags[b]: tags taken in this boot
  blocks,  \* blocks[b]: uf2_blocks_received
  reboot,  \* reboot[b]: reboot_requested
  link,    \* link[b]: packets from b
  written, reboots, faults

vars == <<up, run, flash, buffer, fw, batch, tags, blocks, reboot, link,
          written, reboots, faults>>

Fw == [source : {"NONE", "PULL", "PAUSED", "DROP"}, done : BOOLEAN,
       asked : BOOLEAN, held : BOOLEAN, dirty : BOOLEAN, pin : Cell,
       addr : 0 .. Size, seen : SUBSET Cell]

(* upgrade_in_progress is source # "NONE"; done is byte_done, asked is     *)
(* request_pending, held is page_pending; pin stands for version and       *)
(* peer_checksum, seen for the running checksum: the images whose words    *)
(* went into it.                                                           *)
NoUpdate == [source |-> "NONE", done |-> FALSE, asked |-> FALSE, held |-> FALSE,
             dirty |-> FALSE, pin |-> None, addr |-> 0, seen |-> {}]

NoPage == [tag |-> 0, page |-> 0, cells |-> [w \in 0 .. Words - 1 |-> None]]
TxPage == [tag : 0 .. MaxTag, page : Page, cells : [0 .. Words - 1 -> Cell]]

Batch == [mode : {"WORDS", "PROBE", "WAIT", "PAGES"}, attempts : 0 .. MaxAttempts,
          caps : 0 .. MaxTag, want : 0 .. MaxTag,
          enabled : BOOLEAN, srcTag : 0 .. MaxTag, last : 0 .. MaxTag, tx : TxPage]

NoBatch == [mode |-> "WORDS", attempts |-> 0, caps |-> 0, want |-> 0,
            enabled |-> FALSE, srcTag |-> 0, last |-> 0, tx |-> NoPage]

Packet ==
  [type : {"HEARTBEAT"}, image : Image]
    \cup [type : {"CAPS_REQUEST", "CAPS_RESPONSE"}, tag : 1 .. MaxTag, image : Image]
    \cup [type : {"PAGE_REQUEST"}, tag : 1 .. MaxTag, page : Page]
    \cup [type : {"PAGE"}, data : TxPage]
    \cup [type : {"WORD_REQUEST"}, addr : Address]
    \cup [type : {"WORD"}, addr : Address, cell : Cell]

FirmwareTypeOK ==
  /\ up \in [Board -> BOOLEAN] /\ run \in [Board -> Image]
  /\ flash \in [Board -> [Address -> Cell]]
  /\ buffer \in [Board -> [0 .. Words - 1 -> Cell]]
  /\ fw \in [Board -> Fw] /\ batch \in [Board -> Batch]
  /\ tags \in [Board -> 0 .. MaxTag]
  /\ blocks \in [Board -> SUBSET Page]
  /\ reboot \in [Board -> BOOLEAN]
  /\ link \in [Board -> Seq(Packet)]
  /\ written \in 0 .. MaxBlocks /\ reboots \in 0 .. MaxReboots
  /\ faults \in 0 .. MaxFaults
  /\ \A b \in Board : Len(link[b]) <= LinkCap

Init ==
  /\ up = [b \in Board |-> TRUE]
  /\ run \in [Board -> Start]
  /\ flash = [b \in Board |-> [a \in Address |-> run[b]]]
  /\ buffer = [b \in Board |-> [w \in 0 .. Words - 1 |-> None]]
  /\ fw = [b \in Board |-> NoUpdate] /\ batch = [b \in Board |-> NoBatch]
  /\ tags = [b \in Board |-> 0]
  /\ blocks = [b \in Board |-> {}]
  /\ reboot = [b \in Board |-> FALSE]
  /\ link = [b \in Board |-> <<>>]
  /\ written = 0 /\ reboots = 0 /\ faults = 0

-----------------------------------------------------------------------------
Running(b) == up[b] /\ ~reboot[b]

(* firmware_image_is_valid: the CRC of the code in flash, and the metadata. *)
Valid(f, i) == \A a \in 0 .. Meta : f[a] = i

Room(b) == Len(link[b]) < LinkCap
Send(b, m) == link' = [link EXCEPT ![b] = Append(@, m)]

(* write_flash_page: the page that ends at address. *)
WritePage(f, address, cells) ==
  [a \in Address |-> IF a \in (address - Words) .. (address - 1)
                     THEN cells[a % Words] ELSE f[a]]

(* commit_pending_firmware_page *)
CommitFlash(b) ==
  flash' = [flash EXCEPT ![b] = IF fw[b].held
                                THEN WritePage(@, fw[b].addr, buffer[b]) ELSE @]

(* Mutant of Committed: writing a page leaves the image marked clean. *)
CommittedClean(s) == [s EXCEPT !.held = FALSE]

Committed(s) == [s EXCEPT !.dirty = @ \/ s.held, !.held = FALSE]

(* begin_firmware_pull and firmware_batch_begin_locked *)
BeginPull(image, dirty, drain) ==
  [NoUpdate EXCEPT !.source = "PULL", !.done = ~drain, !.dirty = dirty, !.pin = image]

BeginBatch(s) == [NoBatch EXCEPT !.mode = "PROBE", !.srcTag = s.srcTag, !.last = s.last]

Paused(s) == [s EXCEPT !.source = "PAUSED", !.asked = FALSE, !.done = FALSE]

StopPull(s) == IF s.dirty THEN Paused(s) ELSE NoUpdate

-----------------------------------------------------------------------------
(* heartbeat_output_task: silent while a UF2 file replaces the image. *)
Heartbeat(b) ==
  /\ up[b] /\ fw[b].source # "DROP" /\ Room(b)
  /\ Send(b, [type |-> "HEARTBEAT", image |-> run[b]])
  /\ UNCHANGED <<up, run, flash, buffer, fw, batch, tags, blocks, reboot,
                 written, reboots, faults>>

(* A request of b, or an answer to it, still travels. *)
Underway(b) ==
  \/ \E p \in Board : \E i \in 1 .. Len(link[p]) : link[p][i].type # "HEARTBEAT"
  \/ up[Peer(b)] /\ batch[Peer(b)].tx # NoPage

(* Mutant of Due: a request is never repeated. *)
DueOnAnswer(b) ==
  Running(b) /\ fw[b].source = "PULL" /\ fw[b].done /\ faults' = faults

(* fw_update_next_action asks for FW_UPDATE_REQUEST: a word or page has    *)
(* arrived, or 100 ms have passed since the last request.                  *)
Due(b) ==
  /\ Running(b) /\ fw[b].source = "PULL"
  /\ fw[b].done \/ ~Underway(b) \/ faults + written < MaxFaults
  /\ faults' = IF fw[b].done \/ ~Underway(b) THEN faults ELSE faults + 1

TagsLeft(b) == tags[b] < MaxTag

(* Mutant of FallsBack: a page is asked for again without end. *)
FallsBackOnTags(b) ==
  \/ batch[b].mode = "WAIT"
  \/ batch[b].mode \in {"PROBE", "PAGES"} /\ ~TagsLeft(b)

FallsBack(b) ==
  \/ batch[b].mode = "WAIT"
  \/ batch[b].mode = "PROBE" /\ ~TagsLeft(b)
  \/ batch[b].mode = "PAGES" /\ (batch[b].attempts >= MaxAttempts \/ ~TagsLeft(b))

UseWords(s) == [s EXCEPT !.mode = "WORDS", !.want = 0]

(* firmware_upgrade_task, asking whether the peer can send pages. *)
TaskProbe(b) ==
  /\ Due(b) /\ batch[b].mode = "PROBE" /\ TagsLeft(b) /\ Room(b)
  /\ tags' = [tags EXCEPT ![b] = @ + 1]
  /\ Send(b, [type |-> "CAPS_REQUEST", tag |-> tags'[b], image |-> fw[b].pin])
  /\ batch' = [batch EXCEPT ![b].mode = "WAIT", ![b].caps = tags'[b]]
  /\ fw' = [fw EXCEPT ![b].done = FALSE, ![b].asked = FALSE]
  /\ UNCHANGED <<up, run, flash, buffer, blocks, reboot, written, reboots>>

(* Mutant of TaskPage: the burst is asked for before the page is written. *)
TaskPageEarly(b) ==
  /\ Due(b) /\ batch[b].mode = "PAGES" /\ ~FallsBack(b) /\ Room(b)
  /\ fw[b].addr < Size
  /\ tags' = [tags EXCEPT ![b] = @ + 1]
  /\ Send(b, [type |-> "PAGE_REQUEST", tag |-> tags'[b], page |-> fw[b].addr \div Words])
  /\ batch' = [batch EXCEPT ![b].want = tags'[b], ![b].attempts = @ + 1]
  /\ fw' = [fw EXCEPT ![b].done = FALSE, ![b].asked = TRUE]
  /\ UNCHANGED <<up, run, flash, buffer, blocks, reboot, written, reboots>>

(* ... for the next page, once the last one has left the page buffer, *)
TaskPage(b) ==
  /\ Due(b) /\ batch[b].mode = "PAGES" /\ ~FallsBack(b) /\ Room(b)
  /\ fw[b].addr < Size
  /\ tags' = [tags EXCEPT ![b] = @ + 1]
  /\ Send(b, [type |-> "PAGE_REQUEST", tag |-> tags'[b], page |-> fw[b].addr \div Words])
  /\ batch' = [batch EXCEPT ![b].want = tags'[b], ![b].attempts = @ + 1]
  /\ fw' = [fw EXCEPT ![b] = [Committed(@) EXCEPT !.done = FALSE, !.asked = TRUE]]
  /\ CommitFlash(b)
  /\ UNCHANGED <<up, run, buffer, blocks, reboot, written, reboots>>

(* ... for the next word, before the page it completed is written, *)
TaskWord(b) ==
  /\ Due(b) /\ (batch[b].mode = "WORDS" \/ FallsBack(b)) /\ Room(b)
  /\ fw[b].addr < Size
  /\ Send(b, [type |-> "WORD_REQUEST", addr |-> fw[b].addr])
  /\ batch' = [batch EXCEPT ![b] = UseWords(@)]
  /\ fw' = [fw EXCEPT ![b] = [Committed(@) EXCEPT !.done = FALSE, !.asked = TRUE]]
  /\ CommitFlash(b)
  /\ UNCHANGED <<up, run, buffer, tags, blocks, reboot, written, reboots>>

(* ... or for nothing, as the queue is full: pages are written all the     *)
(* same, and a fallback is not taken back.                                 *)
TaskQueueFull(b) ==
  /\ Due(b) /\ ~Room(b) /\ fw[b].addr < Size
  /\ LET commits == batch[b].mode = "PAGES" /\ fw[b].done
         s == IF commits THEN Committed(fw[b]) ELSE fw[b]
     IN  /\ fw' = [fw EXCEPT ![b] = [s EXCEPT !.asked = @ /\ ~FallsBack(b)]]
         /\ IF commits THEN CommitFlash(b) ELSE UNCHANGED flash
  /\ batch' = [batch EXCEPT ![b] = IF FallsBack(b) THEN UseWords(@) ELSE @]
  /\ UNCHANGED <<up, run, buffer, tags, blocks, reboot, link, written, reboots>>

(* The last word or page has arrived: the image is validated, and booted   *)
(* or given up for the ROM bootloader.                                     *)
TaskFinish(b) ==
  /\ Running(b) /\ fw[b].source = "PULL" /\ fw[b].done /\ fw[b].addr = Size
  /\ CommitFlash(b)
  /\ LET good == fw[b].seen = {fw[b].pin} /\ Valid(flash'[b], fw[b].pin)
     IN  /\ fw' = [fw EXCEPT ![b] = [Committed(@) EXCEPT !.source = "NONE",
                                                         !.dirty = ~good]]
         /\ run' = [run EXCEPT ![b] = IF good THEN fw[b].pin ELSE @]
         /\ reboot' = [reboot EXCEPT ![b] = good]
         /\ up' = [up EXCEPT ![b] = good]
  /\ UNCHANGED <<buffer, batch, tags, blocks, link, written, reboots, faults>>

(* 30 s without progress: nothing of this pull is under way any more.  The *)
(* peer was heard in the last 3.5 s or was not.                            *)
TaskStalled(b) ==
  /\ Running(b) /\ fw[b].source = "PULL" /\ ~fw[b].done /\ ~Underway(b)
  /\ faults + written < MaxFaults /\ faults' = faults + 1
  /\ \/ /\ ~fw[b].dirty
        /\ fw' = [fw EXCEPT ![b] = NoUpdate]
        /\ UNCHANGED batch
     \/ /\ fw[b].dirty
        /\ fw' = [fw EXCEPT ![b] = BeginPull(fw[b].pin, TRUE, TRUE)]
        /\ batch' = [batch EXCEPT ![b] = BeginBatch(@)]
     \/ /\ fw[b].dirty
        /\ fw' = [fw EXCEPT ![b] = Paused(@)]
        /\ UNCHANGED batch
  /\ UNCHANGED <<up, run, flash, buffer, tags, blocks, reboot, link, written, reboots>>

-----------------------------------------------------------------------------
(* The packet handlers of core 1, for the packet at the head of the link.  *)
Incoming(b) == Head(link[Peer(b)])

Arrives(b, type) == link[Peer(b)] # <<>> /\ Incoming(b).type = type

Consume(b) == link' = [link EXCEPT ![Peer(b)] = Tail(@)]

Reply(b, m) == link' = [link EXCEPT ![Peer(b)] = Tail(@), ![b] = Append(@, m)]

(* Mutant of Newer: an equal or older image is pulled too. *)
NewerOrAny(b, i) == i # run[b]

Newer(b, i) == Version[i] > Version[run[b]]

(* A half-written board also takes back an image of its own version. *)
Repairs(b, i) == fw[b].dirty /\ Version[i] = Version[run[b]]

Begins(b, i) ==
  CASE fw[b].source = "PULL"   -> i # fw[b].pin /\ (Newer(b, i) \/ Repairs(b, i))
    [] fw[b].source = "PAUSED" -> Version[i] >= Version[run[b]]
    [] fw[b].source = "NONE"   -> Newer(b, i)
    [] OTHER                   -> FALSE

(* handle_heartbeat_msg: begins or restarts a pull, or stops one whose     *)
(* peer now runs something else.                                           *)
ReceiveHeartbeat(b) ==
  /\ Arrives(b, "HEARTBEAT") /\ Consume(b)
  /\ LET i == Incoming(b).image
         hears == Running(b) /\ run[b] \notin Unmarked
         begins == hears /\ i \notin Unmarked /\ Begins(b, i)
         stops == hears /\ fw[b].source = "PULL" /\ i # fw[b].pin /\ ~begins
     IN  /\ fw' = [fw EXCEPT ![b] =
                     IF begins THEN BeginPull(i, @.dirty, @.source # "NONE")
                     ELSE IF stops THEN StopPull(@) ELSE @]
         /\ batch' = [batch EXCEPT ![b] = IF begins THEN BeginBatch(@) ELSE @]
  /\ UNCHANGED <<up, run, flash, buffer, tags, blocks, reboot, written, reboots, faults>>

CanServe(b) == Running(b) /\ fw[b].source = "NONE" /\ ~fw[b].dirty

(* receive_caps_request *)
ReceiveCapsRequest(b) ==
  /\ Arrives(b, "CAPS_REQUEST")
  /\ LET m == Incoming(b)
         t == batch[b]
         knows == CanServe(b) /\ run[b] \notin Unmarked
                    /\ Version[m.image] = Version[run[b]] /\ Room(b)
         fresh == ~t.enabled \/ t.srcTag # m.tag
     IN  IF knows
         THEN /\ Reply(b, [type |-> "CAPS_RESPONSE", tag |-> m.tag, image |-> run[b]])
              /\ batch' = [batch EXCEPT ![b] =
                             [t EXCEPT !.enabled = TRUE, !.srcTag = m.tag,
                                       !.last = IF fresh THEN m.tag ELSE @,
                                       !.tx = IF fresh THEN NoPage ELSE @]]
         ELSE Consume(b) /\ UNCHANGED batch
  /\ UNCHANGED <<up, run, flash, buffer, fw, tags, blocks, reboot, written,
                 reboots, faults>>

ReceiveCapsResponse(b) ==
  /\ Arrives(b, "CAPS_RESPONSE") /\ Consume(b)
  /\ IF /\ Running(b) /\ fw[b].source = "PULL" /\ fw[b].addr = 0
        /\ batch[b].mode = "WAIT"
        /\ Incoming(b).tag = batch[b].caps /\ Incoming(b).image = fw[b].pin
     THEN /\ batch' = [batch EXCEPT ![b].mode = "PAGES"]
          /\ fw' = [fw EXCEPT ![b].done = TRUE]
     ELSE UNCHANGED <<batch, fw>>
  /\ UNCHANGED <<up, run, flash, buffer, tags, blocks, reboot, written, reboots, faults>>

(* receive_page_request: one page is copied out of flash ... *)
ReceivePageRequest(b) ==
  /\ Arrives(b, "PAGE_REQUEST") /\ Consume(b)
  /\ LET m == Incoming(b)
     IN  batch' = IF CanServe(b) /\ batch[b].enabled /\ m.tag > batch[b].last
                  THEN [batch EXCEPT
                          ![b].last = m.tag,
                          ![b].tx = [tag |-> m.tag, page |-> m.page,
                                     cells |-> [w \in 0 .. Words - 1 |->
                                                  flash[b][m.page * Words + w]]]]
                  ELSE batch
  /\ UNCHANGED <<up, run, flash, buffer, fw, tags, blocks, reboot, written,
                 reboots, faults>>

(* ... and sent by core 0 in idle moments (firmware_batch_next_tx). *)
SendPage(b) ==
  /\ up[b] /\ batch[b].tx # NoPage /\ Room(b)
  /\ IF CanServe(b) THEN Send(b, [type |-> "PAGE", data |-> batch[b].tx])
                    ELSE UNCHANGED link
  /\ batch' = [batch EXCEPT ![b].tx = NoPage, ![b].enabled = @ /\ CanServe(b)]
  /\ UNCHANGED <<up, run, flash, buffer, fw, tags, blocks, reboot, written,
                 reboots, faults>>

(* Code words count for the checksum, those of the metadata page do not. *)
Summed(seen, address, cells) == IF address < Meta THEN seen \cup cells ELSE seen

(* receive_page_data: some of a page's frames arrive; only when all of     *)
(* them do, and match its CRC, is the page taken.                          *)
ReceivePage(b, got) ==
  /\ Arrives(b, "PAGE") /\ Consume(b)
  /\ LET m == Incoming(b).data
         fits == /\ Running(b) /\ fw[b].source = "PULL" /\ fw[b].asked
                 /\ batch[b].mode = "PAGES" /\ batch[b].want = m.tag
         all == got = 0 .. Words - 1
         s == fw[b]
     IN  /\ ~all => faults + written < MaxFaults
         /\ faults' = IF all THEN faults ELSE faults + 1
         /\ IF fits
            THEN /\ buffer' = [buffer EXCEPT ![b] =
                       [w \in 0 .. Words - 1 |-> IF w \in got THEN m.cells[w] ELSE @[w]]]
                 /\ fw' = IF ~all THEN fw
                          ELSE [fw EXCEPT ![b] =
                             [s EXCEPT !.addr = @ + Words, !.asked = FALSE,
                                       !.done = TRUE, !.held = TRUE,
                                       !.seen = Summed(@, s.addr, {m.cells[w] : w \in got})]]
                 /\ batch' = IF ~all THEN batch
                             ELSE [batch EXCEPT ![b].attempts = 0, ![b].want = 0]
            ELSE UNCHANGED <<buffer, fw, batch>>
  /\ UNCHANGED <<up, run, flash, tags, blocks, reboot, written, reboots>>

(* handle_request_byte_msg: the answer waits for a slot. *)
ReceiveWordRequest(b) ==
  /\ Arrives(b, "WORD_REQUEST")
  /\ IF Running(b) /\ fw[b].source = "NONE"
     THEN /\ Room(b)
          /\ Reply(b, [type |-> "WORD", addr |-> Incoming(b).addr,
                       cell |-> flash[b][Incoming(b).addr]])
     ELSE Consume(b)
  /\ UNCHANGED <<up, run, flash, buffer, fw, batch, tags, blocks, reboot, written,
                 reboots, faults>>

(* Mutant of Expected: a late duplicate is taken for the answer. *)
ExpectedAny(b, address) ==
  /\ Running(b) /\ batch[b].mode = "WORDS" /\ fw[b].source = "PULL"
  /\ fw[b].asked

(* fw_update_response_expected *)
Expected(b, address) ==
  /\ Running(b) /\ batch[b].mode = "WORDS" /\ fw[b].source = "PULL"
  /\ fw[b].asked /\ fw[b].addr = address

(* handle_response_byte_msg *)
ReceiveWord(b) ==
  /\ Arrives(b, "WORD") /\ Consume(b)
  /\ LET m == Incoming(b)
         s == fw[b]
         next == s.addr + 1
     IN  IF Expected(b, m.addr)
         THEN /\ buffer' = [buffer EXCEPT ![b][m.addr % Words] = m.cell]
              /\ fw' = [fw EXCEPT ![b] =
                          [s EXCEPT !.addr = next, !.asked = FALSE, !.done = TRUE,
                                    !.held = @ \/ next % Words = 0,
                                    !.seen = Summed(@, m.addr, {m.cell})]]
         ELSE UNCHANGED <<buffer, fw>>
  /\ UNCHANGED <<up, run, flash, batch, tags, blocks, reboot, written, reboots, faults>>

Lose(b) ==
  /\ link[b] # <<>> /\ faults + written < MaxFaults
  /\ faults' = faults + 1
  /\ link' = [link EXCEPT ![b] = Tail(@)]
  /\ UNCHANGED <<up, run, flash, buffer, fw, batch, tags, blocks, reboot, written, reboots>>

-----------------------------------------------------------------------------
(* tud_msc_write10_cb on core 0: a UF2 block, in any order and of any      *)
(* file.  The first one takes the slot away from a pull.                   *)
Dropping(b) ==
  IF fw[b].source = "DROP" THEN fw[b] ELSE [NoUpdate EXCEPT !.source = "DROP"]

DropBlock(b, i, p) ==
  /\ Running(b) /\ written < MaxBlocks /\ faults + written < MaxFaults
  /\ written' = written + 1
  /\ LET had == IF fw[b].source = "DROP" THEN blocks[b] ELSE {}
         last == had \cup {p} = Page
     IN  /\ p \notin had
         /\ blocks' = [blocks EXCEPT ![b] = had \cup {p}]
         /\ flash' = [flash EXCEPT ![b] = [a \in Address |->
                                             IF a \in PageOf(p) THEN i ELSE @[a]]]
         /\ LET good == last /\ \E j \in Image : Valid(flash'[b], j)
            IN  /\ fw' = [fw EXCEPT ![b] = [Dropping(b) EXCEPT !.dirty = ~good]]
                /\ reboot' = [reboot EXCEPT ![b] = good]
                /\ up' = [up EXCEPT ![b] = last => good]
  /\ UNCHANGED <<run, buffer, batch, tags, link, reboots, faults>>

(* Mutant of RequestReboot: the image is not looked at. *)
RequestRebootAnyTime(b) ==
  /\ Running(b) /\ reboots < MaxReboots
  /\ reboots' = reboots + 1
  /\ reboot' = [reboot EXCEPT ![b] = TRUE]
  /\ UNCHANGED <<up, run, flash, buffer, fw, batch, tags, blocks, link, written, faults>>

(* request_graceful_reboot: the reboot chord, or the peer's REBOOT_MSG.    *)
(* config_enable_hotkey_handler, and queue_mouse_report_critical when the  *)
(* mouse queue stays full, look at neither the updater nor the image.      *)
RequestReboot(b) ==
  /\ Running(b) /\ reboots < MaxReboots
  /\ AnyReboot \/ (fw[b].source = "NONE" /\ ~fw[b].dirty)
  /\ reboots' = reboots + 1
  /\ reboot' = [reboot EXCEPT ![b] = TRUE]
  /\ UNCHANGED <<up, run, flash, buffer, fw, batch, tags, blocks, link, written, faults>>

(* The watchdog is no longer fed (kick_watchdog_task), or a board with an  *)
(* intact image resets on its own: the slot is booted.  The first tag of a *)
(* boot is random: it may or may not collide with the last boot's.         *)
Restart(b) ==
  /\ up[b]
  /\ reboot[b] \/ (~fw[b].dirty /\ reboots < MaxReboots)
  /\ reboots' = IF reboot[b] THEN reboots ELSE reboots + 1
  /\ up' = [up EXCEPT ![b] = \E i \in Image : Valid(flash[b], i)]
  /\ run' = [run EXCEPT ![b] = IF up'[b] THEN flash[b][Meta] ELSE @]
  /\ fw' = [fw EXCEPT ![b] = NoUpdate]
  /\ batch' = [batch EXCEPT ![b] = NoBatch]
  /\ \E seed \in {0, tags[b]} : tags' = [tags EXCEPT ![b] = seed]
  /\ blocks' = [blocks EXCEPT ![b] = {}]
  /\ buffer' = [buffer EXCEPT ![b] = [w \in 0 .. Words - 1 |-> None]]
  /\ reboot' = [reboot EXCEPT ![b] = FALSE]
  /\ UNCHANGED <<flash, link, written, faults>>

Next ==
  \E b \in Board :
    \/ Heartbeat(b)
    \/ TaskProbe(b) \/ TaskPage(b) \/ TaskWord(b) \/ TaskQueueFull(b)
    \/ TaskFinish(b) \/ TaskStalled(b)
    \/ ReceiveHeartbeat(b) \/ ReceiveCapsRequest(b) \/ ReceiveCapsResponse(b)
    \/ ReceivePageRequest(b) \/ SendPage(b)
    \/ \E got \in SUBSET (0 .. Words - 1) : ReceivePage(b, got)
    \/ ReceiveWordRequest(b) \/ ReceiveWord(b) \/ Lose(b)
    \/ \E i \in Image, p \in Page : DropBlock(b, i, p)
    \/ RequestReboot(b) \/ Restart(b)

Spec == Init /\ [][Next]_vars

(* Both boards' task loops keep running and find a slot once in a while;   *)
(* the watchdog expires.                                                   *)
Ask(b) == TaskProbe(b) \/ TaskPage(b) \/ TaskWord(b)

Receive(b) ==
  \/ ReceiveHeartbeat(b) \/ ReceiveCapsRequest(b) \/ ReceiveCapsResponse(b)
  \/ ReceivePageRequest(b) \/ ReceivePage(b, 0 .. Words - 1)
  \/ ReceiveWordRequest(b) \/ ReceiveWord(b)

Fairness ==
  \A b \in Board :
    /\ SF_vars(Heartbeat(b)) /\ SF_vars(Receive(b)) /\ SF_vars(SendPage(b))
    /\ SF_vars(Ask(b)) /\ WF_vars(TaskFinish(b)) /\ WF_vars(reboot[b] /\ Restart(b))

FairSpec == Spec /\ Fairness

-----------------------------------------------------------------------------
(* Properties. *)

(* The dirty flag tells the truth: a board that does not consider its      *)
(* slot dirty could be reset at that moment and would run again.  This     *)
(* relates every writer of the slot (pulled pages, UF2 blocks, restarts,   *)
(* hand-overs between them) to the one bit every reboot path looks at.     *)
CleanMeansBootable ==
  \A b \in Board : up[b] /\ ~fw[b].dirty => \E i \in Image : Valid(flash[b], i)

(* No reboot is asked for while the slot is partly written. *)
RebootsWholeImage ==
  \A b \in Board : up[b] /\ reboot[b] => \E i \in Image : Valid(flash[b], i)

(* As long as no host drops a file, lost, late, repeated and partial       *)
(* answers, stalls, restarts and reboots of the peer never spoil a pull:   *)
(* no board ends in the ROM bootloader.  A file dropped on the peer may    *)
(* change its image in the middle of a pull; then only the CRC at the end  *)
(* keeps the mixture from being taken for an image (CleanMeansBootable).   *)
PullsNeverSpoil == written = 0 => \A b \in Board : up[b]

(* A pull never takes a board back to an older version. *)
NoDowngrade ==
  [][\A b \in Board : fw[b].source = "PULL" /\ run'[b] # run[b]
                        => Version[run'[b]] >= Version[run[b]]]_vars

(* Without dropped files, once packets arrive again and nobody reboots,    *)
(* both boards end up, for good, on the newest version either had.         *)
SameVersion ==
  <>[](\A b \in Board : /\ fw[b].source = "NONE"
                        /\ \A p \in Board : Version[run[b]] >= Version[run[p]])
=============================================================================
