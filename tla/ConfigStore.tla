----------------------------- MODULE ConfigStore -----------------------------
(***************************************************************************)
(* The settings of the boards: the copy in RAM, the one in flash, and the  *)
(* page buffer through which a copy reaches flash and which the firmware   *)
(* updater uses as well.  Confirmed requests run on core 0; the messages   *)
(* of older firmware from the peer, the hotkeys and the updater run on     *)
(* core 1.  The same messages from a board's own host run on core 0: an    *)
(* edit may therefore be made by either core, but saving and wiping are    *)
(* core 1's alone here, so that two of them at once on one board, and the  *)
(* updater between the steps of one, are left out.                         *)
(* firmware_update_lock is held from the moment a save fills the buffer    *)
(* until it is over.                                                       *)
(*                                                                         *)
(* A digest of settings is the settings: CRC-32 collisions are left out.   *)
(* A border pair counts as one field.                                      *)
(***************************************************************************)
EXTENDS Integers

CONSTANTS
  Board,     \* the boards
  Field,     \* settings
  Value,     \* what a setting may be; invalid values are refused before
  Default,   \* default_config
  Mode,      \* the screensaver modes, which migration sets
  Jitter,    \*   to this value
  Stored,    \* what may be in flash before the first start
  Blank,     \* what is in flash after an erase, or in an unused buffer
  Firmware   \* bytes of a firmware page

Config == [Field -> Value]

(* A copy of the settings in flash: of the current version, or of one that *)
(* load_config migrates.                                                   *)
Image == [old : BOOLEAN, val : Config]

ASSUME StoreAssumption ==
  /\ Default \in Config /\ Mode \in Field /\ Jitter \in Value
  /\ Stored \subseteq Image \cup {Blank}
  /\ Blank \notin Image /\ Firmware \notin Image /\ Blank # Firmware

VARIABLES
  config,    \* config[b]: the settings in RAM
  flash,     \* flash[b]: the settings in flash, or Blank
  buffer,    \* buffer[b]: page_buffer
  core0,     \* core0[b]: where config_save_confirmed is
  expected,  \* expected[b]: the digest it was given
  core1,     \* core1[b]: what core 1 is doing
  loading,   \* loading[b]: what load_config has read
  upgrade,   \* upgrade[b]: the updater
  pending    \* pending[b]: page_pending, the buffer holds a page to write

store == <<config, flash, buffer, core0, expected, core1, loading, upgrade, pending>>

StoreTypeOK ==
  /\ config \in [Board -> Config]
  /\ flash \in [Board -> Image \cup {Blank}]
  /\ buffer \in [Board -> Image \cup {Blank, Firmware}]
  /\ core0 \in [Board -> {"off", "none", "filled", "written"}]
  /\ expected \in [Board -> Config]
  /\ core1 \in [Board -> {"off", "none", "saving", "wiped", "loading"}]
  /\ loading \in [Board -> Image \cup {Blank}]
  /\ upgrade \in [Board -> {"no", "pulling", "dirty", "done"}]
  /\ pending \in [Board -> BOOLEAN]

(* migrate_config_to_current *)
Migrated(c) == [c EXCEPT ![Mode] = Jitter]

(* load_config *)
Loaded(i) ==
  IF i = Blank THEN Default ELSE IF i.old THEN Migrated(i.val) ELSE i.val

Current(c) == [old |-> FALSE, val |-> c]

(* Both boards are off. *)
StoreInit ==
  /\ flash \in [Board -> Stored]
  /\ config = [b \in Board |-> Default]
  /\ buffer = [b \in Board |-> Blank]
  /\ core0 = [b \in Board |-> "off"] /\ expected = [b \in Board |-> Default]
  /\ core1 = [b \in Board |-> "off"] /\ loading = [b \in Board |-> Blank]
  /\ upgrade = [b \in Board |-> "no"] /\ pending = [b \in Board |-> FALSE]

Locked(b) == core0[b] # "none" \/ core1[b] = "saving"

(* upgrade_in_progress, and mutable_state_busy, which also counts an image *)
(* that waits for the reboot.                                              *)
Upgrading(b) == upgrade[b] \in {"pulling", "dirty"}
Busy(b) == upgrade[b] # "no"

-----------------------------------------------------------------------------
(* Core 0: confirmed requests. *)

(* CONFIG_CONFIRM_SET: the value is published under config_lock. *)
MaySet(b) == ~Locked(b) /\ ~Busy(b)

Set(b, f, v) ==
  /\ MaySet(b)
  /\ config' = [config EXCEPT ![b][f] = v]
  /\ UNCHANGED <<flash, buffer, core0, expected, core1, loading, upgrade, pending>>

(* Mutant: a transfer under way is not noticed. *)
MaySaveAnyTime(b, digest) == ~Locked(b) /\ config[b] = digest

(* config_save_confirmed, up to the write.  It ends at once if the store   *)
(* is busy or the settings are not the ones the caller has seen.           *)
MaySave(b, digest) == ~Locked(b) /\ ~Busy(b) /\ config[b] = digest

SaveBegin(b, digest) ==
  /\ MaySave(b, digest)
  /\ buffer' = [buffer EXCEPT ![b] = Current(config[b])]
  /\ core0' = [core0 EXCEPT ![b] = "filled"]
  /\ expected' = [expected EXCEPT ![b] = digest]
  /\ UNCHANGED <<config, flash, core1, loading, upgrade, pending>>

SaveWrite(b) ==
  /\ core0[b] = "filled"
  /\ flash' = [flash EXCEPT ![b] = buffer[b]]
  /\ core0' = [core0 EXCEPT ![b] = "written"]
  /\ UNCHANGED <<config, buffer, expected, core1, loading, upgrade, pending>>

(* What it answers: the bytes have been read back, and no edit came in     *)
(* while they were written.                                                *)
SaveGood(b) == flash[b] = buffer[b] /\ config[b] = expected[b]

SaveEnd(b) ==
  /\ core0[b] = "written"
  /\ core0' = [core0 EXCEPT ![b] = "none"]
  /\ UNCHANGED <<config, flash, buffer, expected, core1, loading, upgrade, pending>>

-----------------------------------------------------------------------------
(* Core 1. *)

(* SET_VAL, SCREENSAVER_MSG and the screensaver hotkeys; SET_VAL from the  *)
(* board's own host is core 0's, which core 1 does not keep from it.       *)
LocalEdit(b, f, v) ==
  /\ core0[b] = "none" \/ core1[b] = "none"
  /\ config' = [config EXCEPT ![b][f] = v]
  /\ UNCHANGED <<flash, buffer, core0, expected, core1, loading, upgrade, pending>>

(* save_config *)
LegacyBegin(b) ==
  /\ core1[b] = "none" /\ ~Locked(b) /\ ~Upgrading(b)
  /\ buffer' = [buffer EXCEPT ![b] = Current(config[b])]
  /\ core1' = [core1 EXCEPT ![b] = "saving"]
  /\ UNCHANGED <<config, flash, core0, expected, loading, upgrade, pending>>

LegacyWrite(b) ==
  /\ core1[b] = "saving"
  /\ flash' = [flash EXCEPT ![b] = buffer[b]]
  /\ core1' = [core1 EXCEPT ![b] = "none"]
  /\ UNCHANGED <<config, buffer, core0, expected, loading, upgrade, pending>>

(* handle_wipe_config_msg and wipe_config_hotkey_handler: wipe_config, then *)
(* load_config, which reads flash and publishes what it has read later.    *)
Wipe(b) ==
  /\ core1[b] = "none" /\ ~Locked(b)
  /\ flash' = [flash EXCEPT ![b] = IF Upgrading(b) THEN @ ELSE Blank]
  /\ core1' = [core1 EXCEPT ![b] = "wiped"]
  /\ UNCHANGED <<config, buffer, core0, expected, loading, upgrade, pending>>

LoadRead(b) ==
  /\ core1[b] = "wiped"
  /\ loading' = [loading EXCEPT ![b] = flash[b]]
  /\ core1' = [core1 EXCEPT ![b] = "loading"]
  /\ UNCHANGED <<config, flash, buffer, core0, expected, upgrade, pending>>

LoadPublish(b) ==
  /\ core1[b] = "loading"
  /\ config' = [config EXCEPT ![b] = Loaded(loading[b])]
  /\ core1' = [core1 EXCEPT ![b] = "none"]
  /\ loading' = [loading EXCEPT ![b] = Blank]
  /\ UNCHANGED <<flash, buffer, core0, expected, upgrade, pending>>

(* The updater: FirmwarePull has its details. *)
PullBegin(b) ==
  /\ core1[b] = "none" /\ ~Locked(b) /\ upgrade[b] = "no"
  /\ upgrade' = [upgrade EXCEPT ![b] = "pulling"]
  /\ UNCHANGED <<config, flash, buffer, core0, expected, core1, loading, pending>>

(* The words of a page have come in. *)
PullFill(b) ==
  /\ core1[b] = "none" /\ ~Locked(b) /\ Upgrading(b)
  /\ buffer' = [buffer EXCEPT ![b] = Firmware]
  /\ pending' = [pending EXCEPT ![b] = TRUE]
  /\ UNCHANGED <<config, flash, core0, expected, core1, loading, upgrade>>

(* commit_pending_firmware_page *)
PullCommit(b) ==
  /\ core1[b] = "none" /\ ~Locked(b) /\ Upgrading(b) /\ pending[b]
  /\ pending' = [pending EXCEPT ![b] = FALSE]
  /\ upgrade' = [upgrade EXCEPT ![b] = "dirty"]
  /\ UNCHANGED <<config, flash, buffer, core0, expected, core1, loading>>

(* A transfer that has written nothing is abandoned; one that is complete  *)
(* waits for its reboot.                                                   *)
PullEnd(b) ==
  /\ core1[b] = "none" /\ ~Locked(b) /\ Upgrading(b)
  /\ \/ upgrade[b] = "pulling" /\ upgrade' = [upgrade EXCEPT ![b] = "no"]
     \/ upgrade[b] = "dirty" /\ ~pending[b] /\ upgrade' = [upgrade EXCEPT ![b] = "done"]
  /\ pending' = [pending EXCEPT ![b] = FALSE]
  /\ UNCHANGED <<config, flash, buffer, core0, expected, core1, loading>>

(* The board is switched on, or power is lost or it resets and it starts   *)
(* again: setup calls load_config.  A write may be under way, of a save    *)
(* (not if flash has the page already) or of a migration, and leaves the   *)
(* sector erased.  A board with half an image does not come back.          *)
Restart(b, left) ==
  /\ upgrade[b] # "dirty"
  /\ \/ left = flash[b]
     \/ /\ left = Blank
        /\ \/ core0[b] = "filled" /\ flash[b] # buffer[b]
           \/ core1[b] = "saving"
           \/ flash[b] # Blank /\ flash[b].old
  /\ config' = [config EXCEPT ![b] = Loaded(left)]
  /\ flash' = [flash EXCEPT ![b] = IF left # Blank /\ left.old
                                   THEN Current(Loaded(left)) ELSE left]
  /\ buffer' = [buffer EXCEPT ![b] = Blank]
  /\ core0' = [core0 EXCEPT ![b] = "none"] /\ core1' = [core1 EXCEPT ![b] = "none"]
  /\ loading' = [loading EXCEPT ![b] = Blank]
  /\ upgrade' = [upgrade EXCEPT ![b] = "no"] /\ pending' = [pending EXCEPT ![b] = FALSE]
  /\ UNCHANGED expected

Core1(b) ==
  \/ \E f \in Field, v \in Value : LocalEdit(b, f, v)
  \/ LegacyBegin(b) \/ LegacyWrite(b) \/ Wipe(b) \/ LoadRead(b) \/ LoadPublish(b)
  \/ PullBegin(b) \/ PullFill(b) \/ PullCommit(b) \/ PullEnd(b)

StoreNext ==
  \E b \in Board :
    \/ \E f \in Field, v \in Value : Set(b, f, v)
    \/ \E d \in Config : SaveBegin(b, d)
    \/ SaveWrite(b) \/ SaveEnd(b) \/ Core1(b)
    \/ \E left \in Image \cup {Blank} : Restart(b, left)

StoreSpec == StoreInit /\ [][StoreNext]_store

(* The page buffer has one user at a time: what a save writes to flash are *)
(* settings, and what the updater writes to the firmware slot is firmware. *)
BufferHasOneUser ==
  \A b \in Board :
    /\ core0[b] \in {"filled", "written"} => buffer[b] = Current(expected[b])
    /\ core1[b] = "saving" => buffer[b] \in Image
    /\ pending[b] => buffer[b] = Firmware /\ Upgrading(b)
=============================================================================
