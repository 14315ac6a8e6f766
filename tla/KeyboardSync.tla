---------------------------- MODULE KeyboardSync -----------------------------
(***************************************************************************)
(* How the keys held on one board's keyboards reach the board whose host   *)
(* is selected (keyboard_sync.c).  The selected board challenges its peer  *)
(* with a nonce; the peer answers with snapshots of its key state, cut     *)
(* into fragments; the selected board takes a snapshot only when it        *)
(* answers the current challenge, completely and for the same selection.   *)
(* A snapshot holds for a lease; focus changes, bus resets and expired     *)
(* leases open a new epoch, whose first challenge makes the peer forget    *)
(* its history of key events.                                              *)
(*                                                                         *)
(* A key state is the number of the key event that led to it (0 is all     *)
(* up), so that an old state can be told from a new one.  A selection      *)
(* token is the number of switches, and names the output by its parity.    *)
(***************************************************************************)
EXTENDS Integers, Sequences, FiniteSets

CONSTANTS
  SourceCap,    \* SOURCE_QUEUE_SIZE: 128 in the firmware
  LinkCap,      \* packets between one board's queue and the other's parser
  Nonces,       \* values a challenge can have, all different from 0
  MaxEvents,    \* bound: key events and faults together
  MaxEpochs,    \* bound: switches, bus resets, expired leases and reboots
  MaxFaults     \* bound: packets lost, and challenges expired before their answer

Board == {0, 1}
Peer(b) == 1 - b
ASSUME SyncAssumption ==
  /\ SourceCap \in Nat \ {0} /\ LinkCap \in Nat \ {0, 1}
  /\ Nonces \subseteq Nat \ {0}
  /\ MaxEvents \in Nat /\ MaxEpochs \in Nat /\ MaxFaults \in Nat

VARIABLES
  token,      \* token[b]: the selection b has accepted
  boot,       \* boot[b]: sync.boot, which session of b this is
  latest,     \* latest[b]: sync.latest, b's own key state
  fifo,       \* fifo[b]: key states of b not sent yet
  tail,       \* tail[b]: sync.tail_pending
  nonce,      \* nonce[b]: b's challenge; 0 if none is out and in time
  epoch,      \* epoch[b]: sync.epoch_pending
  target,     \* target[b]: sync.target, the challenge b answers
  known,      \* known[b]: sync.target_known
  ready,      \* ready[b]: sync.target_valid, an answer is due
  head,       \* head[b]: target in the first fragment received, 0 if none
  peerBoot,   \* peerBoot[b]: sync.peer_boot, 0 without peer_serial_valid
  leased,     \* leased[b]: sync.peer_valid
  remote,     \* remote[b]: remote_kbd_state
  dirty,      \* dirty[b]: kbd_host_generation # sync.host_generation
  link,       \* link[b]: packets from b
  events,     \* number of key events so far
  epochs,     \* number of switches, resets, expiries and reboots so far
  faults      \* number of packets lost and of answers too late so far

vars == <<token, boot, latest, fifo, tail, nonce, epoch, target, known, ready,
          head, peerBoot, leased, remote, dirty, link, events, epochs, faults>>

source    == <<latest, fifo, tail>>
answering == <<target, known, ready>>
receiving == <<nonce, epoch, head, peerBoot, leased, remote>>
bounds    == <<events, epochs, faults>>

Active(b) == token[b] % 2 = b

Snapshot == [target : Nonces, boot : Nat, token : Nat, keys : Nat]
Packet ==
  [type : {"REQUEST", "RESET", "HEAD"}, nonce : Nonces]
    \cup [type : {"REST"}, snap : Snapshot]

SyncTypeOK ==
  /\ token \in [Board -> Nat] /\ boot \in [Board -> Nat]
  /\ latest \in [Board -> Nat] /\ remote \in [Board -> Nat]
  /\ fifo \in [Board -> Seq(Nat)]
  /\ nonce \in [Board -> Nonces \cup {0}] /\ target \in [Board -> Nonces \cup {0}]
  /\ \A f \in {tail, epoch, known, ready, leased, dirty} : f \in [Board -> BOOLEAN]
  /\ head \in [Board -> Nonces \cup {0}]
  /\ peerBoot \in [Board -> Nat]
  /\ link \in [Board -> Seq(Packet)]
  /\ events \in 0 .. MaxEvents /\ epochs \in 0 .. MaxEpochs
  /\ faults \in 0 .. MaxFaults
  /\ \A b \in Board : Len(fifo[b]) <= SourceCap /\ Len(link[b]) <= LinkCap

Init ==
  /\ token = [b \in Board |-> 0] /\ boot = [b \in Board |-> 1]
  /\ latest = [b \in Board |-> 0] /\ fifo = [b \in Board |-> <<>>]
  /\ tail = [b \in Board |-> FALSE]
  /\ nonce = [b \in Board |-> 0] /\ epoch = [b \in Board |-> TRUE]
  /\ target = [b \in Board |-> 0] /\ known = [b \in Board |-> FALSE]
  /\ ready = [b \in Board |-> FALSE]
  /\ head = [b \in Board |-> 0] /\ peerBoot = [b \in Board |-> 0]
  /\ leased = [b \in Board |-> FALSE] /\ remote = [b \in Board |-> 0]
  /\ dirty = [b \in Board |-> FALSE]
  /\ link = [b \in Board |-> <<>>]
  /\ events = 0 /\ epochs = 0 /\ faults = 0

NewEpoch == epochs < MaxEpochs /\ epochs' = epochs + 1

(* rotate_nonce: no challenge is out, and half a snapshot is forgotten. *)
RotateNonce(b) ==
  /\ nonce' = [nonce EXCEPT ![b] = 0]
  /\ head' = [head EXCEPT ![b] = 0]

-----------------------------------------------------------------------------
(* The source. *)

(* Mutant of Press: the event queue has no limit. *)
PressUnbounded(b) ==
  /\ events + faults < MaxEvents
  /\ events' = events + 1
  /\ latest' = [latest EXCEPT ![b] = events']
  /\ ready' = [ready EXCEPT ![b] = @ \/ known[b]]
  /\ fifo' = [fifo EXCEPT ![b] = IF Active(b) THEN @ ELSE Append(@, events')]
  /\ UNCHANGED <<token, boot, tail, target, known, receiving, dirty, link, epochs,
                 faults>>

(* A keyboard of b reports (keyboard_sync_publish): the selected board     *)
(* types it itself, the other one keeps it for the next snapshot.          *)
Press(b) ==
  /\ events + faults < MaxEvents
  /\ events' = events + 1
  /\ latest' = [latest EXCEPT ![b] = events']
  /\ ready' = [ready EXCEPT ![b] = @ \/ known[b]]
  /\ IF Active(b) THEN UNCHANGED <<fifo, tail>>
     ELSE IF tail[b] \/ Len(fifo[b]) = SourceCap
     THEN tail' = [tail EXCEPT ![b] = TRUE] /\ UNCHANGED fifo
     ELSE fifo' = [fifo EXCEPT ![b] = Append(@, events')] /\ UNCHANGED tail
  /\ UNCHANGED <<token, boot, target, known, receiving, dirty, link, epochs, faults>>

(* keyboard_sync_task, last part: one snapshot, the oldest event first. *)
SendSnapshot(b) ==
  /\ ~Active(b) /\ ready[b]
  /\ Len(link[b]) + 2 <= LinkCap
  /\ LET events_left == IF fifo[b] = <<>> THEN <<>> ELSE Tail(fifo[b])
         snap == [target |-> target[b], boot |-> boot[b], token |-> token[b],
                  keys |-> IF fifo[b] = <<>> THEN latest[b] ELSE Head(fifo[b])]
     IN  /\ link' = [link EXCEPT ![b] = @ \o <<[type |-> "HEAD", nonce |-> target[b]],
                                               [type |-> "REST", snap |-> snap]>>]
         /\ fifo' = [fifo EXCEPT ![b] = IF tail[b] THEN Append(events_left, latest[b])
                                        ELSE events_left]
  /\ tail' = [tail EXCEPT ![b] = FALSE]
  /\ ready' = [ready EXCEPT ![b] = fifo'[b] # <<>>]
  /\ UNCHANGED <<token, boot, latest, target, known, receiving, dirty, bounds>>

(* Core 0 took the slot of a later fragment: the event stays for the next  *)
(* tick.                                                                   *)
SendInterrupted(b) ==
  /\ ~Active(b) /\ ready[b]
  /\ Len(link[b]) + 2 = LinkCap
  /\ link' = [link EXCEPT ![b] = Append(@, [type |-> "HEAD", nonce |-> target[b]])]
  /\ UNCHANGED <<token, boot, source, answering, receiving, dirty, bounds>>

-----------------------------------------------------------------------------
(* The receiver. *)

PacketNonce(m) == IF m.type = "REST" THEN m.snap.target ELSE m.nonce

InLink(b) == {PacketNonce(link[b][i]) : i \in 1 .. Len(link[b])}

InUse ==
  UNION {{nonce[b], target[b], head[b]} \cup InLink(b) : b \in Board}

(* keyboard_sync_task: the selected board sends a challenge when none is   *)
(* out, and commits it only if it got a slot.  A nonce is never reused:    *)
(* the model takes one that occurs nowhere.                                *)
Request(b) ==
  /\ Active(b) /\ nonce[b] = 0
  /\ Len(link[b]) < LinkCap
  /\ \E n \in Nonces \ InUse :
       /\ \A m \in Nonces \ InUse : n <= m
       /\ link' = [link EXCEPT ![b] =
                     Append(@, [type |-> IF epoch[b] THEN "RESET" ELSE "REQUEST",
                                nonce |-> n])]
       /\ nonce' = [nonce EXCEPT ![b] = n]
  /\ head' = [head EXCEPT ![b] = 0]
  /\ UNCHANGED <<token, boot, source, answering, epoch, peerBoot, leased, remote,
                 dirty, bounds>>

Underway(n) ==
  \E b \in Board : n \in InLink(b) \/ (target[b] = n /\ ready[b] /\ ~Active(b))

(* 100 ms after it was sent, a challenge is void and the next one is due. *)
NonceExpires(b) ==
  /\ nonce[b] # 0
  /\ Underway(nonce[b]) => faults < MaxFaults /\ events + faults < MaxEvents
  /\ faults' = IF Underway(nonce[b]) THEN faults + 1 ELSE faults
  /\ nonce' = [nonce EXCEPT ![b] = 0]
  /\ UNCHANGED <<token, boot, source, answering, epoch, head, peerBoot, leased,
                 remote, dirty, link, events, epochs>>

(* 500 ms without an accepted snapshot: the peer's keys go up. *)
LeaseExpires(b) ==
  /\ leased[b] /\ NewEpoch
  /\ leased' = [leased EXCEPT ![b] = FALSE]
  /\ epoch' = [epoch EXCEPT ![b] = TRUE]
  /\ remote' = [remote EXCEPT ![b] = 0]
  /\ RotateNonce(b)
  /\ UNCHANGED <<token, boot, source, answering, peerBoot, dirty, link, events, faults>>

(* The host resets the bus (keyboard_host_reset on core 0) ... *)
BusReset(b) ==
  /\ NewEpoch
  /\ dirty' = [dirty EXCEPT ![b] = TRUE]
  /\ UNCHANGED <<token, boot, source, answering, receiving, link, events, faults>>

(* ... and keyboard_sync_task notices. *)
Reconcile(b) ==
  /\ dirty[b]
  /\ dirty' = [dirty EXCEPT ![b] = FALSE]
  /\ leased' = [leased EXCEPT ![b] = FALSE]
  /\ epoch' = [epoch EXCEPT ![b] = TRUE]
  /\ remote' = [remote EXCEPT ![b] = 0]
  /\ RotateNonce(b)
  /\ UNCHANGED <<token, boot, source, answering, peerBoot, link, bounds>>

-----------------------------------------------------------------------------
(* keyboard_sync_receive, for the packet at the head of the link. *)
Incoming(b) == Head(link[Peer(b)])

Arrives(b, types) ==
  /\ link[Peer(b)] # <<>> /\ Incoming(b).type \in types
  /\ link' = [link EXCEPT ![Peer(b)] = Tail(@)]

(* Mutant of ReceiveRequest: only a new epoch makes the peer answer. *)
ReceiveRequestOnce(b) ==
  /\ Arrives(b, {"REQUEST", "RESET"})
  /\ LET first == Incoming(b).type = "RESET"
     IN  IF Active(b) THEN UNCHANGED <<fifo, tail, answering>>
         ELSE /\ fifo' = [fifo EXCEPT ![b] = IF first THEN <<>> ELSE @]
              /\ tail' = [tail EXCEPT ![b] = @ /\ ~first]
              /\ target' = [target EXCEPT ![b] = Incoming(b).nonce]
              /\ known' = [known EXCEPT ![b] = TRUE]
              /\ ready' = [ready EXCEPT ![b] = @ \/ first]
  /\ UNCHANGED <<token, boot, latest, receiving, dirty, bounds>>

(* A challenge names the next target; the first one of an epoch clears the *)
(* events that precede it.                                                 *)
ReceiveRequest(b) ==
  /\ Arrives(b, {"REQUEST", "RESET"})
  /\ LET n == Incoming(b).nonce
         forget == Incoming(b).type = "RESET" /\ n # target[b]
     IN  IF Active(b) THEN UNCHANGED <<fifo, tail, answering>>
         ELSE /\ fifo' = [fifo EXCEPT ![b] = IF forget THEN <<>> ELSE @]
              /\ tail' = [tail EXCEPT ![b] = @ /\ ~forget]
              /\ target' = [target EXCEPT ![b] = n]
              /\ known' = [known EXCEPT ![b] = TRUE]
              /\ ready' = [ready EXCEPT ![b] = TRUE]
  /\ UNCHANGED <<token, boot, latest, receiving, dirty, bounds>>

ReceiveHead(b) ==
  /\ Arrives(b, {"HEAD"})
  /\ head' = [head EXCEPT ![b] = Incoming(b).nonce]
  /\ UNCHANGED <<token, boot, source, answering, nonce, epoch, peerBoot, leased,
                 remote, dirty, bounds>>

(* Mutant of Acceptable: any challenge of this session will do. *)
AcceptableAnyNonce(b, snap) ==
  /\ Active(b) /\ ~dirty[b]
  /\ head[b] = snap.target
  /\ snap.token = token[b]

(* The CRC in the last fragment vouches for the first. *)
Acceptable(b, snap) ==
  /\ Active(b) /\ ~dirty[b]
  /\ head[b] = snap.target /\ nonce[b] = snap.target
  /\ snap.token = token[b]

(* A new session of the peer retires the challenge at once. *)
NewSession(b, snap) == peerBoot[b] # 0 /\ peerBoot[b] # snap.boot

ReceiveRest(b) ==
  /\ Arrives(b, {"REST"})
  /\ LET snap == Incoming(b).snap
     IN  /\ Acceptable(b, snap)
         /\ epoch' = [epoch EXCEPT ![b] = NewSession(b, snap)]
         /\ nonce' = [nonce EXCEPT ![b] = IF NewSession(b, snap) THEN 0 ELSE @]
         /\ peerBoot' = [peerBoot EXCEPT ![b] = snap.boot]
         /\ remote' = [remote EXCEPT ![b] = snap.keys]
  /\ leased' = [leased EXCEPT ![b] = TRUE]
  /\ head' = [head EXCEPT ![b] = 0]
  /\ UNCHANGED <<token, boot, source, answering, dirty, bounds>>

RefuseRest(b) ==
  /\ Arrives(b, {"REST"})
  /\ ~Acceptable(b, Incoming(b).snap)
  /\ head' = [head EXCEPT ![b] = 0]
  /\ UNCHANGED <<token, boot, source, answering, nonce, epoch, peerBoot, leased,
                 remote, dirty, bounds>>

Lose(b) ==
  /\ link[b] # <<>> /\ faults < MaxFaults /\ events + faults < MaxEvents
  /\ faults' = faults + 1
  /\ link' = [link EXCEPT ![b] = Tail(@)]
  /\ UNCHANGED <<token, boot, source, answering, receiving, dirty, events, epochs>>

-----------------------------------------------------------------------------
(* keyboard_focus_changed: keyboard_host_reset, release_all_keys and       *)
(* keyboard_sync_reset.                                                    *)
FocusChanged(b) ==
  /\ dirty' = [dirty EXCEPT ![b] = TRUE]
  /\ latest' = [latest EXCEPT ![b] = 0]
  /\ remote' = [remote EXCEPT ![b] = 0]
  /\ fifo' = [fifo EXCEPT ![b] = <<>>]
  /\ tail' = [tail EXCEPT ![b] = FALSE]
  /\ known' = [known EXCEPT ![b] = FALSE]
  /\ ready' = [ready EXCEPT ![b] = FALSE]
  /\ leased' = [leased EXCEPT ![b] = FALSE]
  /\ peerBoot' = [peerBoot EXCEPT ![b] = 0]
  /\ epoch' = [epoch EXCEPT ![b] = TRUE]
  /\ RotateNonce(b)
  /\ UNCHANGED <<boot, target, link, events, faults>>

(* The user switches on board b ... *)
Switch(b) ==
  /\ NewEpoch
  /\ token' = [token EXCEPT ![b] = @ + 1]
  /\ FocusChanged(b)

(* ... and the peer follows, see module Selection. *)
Follow(b) ==
  /\ token[b] < token[Peer(b)]
  /\ token' = [token EXCEPT ![b] = token[Peer(b)]]
  /\ IF (token[b] - token[Peer(b)]) % 2 = 0
     THEN UNCHANGED <<boot, source, answering, receiving, dirty, link, events, faults>>
     ELSE FocusChanged(b)
  /\ UNCHANGED epochs

(* keyboard_sync_init *)
Reboot(b) ==
  /\ NewEpoch
  /\ boot' = [boot EXCEPT ![b] = @ + 1]
  /\ token' = [token EXCEPT ![b] = 0]
  /\ dirty' = [dirty EXCEPT ![b] = FALSE]
  /\ latest' = [latest EXCEPT ![b] = 0]
  /\ remote' = [remote EXCEPT ![b] = 0]
  /\ fifo' = [fifo EXCEPT ![b] = <<>>]
  /\ tail' = [tail EXCEPT ![b] = FALSE]
  /\ target' = [target EXCEPT ![b] = 0]
  /\ known' = [known EXCEPT ![b] = FALSE]
  /\ ready' = [ready EXCEPT ![b] = FALSE]
  /\ leased' = [leased EXCEPT ![b] = FALSE]
  /\ peerBoot' = [peerBoot EXCEPT ![b] = 0]
  /\ epoch' = [epoch EXCEPT ![b] = TRUE]
  /\ RotateNonce(b)
  /\ UNCHANGED <<link, events, faults>>

Next ==
  \E b \in Board :
    \/ Press(b) \/ SendSnapshot(b) \/ SendInterrupted(b)
    \/ Request(b) \/ NonceExpires(b) \/ LeaseExpires(b) \/ BusReset(b) \/ Reconcile(b)
    \/ ReceiveRequest(b) \/ ReceiveHead(b) \/ ReceiveRest(b) \/ RefuseRest(b)
    \/ Lose(b) \/ Switch(b) \/ Follow(b) \/ Reboot(b)

Spec == Init /\ [][Next]_vars

(* Both boards' core 1 loops keep running, and so does the link. *)
Receive(b) ==
  ReceiveRequest(b) \/ ReceiveHead(b) \/ ReceiveRest(b) \/ RefuseRest(b)

Fairness ==
  \A b \in Board :
    /\ SF_vars(SendSnapshot(b)) /\ SF_vars(Request(b))
    /\ WF_vars(Reconcile(b)) /\ WF_vars(NonceExpires(b)) /\ WF_vars(Follow(b))
    /\ WF_vars(Receive(b))

FairSpec == Spec /\ Fairness

-----------------------------------------------------------------------------
(* Properties. *)

(* Once no key moves, nothing is reset and nothing is lost any more, the   *)
(* selected board holds the peer's current keys for good.                  *)
SnapshotsConverge ==
  <>[](\A b \in Board : Active(b) /\ ~Active(Peer(b)) => remote[b] = latest[Peer(b)])
=============================================================================
