--------------------------- MODULE MCKeyboardSync ----------------------------
(***************************************************************************)
(* KeyboardSync for TLC, with a history variable: floor[b] is the oldest   *)
(* key state of the peer that board b may still show its host - the state  *)
(* the peer was in when b's host session or focus began, or the newest one *)
(* b has accepted since.                                                   *)
(***************************************************************************)
EXTENDS KeyboardSync

VARIABLE floor

Begins(b) ==
  \/ dirty'[b] /\ ~dirty[b]
  \/ (token'[b] - token[b]) % 2 # 0
  \/ boot'[b] # boot[b]
  \/ leased[b] /\ ~leased'[b]

MCInit == Init /\ floor = [b \in Board |-> 0]

MCNext ==
  /\ Next
  /\ floor' = [b \in Board |-> IF Begins(b) THEN latest[Peer(b)]
                               ELSE IF remote'[b] # remote[b] /\ remote'[b] # 0
                               THEN remote'[b] ELSE floor[b]]

MCSpec == MCInit /\ [][MCNext]_<<vars, floor>> /\ Fairness

(* No accepted snapshot is out of date: across focus changes, bus resets,  *)
(* expired leases and reboots of either board, a snapshot that still       *)
(* travels, or an event the peer still has in its queue, never brings back *)
(* a key state older than the host session or than one already shown.      *)
NoStaleKeys ==
  [][\A b \in Board : remote'[b] # remote[b] /\ remote'[b] # 0
                        => remote'[b] >= floor[b]]_<<vars, floor>>
=============================================================================
