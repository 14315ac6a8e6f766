----------------------------- MODULE MCKbdQueue ------------------------------
(***************************************************************************)
(* KbdQueue for TLC, with a history variable: the peer's keys that a       *)
(* snapshot accepted in the current host session has vouched for.          *)
(***************************************************************************)
EXTENDS KbdQueue

VARIABLE vouched

MCInit == Init /\ vouched = AllUp

MCNext ==
  /\ Next
  /\ vouched' = IF gen' # gen THEN AllUp ELSE vouched \cup offered'

MCSpec == MCInit /\ [][MCNext]_<<vars, vouched>> /\ Fairness

Waiting == {queue[i] : i \in 1 .. Len(queue)} \cup {latest}

(* A host session is typed on only by snapshots accepted in it: a peer key *)
(* accepted before a bus reset, or between core 1's check and its          *)
(* publication, never enters the new session's queue or its tail.          *)
PeerKeysAreVouched == \A r \in Waiting : r \cap PeerKeys \subseteq vouched
=============================================================================
