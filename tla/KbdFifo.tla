------------------------------- MODULE KbdFifo -------------------------------
(***************************************************************************)
(* What the keyboard queue promises to the host it types on: reports reach *)
(* it one at a time and in order; nothing is skipped while fewer than      *)
(* Cap + 1 reports wait; at that limit only the newest of them may be      *)
(* overwritten, by one newer still; and a bus reset or a change of focus   *)
(* forgets the whole backlog, never a part of it.                          *)
(***************************************************************************)
EXTENDS Integers, Sequences

CONSTANTS Report, Cap, AllUp   \* AllUp \in Report, Cap > 0

VARIABLES
  backlog,  \* reports the host has not seen yet, oldest first
  shown     \* the report the host has seen last

fifoVars == <<backlog, shown>>

FifoInit == backlog = <<>> /\ shown = AllUp

Put(r) ==
  /\ Len(backlog) <= Cap
  /\ backlog' = Append(backlog, r)
  /\ UNCHANGED shown

Overwrite(r) ==
  /\ Len(backlog) = Cap + 1
  /\ backlog' = [backlog EXCEPT ![Cap + 1] = r]
  /\ UNCHANGED shown

Deliver ==
  /\ backlog # <<>>
  /\ shown' = Head(backlog)
  /\ backlog' = Tail(backlog)

(* A new host session (shown is all-up) or a change of focus (shown stays, *)
(* and an all-up report follows). *)
Forget ==
  /\ backlog' = <<>>
  /\ shown' \in {shown, AllUp}

(* The cable is out, and the backlog not forgotten yet. *)
Unplug == shown' = AllUp /\ UNCHANGED backlog

FifoNext ==
  \/ \E r \in Report : Put(r) \/ Overwrite(r)
  \/ Deliver \/ Forget \/ Unplug

FifoSpec == FifoInit /\ [][FifoNext]_fifoVars
=============================================================================
