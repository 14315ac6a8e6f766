----------------------------- MODULE MCSelection -----------------------------
(***************************************************************************)
(* Selection for TLC, with one history variable: the output on which the   *)
(* two boards had settled, as long as no switch has been asked for and at  *)
(* least one board has stayed up since.                                    *)
(***************************************************************************)
EXTENDS Selection

CONSTANT None

VARIABLE settled

SameToken ==
  sel[0].counter = sel[1].counter /\ sel[0].origin = sel[1].origin

SettledNow == Agreed /\ SameToken /\ \A b \in Board : ~old[b]

Remember ==
  settled' = IF requests' # requests THEN None
             ELSE IF SettledNow' THEN active'[0]
             ELSE IF \A b \in Board : ~sel'[b].joined THEN None
             ELSE settled

MCInit == Init /\ settled = IF SettledNow THEN active[0] ELSE None

MCNext == Next /\ Remember

mcvars == <<vars, settled>>

MCSpec == MCInit /\ [][MCNext]_mcvars /\ Fairness

(* A reset is passive: as long as one board stays up and the user asks for *)
(* nothing, every joined board keeps routing to the settled output; a boot *)
(* default, a delayed announcement or a repeated frame never switches.     *)
ResetsArePassive ==
  settled # None => \A b \in Board : sel[b].joined => active[b] = settled
=============================================================================
