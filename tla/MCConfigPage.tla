---------------------------- MODULE MCConfigPage -----------------------------
(* Instance of ConfigPage: two boards, two fields with two values each. *)
EXTENDS ConfigPage

MCDefault == [f \in {1, 2} |-> IF f = 1 THEN 1 ELSE 0]

(* Flash of an older version with the screensaver off. *)
MCStored == {[old |-> TRUE, val |-> [f \in {1, 2} |-> 0]]}
=============================================================================
