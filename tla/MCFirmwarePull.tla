--------------------------- MODULE MCFirmwarePull ----------------------------
(***************************************************************************)
(* FirmwarePull for TLC: image 1 is version 1, images 2 and 3 are two      *)
(* builds of version 2.                                                    *)
(***************************************************************************)
EXTENDS FirmwarePull

MCVersion == [i \in Image |-> IF i = 1 THEN 1 ELSE 2]
=============================================================================
