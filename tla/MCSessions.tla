-------------------------------- MODULE MCSessions --------------------------------
(* Instances of Sessions for TLC: ids are model values. *)
EXTENDS Sessions, TLC
=============================================================================
