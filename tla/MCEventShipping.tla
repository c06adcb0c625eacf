--------------------------- MODULE MCEventShipping ---------------------------
(* Instances of EventShipping for TLC. *)
EXTENDS EventShipping

CONSTANTS f1, f2

OneFile == {f1}
TwoFiles == {f1, f2}

=============================================================================
