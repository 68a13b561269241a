--------------------------- MODULE MCStandbyGuard ---------------------------
(* Values for TLC. *)
EXTENDS StandbyGuard

MCFaults == {"lost", "step", "revert", "crash", "writing", "commit"}
=============================================================================
