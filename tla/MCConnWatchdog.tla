---------------------------- MODULE MCConnWatchdog ----------------------------
(* Values for TLC: the order of the code's durations, in few units. *)
EXTENDS ConnWatchdog

MCCooldown == <<2, 2, 2, Day>>
MCCap == <<Day, Day, 1, 1>>
MCConfigs == {[enabled |-> TRUE, reboot |-> TRUE], [enabled |-> FALSE, reboot |-> FALSE]}
===============================================================================
