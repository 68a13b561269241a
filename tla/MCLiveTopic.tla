---------------------------- MODULE MCLiveTopic ----------------------------
(***************************************************************************)
(* LiveTopic for TLC: the event thread announces two changes that may both *)
(* happen before it gets to the first, a page load and the sampler read,   *)
(* one fetch fails.                                                        *)
(***************************************************************************)
EXTENDS LiveTopic

=============================================================================
