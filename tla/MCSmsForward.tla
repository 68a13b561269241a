---------------------------- MODULE MCSmsForward ----------------------------
(* Values for TLC: rule 1 forwards over the WAN, rule 2 by SMS. *)
EXTENDS SmsForward, TLC

MCMessages == 1..2
MCRules == 1..2
MCMatches == {<<1, 1>>, <<1, 2>>}
MCUsesWan == {1}
MCHandlers == Permutations(Handlers)
=============================================================================
