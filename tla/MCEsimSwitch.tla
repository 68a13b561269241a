---------------------------- MODULE MCEsimSwitch ----------------------------
(***************************************************************************)
(* Values for TLC: two requests on a card with two profiles.  Switches and *)
(* downloads meet each other on a card that keeps no receipts, and every   *)
(* other request on one that does.                                         *)
(***************************************************************************)
EXTENDS EsimSwitch

MCProfiles == {"p", "q"}
MCFaults == {"busy", "timeout", "fail", "spawn", "lockfile"}
Symmetry == Permutations(Requests)

Pairs(As, Bs) == {f \in [Requests -> Jobs] : \E a, b \in Requests : a # b /\ f[a] \in As /\ f[b] \in Bs}
Of(kinds) == {j \in Jobs : j.kind \in kinds}
Switch == [kind |-> "enable", profile |-> "q"]
MCWorkloads ==
    Pairs(Of({"enable", "list", "download"}), Of({"enable", "list", "download"})) \X {{}}
        \cup Pairs({Switch}, Of({"delete", "send", "notices"})) \X {{"q"}}
        \cup Pairs(Of({"delete"}), Of({"delete", "list", "rename", "send", "notices"})) \X {{"q"}}
        \cup Pairs(Of({"download"}), Of({"delete", "send"}) \ {[kind |-> "delete", profile |-> "p"]}) \X {{None}}
=============================================================================
