---------------------------- MODULE MCScheduler ----------------------------
(***************************************************************************)
(* Scheduler for TLC: days of three minutes, weeks of two days, a one-time *)
(* plan without and one with a restore, and a recurring plan whose restore *)
(* comes on the day after its action.                                      *)
(***************************************************************************)
EXTENDS Scheduler

Once(at, restore) == [kind |-> "once", at |-> at, days |-> {}, restore |-> restore]
Recurring(at, days, restore) ==
    [kind |-> "recurring", at |-> at, days |-> days, restore |-> restore]

MCPlans == {Once(2, None), Once(1, 2), Recurring(2, {0, 1}, 0)}

=============================================================================
