----------------------------- MODULE MCStreams -----------------------------
(***************************************************************************)
(* Streams for TLC: one session of each kind at a time.  A bearer session  *)
(* can outlive its idle time by being used, a browser session cannot.      *)
(***************************************************************************)
EXTENDS Streams, TLC

PerKind(bearer, browser) == [kind \in Kinds |-> IF kind = "bearer" THEN bearer ELSE browser]
MCIdle == PerKind(2, 1)
MCAbsolute == PerKind(3, 1)
MCCap == PerKind(1, 1)

Symmetry == Permutations(Conns)

=============================================================================
