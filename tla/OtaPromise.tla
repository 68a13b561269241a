----------------------------- MODULE OtaPromise ------------------------------
(***************************************************************************)
(* What an agent update promises, without slots, markers or processes:     *)
(* there is always one image the next boot will run; a trial of another    *)
(* image may be started, may pass, and may be abandoned at any time; and   *)
(* the image changes only in one atomic commit of a trial that passed.     *)
(***************************************************************************)
CONSTANTS Versions, Bootstrap, None

VARIABLES
    image,   \* the release the next boot runs
    trial,   \* the release on trial, or None
    passed   \* the trial in progress has succeeded

pvars == <<image, trial, passed>>

Init == image = Bootstrap /\ trial = None /\ passed = FALSE

Try ==
    /\ trial = None
    /\ trial' \in Versions
    /\ passed' = FALSE
    /\ UNCHANGED image

Pass ==
    /\ trial # None
    /\ passed' = TRUE
    /\ UNCHANGED <<image, trial>>

Commit ==
    /\ passed
    /\ image' = trial
    /\ trial' = None
    /\ passed' = FALSE

\* A failed trial, or a power failure that forgets its outcome.
Forget ==
    /\ passed' = FALSE
    /\ trial' \in {trial, None}
    /\ UNCHANGED image

Next == Try \/ Pass \/ Commit \/ Forget

Spec == Init /\ [][Next]_pvars

=============================================================================
