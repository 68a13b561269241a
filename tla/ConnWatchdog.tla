---------------------------- MODULE ConnWatchdog ----------------------------
(***************************************************************************)
(* The connectivity watchdog (conn_watchdog.rs): while the WAN says it is  *)
(* connected and the internet probe fails, it climbs a ladder of remedies, *)
(* each with a cooldown and some with a daily cap, the last one a reboot   *)
(* with fast boot switched off.  What it did is on disk, because it must   *)
(* outlive the restarts it causes.                                         *)
(*                                                                         *)
(* Time is counted in units; ages and waits stop counting where the code   *)
(* no longer tells them apart.  A remedy's own seconds are not counted,    *)
(* so what waits in the channel meanwhile is as if it came after.          *)
(***************************************************************************)
EXTENDS Integers, Sequences, FiniteSets

CONSTANTS
    None,
    Window,     \* RECOVERY_WINDOW
    Settle,     \* SETTLE
    Guard,      \* USER_ACTIVITY_GUARD
    Day,
    Cooldown,   \* Rung::cooldown
    Cap,        \* Rung::daily_cap; Day for the rungs without one
    TriggerFailures,
    TriggerAge, \* TRIGGER_MIN_AGE
    Faults,     \* what may go wrong: "crash", "disk", "fastboot", "reboot"
    Configs     \* the settings the owner chooses from

Rungs == 1..4   \* PDN reconnect, LPM and ONLINE, modem reset, reboot

ASSUME ConstantsAssumption ==
    /\ Day \in Nat \ {0} /\ None \notin Rungs
    /\ Settle \in 0..Window /\ Window \in 1..Day /\ Guard \in 1..Day
    /\ Cooldown \in [Rungs -> 1..Day] /\ Cap \in [Rungs -> 1..Day]
    /\ TriggerFailures \in Nat \ {0} /\ TriggerAge \in 0..Day
    /\ Faults \subseteq {"crash", "disk", "fastboot", "reboot"}
    /\ Configs \subseteq [enabled : BOOLEAN, reboot : BOOLEAN]

VARIABLES
    machine,    \* Machine
    thread,     \* event taken from the channel, steps of the rung being run
    pending,    \* run: fast_boot_pending
    guard,      \* how long a user change still keeps the watchdog off
    disk,       \* configuration, restore_fast_boot and the rungs of the last day
    fastBoot,   \* the device's fast boot switch
    done,       \* history: ages of the commands really given
    outlived,   \* history: a WAN drop outlived the window of the last rung
    mishap      \* history: what the code is known to lose

vars == <<machine, thread, pending, guard, disk, fastBoot, done, outlived, mishap>>
history == <<done, outlived, mishap>>

Ages == SUBSET (0..(Day - 1))
Events == [kind : {"Wan", "Probe"}, on : BOOLEAN] \cup [kind : {"Timer"}]
              \cup [kind : {"Config"}, to : Configs]

Timer == [kind |-> "Timer"]
Waits == thread = [event |-> None, todo |-> <<>>]

----------------------------------------------------------------------------
(* The machine.  clock is the age of the rung while Waiting and the time   *)
(* left while Cooling; armed tells whether a deadline is set.              *)

Calm(m) == [m EXCEPT !.state = "Idle", !.rung = None, !.clock = 0, !.armed = FALSE, !.fails = FALSE]
Reset(m) == [Calm(m) EXCEPT !.failures = 0, !.first = None]

Greater(a, b) == IF a > b THEN a ELSE b
AtMost(a, b) == IF a < b THEN a ELSE b
LeftOf(ages, span) ==   \* time until the youngest of ages is span old
    IF ages = {} THEN 0
    ELSE Greater(0, span - (CHOOSE a \in ages : \A b \in ages : a <= b))
CapLeft(r, ages) ==     \* time until fewer than Cap rungs are younger than a day
    IF Cardinality(ages) < Cap[r] THEN 0
    ELSE Day - (CHOOSE a \in ages : Cardinality({b \in ages : b <= a}) = Cap[r])

\* How long rung r is blocked: the longest of the guards.
Blocked(m, r, busy) ==
    Greater(Greater(IF busy THEN 1 ELSE 0, guard),
            Greater(LeftOf(m.history[r], Cooldown[r]), CapLeft(r, m.history[r])))

\* Rungs without a cap only ever ask for their last use.
Kept(r, ages) == IF Cap[r] < Day THEN ages
                 ELSE {a \in ages : \A b \in ages : a <= b}
WithRung(h, r) == [h EXCEPT ![r] = Kept(r, @ \cup {0})]
NoRungs == [r \in Rungs |-> {}]

Result(m, act) == [m |-> m, act |-> act]

TryAct(m, r, busy) ==
    LET left == Blocked(m, r, busy)
    IN  IF left > 0
        THEN Result([Calm(m) EXCEPT !.state = "Cooling", !.rung = r, !.clock = left, !.armed = TRUE], None)
        ELSE Result([Calm(m) EXCEPT !.state = "Waiting", !.rung = r, !.armed = TRUE,
                                    !.history = WithRung(@, r)], r)

\* The next rung, or a fresh start after the last one allowed.
Escalate(m, busy) ==
    IF m.rung < 3 \/ (m.rung = 3 /\ m.config.reboot)
    THEN TryAct(m, m.rung + 1, busy) ELSE Result(Reset(m), None)

OnWan(m, on) ==
    LET known == [m EXCEPT !.wan = on]
        lost == [known EXCEPT !.failures = 0, !.first = None]
    IN  CASE on /\ m.state = "Waiting" /\ m.wan # TRUE /\ m.clock >= Window -> Reset(known)
          [] ~on /\ m.wan # FALSE -> IF m.state = "Cooling" THEN Reset(known) ELSE lost
          [] OTHER -> known

\* A slip: failures only count, the window's end is left to the timer.
OnProbeCounting(m, ok, busy) ==
    IF ok THEN Result(Reset(m), None)
    ELSE IF ~m.config.enabled \/ m.wan # TRUE THEN Result(m, None)
    ELSE CASE m.state = "Idle" ->
                LET n == AtMost(m.failures + 1, TriggerFailures)
                    counted == [m EXCEPT !.failures = n, !.first = IF @ = None THEN 0 ELSE @]
                IN  IF n >= TriggerFailures /\ counted.first >= TriggerAge
                    THEN TryAct(counted, 1, busy) ELSE Result(counted, None)
           [] m.state = "Waiting" ->
                Result([m EXCEPT !.fails = @ \/ m.clock >= Settle], None)
           [] m.state = "Cooling" -> Result(m, None)

OnProbe(m, ok, busy) ==
    IF ok THEN Result(Reset(m), None)
    ELSE IF ~m.config.enabled \/ m.wan # TRUE THEN Result(m, None)
    ELSE CASE m.state = "Idle" ->
                LET n == AtMost(m.failures + 1, TriggerFailures)
                    counted == [m EXCEPT !.failures = n, !.first = IF @ = None THEN 0 ELSE @]
                IN  IF n >= TriggerFailures /\ counted.first >= TriggerAge
                    THEN TryAct(counted, 1, busy) ELSE Result(counted, None)
           [] m.state = "Waiting" ->
                IF m.clock < Settle THEN Result(m, None)
                ELSE IF m.clock >= Window THEN Escalate(m, busy)
                ELSE Result([m EXCEPT !.fails = TRUE], None)
           [] m.state = "Cooling" -> Result(m, None)

\* A slip: the end of the window does not ask whether the session is there.
OnTimerBlindly(m, busy) ==
    IF ~m.armed THEN Result(m, None)
    ELSE IF m.state = "Waiting" /\ m.clock >= Window
    THEN IF m.fails THEN Escalate(m, busy) ELSE Result([m EXCEPT !.armed = FALSE], None)
    ELSE IF m.state = "Cooling" /\ m.clock = 0 THEN TryAct(m, m.rung, busy)
    ELSE Result(m, None)

OnTimer(m, busy) ==
    IF ~m.armed THEN Result(m, None)
    ELSE IF m.state = "Waiting" /\ m.clock >= Window
    THEN IF m.wan # TRUE THEN Result(Reset(m), None)
         ELSE IF m.fails THEN Escalate(m, busy)
         ELSE Result([m EXCEPT !.armed = FALSE], None)
    ELSE IF m.state = "Cooling" /\ m.clock = 0 THEN TryAct(m, m.rung, busy)
    ELSE Result(m, None)

OnConfig(m, config) ==
    IF config.enabled THEN [m EXCEPT !.config = config] ELSE Reset([m EXCEPT !.config = config])

Step(m, e, busy) ==
    CASE e.kind = "Wan" -> Result(OnWan(m, e.on), None)
      [] e.kind = "Probe" -> OnProbe(m, e.on, busy)
      [] e.kind = "Timer" -> OnTimer(m, busy)
      [] e.kind = "Config" -> Result(OnConfig(m, e.to), None)

----------------------------------------------------------------------------
(* The watchdog thread.                                                    *)

Doing(step) == thread.todo # <<>> /\ Head(thread.todo) = step
Then(steps) == thread' = [thread EXCEPT !.todo = steps]
Pop == Then(Tail(thread.todo))

\* recv and recv_timeout; a pending restore is retried on every wake-up.
Receive(e) ==
    /\ Waits
    /\ thread' = [event |-> e, todo |-> IF pending THEN <<"RetryFastBoot">> ELSE <<>>]

\* The deadline, or the interval of the retry, is reached.
Wake ==
    /\ machine.armed \/ pending
    /\ Receive(Timer)
    /\ UNCHANGED <<machine, pending, guard, disk, fastBoot, history>>

RungSteps(r) ==
    CASE r = None -> <<>>
      [] r = 4 -> <<"FastBootOff", "RecordReboot", "Reboot">>
      [] OTHER -> <<"Record", "Act">>

Decide ==
    /\ thread.event # None /\ thread.todo = <<>>
    /\ \E busy \in BOOLEAN :
          LET r == Step(machine, thread.event, busy)
          IN  /\ machine' = r.m
              /\ thread' = [event |-> None, todo |-> RungSteps(r.act)]
              /\ outlived' = (/\ r.m.state = "Waiting" /\ r.m.rung = machine.rung
                              /\ outlived \/ (r.m.clock >= Window /\ r.m.wan # TRUE))
    /\ UNCHANGED <<pending, guard, disk, fastBoot, done, mishap>>

\* record(rung, false): the flag is written along with the history.
Record ==
    /\ Doing("Record")
    /\ \/ /\ disk' = [disk EXCEPT !.actions = WithRung(@, machine.rung), !.flag = FALSE]
          /\ mishap' = mishap \cup (IF disk.flag THEN {"unflagged"} ELSE {})
       \/ "disk" \in Faults /\ mishap' = mishap \cup {"unsaved"} /\ UNCHANGED disk
    /\ Pop
    /\ UNCHANGED <<machine, pending, guard, fastBoot, done, outlived>>

\* What was given is followed as long as it is on disk.
Given(r) == IF "unsaved" \in mishap THEN NoRungs ELSE WithRung(done, r)

\* The command of rungs 1 to 3.
Act ==
    /\ Doing("Act")
    /\ done' = Given(machine.rung)
    /\ Pop
    /\ UNCHANGED <<machine, pending, guard, disk, fastBoot, outlived, mishap>>

FastBootOff ==
    /\ Doing("FastBootOff")
    /\ \/ fastBoot' = FALSE /\ Pop
       \/ "fastboot" \in Faults /\ Then(<<>>) /\ UNCHANGED fastBoot
    /\ UNCHANGED <<machine, pending, guard, disk, history>>

RecordReboot ==
    /\ Doing("RecordReboot")
    /\ \/ /\ disk' = [disk EXCEPT !.actions = WithRung(@, 4), !.flag = TRUE]
          /\ Pop
       \/ "disk" \in Faults /\ Then(<<"UndoFastBoot">>) /\ UNCHANGED disk
    /\ UNCHANGED <<machine, pending, guard, fastBoot, history>>

\* The reboot did not happen; a switch that fails is left to the next start.
UndoFastBoot ==
    /\ Doing("UndoFastBoot")
    /\ \/ /\ fastBoot' = TRUE
          /\ \/ disk' = [disk EXCEPT !.flag = FALSE]
             \/ "disk" \in Faults /\ UNCHANGED disk
          /\ UNCHANGED mishap
       \/ /\ "fastboot" \in Faults
          /\ disk' = [disk EXCEPT !.flag = TRUE]
          /\ UNCHANGED <<fastBoot, mishap>>
       \/ /\ {"fastboot", "disk"} \subseteq Faults
          /\ mishap' = mishap \cup (IF disk.flag THEN {} ELSE {"unflagged"})
          /\ UNCHANGED <<fastBoot, disk>>
    /\ Pop
    /\ UNCHANGED <<machine, pending, guard, done, outlived>>

Fresh(config) ==
    [config |-> config, state |-> "Idle", rung |-> None, clock |-> 0, armed |-> FALSE,
     fails |-> FALSE, wan |-> None, failures |-> 0, first |-> None,
     history |-> NoRungs]
Starting == [event |-> None, todo |-> <<"RestoreState", "ReadWan">>]

Starts ==
    /\ machine' = Fresh(disk.config)
    /\ thread' = Starting
    /\ pending' = FALSE /\ guard' = 0 /\ outlived' = FALSE
    /\ UNCHANGED disk

Reboot ==
    /\ Doing("Reboot")
    /\ \/ /\ done' = Given(4)
          /\ Starts
       \/ /\ "reboot" \in Faults /\ Then(<<"UndoFastBoot">>)
          /\ UNCHANGED <<machine, pending, guard, disk, outlived, done>>
    /\ UNCHANGED <<fastBoot, mishap>>

\* The agent dies and is started again.
Restart ==
    /\ "crash" \in Faults
    /\ Starts
    /\ mishap' = mishap \cup
          (IF (Doing("RecordReboot") \/ Doing("UndoFastBoot")) /\ ~disk.flag THEN {"unflagged"} ELSE {})
    /\ UNCHANGED <<fastBoot, done>>

\* A slip: the flag is cleared before the switch is known to be on.
RestoreStateOnce ==
    /\ Doing("RestoreState")
    /\ machine' = [machine EXCEPT !.history = disk.actions]
    /\ disk' = [disk EXCEPT !.flag = FALSE]
    /\ \/ fastBoot' = TRUE
       \/ "fastboot" \in Faults /\ UNCHANGED fastBoot
    /\ Pop
    /\ UNCHANGED <<pending, guard, history>>

\* A slip: the history is read only when fast boot has to be switched on.
RestoreStateForgets ==
    /\ Doing("RestoreState")
    /\ machine' = [machine EXCEPT !.history = IF disk.flag THEN disk.actions ELSE NoRungs]
    /\ \/ ~disk.flag /\ UNCHANGED <<disk, fastBoot>>
       \/ disk.flag /\ fastBoot' = TRUE /\ disk' = [disk EXCEPT !.flag = FALSE]
    /\ Pop
    /\ UNCHANGED <<pending, guard, history>>

\* restore_state: fast boot back on, history of the last day read.
RestoreState ==
    /\ Doing("RestoreState")
    /\ machine' = [machine EXCEPT !.history = disk.actions]
    /\ \/ ~disk.flag /\ UNCHANGED <<disk, fastBoot, pending>>
       \/ /\ disk.flag /\ fastBoot' = TRUE
          /\ \/ disk' = [disk EXCEPT !.flag = FALSE]
             \/ "disk" \in Faults /\ UNCHANGED disk
          /\ UNCHANGED pending
       \/ /\ disk.flag /\ "fastboot" \in Faults
          /\ pending' = TRUE
          /\ UNCHANGED <<disk, fastBoot>>
    /\ Pop
    /\ UNCHANGED <<guard, history>>

RetryFastBoot ==
    /\ Doing("RetryFastBoot")
    /\ \/ /\ fastBoot' = TRUE /\ pending' = FALSE
          /\ \/ disk' = [disk EXCEPT !.flag = FALSE]
             \/ "disk" \in Faults /\ UNCHANGED disk
       \/ "fastboot" \in Faults /\ UNCHANGED <<fastBoot, pending, disk>>
    /\ Pop
    /\ UNCHANGED <<machine, guard, history>>

\* read_wan_connected, which may not answer.
ReadWan ==
    /\ Doing("ReadWan")
    /\ \E on \in BOOLEAN \cup {None} :
          thread' = [event |-> IF on = None THEN None ELSE [kind |-> "Wan", on |-> on], todo |-> <<>>]
    /\ UNCHANGED <<machine, pending, guard, disk, fastBoot, history>>

----------------------------------------------------------------------------
(* The world.                                                              *)

Elsewhere == <<machine, pending, fastBoot, history>>

WanEvent ==
    /\ \E on \in BOOLEAN : Receive([kind |-> "Wan", on |-> on])
    /\ UNCHANGED <<Elsewhere, guard, disk>>

ProbeResult ==
    /\ \E ok \in BOOLEAN : Receive([kind |-> "Probe", on |-> ok])
    /\ UNCHANGED <<Elsewhere, guard, disk>>

\* note_user_modem_change
UserChange == guard' = Guard /\ UNCHANGED <<Elsewhere, thread, disk>>

\* ConnWatchdog::update
Configure ==
    \E config \in Configs \ {disk.config} :
       /\ disk' = [disk EXCEPT !.config = config]
       /\ Receive([kind |-> "Config", to |-> config])
       /\ UNCHANGED <<Elsewhere, guard>>

Older(ages) == {a + 1 : a \in ages} \cap 0..(Day - 1)
Aged(h) == [r \in Rungs |-> Older(h[r])]

\* A unit of time passes; the thread has nothing left to do in the old one.
Tick ==
    /\ Waits
    /\ machine' = [machine EXCEPT
          !.clock = CASE machine.state = "Waiting" -> AtMost(@ + 1, Window)
                      [] machine.state = "Cooling" -> Greater(@ - 1, 0)
                      [] OTHER -> 0,
          !.first = IF @ = None THEN None ELSE AtMost(@ + 1, TriggerAge),
          !.history = Aged(@)]
    /\ disk' = [disk EXCEPT !.actions = Aged(@)]
    /\ done' = Aged(done)
    /\ guard' = Greater(guard - 1, 0)
    /\ outlived' = (outlived \/ (/\ machine.state = "Waiting" /\ machine.wan # TRUE
                                 /\ machine.clock + 1 >= Window))
    /\ UNCHANGED <<thread, pending, fastBoot, mishap>>

Init ==
    /\ disk \in [config : Configs, flag : {FALSE}, actions : {NoRungs}]
    /\ machine = Fresh(disk.config)
    /\ thread = Starting
    /\ pending = FALSE /\ guard = 0 /\ fastBoot = TRUE
    /\ done = NoRungs /\ outlived = FALSE /\ mishap = {}

Run ==
    \/ Wake \/ Decide \/ Record \/ Act \/ FastBootOff \/ RecordReboot \/ UndoFastBoot
    \/ Reboot \/ RestoreState \/ RetryFastBoot \/ ReadWan

Next == Run \/ Restart \/ WanEvent \/ ProbeResult \/ UserChange \/ Configure \/ Tick

Spec == Init /\ [][Next]_vars

\* The thread runs, time passes, and the probe loop goes on probing.
FairSpec == Spec /\ WF_vars(Run) /\ SF_vars(Tick) /\ SF_vars(ProbeResult)

----------------------------------------------------------------------------
(* Properties.                                                             *)

TypeOK ==
    /\ machine \in [config : Configs, state : {"Idle", "Waiting", "Cooling"},
                    rung : Rungs \cup {None}, clock : 0..Day, armed : BOOLEAN, fails : BOOLEAN,
                    wan : BOOLEAN \cup {None}, failures : 0..TriggerFailures,
                    first : (0..Day) \cup {None}, history : [Rungs -> Ages]]
    /\ thread.event \in Events \cup {None}
    /\ pending \in BOOLEAN /\ guard \in 0..Guard /\ fastBoot \in BOOLEAN
    /\ disk \in [config : Configs, flag : BOOLEAN, actions : [Rungs -> Ages]]
    /\ done \in [Rungs -> Ages] /\ outlived \in BOOLEAN
    /\ mishap \subseteq {"unsaved", "unflagged"}

(* A remedy is never given within its cooldown, nor more often in a day    *)
(* than its cap, counted over restarts and the reboots the watchdog itself *)
(* causes, unless a record could not be written (blocked_until, record).   *)
RemediesStayRare ==
    [][\A r \in Rungs :
          0 \in done'[r] \ done[r] =>
             \/ "unsaved" \in mishap
             \/ /\ \A a \in done[r] : a >= Cooldown[r]
                /\ Cardinality(done[r]) < Cap[r]]_vars

(* Fast boot switched off is not forgotten: the flag on disk or the retry  *)
(* in memory will switch it on again.  The exceptions are known: a death   *)
(* between the switch and the record, and a later rung's record, which     *)
(* clears the flag (Executor::record).                                     *)
FastBootNotForgotten ==
    Waits /\ ~fastBoot => disk.flag \/ pending \/ "unflagged" \in mishap

(* The ladder never goes on against a session that came up after a drop    *)
(* which outlived the window of its last rung (on_wan, on_timer).          *)
NoRemedyForALostSession ==
    [][outlived /\ machine'.rung # machine.rung => machine'.rung = None]_vars

(* The ladder ends: rungs that do not help are followed by the next, and   *)
(* the last one by a fresh start, as long as the session lasts.            *)
LadderMovesOn == machine.state = "Waiting" ~> machine.state # "Waiting" \/ machine.wan # TRUE
============================================================================
