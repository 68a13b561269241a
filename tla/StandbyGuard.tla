---------------------------- MODULE StandbyGuard ----------------------------
(***************************************************************************)
(* The standby Wi-Fi guard (standby_guard.rs): turns Wi-Fi off again when  *)
(* the firmware switches it on in standby, and back on after a power-on    *)
(* that one of its own turn-offs overlapped.                               *)
(*                                                                         *)
(* Three clocks meet here: the firmware changes the power mode, writes it  *)
(* to key.log and then announces it; the announcement reaches the guard    *)
(* through a forwarding thread; and each turn-off runs on a thread of its  *)
(* own, step by step, looking for a power change before each step.  How    *)
(* long the waits are is left open: a timer may fire whenever it is armed. *)
(***************************************************************************)
EXTENDS Integers, Sequences, SequencesExt, FiniteSets

CONSTANTS
    None,
    MaxActions,  \* MAX_ACTIONS: turn-offs in one standby
    MaxChanges,  \* bound on power changes
    MaxWakes,    \* bound on Wi-Fi starts in standby
    MaxMishaps,  \* bound on all that goes wrong
    Faults       \* "lost" event, failed "step" start, "crash", key.log "writing"

ASSUME GuardAssumption ==
    /\ None \notin BOOLEAN
    /\ MaxActions \in Nat \ {0} /\ MaxChanges \in Nat /\ MaxWakes \in Nat /\ MaxMishaps \in Nat
    /\ Faults \subseteq {"lost", "step", "revert", "crash", "writing", "commit"}

VARIABLES
    mode,      \* the firmware's power mode: "on", "entering", "standby"; also key.log's
    starting,  \* the firmware's own Wi-Fi start after a power-on: "set", "start" or "no"
    radio,     \* Wi-Fi is on
    conf,      \* wifi_onoff as committed
    staged,    \* wifi_onoff set but not committed, or None
    userOn,    \* wifi_onoff_by_user
    air,       \* power actions announced, not yet received
    queue,     \* received by the forwarder, not yet fed to the guard
    received,  \* how many power actions of each class were received
    fed,       \* and how many the guard was fed
    lines,     \* Wi-Fi reports the guard has not read
    newest,    \* the newest report in the file
    guard,     \* the guard's state
    switches,  \* switch threads
    left,      \* bounds: power changes, wakes and mishaps still to come
    harmed     \* history: what went wrong since the last power change

world == <<mode, starting, radio, conf, staged, userOn, newest>>
feed == <<air, queue, received, fed, lines>>
vars == <<world, feed, guard, switches, left, harmed>>

Class == {"on", "standby"}
Fresh(power) == [power |-> power, acted |-> 0, waiting |-> "no", wifi |-> newest, restore |-> FALSE]

(* A Wi-Fi change is reported when it has finished. *)
Radio(on) ==
    /\ radio' = on
    /\ IF on = radio THEN UNCHANGED <<lines, newest>>
       ELSE newest' = (IF on THEN "on" ELSE "off") /\ lines' = Append(lines, newest')

Mishap(what) ==
    /\ what \in Faults /\ left.mishaps > 0
    /\ left' = [left EXCEPT !.mishaps = @ - 1]
    /\ harmed' = harmed \cup {what}

NoMishap == UNCHANGED <<left, harmed>>

(* The guard has used up its tries. *)
GivesUp == UNCHANGED left /\ harmed' = harmed \cup {"given up"}

(***************************************************************************)
(* The firmware.                                                           *)
(***************************************************************************)
Announce(class) == air' = Append(air, class)

PowerChange(to, class) ==
    /\ left.changes > 0 /\ left' = [left EXCEPT !.changes = @ - 1]
    /\ mode' = to /\ Announce(class)
    /\ UNCHANGED <<conf, staged, userOn, queue, received, fed, guard, switches>>

GoesToStandby ==
    /\ mode = "on" /\ starting = "no"
    /\ PowerChange("entering", "standby")
    /\ harmed' = IF staged = None /\ switches = <<>> THEN {} ELSE harmed
    /\ UNCHANGED <<starting, radio, lines, newest>>

(* Its own power-off turns Wi-Fi off, then standby is settled: a switch whose commands *)
(* still run is late, as nothing limits a command's time.                              *)
EntersStandby ==
    /\ mode = "entering" /\ mode' = "standby"
    /\ air = <<>> /\ lines = <<>>   \* seconds later: received by then
    /\ conf' = FALSE /\ staged' = None /\ Radio(FALSE)
    /\ harmed' = IF switches = <<>> THEN harmed ELSE harmed \cup {"late"}
    /\ UNCHANGED <<starting, userOn, air, queue, received, fed, guard, switches, left>>

PowersOn ==
    /\ mode = "standby"
    /\ PowerChange("on", "on") /\ starting' = "set"
    /\ UNCHANGED <<radio, lines, newest, harmed>>

(* The switch is set soon after the announcement; the start itself takes seconds and *)
(* is refused when a reload is in the way.                                            *)
SetsWifi ==
    /\ starting = "set" /\ starting' = "start"
    /\ conf' = userOn /\ staged' = None
    /\ UNCHANGED <<mode, radio, userOn, newest, feed, guard, switches>> /\ NoMishap

StartsWifi ==
    /\ starting = "start" /\ air = <<>> /\ starting' = "no"
    /\ IF \E s \in ToSet(switches) : s.at = "reload"
         THEN UNCHANGED <<radio, lines, newest>> ELSE Radio(userOn)
    /\ NoMishap /\ UNCHANGED <<mode, conf, staged, userOn, air, queue, received, fed, guard, switches>>

(* The firmware's bug: Wi-Fi is started in standby. *)
Wakes ==
    /\ mode \in {"entering", "standby"} /\ ~radio /\ left.wakes > 0
    /\ left' = [left EXCEPT !.wakes = @ - 1]
    /\ conf' = TRUE /\ staged' = None /\ Radio(TRUE)
    /\ UNCHANGED <<mode, starting, userOn, air, queue, received, fed, guard, switches, harmed>>

(* Any other writer's commit writes what is staged. *)
OtherCommit ==
    /\ Mishap("commit")
    /\ staged # None /\ conf' = staged /\ staged' = None
    /\ UNCHANGED <<mode, starting, radio, userOn, newest, feed, guard, switches>>

(***************************************************************************)
(* The forwarder: counted as received before it is queued.                 *)
(***************************************************************************)
Forward ==
    /\ air # <<>>
    /\ air' = Tail(air)
    /\ \/ /\ received' = [received EXCEPT ![Head(air)] = @ + 1]
          /\ queue' = Append(queue, Head(air)) /\ NoMishap
       \/ Mishap("lost") /\ UNCHANGED <<received, queue>>
    /\ UNCHANGED <<world, fed, lines, guard, switches>>

(***************************************************************************)
(* The guard.                                                              *)
(***************************************************************************)
(* A slip: the budget is cleared before the check for an overlapping turn-off. *)
OnPowerForgets(g, class) ==
    IF g.power = class THEN g
    ELSE IF class = "on"
      THEN [g EXCEPT !.power = "on", !.waiting = "no", !.restore = FALSE, !.acted = 0]
      ELSE [g EXCEPT !.power = "standby", !.restore = FALSE]

OnPower(g, class) ==
    IF g.power = class THEN g
    ELSE IF class = "on"
      THEN [g EXCEPT !.power = "on", !.waiting = "no", !.restore = g.acted > 0, !.acted = 0]
      ELSE [g EXCEPT !.power = "standby", !.restore = FALSE]

FeedPower ==
    /\ queue # <<>>
    /\ guard' = OnPower(guard, Head(queue))
    /\ queue' = Tail(queue) /\ fed' = [fed EXCEPT ![Head(queue)] = @ + 1]
    /\ UNCHANGED <<world, air, received, lines, switches>> /\ NoMishap

NewSwitch(on) == [on |-> on, at |-> "start", seen |-> IF on THEN fed.standby ELSE fed.on]

(* on_key_log: what key.log's mode makes of a Wi-Fi start. *)
Act(g, again) ==
    [g EXCEPT !.power = "standby", !.acted = @ + 1, !.waiting = IF again THEN "again" ELSE "first"]

OnKeyLog(g, wasOff, again) ==
    \/ /\ mode = "entering"
       /\ guard' = g /\ UNCHANGED switches /\ NoMishap
    \/ /\ mode = "standby" /\ g.power = "unknown" /\ ~wasOff
       /\ guard' = g /\ UNCHANGED switches /\ NoMishap
    \/ /\ mode = "standby" /\ (g.power = "standby" \/ wasOff) /\ g.acted >= MaxActions
       /\ guard' = g /\ UNCHANGED switches /\ GivesUp
    \/ /\ mode = "standby" /\ (g.power = "standby" \/ wasOff) /\ g.acted < MaxActions
       /\ guard' = Act(g, again) /\ switches' = Append(switches, NewSwitch(FALSE)) /\ NoMishap
    \/ /\ mode = "on"
       /\ guard' = (IF g.power = "standby"
                      THEN [g EXCEPT !.power = "on", !.acted = 0, !.waiting = "no", !.restore = FALSE]
                      ELSE [g EXCEPT !.power = "on"])
       /\ UNCHANGED switches /\ NoMishap
    \/ Mishap("writing") /\ guard' = g /\ UNCHANGED switches

(* Power actions received meanwhile are fed before a line is. *)
ReadLine ==
    /\ lines # <<>> /\ queue = <<>>
    /\ lines' = Tail(lines)
    /\ LET seen == [guard EXCEPT !.wifi = Head(lines)]
       IN IF Head(lines) = "off"
            THEN guard' = [seen EXCEPT !.waiting = "no"] /\ UNCHANGED switches /\ NoMishap
            ELSE LET g == [seen EXCEPT !.restore = FALSE]
                 IN IF g.power = "on" \/ g.waiting # "no"
                      THEN guard' = g /\ UNCHANGED switches /\ NoMishap
                      ELSE OnKeyLog(g, guard.wifi = "off", FALSE)
    /\ UNCHANGED <<world, air, queue, received, fed>>

(* The loop feeds what has arrived before a timer, and both waits outlast a switch's *)
(* commands: the timers find none running.                                           *)
TimerTurn == queue = <<>> /\ lines = <<>> /\ switches = <<>>

(* A slip: no second try. *)
ConfirmForgets ==
    /\ guard.waiting # "no" /\ TimerTurn
    /\ guard' = [guard EXCEPT !.waiting = "no"]
    /\ UNCHANGED <<world, feed, switches>> /\ NoMishap

(* No report within CONFIRM_WITHIN: one more try. *)
ConfirmExpires ==
    /\ guard.waiting # "no" /\ TimerTurn
    /\ LET g == [guard EXCEPT !.waiting = "no"]
       IN IF guard.waiting = "first" /\ g.power = "standby" /\ g.acted < MaxActions
            THEN OnKeyLog(g, TRUE, TRUE)
            ELSE guard' = g /\ UNCHANGED switches /\ GivesUp
    /\ UNCHANGED <<world, feed>>

(* No report of Wi-Fi within RESTORE_AFTER: on again, if the user wants it. *)
RestoreExpires ==
    /\ guard.restore /\ starting = "no" /\ TimerTurn
    /\ guard' = [guard EXCEPT !.restore = FALSE]
    /\ switches' = IF guard.power = "on" /\ guard.wifi = "off" /\ userOn
                     THEN Append(switches, NewSwitch(TRUE)) ELSE switches
    /\ UNCHANGED <<world, feed>> /\ NoMishap

(***************************************************************************)
(* A switch thread: set, commit, reload, each after a look for a power     *)
(* change the decision did not know of; a set not committed is reverted.   *)
(***************************************************************************)
Undone(s) == received[IF s.on THEN "standby" ELSE "on"] # s.seen
Ends(i) == switches' = RemoveAt(switches, i)
Moves(i, at) == switches' = [switches EXCEPT ![i].at = at]

(* A slip: a set that is cut short is not reverted. *)
LookLeaves(i) ==
    LET s == switches[i] IN
    /\ IF Undone(s) THEN Ends(i)
       ELSE \/ s.at = "start" /\ Moves(i, "set")
            \/ s.at = "was set" /\ Moves(i, "commit")
            \/ s.at = "committed" /\ Moves(i, "reload")
    /\ s.at \in {"start", "was set", "committed"}
    /\ UNCHANGED <<world, feed, guard>> /\ NoMishap

Look(i) ==
    LET s == switches[i] IN
    /\ \/ s.at = "start" /\ IF Undone(s) THEN Ends(i) ELSE Moves(i, "set")
       \/ s.at = "was set" /\ Moves(i, IF Undone(s) THEN "revert" ELSE "commit")
       \/ s.at = "committed" /\ IF Undone(s) THEN Ends(i) ELSE Moves(i, "reload")
    /\ UNCHANGED <<world, feed, guard>> /\ NoMishap

Steps(i) ==
    LET s == switches[i] IN
    \/ /\ s.at = "set" /\ staged' = s.on /\ Moves(i, "was set")
       /\ UNCHANGED <<radio, lines, newest, conf>>
    \/ /\ s.at = "commit" /\ staged' = None
       /\ conf' = (IF staged = None THEN conf ELSE staged) /\ Moves(i, "committed")
       /\ UNCHANGED <<radio, lines, newest>>
    \/ /\ s.at = "revert" /\ staged' = None /\ Ends(i)
       /\ UNCHANGED <<radio, lines, newest, conf>>
    \/ /\ s.at = "reload" /\ Radio(conf) /\ Ends(i)
       /\ UNCHANGED <<staged, conf>>

Step(i) == Steps(i) /\ NoMishap /\ UNCHANGED <<mode, starting, userOn, air, queue, received, fed, guard>>

StepFails(i) ==
    LET s == switches[i] IN
    /\ \/ s.at \in {"set", "reload"} /\ Ends(i) /\ Mishap("step")
       \/ s.at = "commit" /\ Moves(i, "revert") /\ Mishap("step")
       \/ s.at = "revert" /\ Ends(i) /\ Mishap("revert")
    /\ UNCHANGED <<world, feed, guard>>

(* The agent dies with its threads and starts again long after boot. *)
Crash ==
    /\ Mishap("crash")
    /\ guard' = Fresh("unknown") /\ switches' = <<>>
    /\ air' = <<>> /\ queue' = <<>> /\ lines' = <<>>
    /\ received' = [c \in Class |-> 0] /\ fed' = received'
    /\ UNCHANGED world

Init ==
    /\ mode = "on" /\ starting = "no" /\ userOn \in BOOLEAN
    /\ radio = userOn /\ conf = userOn /\ staged = None
    /\ newest = IF userOn THEN "on" ELSE "off"
    /\ air = <<>> /\ queue = <<>> /\ lines = <<>>
    /\ received = [c \in Class |-> 0] /\ fed = received
    /\ guard = Fresh("on") /\ switches = <<>>
    /\ left = [changes |-> MaxChanges, wakes |-> MaxWakes, mishaps |-> MaxMishaps]
    /\ harmed = {}

Firmware == GoesToStandby \/ EntersStandby \/ PowersOn \/ SetsWifi \/ StartsWifi \/ Wakes \/ OtherCommit
GuardThread == FeedPower \/ ReadLine \/ ConfirmExpires \/ RestoreExpires
SwitchThreads == \E i \in DOMAIN switches : Look(i) \/ Step(i) \/ StepFails(i)

Next == Firmware \/ Forward \/ GuardThread \/ SwitchThreads \/ Crash

Spec == Init /\ [][Next]_vars

(***************************************************************************)
(* Properties.                                                             *)
(***************************************************************************)
Quiet ==
    /\ air = <<>> /\ queue = <<>> /\ lines = <<>> /\ switches = <<>>
    /\ starting = "no" /\ ~guard.restore /\ guard.waiting = "no"

(* After a power-on, once nothing is under way, a user who wants Wi-Fi has it: no     *)
(* turn-off of the guard's, however late its commands finish, leaves the router dark. *)
(* Excused are a lost event, an agent death, a failed command of the restore and a    *)
(* switch whose commands hang until the next standby has settled (on_power's check,   *)
(* on_user_switch, switch_wifi_with's looks).                                         *)
WifiBack == mode = "on" /\ Quiet /\ userOn /\ harmed \subseteq {"writing", "commit", "given up"} => radio

(* In standby, once nothing is under way, Wi-Fi is off, one command of the guard's having  *)
(* failed or another's commit having come between included (on_wifi_on, on_timer's second *)
(* try). Excused: its budget is used up, its event lost, the agent died, or key.log could *)
(* not be read.                                                                           *)
StandbyDark == mode = "standby" /\ Quiet /\ harmed \subseteq {"step", "revert", "commit", "late"} => ~radio

(* A turn-off given up leaves nothing for another's commit to write, whichever of its *)
(* steps a power change cut short or failed; only a failed revert or an agent death   *)
(* can (switch_wifi_with).                                                            *)
NothingStaged == switches = <<>> /\ harmed \cap {"crash", "revert"} = {} => staged = None
=============================================================================
