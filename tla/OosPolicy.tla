----------------------------- MODULE OosPolicy -----------------------------
(***************************************************************************)
(* The no-service power policy (oos_policy.rs): a machine that decides, an *)
(* executor that carries its actions out one by one, the handlers through  *)
(* which the user changes the modem, and the modem and its firmware knobs. *)
(* The policy borrows both and has to give them back, also when it is      *)
(* killed between two of its steps.                                        *)
(*                                                                         *)
(* Time is left out: a deadline that is set may be reached at any moment,  *)
(* and a user change is recent until it lapses.                            *)
(***************************************************************************)
EXTENDS Naturals, Sequences

CONSTANTS
    None,
    Custom,     \* knob values of the owner that differ from the quiet ones
    Quiet,      \* Knobs::quiet()
    Faults,     \* what may go wrong: "crash", "knobs", "backup", "modem"
    Requests,   \* what the user does: "online", "lpm", "other", "outside"
    MaxQueue    \* bound: events waiting in the policy's channel

ASSUME ConstantsAssumption ==
    /\ Custom # Quiet /\ None \notin {Custom, Quiet, "policy", "user"}
    /\ Faults \subseteq {"crash", "knobs", "backup", "modem"}
    /\ Requests \subseteq {"online", "lpm", "other", "outside"}
    /\ MaxQueue \in Nat \ {0}

VARIABLES
    machine,    \* Machine: state, has_service, suspended, config.enabled
    exec,       \* Executor: backup in memory, a failed restore to be retried
    thread,     \* the policy thread: event being handled, actions left to do
    queue,      \* the channel
    recent,     \* OosPolicy.user_activity is within USER_ACTIVITY_GUARD
    disk,       \* the configuration and the knob backup
    handler,    \* the user's request in progress (one at a time: esim's lock)
    knobs,      \* the firmware's knobs
    owner,      \* the owner's values of them
    lpm,        \* None: ONLINE; otherwise who put the modem in LPM
    coverage,   \* the network could be reached
    reported,   \* the service state the firmware announced last
    mishap      \* history: the policy's hand on the modem was interrupted

vars == <<machine, exec, thread, queue, recent, disk, handler,
          knobs, owner, lpm, coverage, reported, mishap>>
environment == <<coverage, reported, owner>>

Events ==
    [kind : {"Service", "UserMode", "Config"}, on : BOOLEAN]
        \cup [kind : {"Standby", "Timer"}]
Steps == {"SetQuietKnobs", "SaveKnobs", "WriteQuiet", "RestoreKnobs", "RemoveBackup",
          "SetLpm", "GoOnline", "OnlineIfLpm", "ReadService"}
KnobValues == {Custom, Quiet}

TypeOK ==
    /\ machine \in [state : {"Idle", "Grace", "Quiet", "Probing"},
                    service : BOOLEAN \cup {None}, suspended : BOOLEAN, enabled : BOOLEAN]
    /\ exec \in [backup : KnobValues \cup {None}, retry : BOOLEAN]
    /\ thread \in [event : Events \cup {None}, todo : Seq(Steps)]
    /\ queue \in Seq(Events)
    /\ recent \in BOOLEAN
    /\ disk \in [enabled : BOOLEAN, backup : KnobValues \cup {None}]
    /\ handler \in {"none", "cfun", "lpm", "tell"}
    /\ knobs \in KnobValues /\ owner \in KnobValues
    /\ lpm \in {None, "policy", "user"}
    /\ coverage \in BOOLEAN /\ reported \in BOOLEAN /\ mishap \in BOOLEAN

Event(kind, on) == [kind |-> kind, on |-> on]
Standby == [kind |-> "Standby"]
Timer == [kind |-> "Timer"]

Waiting == thread = [event |-> None, todo |-> <<>>]
Service == lpm = None /\ coverage

----------------------------------------------------------------------------
(* The machine: a step yields its next state and the actions to perform.   *)

Result(m, todo) == [m |-> m, todo |-> todo]

\* A plausible slip: the caller brings the modem online, so nobody does.
StandDownInLpm(m, goOnline) ==
    Result([m EXCEPT !.state = "Idle"],
           IF m.state \in {"Quiet", "Probing"} THEN <<"RestoreKnobs">> ELSE <<>>)

\* Undo whatever the cycle has done.
StandDown(m, goOnline) ==
    Result([m EXCEPT !.state = "Idle"],
           IF m.state \notin {"Quiet", "Probing"} THEN <<>>
           ELSE IF m.state = "Quiet" /\ goOnline THEN <<"RestoreKnobs", "GoOnline">>
           ELSE <<"RestoreKnobs">>)

StartGrace(m) == [m EXCEPT !.state = "Grace"]

OnService(m, has) ==
    IF has THEN StandDown([m EXCEPT !.service = TRUE, !.suspended = FALSE], TRUE)
    ELSE LET known == [m EXCEPT !.service = FALSE]
         IN  Result(IF m.enabled /\ ~m.suspended /\ m.state = "Idle"
                        THEN StartGrace(known) ELSE known, <<>>)

OnUserMode(m, online) ==
    IF ~online THEN StandDown([m EXCEPT !.suspended = TRUE], FALSE)
    ELSE LET free == [m EXCEPT !.suspended = FALSE]
             down == IF m.state \in {"Quiet", "Probing"}
                         THEN StandDown(free, FALSE) ELSE Result(free, <<>>)
         IN  IF m.enabled /\ m.service = FALSE
                 THEN Result(StartGrace(down.m), down.todo) ELSE down

OnConfig(m, enabled) ==
    LET set == [m EXCEPT !.enabled = enabled]
    IN  CASE ~enabled -> StandDown(set, TRUE)
          [] enabled /\ m.state = "Idle" /\ ~m.suspended /\ m.service = FALSE
                -> Result(StartGrace(set), <<>>)
          [] OTHER -> Result(set, <<>>)

\* The deadline is reached and neither a call nor a recent user change blocks.
OnTimer(m) ==
    CASE m.state = "Grace" -> Result([m EXCEPT !.state = "Quiet"], <<"SetQuietKnobs", "SetLpm">>)
      [] m.state = "Quiet" -> Result([m EXCEPT !.state = "Probing"], <<"GoOnline">>)
      [] m.state = "Probing" -> Result([m EXCEPT !.state = "Quiet"], <<"SetLpm">>)
      [] OTHER -> Result(m, <<>>)

\* What a step may yield: a timer may come early or be deferred.
Outcomes(m, e) ==
    CASE e.kind = "Service" -> {OnService(m, e.on)}
      [] e.kind = "UserMode" -> {OnUserMode(m, e.on)}
      [] e.kind = "Config" -> {OnConfig(m, e.on)}
      [] e.kind = "Standby" -> {StandDown(m, FALSE)}
      [] e.kind = "Timer" -> {Result(m, <<>>)} \cup (IF recent THEN {} ELSE {OnTimer(m)})

----------------------------------------------------------------------------
(* The policy thread.                                                      *)

Pop(t) == [t EXCEPT !.todo = Tail(@)]
Doing(step) == thread.todo # <<>> /\ Head(thread.todo) = step

\* recv or recv_timeout returns; a restore that is due is retried first.
Wake ==
    /\ Waiting
    /\ \/ /\ queue # <<>>
          /\ \E due \in {FALSE, exec.retry} :
                thread' = [event |-> Head(queue), todo |-> IF due THEN <<"RestoreKnobs">> ELSE <<>>]
          /\ queue' = Tail(queue)
       \/ /\ queue = <<>> /\ (machine.state # "Idle" \/ exec.retry)
          /\ \E due \in {FALSE, exec.retry} :
                thread' = [event |-> Timer, todo |-> IF due THEN <<"RestoreKnobs">> ELSE <<>>]
          /\ UNCHANGED queue
    /\ UNCHANGED <<machine, exec, recent, disk, handler, knobs, lpm, mishap, environment>>

\* One round of apply: the machine decides with the user activity known now.
Decide ==
    /\ thread.event # None /\ thread.todo = <<>>
    /\ \E r \in Outcomes(machine, thread.event) :
          /\ machine' = r.m
          /\ thread' = [event |-> None, todo |-> r.todo]
    /\ UNCHANGED <<exec, queue, recent, disk, handler, knobs, lpm, mishap, environment>>

\* operate_mode is read first; what cannot be read is not checked.
SetQuietKnobs ==
    /\ Doing("SetQuietKnobs")
    /\ \/ /\ lpm # None
          /\ thread' = [event |-> Standby, todo |-> <<>>]
          /\ UNCHANGED exec
       \/ /\ lpm = None \/ "modem" \in Faults
          /\ exec' = [exec EXCEPT !.retry = FALSE]
          /\ thread' = [thread EXCEPT !.todo = <<"SaveKnobs">> \o Tail(@)]
    /\ UNCHANGED <<machine, queue, recent, disk, handler, knobs, lpm, mishap, environment>>

\* The slip the comment warns of: the knobs change first.
SaveKnobsLate ==
    /\ Doing("SaveKnobs")
    /\ thread' = [thread EXCEPT !.todo = <<"WriteQuiet">> \o Tail(@)]
    /\ exec' = [exec EXCEPT !.backup = IF @ = None /\ knobs # Quiet THEN knobs ELSE @]
    /\ UNCHANGED <<machine, queue, recent, disk, handler, knobs, lpm, mishap, environment>>

\* read_knobs, and the backup unless there is one or nothing to save.
SaveKnobs ==
    /\ Doing("SaveKnobs")
    /\ \/ /\ exec.backup = None /\ knobs # Quiet
          /\ exec' = [exec EXCEPT !.backup = knobs]
          /\ disk' = [disk EXCEPT !.backup = knobs]
          /\ thread' = [thread EXCEPT !.todo = <<"WriteQuiet">> \o Tail(@)]
       \/ /\ exec.backup # None \/ knobs = Quiet
          /\ thread' = [thread EXCEPT !.todo = <<"WriteQuiet">> \o Tail(@)]
          /\ UNCHANGED <<exec, disk>>
       \/ /\ {"knobs", "backup"} \cap Faults # {}
          /\ thread' = Pop(thread)
          /\ UNCHANGED <<exec, disk>>
    /\ UNCHANGED <<machine, queue, recent, handler, knobs, lpm, mishap, environment>>

WriteQuiet ==
    /\ Doing("WriteQuiet")
    /\ \/ knobs' = Quiet
       \/ "knobs" \in Faults /\ UNCHANGED knobs
    /\ thread' = Pop(thread)
    /\ UNCHANGED <<machine, exec, queue, recent, disk, handler, lpm, mishap, environment>>

\* A slip: a restore that failed is not kept for a retry.
RestoreKnobsOnce ==
    /\ Doing("RestoreKnobs")
    /\ \/ /\ exec.backup # None
          /\ knobs' = exec.backup
          /\ exec' = [backup |-> None, retry |-> FALSE]
          /\ thread' = [thread EXCEPT !.todo = <<"RemoveBackup">> \o Tail(@)]
       \/ /\ exec.backup = None \/ "knobs" \in Faults
          /\ thread' = Pop(thread)
          /\ UNCHANGED <<exec, knobs>>
    /\ UNCHANGED <<machine, queue, recent, disk, handler, lpm, mishap, environment>>

RestoreKnobs ==
    /\ Doing("RestoreKnobs")
    /\ \/ /\ exec.backup # None
          /\ knobs' = exec.backup
          /\ exec' = [backup |-> None, retry |-> FALSE]
          /\ thread' = [thread EXCEPT !.todo = <<"RemoveBackup">> \o Tail(@)]
       \/ /\ exec.backup # None /\ "knobs" \in Faults
          /\ exec' = [exec EXCEPT !.retry = TRUE]
          /\ thread' = Pop(thread)
          /\ UNCHANGED knobs
       \/ /\ exec.backup = None
          /\ thread' = Pop(thread)
          /\ UNCHANGED <<exec, knobs>>
    /\ UNCHANGED <<machine, queue, recent, disk, handler, lpm, mishap, environment>>

RemoveBackup ==
    /\ Doing("RemoveBackup")
    /\ disk' = [disk EXCEPT !.backup = None]
    /\ thread' = Pop(thread)
    /\ UNCHANGED <<machine, exec, queue, recent, handler, knobs, lpm, mishap, environment>>

\* An LPM the user asked for stays the user's.
SetLpm ==
    /\ Doing("SetLpm")
    /\ \/ /\ lpm' = IF lpm = None THEN "policy" ELSE lpm
          /\ mishap' = (mishap \/ handler = "tell" \/ \E i \in 1..Len(queue) : queue[i].kind = "UserMode")
       \/ "modem" \in Faults /\ UNCHANGED <<lpm, mishap>>
    /\ thread' = Pop(thread)
    /\ UNCHANGED <<machine, exec, queue, recent, disk, handler, knobs, environment>>

\* AT+CFUN=1
GoOnline ==
    /\ Doing("GoOnline")
    /\ \/ lpm' = None /\ mishap' = FALSE
       \/ "modem" \in Faults /\ mishap' = TRUE /\ UNCHANGED lpm
    /\ thread' = Pop(thread)
    /\ UNCHANGED <<machine, exec, queue, recent, disk, handler, knobs, environment>>

\* restore_leftover: a mode that cannot be read counts as LPM.
OnlineIfLpm ==
    /\ Doing("OnlineIfLpm")
    /\ \/ /\ lpm # None \/ "modem" \in Faults
          /\ thread' = [thread EXCEPT !.todo = <<"GoOnline">> \o Tail(@)]
       \/ lpm = None /\ thread' = Pop(thread)
    /\ UNCHANGED <<machine, exec, queue, recent, disk, handler, knobs, lpm, mishap, environment>>

ReadService ==
    /\ Doing("ReadService")
    /\ \/ thread' = [event |-> Event("Service", Service), todo |-> <<>>]
       \/ "modem" \in Faults /\ thread' = [event |-> None, todo |-> <<>>]
    /\ UNCHANGED <<machine, exec, queue, recent, disk, handler, knobs, lpm, mishap, environment>>

----------------------------------------------------------------------------
(* The user's requests and the world.                                      *)

Send(e) == Len(queue) < MaxQueue /\ queue' = Append(queue, e)

\* modem_online_user, modem_airplane ONLINE: the policy is told first.
AskOnline ==
    /\ "online" \in Requests /\ handler = "none"
    /\ Send(Event("UserMode", TRUE))
    /\ recent' = TRUE /\ handler' = "cfun"
    /\ UNCHANGED <<machine, exec, thread, disk, knobs, lpm, mishap, environment>>

UserOnline ==
    /\ handler = "cfun"
    /\ \/ lpm' = None /\ mishap' = FALSE
       \/ "modem" \in Faults /\ mishap' = TRUE /\ UNCHANGED lpm
    /\ handler' = "none"
    /\ UNCHANGED <<machine, exec, thread, queue, recent, disk, knobs, environment>>

\* modem_airplane LPM: the policy is told once the modem has accepted.
AskLpm ==
    /\ "lpm" \in Requests /\ handler = "none"
    /\ recent' = TRUE /\ handler' = "lpm"
    /\ UNCHANGED <<machine, exec, thread, queue, disk, knobs, lpm, mishap, environment>>

UserLpm ==
    /\ handler = "lpm"
    /\ \/ lpm' = "user" /\ handler' = "tell"
       \/ "modem" \in Faults /\ handler' = "none" /\ UNCHANGED lpm
    /\ UNCHANGED <<machine, exec, thread, queue, recent, disk, knobs, mishap, environment>>

TellLpm ==
    /\ handler = "tell"
    /\ Send(Event("UserMode", FALSE))
    /\ recent' = TRUE /\ handler' = "none"
    /\ UNCHANGED <<machine, exec, thread, disk, knobs, lpm, mishap, environment>>

\* A network mode, data toggle or cell lock.
OtherChange ==
    /\ "other" \in Requests /\ handler = "none"
    /\ recent' = TRUE
    /\ UNCHANGED <<machine, exec, thread, queue, disk, handler, knobs, lpm, mishap, environment>>

\* The stock pages change the mode behind the agent's back.
OutsideChange ==
    /\ "outside" \in Requests
    /\ lpm' = IF lpm = None THEN "user" ELSE None
    /\ mishap' = FALSE
    /\ UNCHANGED <<machine, exec, thread, queue, recent, disk, handler, knobs, environment>>

\* OosPolicy::update
Configure ==
    /\ disk' = [disk EXCEPT !.enabled = ~@]
    /\ Send(Event("Config", ~disk.enabled))
    /\ UNCHANGED <<machine, exec, thread, recent, handler, knobs, lpm, mishap, environment>>

\* The firmware announces service when it changes; a modem in LPM has none.
Announce ==
    /\ reported # Service
    /\ reported' = Service
    /\ Send(Event("Service", Service))
    /\ UNCHANGED <<machine, exec, thread, recent, disk, handler, knobs, lpm, mishap, owner, coverage>>

CoverageChanges ==
    /\ coverage' = ~coverage
    /\ UNCHANGED <<machine, exec, thread, queue, recent, disk, handler, knobs, lpm, mishap, owner, reported>>

ActivityLapses ==
    /\ recent /\ recent' = FALSE
    /\ UNCHANGED <<machine, exec, thread, queue, disk, handler, knobs, lpm, mishap, environment>>

Fresh(enabled) ==
    [state |-> "Idle", service |-> None, suspended |-> FALSE, enabled |-> enabled]

\* A slip: a start that trusts the previous run to have cleaned up.
StartedClean(backup) == [event |-> None, todo |-> <<"ReadService">>]

\* The thread starts: restore_leftover, then the current service.
Started(backup) ==
    [event |-> None,
     todo |-> IF backup = None THEN <<"ReadService">>
              ELSE <<"RestoreKnobs", "OnlineIfLpm", "ReadService">>]

\* The agent dies and comes back; the files, knobs and modem stay.
Restart ==
    /\ "crash" \in Faults
    /\ machine' = Fresh(disk.enabled)
    /\ exec' = [backup |-> disk.backup, retry |-> FALSE]
    /\ thread' = Started(disk.backup)
    /\ queue' = <<>> /\ recent' = FALSE /\ handler' = "none"
    /\ mishap' = (mishap \/ (lpm = "policy" /\ disk.backup = None))
    /\ UNCHANGED <<disk, knobs, lpm, environment>>

Init ==
    /\ disk \in [enabled : BOOLEAN, backup : {None}]
    /\ machine = Fresh(disk.enabled)
    /\ exec = [backup |-> None, retry |-> FALSE]
    /\ thread = Started(None)
    /\ queue = <<>> /\ recent = FALSE /\ handler = "none"
    /\ owner \in KnobValues /\ knobs = owner
    /\ lpm \in {None, "user"}
    /\ coverage \in BOOLEAN /\ reported = Service
    /\ mishap = FALSE

Act ==
    \/ SetQuietKnobs \/ SaveKnobs \/ WriteQuiet \/ RestoreKnobs \/ RemoveBackup
    \/ SetLpm \/ GoOnline \/ OnlineIfLpm \/ ReadService

Run == Wake \/ Decide \/ Act

Next ==
    \/ Run
    \/ AskOnline \/ UserOnline \/ AskLpm \/ UserLpm \/ TellLpm \/ OtherChange \/ OutsideChange
    \/ Configure \/ Announce \/ CoverageChanges \/ ActivityLapses \/ Restart

Spec == Init /\ [][Next]_vars

\* The thread runs on, what is due is done, and a restore does not fail for ever.
Fairness ==
    /\ WF_vars(Run)
    /\ SF_vars(Wake /\ thread'.todo # <<>>)
    /\ SF_vars(RestoreKnobs /\ exec'.backup = None)

FairSpec == Spec /\ Fairness

----------------------------------------------------------------------------
(* Properties.                                                             *)

(* The owner's knob values are never lost: while the knobs hold anything   *)
(* else, the file a restarted agent reads holds them (SetQuietKnobs and    *)
(* RestoreKnobs of Executor::perform, with a crash anywhere).              *)
OwnersKnobsKept ==
    /\ knobs # owner => disk.backup = owner
    /\ disk.backup \in {None, owner}

(* Quiet knobs are always somebody's business: while the thread waits,     *)
(* either a cycle is on and its end restores them, or a retry is due.      *)
QuietKnobsAttended ==
    Waiting /\ knobs # owner => machine.state \in {"Quiet", "Probing"} \/ exec.retry

(* A modem the policy parked is attended: with nothing left to handle, the *)
(* cycle that probes for service goes on.                                  *)
ParkedIsAttended ==
    lpm = "policy" /\ Waiting /\ queue = <<>> /\ handler = "none"
        => machine.state \in {"Quiet", "Probing"}

(* The exceptions, each a known one: AT+CFUN=1 failed, a restart found no  *)
(* backup to tell it of the parking, or the user changed the mode between  *)
(* the policy's decision to park and the parking.                          *)
StrandedOnlyByMishap == ParkedIsAttended \/ mishap

(* Once the policy is switched off for good, the owner's knobs come back   *)
(* for good, whatever restarts and failed writes come in between.          *)
KnobsComeBack == <>[](~disk.enabled) => <>[](knobs = owner)
============================================================================
