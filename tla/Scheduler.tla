------------------------------ MODULE Scheduler ------------------------------
(***************************************************************************)
(* The job scheduler of the agent (zte-agent/src/scheduler.rs): one thread *)
(* that parks while no job is enabled and otherwise ticks once a minute,   *)
(* and the console's handlers, which edit the job list under its lock.     *)
(*                                                                         *)
(* A tick collects what is due under the lock, runs it without the lock,   *)
(* and records the results under the lock again, by job id.  Every change  *)
(* of the list is saved before the lock is released, so the list in memory *)
(* is the list on disk and a restart only loses the thread's own state.    *)
(*                                                                         *)
(* Time is the wall clock in minutes; a job runs in the minute of its tick *)
(* (about one second after the minute boundary).                           *)
(***************************************************************************)
EXTENDS Integers, FiniteSets

CONSTANTS
    DayLen,       \* minutes in a day
    Week,         \* days in a week
    MaxTime,      \* bound: the last minute explored
    MaxJobs,      \* bound: jobs in the list
    Plans,        \* the schedules and restores the console asks for
    MaxSteps,     \* bound: how often the clock is set back
    None

Times == 0 .. MaxTime

ASSUME PlanAssumption ==
    /\ DayLen \in Nat \ {0, 1} /\ Week \in Nat \ {0} /\ MaxTime \in Nat /\ MaxJobs \in Nat \ {0}
    /\ MaxSteps \in Nat
    /\ None \notin Int
    /\ Plans \subseteq [kind : {"once"}, at : Nat, days : {{}},
                        restore : (0 .. DayLen - 1) \cup {None}]
                  \cup [kind : {"recurring"}, at : 0 .. DayLen - 1,
                        days : SUBSET (0 .. Week - 1) \ {{}},
                        restore : (0 .. DayLen - 1) \cup {None}]

VARIABLES
    jobs,     \* id -> Job, for the ids in the list
    thread,   \* the scheduler thread
    now,      \* the wall clock
    left,     \* bound: steps back of the clock still to come
    hist      \* history: what was really executed, by job in order of creation

vars == <<jobs, thread, now, left, hist>>

\* A job keeps its tag, which no code looks at; one more than jobs, for a job that is
\* created while a tick still carries a deleted one.
Tags == 1 .. 2 * MaxJobs

\* A new job.
Job(plan, tag) ==
    [plan |-> plan, enabled |-> TRUE, lastRun |-> None, lastRestore |-> None, tag |-> tag]

\* What history keeps of a job: how often its action ran (up to twice), whether it ran
\* since its plan was last changed and in this minute, whether the action is in force,
\* whether a result was lost, how the user left the switch, whether the user touched the
\* job in this minute, whether its last run is another plan's or another job's, and
\* whether the clock was set back since its last restore.
Untouched == [runs |-> 0, acted |-> FALSE, current |-> FALSE,
              applied |-> FALSE, lost |-> FALSE, on |-> FALSE, fresh |-> FALSE,
              mixed |-> FALSE, rewound |-> FALSE]

Touched(tag, switch, planChanged) ==
    [hist EXCEPT ![tag].fresh = TRUE, ![tag].on = switch, ![tag].acted = @ /\ ~planChanged]

\* What a tick carries from one lock to the next.
Batch == thread.actions \cup thread.restores

HasEnabledJob == \E id \in DOMAIN jobs : jobs[id].enabled

HourMinute == now % DayLen
Weekday == (now \div DayLen) % Week

-----------------------------------------------------------------------------
\* The guards of a tick: is the job's action due, ...
GuardPassed(last) == last = None \/ now - last > 1

\* Variant: a one-time job does not remember that it ran.
ActionDueForgetful(job) ==
    /\ job.enabled
    /\ IF job.plan.kind = "once" THEN now >= job.plan.at
       ELSE job.plan.at = HourMinute /\ Weekday \in job.plan.days /\ GuardPassed(job.lastRun)

\* Variant: the repetition guard spans a whole day.
ActionDueDayGuard(job) ==
    /\ job.enabled
    /\ IF job.plan.kind = "once" THEN now >= job.plan.at /\ job.lastRun = None
       ELSE /\ job.plan.at = HourMinute /\ Weekday \in job.plan.days
            /\ job.lastRun = None \/ now - job.lastRun > DayLen

ActionDue(job) ==
    /\ job.enabled
    /\ IF job.plan.kind = "once" THEN now >= job.plan.at /\ job.lastRun = None
       ELSE job.plan.at = HourMinute /\ Weekday \in job.plan.days /\ GuardPassed(job.lastRun)

\* ... and is its restore due: the action ran since the last restore.
RestoreDue(job) ==
    /\ job.enabled
    /\ job.plan.restore = HourMinute
    /\ job.lastRun # None
    /\ job.lastRestore = None \/ job.lastRun > job.lastRestore
    /\ GuardPassed(job.lastRestore)

-----------------------------------------------------------------------------
Init ==
    /\ jobs = <<>>
    /\ thread = [pc |-> "boot", left |-> 1, tick |-> 0, actions |-> {}, restores |-> {}]
    /\ now = 0 /\ left = MaxSteps
    /\ hist = [t \in Tags |-> Untouched]

(* The thread *)

\* 30 s of grace after start; the jobs are looked at from then on.
Boot ==
    /\ thread.pc = "boot"
    /\ thread' = [thread EXCEPT !.pc = "wait"]
    /\ hist' = [t \in Tags |-> [hist[t] EXCEPT !.fresh = TRUE]]
    /\ UNCHANGED <<jobs, now, left>>

\* wait_for_enabled_job parks on the condition variable, or returns and sleeps
\* until the next minute boundary.
Wait ==
    /\ thread.pc = "wait"
    /\ thread' = IF HasEnabledJob THEN [thread EXCEPT !.pc = "sleep", !.left = 1]
                 ELSE [thread EXCEPT !.pc = "parked"]
    /\ UNCHANGED <<jobs, now, left, hist>>

\* tick, phase 1: collect what is due.
Collect ==
    /\ thread.pc = "sleep" /\ thread.left = 0
    /\ LET actions == {id \in DOMAIN jobs : ActionDue(jobs[id])}
           restores == {id \in DOMAIN jobs : RestoreDue(jobs[id])}
       IN  thread' = IF actions \cup restores = {} THEN [thread EXCEPT !.pc = "wait"]
                     ELSE [pc |-> "execute", left |-> 0, tick |-> now,
                           actions |-> {[id |-> id, tag |-> jobs[id].tag] : id \in actions},
                           restores |-> {[id |-> id, tag |-> jobs[id].tag] : id \in restores}]
    /\ UNCHANGED <<jobs, now, left, hist>>

\* Phase 2: run it, a job's action before its restore, without the lock.
Execute ==
    /\ thread.pc = "execute"
    /\ hist' = [t \in Tags |->
         LET acted == \E p \in thread.actions : p.tag = t
             restored == \E p \in thread.restores : p.tag = t
         IN  [hist[t] EXCEPT !.runs = IF acted /\ @ < 2 THEN @ + 1 ELSE @,
                             !.acted = @ \/ acted,
                             !.current = @ \/ acted,
                             !.applied = ~restored /\ (acted \/ @)]]
    /\ thread' = [thread EXCEPT !.pc = "update"]
    /\ UNCHANGED <<jobs, now, left>>

\* Variant: a one-time job is disabled as soon as its action has run.
RecordedDisables(job, acted, restored) ==
    LET once == job.plan.kind = "once"
    IN  [job EXCEPT !.lastRun = IF acted THEN thread.tick ELSE @,
                    !.lastRestore = IF restored THEN thread.tick ELSE @,
                    !.enabled = @ /\ ~(once /\ (acted \/ restored))]

\* The results of a tick on one job.
Recorded(job, acted, restored) ==
    LET once == job.plan.kind = "once"
    IN  [job EXCEPT !.lastRun = IF acted THEN thread.tick ELSE @,
                    !.lastRestore = IF restored THEN thread.tick ELSE @,
                    !.enabled = @ /\ ~(once /\ (restored \/ (acted /\ job.plan.restore = None)))]

\* Phase 3: record the results on the jobs that have those ids now, and save.
Update ==
    /\ thread.pc = "update"
    /\ jobs' = [id \in DOMAIN jobs |->
                  Recorded(jobs[id], \E p \in thread.actions : p.id = id,
                                     \E p \in thread.restores : p.id = id)]
    /\ thread' = [thread EXCEPT !.pc = "wait", !.tick = 0, !.actions = {}, !.restores = {}]
    /\ hist' = [t \in Tags |-> [hist[t] EXCEPT
                  !.mixed = @ \/ \E p \in Batch, id \in DOMAIN jobs :
                                   id = p.id /\ jobs[id].tag = t /\ p.tag # t,
                  !.rewound = @ /\ ~\E p \in thread.restores : p.tag = t]]
    /\ UNCHANGED <<now, left>>

-----------------------------------------------------------------------------
(* The handlers: each ends with save and notify_all *)

Notified == IF thread.pc = "parked" THEN [thread EXCEPT !.pc = "wait"] ELSE thread

NextId == 1 + (IF jobs = <<>> THEN 0
               ELSE CHOOSE m \in DOMAIN jobs : \A id \in DOMAIN jobs : id <= m)

\* jobs_create
Create(plan) ==
    \E tag \in Tags :
        /\ Cardinality(DOMAIN jobs) < MaxJobs
        /\ tag = CHOOSE t \in Tags : t \notin {jobs[id].tag : id \in DOMAIN jobs} \cup {p.tag : p \in Batch}
        /\ jobs' = [id \in DOMAIN jobs \cup {NextId} |->
                      IF id \in DOMAIN jobs THEN jobs[id] ELSE Job(plan, tag)]
        /\ hist' = [hist EXCEPT ![tag] = [Untouched EXCEPT !.on = TRUE, !.fresh = TRUE]]
        /\ thread' = Notified
        /\ UNCHANGED <<now, left>>

\* jobs_update replaces the schedule and the switch and keeps the rest.
Replace(id, plan, enabled) ==
    /\ jobs' = [jobs EXCEPT ![id].plan = plan, ![id].enabled = enabled]
    /\ LET tag == jobs[id].tag
           ran == jobs[id].lastRun # None \/ \E p \in Batch : p.id = id
           other == plan # jobs[id].plan
       IN  hist' = [Touched(tag, enabled, other) EXCEPT ![tag].mixed = @ \/ (ran /\ other)]
    /\ thread' = Notified
    /\ UNCHANGED <<now, left>>

\* jobs_delete
Delete(id) ==
    /\ jobs' = [i \in DOMAIN jobs \ {id} |-> jobs[i]]
    /\ thread' = Notified
    /\ UNCHANGED <<now, left, hist>>

\* Variant: flipping the switch does not wake the thread.
ToggleSilent(id) ==
    /\ jobs' = [jobs EXCEPT ![id].enabled = ~@]
    /\ hist' = Touched(jobs[id].tag, ~jobs[id].enabled, FALSE)
    /\ UNCHANGED <<thread, now, left>>

\* jobs_toggle
Toggle(id) ==
    /\ jobs' = [jobs EXCEPT ![id].enabled = ~@]
    /\ hist' = Touched(jobs[id].tag, ~jobs[id].enabled, FALSE)
    /\ thread' = Notified
    /\ UNCHANGED <<now, left>>

-----------------------------------------------------------------------------
(* The clock and the faults *)

\* A minute passes: a runnable thread runs within its minute and a tick ends in it.
Advance ==
    /\ now < MaxTime
    /\ thread.pc = "parked" \/ (thread.pc \in {"boot", "sleep"} /\ thread.left = 1)
    /\ now' = now + 1
    /\ thread' = IF thread.pc = "parked" THEN thread ELSE [thread EXCEPT !.left = 0]
    /\ hist' = [t \in Tags |->
                  IF \E id \in DOMAIN jobs : jobs[id].tag = t
                  THEN [hist[t] EXCEPT !.fresh = FALSE, !.current = FALSE]
                  ELSE Untouched]
    /\ UNCHANGED <<jobs, left>>

\* The wall clock is set back by a day or more.
StepBack(t) ==
    /\ thread.pc \in {"parked", "sleep"}
    /\ t + DayLen <= now
    /\ left > 0 /\ left' = left - 1
    /\ now' = t
    /\ hist' = [u \in Tags |-> [hist[u] EXCEPT !.fresh = TRUE, !.current = FALSE,
                                                !.rewound = TRUE]]
    /\ UNCHANGED <<jobs, thread>>

\* The agent restarts: results not yet recorded are lost, minutes may have passed.
Restart ==
    /\ thread' = [pc |-> "boot", left |-> 1, tick |-> 0, actions |-> {}, restores |-> {}]
    /\ hist' = [t \in Tags |->
         [hist[t] EXCEPT !.lost = @ \/ (thread.pc = "update" /\ \E p \in Batch : p.tag = t)]]
    /\ now' \in {now} \cup (Times \cap {now + 1})
    /\ UNCHANGED <<jobs, left>>

Thread == Boot \/ Wait \/ Collect \/ Execute \/ Update

Console ==
    \/ \E plan \in Plans : Create(plan)
    \/ \E id \in DOMAIN jobs :
         \/ \E plan \in Plans, enabled \in BOOLEAN : Replace(id, plan, enabled)
         \/ Delete(id)
         \/ Toggle(id)

Next == Thread \/ Console \/ Advance \/ Restart \/ \E t \in Times : StepBack(t)

Spec == Init /\ [][Next]_vars

-----------------------------------------------------------------------------
(* Properties *)

\* The ids in the list identify jobs, a tick in progress carries what it collected
\* and only then, and no time lies outside what the clock showed.
TypeOK ==
    /\ DOMAIN jobs \subseteq Nat
    /\ \A id \in DOMAIN jobs :
         /\ jobs[id].plan \in Plans /\ jobs[id].enabled \in BOOLEAN
         /\ jobs[id].lastRun \in Times \cup {None} /\ jobs[id].lastRestore \in Times \cup {None}
         /\ jobs[id].tag \in Tags
    /\ \A i, j \in DOMAIN jobs : jobs[i].tag = jobs[j].tag => i = j
    /\ thread.pc \in {"boot", "wait", "parked", "sleep", "execute", "update"}
    /\ (thread.actions \cup thread.restores # {}) <=> thread.pc \in {"execute", "update"}
    /\ now \in Times

\* The thread has nothing to do this minute any more.
Settled == thread.pc = "parked" \/ (thread.pc = "sleep" /\ thread.left = 1)

\* Whether the user has had the job switched on since before this minute began.
Stays(job) == hist[job.tag].on /\ ~hist[job.tag].fresh

\* A run recorded for a job is a run of that job under the plan it has.
OwnRuns(job) == ~hist[job.tag].mixed

\* "The scheduler runs a past one at the next minute" (docs/web-ui.md): an enabled
\* one-time job has run once its time has come and a minute has begun.  Known exception:
\* a job that was given a new time after it ran, or the id of one that was running,
\* counts as run (jobs_update, tick).
PastOnceRuns ==
    \A id \in DOMAIN jobs :
        LET job == jobs[id]
        IN  (/\ Settled /\ Stays(job) /\ OwnRuns(job)
             /\ job.plan.kind = "once" /\ job.plan.at <= now)
               => hist[job.tag].acted

\* A one-time job acts at most once, however it is switched, restarted or timed,
\* unless the agent died between the action and the record of it, or its earlier runs
\* were under another plan (tick).
OnceActsOnce ==
    \A id \in DOMAIN jobs :
        LET h == hist[jobs[id].tag]
        IN  jobs[id].plan.kind = "once" => h.runs <= 1 \/ h.lost \/ h.mixed

\* A recurring job runs in every scheduled minute that passes after it was set up
\* ("never a skipped day", next_tick_delay).  Known exception: after the clock was set
\* back it is skipped until the clock has passed its last run again.
DailyRunsOnTime ==
    \A id \in DOMAIN jobs :
        LET job == jobs[id]
        IN  (/\ Settled /\ Stays(job) /\ OwnRuns(job) /\ job.plan.kind = "recurring"
             /\ job.plan.at = HourMinute /\ Weekday \in job.plan.days)
               => hist[job.tag].current \/ (job.lastRun # None /\ job.lastRun >= now)

\* What a job switched is switched back: no restore minute passes over an enabled job
\* whose action is in force from an earlier minute.  Known exceptions: after the clock
\* was set back, a restore waits until the clock has passed the last one, and an action
\* that ran again before the time of the last restore stays in force (tick compares the
\* two times).
RestoreOnTime ==
    \A id \in DOMAIN jobs :
        LET job == jobs[id]
            h == hist[job.tag]
        IN  (/\ Settled /\ Stays(job) /\ OwnRuns(job)
             /\ job.plan.restore = HourMinute /\ h.applied /\ ~h.lost)
               => \/ h.current
                  \/ /\ job.lastRestore # None
                     /\ job.lastRestore >= now \/ (h.rewound /\ job.lastRun <= job.lastRestore)

=============================================================================
