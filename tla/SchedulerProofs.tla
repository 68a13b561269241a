-------------------------- MODULE SchedulerProofs --------------------------
(***************************************************************************)
(* A one-time job acts once and is not passed over, a recurring job runs   *)
(* in every minute of its schedule, and what a job switched is switched    *)
(* back: for any plans, any number of jobs, days and weeks of any length   *)
(* and a clock that is set back any number of times.                       *)
(*                                                                         *)
(* The argument.  The thread's position in the minute (Phase), what its    *)
(* tick does with a job (Roles) and the job with its history are related   *)
(* by Good, job by job.  A tick may only be believed if what it records    *)
(* under an id is the run of the job that has the id now: tags are fresh   *)
(* and ids are not shared (Typed, Tick), and history remembers the other   *)
(* case as mixed.  What is recorded was recorded in a minute of the plan   *)
(* (Minutes), so two records lie whole days apart, and the guard against a *)
(* second run in one minute holds nothing else back (Daily, Restored).     *)
(* An action in force was recorded after the last restore unless the clock *)
(* was set back (Order), and a restore of the same minute comes after the  *)
(* action (Together).  A job that is off though the user left it on is a   *)
(* one-time job with nothing left to do (Switched), so the thread may park.*)
(***************************************************************************)
EXTENDS Scheduler, FiniteSetTheorems, WellFoundedInduction, TLAPS

-----------------------------------------------------------------------------
(* The inductive invariant. *)

Maybe == Times \cup {None}

JobRecords == [plan : Plans, enabled : BOOLEAN, lastRun : Maybe, lastRestore : Maybe, tag : Tags]

Histories == [runs : 0 .. 2, acted : BOOLEAN, current : BOOLEAN, applied : BOOLEAN,
              lost : BOOLEAN, on : BOOLEAN, fresh : BOOLEAN, mixed : BOOLEAN, rewound : BOOLEAN]

Parcels == [id : Nat, tag : Tags]

Threads == [pc : {"boot", "wait", "parked", "sleep", "execute", "update"}, left : {0, 1},
            tick : Times, actions : SUBSET Parcels, restores : SUBSET Parcels]

Carried == {p.tag : p \in Batch}

Typed ==
    /\ jobs = [id \in DOMAIN jobs |-> jobs[id]] /\ DOMAIN jobs \subseteq Nat
    /\ IsFiniteSet(DOMAIN jobs) /\ Cardinality(DOMAIN jobs) <= MaxJobs
    /\ \E m \in Nat : \A id \in DOMAIN jobs : id <= m
    /\ \A id \in DOMAIN jobs : jobs[id] \in JobRecords
    /\ \A i, j \in DOMAIN jobs : jobs[i].tag = jobs[j].tag => i = j
    /\ hist \in [Tags -> Histories]
    /\ thread \in Threads
    /\ now \in Times

\* A tick carries what it collected in this minute, and only then.
Tick ==
    /\ thread.pc \in {"execute", "update"} => thread.tick = now /\ Batch # {}
    /\ thread.pc \notin {"execute", "update"} => Batch = {}
    /\ IsFiniteSet(Carried) /\ Cardinality(Carried) <= MaxJobs
    /\ \A p \in Batch : \A id \in DOMAIN jobs : p.tag = jobs[id].tag => p.id = id

\* Where the thread is in this minute: its tick is still to come, it is past, ...
Phase ==
    IF thread.pc = "sleep" THEN (IF thread.left = 0 THEN "due" ELSE "past")
    ELSE IF thread.pc = "wait" THEN "past"
    ELSE thread.pc

\* What a tick in progress does with a job.
Roles(t) ==
    {role \in {"action", "restore"} :
       \/ role = "action" /\ \E p \in thread.actions : p.tag = t
       \/ role = "restore" /\ \E p \in thread.restores : p.tag = t}

Since(last, t) == last # None /\ last >= t

\* Time t is a minute of the job's schedule.
Scheduled(job, t) ==
    job.plan.at = t % DayLen /\ ((t \div DayLen) % Week) \in job.plan.days

Looked(phase) == phase \in {"past", "parked", "execute", "update"}

\* The switch: a job that is off and was not switched off by the user has done all it had to.
Switched(job, h, roles, phase) ==
    /\ phase = "parked" => ~job.enabled
    /\ job.enabled => h.on
    /\ h.on /\ job.plan.kind = "recurring" => job.enabled
    /\ h.on /\ ~job.enabled /\ ~h.mixed =>
         /\ job.lastRun # None /\ roles = {}
         /\ job.plan.restore = None \/ ~h.applied

\* The last run: without one nothing was executed, or it is about to be recorded.
RunsCount(job, h, roles, phase) ==
    /\ job.lastRun = None /\ ~h.lost =>
         h.runs = 0 \/ (h.runs = 1 /\ phase = "update" /\ "action" \in roles)
    /\ job.plan.kind = "once" /\ ~h.mixed /\ job.lastRun # None =>
         "action" \notin roles /\ (h.lost \/ h.runs <= 1)

\* A run recorded or about to be is a run of the plan, and a restore follows a run.
RunsAreActs(job, h, roles, phase) ==
    ~h.mixed =>
      /\ job.lastRun # None => h.acted
      /\ phase = "update" /\ "action" \in roles => h.acted /\ h.current
      /\ job.lastRestore # None \/ "restore" \in roles => job.lastRun # None

\* What is recorded was recorded in a minute of the plan.
Minutes(job, h, roles, t) ==
    ~h.mixed =>
      /\ job.plan.kind = "recurring" /\ job.lastRun # None => job.lastRun % DayLen = job.plan.at
      /\ job.plan.kind = "recurring" /\ "action" \in roles => t % DayLen = job.plan.at
      /\ job.lastRestore # None => job.lastRestore % DayLen = job.plan.restore
      /\ "restore" \in roles => t % DayLen = job.plan.restore

\* Nothing due is passed over: a one-time job ...
PastOnce(job, h, roles, phase, t) ==
    (/\ Looked(phase) /\ h.on /\ ~h.fresh /\ ~h.mixed
     /\ job.plan.kind = "once" /\ job.plan.at <= t)
       => job.lastRun # None \/ "action" \in roles

\* ... a recurring job ...
Daily(job, h, roles, phase, t) ==
    (/\ Looked(phase) /\ h.on /\ ~h.fresh /\ ~h.mixed
     /\ job.plan.kind = "recurring" /\ Scheduled(job, t))
       => h.current \/ Since(job.lastRun, t) \/ (phase = "execute" /\ "action" \in roles)

\* ... or a restore.
Restored(job, h, roles, phase, t) ==
    (/\ Looked(phase) /\ h.on /\ ~h.fresh /\ ~h.mixed
     /\ job.plan.restore = t % DayLen /\ h.applied /\ ~h.lost)
       => \/ h.current
          \/ Since(job.lastRestore, t)
          \/ job.lastRestore # None /\ h.rewound /\ job.lastRun <= job.lastRestore
          \/ phase = "execute" /\ "restore" \in roles

\* An action in force was recorded after the last restore, unless the clock was set back.
Order(job, h, roles, phase, t) ==
    /\ h.applied /\ ~h.lost /\ ~h.mixed /\ (phase = "update" => roles = {}) =>
         /\ job.lastRun # None
         /\ job.lastRestore = None \/ h.rewound \/ job.lastRun > job.lastRestore
    /\ phase = "update" /\ "restore" \in roles => ~h.applied
    /\ ~h.rewound /\ job.lastRestore # None => job.lastRestore <= t

\* In the minute of a restore the action of that minute has run or runs before it.
Together(job, h, roles, t) ==
    ~h.mixed =>
      /\ (/\ job.plan.kind = "recurring" /\ Scheduled(job, t)
          /\ "restore" \in roles \/ (~h.rewound /\ job.lastRestore = t))
           => "action" \in roles \/ Since(job.lastRun, t)
      /\ roles # {} /\ ~h.rewound /\ job.lastRestore # None => job.lastRestore < t

Good(job, h, roles, phase, t) ==
    /\ Switched(job, h, roles, phase)
    /\ RunsCount(job, h, roles, phase)
    /\ RunsAreActs(job, h, roles, phase)
    /\ Minutes(job, h, roles, t)
    /\ PastOnce(job, h, roles, phase, t)
    /\ Daily(job, h, roles, phase, t)
    /\ Restored(job, h, roles, phase, t)
    /\ Order(job, h, roles, phase, t)
    /\ Together(job, h, roles, t)

Jobs ==
    \A id \in DOMAIN jobs :
        Good(jobs[id], hist[jobs[id].tag], Roles(jobs[id].tag), Phase, now)

IInv == Typed /\ Tick /\ Jobs

-----------------------------------------------------------------------------
(* Numbers and finite sets. *)

\* A time is whole days and a minute of the day.
LEMMA Division ==
    ASSUME NEW x \in Nat, NEW d \in Nat, d > 0
    PROVE  \E q \in Nat : x = d * q + (x % d)
BY SMTT(20)

\* Two times of one minute of the day are whole days apart.
LEMMA DaysApart ==
    ASSUME NEW x \in Nat, NEW y \in Nat, NEW d \in Nat, d > 0, x % d = y % d, x < y
    PROVE  y - x >= d
<1>1. PICK p \in Nat : x = d * p + (x % d)
  BY Division
<1>2. PICK q \in Nat : y = d * q + (y % d)
  BY Division
<1>3. x % d \in Nat /\ d * p \in Nat /\ d * q \in Nat
  OBVIOUS
<1>4. y - x = d * q - d * p
  BY <1>1, <1>2, <1>3
<1>5. CASE q <= p
  <2>1. d * q <= d * p
    BY <1>5
  <2> QED BY <1>3, <1>4, <2>1
<1>6. CASE q >= p + 1
  <2>1. d * q >= d * (p + 1)
    BY <1>6
  <2>2. d * (p + 1) = d * p + d
    OBVIOUS
  <2> QED BY <1>3, <1>4, <2>1, <2>2
<1> QED BY <1>5, <1>6

LEMMA LeastExists ==
    ASSUME NEW S, S \subseteq Nat, S # {}
    PROVE  \E x \in S : \A y \in S : x <= y
<1> DEFINE Less == OpToRel(<, Nat)
<1>1. \A x, y \in Nat : y < x => <<y, x>> \in Less
  BY DEF OpToRel
<1>2. IsWellFoundedOn(Less, Nat)
  BY NatLessThanWellFounded
<1> HIDE DEF Less
<1>3. PICK x \in S : \A y \in S : ~ (<<y, x>> \in Less)
  BY <1>2, WFMin
<1>4. \A y \in S : ~ (y < x) /\ y \in Nat /\ x \in Nat
  BY <1>1, <1>3
<1> QED BY <1>4

LEMMA GreatestExists ==
    ASSUME NEW S, S \subseteq Nat, S # {}, NEW m \in Nat, \A x \in S : x <= m
    PROVE  \E x \in S : \A y \in S : y <= x
<1> DEFINE Above == {b \in Nat : \A x \in S : x <= b}
<1>1. PICK b \in Above : \A c \in Above : b <= c
  <2>1. m \in Above
    OBVIOUS
  <2> QED BY <2>1, LeastExists
<1>2. b \in S
  <2> SUFFICES ASSUME b \notin S PROVE FALSE
    OBVIOUS
  <2>1. \A x \in S : x < b
    BY <1>1
  <2>2. b \in Nat /\ b - 1 \in Nat
    <3>1. PICK x \in S : TRUE
      OBVIOUS
    <3>2. x \in Nat /\ x < b /\ b \in Nat
      BY <1>1, <2>1
    <3> QED BY <3>2
  <2>3. b - 1 \in Above
    BY <2>1, <2>2
  <2> QED BY <1>1, <2>2, <2>3
<1> QED BY <1>1, <1>2

\* jobs_create gives an id that no job has.
LEMMA NextIdIsNew ==
    ASSUME DOMAIN jobs \subseteq Nat, jobs = [id \in DOMAIN jobs |-> jobs[id]],
           NEW m \in Nat, \A id \in DOMAIN jobs : id <= m
    PROVE  NextId \in Nat /\ NextId \notin DOMAIN jobs
<1>1. CASE jobs = <<>>
  BY <1>1 DEF NextId
<1>2. CASE jobs # <<>> /\ DOMAIN jobs # {}
  <2> DEFINE top == CHOOSE x \in DOMAIN jobs : \A id \in DOMAIN jobs : id <= x
  <2>1. top \in DOMAIN jobs /\ \A id \in DOMAIN jobs : id <= top
    BY <1>2, GreatestExists
  <2>2. NextId = 1 + top
    BY <1>2 DEF NextId
  <2> HIDE DEF top
  <2> QED BY <2>1, <2>2
<1> QED BY <1>1, <1>2

LEMMA ImageBounded ==
    ASSUME NEW S, IsFiniteSet(S), NEW f, DOMAIN f = S
    PROVE  LET T == {f[x] : x \in S} IN IsFiniteSet(T) /\ Cardinality(T) <= Cardinality(S)
<1> DEFINE T == {f[x] : x \in S}
           g == [x \in S |-> f[x]]
<1>1. g \in Surjection(S, T)
  BY DEF Surjection
<1> QED BY <1>1, FS_Surjection
-----------------------------------------------------------------------------
(* What each step does to one job, in the values it goes by. *)

RoleSets == SUBSET {"action", "restore"}

LEMMA PlanType ==
    ASSUME NEW plan \in Plans
    PROVE  /\ plan.kind \in {"once", "recurring"} /\ plan.at \in Nat
           /\ plan.restore \in Nat \cup {None}
           /\ DayLen \in Nat /\ DayLen > 1 /\ None \notin Int
BY PlanAssumption

LEMMA JobType ==
    ASSUME NEW j \in JobRecords
    PROVE  /\ j.plan \in Plans /\ j.plan.kind \in {"once", "recurring"} /\ j.plan.at \in Nat
           /\ j.plan.restore \in Nat \cup {None}
           /\ j.lastRun \in Nat \cup {None} /\ j.lastRestore \in Nat \cup {None}
           /\ DayLen \in Nat /\ DayLen > 1 /\ None \notin Int
<1>1. j.plan \in Plans /\ j.lastRun \in Maybe /\ j.lastRestore \in Maybe
  BY DEF JobRecords
<1> QED BY <1>1, PlanType DEF Maybe, Times

\* Only the thread moves on, within the minute.
LEMMA GoodPasses ==
    ASSUME NEW j, NEW h, NEW p, NEW q, NEW t,
           Good(j, h, {}, p, t), p \in {"past", "parked"}, q \in {"past", "parked"},
           q = "parked" => ~j.enabled
    PROVE  Good(j, h, {}, q, t)
BY DEF Good, Switched, RunsCount, RunsAreActs, Minutes, PastOnce, Daily, Restored, Order, Together, Looked

\* Boot.
LEMMA GoodBoots ==
    ASSUME NEW j, NEW h, NEW g, NEW t,
           Good(j, h, {}, "boot", t),
           g.runs = h.runs, g.acted <=> h.acted, g.applied <=> h.applied, g.lost <=> h.lost,
           g.on <=> h.on, g.fresh, g.mixed <=> h.mixed, g.rewound <=> h.rewound
    PROVE  Good(j, g, {}, "past", t)
BY DEF Good, Switched, RunsCount, RunsAreActs, Minutes, PastOnce, Daily, Restored, Order, Together, Looked

\* Collect.
LEMMA GoodCollects ==
    ASSUME NEW j \in JobRecords, NEW h, NEW c \in RoleSets, NEW q, NEW t \in Nat,
           Good(j, h, {}, "due", t),
           q \in {"past", "execute"}, q = "past" => c = {},
           "action" \in c <=>
             /\ j.enabled
             /\ IF j.plan.kind = "once" THEN t >= j.plan.at /\ j.lastRun = None
                ELSE Scheduled(j, t) /\ (j.lastRun = None \/ t - j.lastRun > 1),
           "restore" \in c <=>
             /\ j.enabled /\ j.plan.restore = t % DayLen /\ j.lastRun # None
             /\ j.lastRestore = None \/ j.lastRun > j.lastRestore
             /\ j.lastRestore = None \/ t - j.lastRestore > 1
    PROVE  Good(j, h, c, q, t)
<1> USE JobType
<1>1. Switched(j, h, c, q)
  <2>1. c # {} => j.enabled
    BY DEF RoleSets
  <2> QED BY <2>1 DEF Good, Switched
<1>2. RunsCount(j, h, c, q)
  BY DEF Good, RunsCount
<1>3. RunsAreActs(j, h, c, q)
  BY DEF Good, RunsAreActs
<1>4. Minutes(j, h, c, t)
  BY DEF Good, Minutes, Scheduled
<1>5. PastOnce(j, h, c, q, t)
  BY DEF Good, PastOnce, Switched
\* A time of the same minute of the day that is not past is not the last minute either.
<1>6. \A last \in Nat : last % DayLen = t % DayLen /\ ~(t - last > 1) => last >= t
  <2> SUFFICES ASSUME NEW last \in Nat, last % DayLen = t % DayLen, last < t PROVE t - last > 1
    OBVIOUS
  <2>1. t - last >= DayLen
    BY DaysApart
  <2> QED BY <2>1
<1>7. Daily(j, h, c, q, t)
  <2> SUFFICES ASSUME h.on, ~h.mixed, j.plan.kind = "recurring", Scheduled(j, t), "action" \notin c
               PROVE  Since(j.lastRun, t)
    BY DEF Daily
  <2>1. j.lastRun # None /\ ~(t - j.lastRun > 1)
    BY DEF Good, Switched
  <2>2. j.lastRun % DayLen = t % DayLen
    BY <2>1 DEF Good, Minutes, Scheduled
  <2> QED BY <1>6, <2>1, <2>2 DEF Since
<1>8. Restored(j, h, c, q, t)
  <2> SUFFICES ASSUME h.on, ~h.mixed, j.plan.restore = t % DayLen, h.applied, ~h.lost, "restore" \notin c,
                      ~(j.lastRestore # None /\ h.rewound /\ j.lastRun <= j.lastRestore)
               PROVE  Since(j.lastRestore, t)
    <3>1. q = "past" => "restore" \notin c
      OBVIOUS
    <3> QED BY <3>1 DEF Restored
  <2>1. j.lastRun # None /\ (j.lastRestore = None \/ j.lastRun > j.lastRestore)
    BY DEF Good, Order
  <2>2. j.enabled
    <3>1. t % DayLen \in Int
      OBVIOUS
    <3>2. j.plan.restore # None
      BY <3>1
    <3> QED BY <3>2 DEF Good, Switched
  <2>3. j.lastRestore # None /\ ~(t - j.lastRestore > 1)
    BY <2>1, <2>2
  <2>4. j.lastRestore % DayLen = t % DayLen
    BY <2>3 DEF Good, Minutes
  <2> QED BY <1>6, <2>3, <2>4 DEF Since
<1>9. Order(j, h, c, q, t)
  BY DEF Good, Order
<1>10. Together(j, h, c, t)
  <2>1. ASSUME ~h.mixed, j.plan.kind = "recurring", Scheduled(j, t),
               "restore" \in c \/ (~h.rewound /\ j.lastRestore = t)
        PROVE  "action" \in c \/ Since(j.lastRun, t)
    <3>1. CASE ~h.rewound /\ j.lastRestore = t
      BY <2>1, <3>1 DEF Good, Together
    <3>2. CASE "restore" \in c
      <4>1. j.enabled /\ j.lastRun # None
        BY <3>2
      <4>2. ~(t - j.lastRun > 1) => j.lastRun >= t
        BY <1>6, <2>1, <4>1 DEF Good, Minutes, Scheduled
      <4> QED BY <2>1, <4>1, <4>2 DEF Since
    <3> QED BY <2>1, <3>1, <3>2
  <2>2. ASSUME ~h.mixed, c # {}, ~h.rewound, j.lastRestore # None
        PROVE  j.lastRestore < t
    <3>1. j.lastRun # None /\ j.lastRestore <= t
      BY <2>2 DEF Good, RunsAreActs, Order
    <3>2. CASE "restore" \in c
      BY <2>2, <3>2
    <3>3. CASE "action" \in c
      <4>1. j.plan.kind = "recurring" /\ Scheduled(j, t) /\ t - j.lastRun > 1
        BY <3>1, <3>3
      <4>2. j.lastRestore # t
        BY <2>2, <3>1, <4>1 DEF Good, Together, Since
      <4> QED BY <2>2, <3>1, <4>2
    <3> QED BY <2>2, <3>2, <3>3 DEF RoleSets
  <2> QED BY <2>1, <2>2 DEF Together
<1> QED BY <1>1, <1>2, <1>3, <1>4, <1>5, <1>7, <1>8, <1>9, <1>10 DEF Good

\* Execute.
LEMMA GoodExecutes ==
    ASSUME NEW j \in JobRecords, NEW h \in Histories, NEW g, NEW c \in RoleSets, NEW t \in Nat,
           Good(j, h, c, "execute", t),
           g.runs = IF "action" \in c /\ h.runs < 2 THEN h.runs + 1 ELSE h.runs,
           g.acted <=> h.acted \/ "action" \in c,
           g.current <=> h.current \/ "action" \in c,
           g.applied <=> "restore" \notin c /\ ("action" \in c \/ h.applied),
           g.lost <=> h.lost, g.on <=> h.on, g.fresh <=> h.fresh, g.mixed <=> h.mixed,
           g.rewound <=> h.rewound
    PROVE  Good(j, g, c, "update", t)
<1> USE JobType
<1>0. h.runs \in 0 .. 2
  BY DEF Histories
<1>1. Switched(j, g, c, "update")
  BY DEF Good, Switched
<1>2. RunsCount(j, g, c, "update")
  BY <1>0 DEF Good, RunsCount
<1>3. RunsAreActs(j, g, c, "update")
  BY DEF Good, RunsAreActs
<1>4. Minutes(j, g, c, t)
  BY DEF Good, Minutes
<1>5. PastOnce(j, g, c, "update", t)
  BY DEF Good, PastOnce, Looked
<1>6. Daily(j, g, c, "update", t)
  BY DEF Good, Daily, Looked
<1>7. Restored(j, g, c, "update", t)
  BY DEF Good, Restored, Looked
<1>8. Order(j, g, c, "update", t)
  <2>1. c = {} => "action" \notin c /\ "restore" \notin c
    OBVIOUS
  <2> QED BY <2>1 DEF Good, Order
<1>9. Together(j, g, c, t)
  BY DEF Good, Together
<1> QED BY <1>1, <1>2, <1>3, <1>4, <1>5, <1>6, <1>7, <1>8, <1>9 DEF Good

\* Update, for a job that keeps its own results.
LEMMA GoodRecords ==
    ASSUME NEW j \in JobRecords, NEW k, NEW h \in Histories, NEW g, NEW c \in RoleSets, NEW t \in Nat,
           Good(j, h, c, "update", t), ~h.mixed, ~g.mixed,
           k.plan = j.plan,
           k.lastRun = IF "action" \in c THEN t ELSE j.lastRun,
           k.lastRestore = IF "restore" \in c THEN t ELSE j.lastRestore,
           k.enabled <=> /\ j.enabled
                         /\ ~(/\ j.plan.kind = "once"
                              /\ "restore" \in c \/ ("action" \in c /\ j.plan.restore = None)),
           g.runs = h.runs, g.acted <=> h.acted, g.current <=> h.current, g.applied <=> h.applied,
           g.lost <=> h.lost, g.on <=> h.on, g.fresh <=> h.fresh,
           g.rewound <=> h.rewound /\ "restore" \notin c
    PROVE  Good(k, g, {}, "past", t)
<1> USE JobType
<1>0. c = {} <=> "action" \notin c /\ "restore" \notin c
  BY DEF RoleSets
<1>1. Switched(k, g, {}, "past")
  <2>1. k.enabled => g.on
    BY DEF Good, Switched
  <2>2. g.on /\ k.plan.kind = "recurring" => k.enabled
    BY DEF Good, Switched
  <2>3. ASSUME g.on, ~k.enabled
        PROVE  k.lastRun # None /\ (k.plan.restore = None \/ ~g.applied)
    <3>1. CASE ~j.enabled
      BY <1>0, <2>3, <3>1 DEF Good, Switched
    <3>2. CASE "restore" \in c
      BY <2>3, <3>2 DEF Good, RunsAreActs, Order
    <3>3. CASE "action" \in c /\ j.plan.restore = None
      BY <2>3, <3>3
    <3> QED BY <2>3, <3>1, <3>2, <3>3
  <2> QED BY <2>1, <2>2, <2>3 DEF Switched
<1>2. RunsCount(k, g, {}, "past")
  BY DEF Good, RunsCount
<1>3. RunsAreActs(k, g, {}, "past")
  BY DEF Good, RunsAreActs
<1>4. Minutes(k, g, {}, t)
  BY DEF Good, Minutes
<1>5. PastOnce(k, g, {}, "past", t)
  BY DEF Good, PastOnce, Looked
<1>6. Daily(k, g, {}, "past", t)
  BY DEF Good, Daily, Looked, Since, Scheduled
<1>7. Restored(k, g, {}, "past", t)
  <2> SUFFICES ASSUME g.on, ~g.fresh, k.plan.restore = t % DayLen, g.applied, ~g.lost, ~g.current
               PROVE  \/ Since(k.lastRestore, t)
                      \/ k.lastRestore # None /\ g.rewound /\ k.lastRun <= k.lastRestore
    BY DEF Restored
  <2>1. "restore" \notin c /\ "action" \notin c
    BY DEF Good, Order, RunsAreActs
  <2> QED BY <2>1 DEF Good, Restored, Looked
<1>8. Order(k, g, {}, "past", t)
  <2>1. ASSUME g.applied, ~g.lost
        PROVE  /\ k.lastRun # None
               /\ k.lastRestore = None \/ g.rewound \/ k.lastRun > k.lastRestore
    <3>1. "restore" \notin c
      BY <2>1 DEF Good, Order
    <3>2. CASE "action" \in c
      BY <3>1, <3>2 DEF Good, Together
    <3>3. CASE "action" \notin c
      BY <1>0, <2>1, <3>1, <3>3 DEF Good, Order
    <3> QED BY <3>2, <3>3
  <2>2. ~g.rewound /\ k.lastRestore # None => k.lastRestore <= t
    BY DEF Good, Order
  <2> QED BY <2>1, <2>2 DEF Order
<1>9. Together(k, g, {}, t)
  BY DEF Good, Together, Since, Scheduled
<1> QED BY <1>1, <1>2, <1>3, <1>4, <1>5, <1>6, <1>7, <1>8, <1>9 DEF Good

\* Update, for a job that got another job's results, or had them.
LEMMA GoodMixes ==
    ASSUME NEW j \in JobRecords, NEW k, NEW h \in Histories, NEW g, NEW c \in RoleSets, NEW t \in Nat,
           Good(j, h, c, "update", t), g.mixed,
           k.plan = j.plan,
           k.lastRun \in {j.lastRun, t}, "action" \in c => k.lastRun = t,
           k.lastRestore \in {j.lastRestore, t}, "restore" \in c => k.lastRestore = t,
           k.enabled => j.enabled, j.plan.kind # "once" => (k.enabled <=> j.enabled),
           g.runs = h.runs, g.lost <=> h.lost, g.on <=> h.on,
           g.rewound <=> h.rewound /\ "restore" \notin c
    PROVE  Good(k, g, {}, "past", t)
<1> USE JobType
<1>1. Switched(k, g, {}, "past")
  BY DEF Good, Switched
<1>2. RunsCount(k, g, {}, "past")
  BY DEF Good, RunsCount
<1>3. Order(k, g, {}, "past", t)
  BY DEF Good, Order
<1>4. /\ RunsAreActs(k, g, {}, "past") /\ Minutes(k, g, {}, t) /\ PastOnce(k, g, {}, "past", t)
      /\ Daily(k, g, {}, "past", t) /\ Restored(k, g, {}, "past", t) /\ Together(k, g, {}, t)
  BY DEF RunsAreActs, Minutes, PastOnce, Daily, Restored, Together
<1> QED BY <1>1, <1>2, <1>3, <1>4 DEF Good

\* Create.
LEMMA GoodCreates ==
    ASSUME NEW k, NEW g, NEW p, NEW t, k.plan \in Plans,
           k.enabled, k.lastRun = None, k.lastRestore = None, p # "parked",
           g.runs = 0, ~g.applied, g.on, g.fresh, ~g.rewound, ~g.mixed, t # None
    PROVE  Good(k, g, {}, p, t)
BY DEF Good, Switched, RunsCount, RunsAreActs, Minutes, PastOnce, Daily, Restored, Order, Together

\* Replace and Toggle: the user sets the switch and perhaps another plan.
LEMMA GoodEdits ==
    ASSUME NEW j \in JobRecords, NEW k, NEW h, NEW g, NEW c \in RoleSets, NEW p, NEW q, NEW t \in Nat,
           Good(j, h, c, p, t), q = IF p = "parked" THEN "past" ELSE p,
           k.plan \in Plans, k.lastRun = j.lastRun, k.lastRestore = j.lastRestore,
           g.on <=> k.enabled, g.fresh,
           g.runs = h.runs, g.current <=> h.current, g.applied <=> h.applied, g.lost <=> h.lost,
           g.rewound <=> h.rewound, h.mixed => g.mixed,
           k.plan = j.plan => (g.acted <=> h.acted),
           k.plan # j.plan => g.mixed \/ (j.lastRun = None /\ c = {})
    PROVE  Good(k, g, c, q, t)
<1> USE JobType
<1>1. Switched(k, g, c, q)
  BY DEF Switched
<1>2. RunsCount(k, g, c, q)
  BY DEF Good, RunsCount
<1>3. RunsAreActs(k, g, c, q)
  BY DEF Good, RunsAreActs
<1>4. Minutes(k, g, c, t)
  BY DEF Good, Minutes, RunsAreActs
<1>5. PastOnce(k, g, c, q, t) /\ Daily(k, g, c, q, t) /\ Restored(k, g, c, q, t)
  BY DEF PastOnce, Daily, Restored
<1>6. Order(k, g, c, q, t)
  BY DEF Good, Order
<1>7. Together(k, g, c, t)
  <2>1. CASE k.plan = j.plan
    <3>1. Scheduled(k, t) <=> Scheduled(j, t)
      BY <2>1 DEF Scheduled
    <3> QED BY <2>1, <3>1 DEF Good, Together
  <2>2. CASE k.plan # j.plan
    <3>1. g.mixed \/ (c = {} /\ k.lastRestore = None /\ t # None)
      BY <2>2 DEF Good, RunsAreActs
    <3> QED BY <3>1 DEF Together
  <2> QED BY <2>1, <2>2
<1> QED BY <1>1, <1>2, <1>3, <1>4, <1>5, <1>6, <1>7 DEF Good

\* Advance.
LEMMA GoodAdvances ==
    ASSUME NEW j \in JobRecords, NEW h, NEW g, NEW p, NEW q, NEW t \in Nat,
           Good(j, h, {}, p, t),
           (p = "boot" /\ q = "boot") \/ (p = "past" /\ q = "due") \/ (p = "parked" /\ q = "parked"),
           g.runs = h.runs, g.acted <=> h.acted, g.applied <=> h.applied, g.lost <=> h.lost,
           g.on <=> h.on, g.mixed <=> h.mixed, g.rewound <=> h.rewound
    PROVE  Good(j, g, {}, q, t + 1)
<1> USE JobType
<1>1. Switched(j, g, {}, q)
  BY DEF Good, Switched
<1>2. RunsCount(j, g, {}, q) /\ RunsAreActs(j, g, {}, q)
  BY DEF Good, RunsCount, RunsAreActs
<1>3. Minutes(j, g, {}, t + 1)
  BY DEF Good, Minutes
<1>4. PastOnce(j, g, {}, q, t + 1)
  BY DEF Good, PastOnce, Switched, Looked
<1>5. Daily(j, g, {}, q, t + 1)
  BY DEF Good, Daily, Switched, Looked
<1>6. Restored(j, g, {}, q, t + 1)
  <2>1. (t + 1) % DayLen \in Int
    OBVIOUS
  <2> QED BY <2>1 DEF Good, Restored, Switched, Looked
<1>7. Order(j, g, {}, q, t + 1)
  BY DEF Good, Order
<1>8. Together(j, g, {}, t + 1)
  BY DEF Good, Together, Order
<1> QED BY <1>1, <1>2, <1>3, <1>4, <1>5, <1>6, <1>7, <1>8 DEF Good

\* StepBack.
LEMMA GoodStepsBack ==
    ASSUME NEW j \in JobRecords, NEW h, NEW g, NEW p, NEW t, NEW u,
           Good(j, h, {}, p, t), p \in {"parked", "due", "past"},
           g.runs = h.runs, g.acted <=> h.acted, g.applied <=> h.applied, g.lost <=> h.lost,
           g.on <=> h.on, g.fresh, g.mixed <=> h.mixed, g.rewound
    PROVE  Good(j, g, {}, p, u)
BY DEF Good, Switched, RunsCount, RunsAreActs, Minutes, PastOnce, Daily, Restored, Order, Together

\* Restart.
LEMMA GoodRestarts ==
    ASSUME NEW j \in JobRecords, NEW h, NEW g, NEW c \in RoleSets, NEW p, NEW t \in Nat, NEW u \in {t, t + 1},
           Good(j, h, c, p, t),
           g.runs = h.runs, g.acted <=> h.acted, g.applied <=> h.applied,
           g.lost <=> h.lost \/ (p = "update" /\ c # {}),
           g.on <=> h.on, g.fresh <=> h.fresh, g.mixed <=> h.mixed, g.rewound <=> h.rewound
    PROVE  Good(j, g, {}, "boot", u)
<1> USE JobType
<1>1. Switched(j, g, {}, "boot")
  BY DEF Good, Switched
<1>2. RunsCount(j, g, {}, "boot") /\ RunsAreActs(j, g, {}, "boot")
  BY DEF Good, RunsCount, RunsAreActs
<1>3. Minutes(j, g, {}, u)
  BY DEF Good, Minutes
<1>4. PastOnce(j, g, {}, "boot", u) /\ Daily(j, g, {}, "boot", u) /\ Restored(j, g, {}, "boot", u)
  BY DEF PastOnce, Daily, Restored, Looked
<1>5. Order(j, g, {}, "boot", u)
  BY DEF Good, Order
<1>6. Together(j, g, {}, u)
  <2> SUFFICES ASSUME ~h.mixed, j.plan.kind = "recurring", Scheduled(j, u), ~h.rewound, j.lastRestore = u
               PROVE  Since(j.lastRun, u)
    BY DEF Together
  <2>1. u = t
    BY DEF Good, Order
  <2>2. c = {}
    BY <2>1 DEF Good, Together
  <2> QED BY <2>1, <2>2 DEF Good, Together
<1> QED BY <1>1, <1>2, <1>3, <1>4, <1>5, <1>6 DEF Good

-----------------------------------------------------------------------------
(* The initial state and the steps. *)

LEMMA RolesAre ==
    ASSUME NEW t
    PROVE  /\ Roles(t) \in RoleSets
           /\ "action" \in Roles(t) <=> \E p \in thread.actions : p.tag = t
           /\ "restore" \in Roles(t) <=> \E p \in thread.restores : p.tag = t
           /\ Roles(t) # {} <=> \E p \in Batch : p.tag = t
BY DEF Roles, RoleSets, Batch

LEMMA Known ==
    ASSUME IInv, NEW id \in DOMAIN jobs
    PROVE  /\ jobs[id] \in JobRecords /\ jobs[id].tag \in Tags /\ jobs[id].plan \in Plans
           /\ hist[jobs[id].tag] \in Histories
           /\ Roles(jobs[id].tag) \in RoleSets
           /\ Good(jobs[id], hist[jobs[id].tag], Roles(jobs[id].tag), Phase, now)
           /\ thread \in Threads /\ now \in Nat
BY RolesAre DEF IInv, Typed, Jobs, JobRecords, Times

LEMMA InitInvariant == Init => IInv
<1> SUFFICES ASSUME Init PROVE IInv
  OBVIOUS
<1>1. DOMAIN jobs = {} /\ jobs = [id \in DOMAIN jobs |-> jobs[id]]
  BY DEF Init
<1>2. Typed
  <2>1. IsFiniteSet(DOMAIN jobs) /\ Cardinality(DOMAIN jobs) <= MaxJobs
    BY <1>1, FS_EmptySet, PlanAssumption
  <2>2. hist \in [Tags -> Histories]
    BY DEF Init, Histories, Untouched
  <2>3. thread \in Threads /\ now \in Times
    BY PlanAssumption DEF Init, Threads, Times
  <2>4. \E m \in Nat : \A id \in DOMAIN jobs : id <= m
    BY <1>1
  <2> QED BY <1>1, <2>1, <2>2, <2>3, <2>4 DEF Typed
<1>3. Tick
  <2>1. Batch = {} /\ Carried = {}
    BY DEF Init, Batch, Carried
  <2>2. IsFiniteSet(Carried) /\ Cardinality(Carried) <= MaxJobs
    BY <2>1, FS_EmptySet, PlanAssumption
  <2> QED BY <1>1, <2>1, <2>2 DEF Init, Tick
<1> QED BY <1>1, <1>2, <1>3 DEF IInv, Jobs

\* A step that leaves the list and what the tick carries keeps their types.
LEMMA ListKept ==
    ASSUME IInv, jobs' = jobs, hist' \in [Tags -> Histories], thread' \in Threads, now' \in Times
    PROVE  Typed'
BY DEF IInv, Typed

LEMMA EmptyTick ==
    ASSUME thread'.pc \notin {"execute", "update"}, thread'.actions = {}, thread'.restores = {}
    PROVE  Tick' /\ \A t : Roles(t)' = {}
<1>1. Batch' = {} /\ Carried' = {}
  BY DEF Batch, Carried
<1>2. IsFiniteSet(Carried') /\ Cardinality(Carried') <= MaxJobs
  BY <1>1, FS_EmptySet, PlanAssumption
<1>3. \A t : Roles(t)' = {}
  BY DEF Roles
<1> QED BY <1>1, <1>2, <1>3 DEF Tick

LEMMA NoTick ==
    ASSUME IInv, thread.pc \notin {"execute", "update"}
    PROVE  /\ thread.actions = {} /\ thread.restores = {} /\ \A t : Roles(t) = {}
BY DEF IInv, Tick, Batch, Roles

LEMMA BootKeeps ==
    ASSUME IInv, Boot
    PROVE  IInv'
<1>1. /\ thread' \in Threads /\ thread'.pc = "wait" /\ thread.pc = "boot"
      /\ thread'.actions = thread.actions /\ thread'.restores = thread.restores
      /\ jobs' = jobs /\ now' = now /\ now \in Times
  BY DEF Boot, IInv, Typed, Threads
<1>2. \A t \in Tags :
        /\ hist'[t] \in Histories
        /\ hist'[t].runs = hist[t].runs /\ hist'[t].acted = hist[t].acted
        /\ hist'[t].applied = hist[t].applied /\ hist'[t].lost = hist[t].lost
        /\ hist'[t].on = hist[t].on /\ hist'[t].fresh = TRUE
        /\ hist'[t].mixed = hist[t].mixed /\ hist'[t].rewound = hist[t].rewound
  <2> SUFFICES ASSUME NEW t \in Tags
               PROVE  /\ hist'[t] \in Histories
                      /\ hist'[t].runs = hist[t].runs /\ hist'[t].acted = hist[t].acted
                      /\ hist'[t].applied = hist[t].applied /\ hist'[t].lost = hist[t].lost
                      /\ hist'[t].on = hist[t].on /\ hist'[t].fresh = TRUE
                      /\ hist'[t].mixed = hist[t].mixed /\ hist'[t].rewound = hist[t].rewound
    OBVIOUS
  <2>1. hist[t] \in Histories /\ hist'[t] = [hist[t] EXCEPT !.fresh = TRUE]
    BY DEF Boot, IInv, Typed
  <2> QED BY <2>1 DEF Histories
<1>3. hist' \in [Tags -> Histories]
  BY <1>2 DEF Boot
<1>4. Tick' /\ (\A t : Roles(t)' = {}) /\ (\A t : Roles(t) = {})
  BY <1>1, NoTick, EmptyTick
<1>5. Phase = "boot" /\ Phase' = "past"
  BY <1>1 DEF Phase
<1>6. Jobs'
  <2> SUFFICES ASSUME NEW id \in DOMAIN jobs
               PROVE  Good(jobs[id], hist'[jobs[id].tag], {}, "past", now)
    BY <1>1, <1>4, <1>5 DEF Jobs
  <2> QED BY <1>2, <1>4, <1>5, Known, GoodBoots
<1> QED BY <1>1, <1>3, <1>4, <1>6, ListKept DEF IInv

LEMMA WaitKeeps ==
    ASSUME IInv, Wait
    PROVE  IInv'
<1>1. /\ thread' \in Threads /\ thread.pc = "wait"
      /\ thread'.actions = thread.actions /\ thread'.restores = thread.restores
      /\ jobs' = jobs /\ now' = now /\ now \in Times /\ hist' = hist /\ hist \in [Tags -> Histories]
      /\ \/ thread'.pc = "sleep" /\ thread'.left = 1
         \/ thread'.pc = "parked" /\ ~HasEnabledJob
  BY DEF Wait, IInv, Typed, Threads
<1>2. Tick' /\ (\A t : Roles(t)' = {}) /\ (\A t : Roles(t) = {})
  BY <1>1, NoTick, EmptyTick
<1>3. Phase = "past" /\ (Phase' = "past" \/ (Phase' = "parked" /\ ~HasEnabledJob))
  BY <1>1 DEF Phase
<1>4. Jobs'
  <2> SUFFICES ASSUME NEW id \in DOMAIN jobs
               PROVE  Good(jobs[id], hist[jobs[id].tag], {}, Phase', now)
    BY <1>1, <1>2 DEF Jobs
  <2>1. Phase' = "parked" => ~jobs[id].enabled
    BY <1>3 DEF HasEnabledJob
  <2>2. Good(jobs[id], hist[jobs[id].tag], {}, "past", now)
    BY <1>2, <1>3, Known
  <2> QED BY <1>3, <2>1, <2>2, GoodPasses
<1> QED BY <1>1, <1>2, <1>4, ListKept DEF IInv

LEMMA CollectKeeps ==
    ASSUME IInv, Collect
    PROVE  IInv'
<1> DEFINE actions == {id \in DOMAIN jobs : ActionDue(jobs[id])}
           restores == {id \in DOMAIN jobs : RestoreDue(jobs[id])}
           Parcel(id) == [id |-> id, tag |-> jobs[id].tag]
<1>0. /\ thread \in Threads /\ thread.pc = "sleep" /\ thread.left = 0 /\ DOMAIN jobs \subseteq Nat
      /\ jobs' = jobs /\ now' = now /\ now \in Times /\ now \in Nat
      /\ hist' = hist /\ hist \in [Tags -> Histories]
  BY DEF Collect, IInv, Typed, Times
<1>1. thread.actions = {} /\ thread.restores = {} /\ \A t : Roles(t) = {}
  BY <1>0, NoTick
<1>2. CASE actions \cup restores = {}
  <2>1. thread' = [thread EXCEPT !.pc = "wait"]
    BY <1>2 DEF Collect
  <2>2. /\ thread' \in Threads /\ thread'.pc = "wait" /\ thread'.actions = {} /\ thread'.restores = {}
    BY <1>0, <1>1, <2>1 DEF Threads
  <2>3. Tick' /\ (\A t : Roles(t)' = {})
    BY <2>2, EmptyTick
  <2>4. Phase = "due" /\ Phase' = "past"
    BY <1>0, <2>2 DEF Phase
  <2>5. Jobs'
    <3> SUFFICES ASSUME NEW id \in DOMAIN jobs
                 PROVE  Good(jobs[id], hist[jobs[id].tag], {}, "past", now)
      BY <1>0, <2>3, <2>4 DEF Jobs
    <3>1. ~ActionDue(jobs[id]) /\ ~RestoreDue(jobs[id])
      BY <1>2
    <3>2. Good(jobs[id], hist[jobs[id].tag], {}, "due", now) /\ jobs[id] \in JobRecords
      BY <1>1, <2>4, Known
    <3>3. {} \in RoleSets
      BY DEF RoleSets
    <3> QED BY <1>0, <3>1, <3>2, <3>3, GoodCollects
            DEF ActionDue, RestoreDue, GuardPassed, Scheduled, HourMinute, Weekday
  <2> QED BY <1>0, <2>2, <2>3, <2>5, ListKept DEF IInv
<1>3. CASE actions \cup restores # {}
  <2>1. /\ thread'.pc = "execute" /\ thread'.left = 0 /\ thread'.tick = now
        /\ thread'.actions = {Parcel(id) : id \in actions}
        /\ thread'.restores = {Parcel(id) : id \in restores}
        /\ thread' = [pc |-> "execute", left |-> 0, tick |-> now,
                      actions |-> {Parcel(id) : id \in actions},
                      restores |-> {Parcel(id) : id \in restores}]
    BY <1>3 DEF Collect
  <2>2. \A id \in DOMAIN jobs : Parcel(id) \in Parcels /\ Parcel(id).id = id /\ Parcel(id).tag = jobs[id].tag
    BY <1>0, Known DEF Parcels
  <2> HIDE DEF Parcel
  <2>3. thread' \in Threads
    BY <1>0, <2>1, <2>2 DEF Threads
  <2>4. \A p \in Batch' : \E id \in DOMAIN jobs : p.id = id /\ p.tag = jobs[id].tag
    BY <2>1, <2>2 DEF Batch
  <2>5. Tick'
    <3>1. Batch' # {}
      BY <1>3, <2>1 DEF Batch
    <3>2. IsFiniteSet(Carried') /\ Cardinality(Carried') <= MaxJobs
      <4> DEFINE f == [id \in DOMAIN jobs |-> jobs[id].tag]
                 T == {f[id] : id \in DOMAIN jobs}
      <4>1. Carried' \subseteq T
        BY <2>4 DEF Carried
      <4>2. IsFiniteSet(DOMAIN jobs) /\ Cardinality(DOMAIN jobs) <= MaxJobs
        BY DEF IInv, Typed
      <4>3. IsFiniteSet(T) /\ Cardinality(T) <= Cardinality(DOMAIN jobs)
        BY <4>2, ImageBounded
      <4> HIDE DEF T
      <4>4. IsFiniteSet(Carried') /\ Cardinality(Carried') <= Cardinality(T)
        BY <4>1, <4>3, FS_Subset
      <4> QED BY <4>2, <4>3, <4>4, FS_CardinalityType, PlanAssumption
    <3>3. \A p \in Batch' : \A id \in DOMAIN jobs : p.tag = jobs[id].tag => p.id = id
      BY <2>4 DEF IInv, Typed
    <3> QED BY <1>0, <2>1, <3>1, <3>2, <3>3 DEF Tick
  <2>6. Phase = "due" /\ Phase' = "execute"
    BY <1>0, <2>1 DEF Phase
  <2>7. Jobs'
    <3> SUFFICES ASSUME NEW id \in DOMAIN jobs
                 PROVE  Good(jobs[id], hist[jobs[id].tag], Roles(jobs[id].tag)', "execute", now)
      BY <1>0, <2>6 DEF Jobs
    <3>1. "action" \in Roles(jobs[id].tag)' <=> ActionDue(jobs[id])
      <4>1. (\E p \in thread'.actions : p.tag = jobs[id].tag) <=> id \in actions
        BY <2>1, <2>2 DEF IInv, Typed
      <4>2. "action" \in Roles(jobs[id].tag)' <=> \E p \in thread'.actions : p.tag = jobs[id].tag
        BY <1>0 DEF Roles
      <4> QED BY <4>1, <4>2
    <3>2. "restore" \in Roles(jobs[id].tag)' <=> RestoreDue(jobs[id])
      <4>1. (\E p \in thread'.restores : p.tag = jobs[id].tag) <=> id \in restores
        BY <2>1, <2>2 DEF IInv, Typed
      <4>2. "restore" \in Roles(jobs[id].tag)' <=> \E p \in thread'.restores : p.tag = jobs[id].tag
        BY <1>0 DEF Roles
      <4> QED BY <4>1, <4>2
    <3>3. Roles(jobs[id].tag)' \in RoleSets
      BY DEF Roles, RoleSets
    <3>4. Good(jobs[id], hist[jobs[id].tag], {}, "due", now) /\ jobs[id] \in JobRecords
      BY <1>1, <2>6, Known
    <3> QED BY <1>0, <3>1, <3>2, <3>3, <3>4, GoodCollects
            DEF ActionDue, RestoreDue, GuardPassed, Scheduled, HourMinute, Weekday
  <2> QED BY <1>0, <2>3, <2>5, <2>7, ListKept DEF IInv
<1> QED BY <1>2, <1>3

LEMMA ExecuteKeeps ==
    ASSUME IInv, Execute
    PROVE  IInv'
<1>1. /\ thread \in Threads /\ thread.pc = "execute" /\ thread' = [thread EXCEPT !.pc = "update"]
      /\ jobs' = jobs /\ now' = now /\ now \in Times /\ now \in Nat
  <2>1. thread.pc = "execute" /\ thread' = [thread EXCEPT !.pc = "update"] /\ jobs' = jobs /\ now' = now
    BY DEF Execute
  <2>2. thread \in Threads /\ now \in Times /\ now \in Nat
    BY DEF IInv, Typed, Times
  <2> QED BY <2>1, <2>2
<1>2. /\ thread' \in Threads /\ thread'.pc = "update" /\ thread'.tick = thread.tick
      /\ thread'.actions = thread.actions /\ thread'.restores = thread.restores
  BY <1>1 DEF Threads
<1>3. \A t \in Tags :
        /\ hist'[t] \in Histories
        /\ hist'[t].runs = IF "action" \in Roles(t) /\ hist[t].runs < 2 THEN hist[t].runs + 1 ELSE hist[t].runs
        /\ hist'[t].acted <=> hist[t].acted \/ "action" \in Roles(t)
        /\ hist'[t].current <=> hist[t].current \/ "action" \in Roles(t)
        /\ hist'[t].applied <=> "restore" \notin Roles(t) /\ ("action" \in Roles(t) \/ hist[t].applied)
        /\ hist'[t].lost = hist[t].lost /\ hist'[t].on = hist[t].on /\ hist'[t].fresh = hist[t].fresh
        /\ hist'[t].mixed = hist[t].mixed /\ hist'[t].rewound = hist[t].rewound
  <2> SUFFICES ASSUME NEW t \in Tags
               PROVE  /\ hist'[t] \in Histories
                      /\ hist'[t].runs = IF "action" \in Roles(t) /\ hist[t].runs < 2
                                         THEN hist[t].runs + 1 ELSE hist[t].runs
                      /\ hist'[t].acted <=> hist[t].acted \/ "action" \in Roles(t)
                      /\ hist'[t].current <=> hist[t].current \/ "action" \in Roles(t)
                      /\ hist'[t].applied <=>
                           "restore" \notin Roles(t) /\ ("action" \in Roles(t) \/ hist[t].applied)
                      /\ hist'[t].lost = hist[t].lost /\ hist'[t].on = hist[t].on
                      /\ hist'[t].fresh = hist[t].fresh
                      /\ hist'[t].mixed = hist[t].mixed /\ hist'[t].rewound = hist[t].rewound
    OBVIOUS
  <2> DEFINE acts == \E p \in thread.actions : p.tag = t
             rests == \E p \in thread.restores : p.tag = t
  <2>1. /\ hist[t] \in Histories
        /\ hist'[t] = [hist[t] EXCEPT !.runs = IF acts /\ @ < 2 THEN @ + 1 ELSE @,
                             !.acted = @ \/ acts,
                             !.current = @ \/ acts,
                             !.applied = ~rests /\ (acts \/ @)]
    BY DEF Execute, IInv, Typed
  <2>2. (acts <=> "action" \in Roles(t)) /\ (rests <=> "restore" \in Roles(t))
    BY RolesAre
  <2> HIDE DEF acts, rests
  <2>3. PICK n \in 0 .. 2 : n = IF acts /\ hist[t].runs < 2 THEN hist[t].runs + 1 ELSE hist[t].runs
    BY <2>1 DEF Histories
  <2>4. PICK a \in BOOLEAN : a = (hist[t].acted \/ acts)
    OBVIOUS
  <2>5. PICK b \in BOOLEAN : b = (hist[t].current \/ acts)
    OBVIOUS
  <2>6. PICK c \in BOOLEAN : c = (~rests /\ (acts \/ hist[t].applied))
    OBVIOUS
  <2>7. hist'[t] = [hist[t] EXCEPT !.runs = n, !.acted = a, !.current = b, !.applied = c]
    BY <2>1, <2>3, <2>4, <2>5, <2>6, Zenon
  <2>8. /\ hist'[t] \in Histories
        /\ hist'[t].runs = n /\ hist'[t].acted = a /\ hist'[t].current = b /\ hist'[t].applied = c
        /\ hist'[t].lost = hist[t].lost /\ hist'[t].on = hist[t].on
        /\ hist'[t].fresh = hist[t].fresh
        /\ hist'[t].mixed = hist[t].mixed /\ hist'[t].rewound = hist[t].rewound
    BY <2>1, <2>7 DEF Histories
  <2> QED BY <2>2, <2>3, <2>4, <2>5, <2>6, <2>8
<1>4. hist' \in [Tags -> Histories]
  BY <1>3 DEF Execute
<1>5. Batch' = Batch /\ Carried' = Carried /\ \A t : Roles(t)' = Roles(t)
  BY <1>2 DEF Batch, Carried, Roles
<1>6. Tick'
  BY <1>1, <1>2, <1>5 DEF IInv, Tick
<1>7. Phase = "execute" /\ Phase' = "update"
  BY <1>1, <1>2 DEF Phase
<1>8. Jobs'
  <2> SUFFICES ASSUME NEW id \in DOMAIN jobs
               PROVE  Good(jobs[id], hist'[jobs[id].tag], Roles(jobs[id].tag), "update", now)
    BY <1>1, <1>5, <1>7 DEF Jobs
  <2> DEFINE t == jobs[id].tag
             c == Roles(t)
  <2>1. /\ t \in Tags /\ c \in RoleSets /\ jobs[id] \in JobRecords /\ hist[t] \in Histories
        /\ Good(jobs[id], hist[t], c, "execute", now)
    BY <1>7, Known
  <2> HIDE DEF t, c
  <2>2. Good(jobs[id], hist'[t], c, "update", now)
    BY <1>1, <1>3, <2>1, GoodExecutes DEF c
  <2> QED BY <2>2 DEF t, c
<1> QED BY <1>1, <1>2, <1>4, <1>6, <1>8, ListKept DEF IInv

LEMMA UpdateKeeps ==
    ASSUME IInv, Update
    PROVE  IInv'
<1> DEFINE acts(id) == \E p \in thread.actions : p.id = id
           rests(id) == \E p \in thread.restores : p.id = id
<1>1. /\ thread \in Threads /\ thread.pc = "update" /\ now' = now /\ now \in Times /\ now \in Nat
      /\ thread.tick = now /\ DOMAIN jobs' = DOMAIN jobs
      /\ jobs' = [id \in DOMAIN jobs |-> Recorded(jobs[id], acts(id), rests(id))]
  <2>1. thread.pc = "update" /\ now' = now
    BY DEF Update
  <2>2. thread \in Threads /\ now \in Times /\ now \in Nat
    BY DEF IInv, Typed, Times
  <2>3. thread.tick = now
    BY <2>1 DEF IInv, Tick
  <2>4. jobs' = [id \in DOMAIN jobs |-> Recorded(jobs[id], acts(id), rests(id))]
    BY DEF Update
  <2>5. DOMAIN jobs' = DOMAIN jobs
    BY <2>4
  <2> QED BY <2>1, <2>2, <2>3, <2>4, <2>5
<1>2. thread' \in Threads /\ thread'.pc = "wait" /\ thread'.actions = {} /\ thread'.restores = {}
  <2>1. thread' = [thread EXCEPT !.pc = "wait", !.tick = 0, !.actions = {}, !.restores = {}]
    BY DEF Update
  <2>2. 0 \in Times
    BY PlanAssumption DEF Times
  <2> QED BY <1>1, <2>1, <2>2 DEF Threads
<1>3. Tick' /\ (\A t : Roles(t)' = {}) /\ Phase = "update" /\ Phase' = "past"
  BY <1>1, <1>2, EmptyTick DEF Phase
<1>4. \A id \in DOMAIN jobs :
        /\ jobs'[id] \in JobRecords /\ jobs'[id].plan = jobs[id].plan /\ jobs'[id].tag = jobs[id].tag
        /\ jobs'[id].lastRun = IF acts(id) THEN now ELSE jobs[id].lastRun
        /\ jobs'[id].lastRestore = IF rests(id) THEN now ELSE jobs[id].lastRestore
        /\ jobs'[id].enabled <=>
             /\ jobs[id].enabled
             /\ ~(/\ jobs[id].plan.kind = "once"
                  /\ rests(id) \/ (acts(id) /\ jobs[id].plan.restore = None))
  <2> SUFFICES ASSUME NEW id \in DOMAIN jobs
               PROVE  /\ jobs'[id] \in JobRecords /\ jobs'[id].plan = jobs[id].plan /\ jobs'[id].tag = jobs[id].tag
                      /\ jobs'[id].lastRun = IF acts(id) THEN now ELSE jobs[id].lastRun
                      /\ jobs'[id].lastRestore = IF rests(id) THEN now ELSE jobs[id].lastRestore
                      /\ jobs'[id].enabled <=>
                           /\ jobs[id].enabled
                           /\ ~(/\ jobs[id].plan.kind = "once"
                                /\ rests(id) \/ (acts(id) /\ jobs[id].plan.restore = None))
    OBVIOUS
  <2> DEFINE off == /\ jobs[id].plan.kind = "once"
                    /\ rests(id) \/ (acts(id) /\ jobs[id].plan.restore = None)
  <2>1. jobs[id] \in JobRecords
    BY Known
  <2>2. jobs'[id] = [jobs[id] EXCEPT !.lastRun = IF acts(id) THEN now ELSE @,
                                     !.lastRestore = IF rests(id) THEN now ELSE @,
                                     !.enabled = @ /\ ~off]
    BY <1>1 DEF Recorded
  <2> HIDE DEF off
  <2>3. PICK e \in BOOLEAN : e = (jobs[id].enabled /\ ~off)
    OBVIOUS
  <2>4. PICK x : x = IF acts(id) THEN now ELSE jobs[id].lastRun
    OBVIOUS
  <2>5. PICK y : y = IF rests(id) THEN now ELSE jobs[id].lastRestore
    OBVIOUS
  <2>6. x \in Maybe /\ y \in Maybe
    BY <1>1, <2>1, <2>4, <2>5 DEF JobRecords, Maybe
  <2>7. jobs'[id] = [jobs[id] EXCEPT !.lastRun = x, !.lastRestore = y, !.enabled = e]
    BY <2>2, <2>3, <2>4, <2>5, Zenon
  <2>8. /\ jobs'[id] \in JobRecords /\ jobs'[id].plan = jobs[id].plan /\ jobs'[id].tag = jobs[id].tag
        /\ jobs'[id].lastRun = x /\ jobs'[id].lastRestore = y /\ jobs'[id].enabled = e
    BY <2>1, <2>6, <2>7 DEF JobRecords
  <2> QED BY <2>3, <2>4, <2>5, <2>8 DEF off
<1>5. \A t \in Tags :
        /\ hist'[t] \in Histories
        /\ hist'[t].runs = hist[t].runs /\ hist'[t].acted = hist[t].acted /\ hist'[t].current = hist[t].current
        /\ hist'[t].applied = hist[t].applied /\ hist'[t].lost = hist[t].lost
        /\ hist'[t].on = hist[t].on /\ hist'[t].fresh = hist[t].fresh
        /\ hist'[t].mixed <=> \/ hist[t].mixed
                              \/ \E p \in Batch, id \in DOMAIN jobs : id = p.id /\ jobs[id].tag = t /\ p.tag # t
        /\ hist'[t].rewound <=> hist[t].rewound /\ "restore" \notin Roles(t)
  <2> SUFFICES ASSUME NEW t \in Tags
               PROVE  /\ hist'[t] \in Histories
                      /\ hist'[t].runs = hist[t].runs /\ hist'[t].acted = hist[t].acted
                      /\ hist'[t].current = hist[t].current
                      /\ hist'[t].applied = hist[t].applied /\ hist'[t].lost = hist[t].lost
                      /\ hist'[t].on = hist[t].on /\ hist'[t].fresh = hist[t].fresh
                      /\ hist'[t].mixed <=>
                           \/ hist[t].mixed
                           \/ \E p \in Batch, id \in DOMAIN jobs : id = p.id /\ jobs[id].tag = t /\ p.tag # t
                      /\ hist'[t].rewound <=> hist[t].rewound /\ "restore" \notin Roles(t)
    OBVIOUS
  <2> DEFINE other == \E p \in Batch, id \in DOMAIN jobs : id = p.id /\ jobs[id].tag = t /\ p.tag # t
             restored == \E p \in thread.restores : p.tag = t
  <2>1. /\ hist[t] \in Histories
        /\ hist'[t] = [hist[t] EXCEPT !.mixed = @ \/ other, !.rewound = @ /\ ~restored]
    BY DEF Update, IInv, Typed
  <2>2. restored <=> "restore" \in Roles(t)
    BY RolesAre
  <2> HIDE DEF other, restored
  <2>3. PICK a \in BOOLEAN : a = (hist[t].mixed \/ other)
    OBVIOUS
  <2>4. PICK b \in BOOLEAN : b = (hist[t].rewound /\ ~restored)
    OBVIOUS
  <2>5. hist'[t] = [hist[t] EXCEPT !.mixed = a, !.rewound = b]
    BY <2>1, <2>3, <2>4, Zenon
  <2>6. /\ hist'[t] \in Histories
        /\ hist'[t].runs = hist[t].runs /\ hist'[t].acted = hist[t].acted
        /\ hist'[t].current = hist[t].current
        /\ hist'[t].applied = hist[t].applied /\ hist'[t].lost = hist[t].lost
        /\ hist'[t].on = hist[t].on /\ hist'[t].fresh = hist[t].fresh
        /\ hist'[t].mixed = a /\ hist'[t].rewound = b
    BY <2>1, <2>5 DEF Histories
  <2> QED BY <2>2, <2>3, <2>4, <2>6 DEF other
<1>6. hist' \in [Tags -> Histories]
  BY <1>5 DEF Update
<1> HIDE DEF acts, rests
<1>7. Typed'
  <2>1. jobs' = [id \in DOMAIN jobs' |-> jobs'[id]]
    BY <1>1
  <2> QED BY <1>1, <1>2, <1>4, <1>6, <2>1 DEF IInv, Typed
<1>8. Jobs'
  <2> SUFFICES ASSUME NEW id \in DOMAIN jobs
               PROVE  Good(jobs'[id], hist'[jobs[id].tag], {}, "past", now)
    BY <1>1, <1>3, <1>4 DEF Jobs
  <2> DEFINE t == jobs[id].tag
             c == Roles(t)
  <2>1. /\ t \in Tags /\ c \in RoleSets /\ jobs[id] \in JobRecords /\ hist[t] \in Histories
        /\ Good(jobs[id], hist[t], c, "update", now)
    BY <1>3, Known
  <2>2. ("action" \in c => acts(id)) /\ ("restore" \in c => rests(id))
    BY RolesAre DEF acts, rests, IInv, Tick, Batch
  <2>3. CASE ~hist'[t].mixed
    <3>1. ~hist[t].mixed /\ \A p \in Batch : p.id = id => p.tag = t
      BY <1>5, <2>1, <2>3
    <3>2. ("action" \in c <=> acts(id)) /\ ("restore" \in c <=> rests(id))
      BY <2>2, <3>1, RolesAre DEF acts, rests, Batch
    <3> HIDE DEF t, c
    <3>3. /\ jobs'[id].plan = jobs[id].plan
          /\ jobs'[id].lastRun = IF "action" \in c THEN now ELSE jobs[id].lastRun
          /\ jobs'[id].lastRestore = IF "restore" \in c THEN now ELSE jobs[id].lastRestore
          /\ jobs'[id].enabled <=>
               /\ jobs[id].enabled
               /\ ~(/\ jobs[id].plan.kind = "once"
                    /\ "restore" \in c \/ ("action" \in c /\ jobs[id].plan.restore = None))
      BY <1>4, <3>2
    <3>4. /\ hist'[t].runs = hist[t].runs /\ (hist'[t].acted <=> hist[t].acted)
          /\ (hist'[t].current <=> hist[t].current) /\ (hist'[t].applied <=> hist[t].applied)
          /\ (hist'[t].lost <=> hist[t].lost) /\ (hist'[t].on <=> hist[t].on)
          /\ (hist'[t].fresh <=> hist[t].fresh)
          /\ (hist'[t].rewound <=> hist[t].rewound /\ "restore" \notin c)
      BY <1>5, <2>1 DEF c
    <3>5. Good(jobs'[id], hist'[t], {}, "past", now)
      BY <1>1, <2>1, <2>3, <3>1, <3>3, <3>4, GoodRecords
    <3> QED BY <3>5 DEF t
  <2>4. CASE hist'[t].mixed
    <3> HIDE DEF t, c
    <3>1. /\ jobs'[id].plan = jobs[id].plan
          /\ jobs'[id].lastRun \in {jobs[id].lastRun, now} /\ ("action" \in c => jobs'[id].lastRun = now)
          /\ jobs'[id].lastRestore \in {jobs[id].lastRestore, now}
          /\ "restore" \in c => jobs'[id].lastRestore = now
          /\ jobs'[id].enabled => jobs[id].enabled
          /\ jobs[id].plan.kind # "once" => (jobs'[id].enabled <=> jobs[id].enabled)
      BY <1>4, <2>2
    <3>2. /\ hist'[t].runs = hist[t].runs
          /\ (hist'[t].lost <=> hist[t].lost) /\ (hist'[t].on <=> hist[t].on)
          /\ (hist'[t].rewound <=> hist[t].rewound /\ "restore" \notin c)
      BY <1>5, <2>1 DEF c
    <3>3. Good(jobs'[id], hist'[t], {}, "past", now)
      BY <1>1, <2>1, <2>4, <3>1, <3>2, GoodMixes
    <3> QED BY <3>3 DEF t
  <2> QED BY <2>3, <2>4 DEF t
<1> QED BY <1>3, <1>7, <1>8 DEF IInv

\* What the handlers do to the thread.
LEMMA NotifiedIs ==
    ASSUME IInv, thread' = Notified
    PROVE  /\ thread' \in Threads /\ Batch' = Batch /\ Carried' = Carried
           /\ \A t : Roles(t)' = Roles(t)
           /\ Phase' = IF Phase = "parked" THEN "past" ELSE Phase
           /\ Phase = "parked" => \A t : Roles(t) = {}
           /\ thread'.tick = thread.tick
           /\ thread'.pc \in {"execute", "update"} <=> thread.pc \in {"execute", "update"}
<1>1. thread \in Threads
  BY DEF IInv, Typed
<1>2. CASE thread.pc = "parked"
  <2>1. thread' = [thread EXCEPT !.pc = "wait"]
    BY <1>2 DEF Notified
  <2>2. /\ thread' \in Threads /\ thread'.pc = "wait" /\ thread'.tick = thread.tick
        /\ thread'.actions = thread.actions /\ thread'.restores = thread.restores
    BY <1>1, <2>1 DEF Threads
  <2>3. \A t : Roles(t) = {}
    BY <1>2, NoTick
  <2>4. Batch' = Batch /\ Carried' = Carried /\ \A t : Roles(t)' = Roles(t)
    BY <2>2 DEF Batch, Carried, Roles
  <2>5. Phase = "parked" /\ Phase' = "past"
    BY <1>2, <2>2 DEF Phase
  <2> QED BY <1>2, <2>2, <2>3, <2>4, <2>5
<1>3. CASE thread.pc # "parked"
  <2>1. thread' = thread
    BY <1>3 DEF Notified
  <2>2. Batch' = Batch /\ Carried' = Carried /\ (\A t : Roles(t)' = Roles(t)) /\ Phase' = Phase
    BY <2>1 DEF Batch, Carried, Roles, Phase
  <2>3. Phase # "parked"
    BY <1>1, <1>3 DEF Phase, Threads
  <2> QED BY <1>1, <2>1, <2>2, <2>3
<1> QED BY <1>2, <1>3

\* A job the handler does not touch is woken with the thread.
LEMMA OthersKept ==
    ASSUME IInv, thread' = Notified, NEW id \in DOMAIN jobs
    PROVE  Good(jobs[id], hist[jobs[id].tag], Roles(jobs[id].tag), Phase', now)
<1>1. Good(jobs[id], hist[jobs[id].tag], Roles(jobs[id].tag), Phase, now)
  BY Known
<1>2. /\ Phase' = IF Phase = "parked" THEN "past" ELSE Phase
      /\ Phase = "parked" => Roles(jobs[id].tag) = {}
  BY NotifiedIs
<1>3. CASE Phase = "parked"
  <2>1. Good(jobs[id], hist[jobs[id].tag], {}, "parked", now)
    BY <1>1, <1>2, <1>3
  <2> QED BY <1>2, <1>3, <2>1, GoodPasses
<1> QED BY <1>1, <1>2, <1>3

\* The list after a handler.
LEMMA EditKeeps ==
    ASSUME IInv, thread' = Notified, now' = now, hist' \in [Tags -> Histories],
           jobs' = [id \in DOMAIN jobs' |-> jobs'[id]], DOMAIN jobs' \subseteq Nat,
           IsFiniteSet(DOMAIN jobs'), Cardinality(DOMAIN jobs') <= MaxJobs,
           \E m \in Nat : \A id \in DOMAIN jobs' : id <= m,
           \A id \in DOMAIN jobs' : jobs'[id] \in JobRecords,
           \A i, j \in DOMAIN jobs' : jobs'[i].tag = jobs'[j].tag => i = j,
           \A p \in Batch : \A id \in DOMAIN jobs' : p.tag = jobs'[id].tag => p.id = id,
           \A id \in DOMAIN jobs' :
             Good(jobs'[id], hist'[jobs'[id].tag], Roles(jobs'[id].tag), Phase', now)
    PROVE  IInv'
<1>1. Typed'
  BY NotifiedIs DEF IInv, Typed
<1>2. Tick'
  BY NotifiedIs DEF IInv, Tick
<1>3. Jobs'
  BY NotifiedIs DEF Jobs
<1> QED BY <1>1, <1>2, <1>3 DEF IInv

\* There is a tag that neither a job nor the tick has.
LEMMA FreshTag ==
    ASSUME IInv, Cardinality(DOMAIN jobs) < MaxJobs
    PROVE  \E t \in Tags : t \notin {jobs[id].tag : id \in DOMAIN jobs} \cup {p.tag : p \in Batch}
<1> DEFINE f == [id \in DOMAIN jobs |-> jobs[id].tag]
           A == {f[id] : id \in DOMAIN jobs}
           B == Carried
<1>1. IsFiniteSet(DOMAIN jobs) /\ IsFiniteSet(B) /\ Cardinality(B) <= MaxJobs /\ MaxJobs \in Nat \ {0}
  BY PlanAssumption DEF IInv, Typed, Tick
<1>2. IsFiniteSet(A) /\ Cardinality(A) <= Cardinality(DOMAIN jobs)
  BY <1>1, ImageBounded
<1>3. A = {jobs[id].tag : id \in DOMAIN jobs}
  OBVIOUS
<1> HIDE DEF A, B
<1>4. IsFiniteSet(A \cup B) /\ Cardinality(A \cup B) <= Cardinality(A) + Cardinality(B)
  <2>1. /\ IsFiniteSet(A \cup B)
        /\ Cardinality(A \cup B) = Cardinality(A) + Cardinality(B) - Cardinality(A \cap B)
    BY <1>1, <1>2, FS_Union
  <2>2. IsFiniteSet(A \cap B)
    BY <1>2, FS_Subset
  <2> QED BY <1>1, <1>2, <2>1, <2>2, FS_CardinalityType
<1>5. Cardinality(A \cup B) < 2 * MaxJobs
  BY <1>1, <1>2, <1>4, FS_CardinalityType
<1>6. Cardinality(Tags) = 2 * MaxJobs /\ IsFiniteSet(Tags)
  BY <1>1, FS_Interval DEF Tags
<1>7. ~(Tags \subseteq A \cup B)
  <2> SUFFICES ASSUME Tags \subseteq A \cup B PROVE FALSE
    OBVIOUS
  <2>1. Cardinality(Tags) <= Cardinality(A \cup B)
    BY <1>4, FS_Subset
  <2> QED BY <1>4, <1>5, <1>6, <2>1, FS_CardinalityType
<1> QED BY <1>3, <1>7 DEF B, Carried

LEMMA CreateKeeps ==
    ASSUME IInv, NEW plan \in Plans, Create(plan)
    PROVE  IInv'
<1>1. PICK tag \in Tags :
        /\ Cardinality(DOMAIN jobs) < MaxJobs
        /\ tag = CHOOSE t \in Tags : t \notin {jobs[id].tag : id \in DOMAIN jobs} \cup {p.tag : p \in Batch}
        /\ jobs' = [id \in DOMAIN jobs \cup {NextId} |->
                      IF id \in DOMAIN jobs THEN jobs[id] ELSE Job(plan, tag)]
        /\ hist' = [hist EXCEPT ![tag] = [Untouched EXCEPT !.on = TRUE, !.fresh = TRUE]]
        /\ thread' = Notified /\ now' = now
  BY DEF Create
<1>2. tag \notin {jobs[id].tag : id \in DOMAIN jobs} \cup {p.tag : p \in Batch}
  BY <1>1, FreshTag
<1>3. PICK m \in Nat : \A id \in DOMAIN jobs : id <= m
  BY DEF IInv, Typed
<1>4. NextId \in Nat /\ NextId \notin DOMAIN jobs
  BY <1>3, NextIdIsNew DEF IInv, Typed
<1> DEFINE new == NextId
           k == Job(plan, tag)
           g == [Untouched EXCEPT !.on = TRUE, !.fresh = TRUE]
<1>5. /\ DOMAIN jobs' = DOMAIN jobs \cup {new} /\ jobs'[new] = k
      /\ \A id \in DOMAIN jobs : jobs'[id] = jobs[id]
      /\ jobs' = [id \in DOMAIN jobs' |-> jobs'[id]]
  BY <1>1, <1>4
<1>6. /\ k \in JobRecords /\ k.plan = plan /\ k.enabled = TRUE /\ k.lastRun = None /\ k.lastRestore = None
      /\ k.tag = tag
  BY <1>1 DEF Job, JobRecords, Maybe
<1>7. /\ g \in Histories /\ g.runs = 0 /\ g.applied = FALSE /\ g.on = TRUE /\ g.fresh = TRUE
      /\ g.rewound = FALSE /\ g.mixed = FALSE
  <2>1. /\ Untouched \in Histories /\ Untouched.runs = 0 /\ Untouched.applied = FALSE
        /\ Untouched.rewound = FALSE /\ Untouched.mixed = FALSE
    BY DEF Untouched, Histories
  <2> QED BY <2>1 DEF Histories
<1>8. /\ hist' \in [Tags -> Histories] /\ hist'[tag] = g
      /\ \A t \in Tags : t # tag => hist'[t] = hist[t]
  BY <1>1, <1>7 DEF IInv, Typed
<1> HIDE DEF new, k, g
<1>9. new \in Nat /\ new \notin DOMAIN jobs
  BY <1>4 DEF new
<1>10. /\ IsFiniteSet(DOMAIN jobs') /\ Cardinality(DOMAIN jobs') <= MaxJobs
       /\ DOMAIN jobs' \subseteq Nat
  <2>1. IsFiniteSet(DOMAIN jobs) /\ DOMAIN jobs \subseteq Nat /\ Cardinality(DOMAIN jobs) \in Nat
    BY FS_CardinalityType DEF IInv, Typed
  <2>2. /\ IsFiniteSet(DOMAIN jobs \cup {new})
        /\ Cardinality(DOMAIN jobs \cup {new}) = Cardinality(DOMAIN jobs) + 1
    BY <1>9, <2>1, FS_AddElement
  <2>3. MaxJobs \in Nat
    BY PlanAssumption
  <2>4. Cardinality(DOMAIN jobs) + 1 <= MaxJobs
    BY <1>1, <2>1, <2>3
  <2>5. DOMAIN jobs' = DOMAIN jobs \cup {new}
    BY <1>5
  <2> QED BY <1>9, <2>1, <2>2, <2>4, <2>5
<1>11. \E n \in Nat : \A id \in DOMAIN jobs' : id <= n
  <2>1. DOMAIN jobs \subseteq Nat
    BY DEF IInv, Typed
  <2>2. CASE new <= m
    BY <1>3, <1>5, <2>2
  <2>3. CASE m <= new
    <3>1. \A id \in DOMAIN jobs' : id <= new
      BY <1>3, <1>5, <1>9, <2>1, <2>3
    <3> QED BY <1>9, <3>1
  <2> QED BY <1>9, <2>2, <2>3
<1>12. /\ \A id \in DOMAIN jobs' : jobs'[id] \in JobRecords
       /\ \A i, j \in DOMAIN jobs' : jobs'[i].tag = jobs'[j].tag => i = j
       /\ \A p \in Batch : \A id \in DOMAIN jobs' : p.tag = jobs'[id].tag => p.id = id
  BY <1>2, <1>5, <1>6, <1>9 DEF IInv, Typed, Tick
<1>13. \A id \in DOMAIN jobs' :
         Good(jobs'[id], hist'[jobs'[id].tag], Roles(jobs'[id].tag), Phase', now)
  <2>1. Good(k, g, {}, Phase', now)
    <3>1. Phase' # "parked" /\ now # None /\ plan \in Plans
      BY <1>1, NotifiedIs, PlanAssumption DEF IInv, Typed, Times
    <3> QED BY <1>6, <1>7, <3>1, GoodCreates
  <2>2. Roles(tag) = {}
    BY <1>2, RolesAre
  <2>3. \A id \in DOMAIN jobs : Good(jobs[id], hist[jobs[id].tag], Roles(jobs[id].tag), Phase', now)
    BY <1>1, OthersKept
  <2>4. \A id \in DOMAIN jobs : jobs[id].tag \in Tags /\ jobs[id].tag # tag
    BY <1>2, Known
  <2>5. \A id \in DOMAIN jobs : hist'[jobs[id].tag] = hist[jobs[id].tag]
    BY <1>8, <2>4
  <2> SUFFICES ASSUME NEW id \in DOMAIN jobs'
               PROVE  Good(jobs'[id], hist'[jobs'[id].tag], Roles(jobs'[id].tag), Phase', now)
    OBVIOUS
  <2>6. CASE id = new
    BY <1>5, <1>6, <1>8, <2>1, <2>2, <2>6
  <2>7. CASE id \in DOMAIN jobs
    BY <1>5, <2>3, <2>5, <2>7
  <2> QED BY <1>5, <2>6, <2>7
<1> QED BY <1>1, <1>5, <1>8, <1>10, <1>11, <1>12, <1>13, EditKeeps

\* T is the history after the user touched a job.
TouchedTo(T, tag, switch, changed) ==
    /\ T \in [Tags -> Histories]
    /\ \A t \in Tags : t # tag => T[t] = hist[t]
    /\ T[tag].runs = hist[tag].runs /\ T[tag].current = hist[tag].current
    /\ T[tag].applied = hist[tag].applied /\ T[tag].lost = hist[tag].lost
    /\ T[tag].on = switch /\ T[tag].fresh = TRUE
    /\ T[tag].mixed = hist[tag].mixed /\ T[tag].rewound = hist[tag].rewound
    /\ changed => T[tag].acted = FALSE
    /\ ~changed => T[tag].acted = hist[tag].acted

LEMMA TouchedIs ==
    ASSUME hist \in [Tags -> Histories], NEW tag \in Tags, NEW switch \in BOOLEAN, NEW changed \in BOOLEAN,
           NEW T, T = Touched(tag, switch, changed)
    PROVE  TouchedTo(T, tag, switch, changed)
<1>1. PICK a \in BOOLEAN : a = (hist[tag].acted /\ ~changed)
  OBVIOUS
<1>2. PICK h \in Histories : h = hist[tag]
  OBVIOUS
<1>3. PICK g : g = [h EXCEPT !.fresh = TRUE, !.on = switch, !.acted = a]
  OBVIOUS
<1>4. T = [hist EXCEPT ![tag] = g]
  <2>1. T = [hist EXCEPT ![tag].fresh = TRUE, ![tag].on = switch,
                         ![tag].acted = hist[tag].acted /\ ~changed]
    BY DEF Touched
  <2>2. T = [hist EXCEPT ![tag] = [hist[tag] EXCEPT !.fresh = TRUE, !.on = switch,
                                                    !.acted = hist[tag].acted /\ ~changed]]
    BY <2>1
  <2> QED BY <1>1, <1>2, <1>3, <2>2, Zenon
<1>5. /\ g \in Histories
      /\ g.runs = h.runs /\ g.current = h.current /\ g.applied = h.applied /\ g.lost = h.lost
      /\ g.on = switch /\ g.fresh = TRUE /\ g.mixed = h.mixed /\ g.rewound = h.rewound /\ g.acted = a
  BY <1>3 DEF Histories
<1>6. T \in [Tags -> Histories] /\ T[tag] = g /\ \A t \in Tags : t # tag => T[t] = hist[t]
  BY <1>4, <1>5
<1>7. h.acted \in BOOLEAN
  BY DEF Histories
<1>8. (changed => a = FALSE) /\ (~changed => a = h.acted)
  BY <1>1, <1>2, <1>7
<1> QED BY <1>2, <1>5, <1>6, <1>8 DEF TouchedTo

\* A handler that edits one job: its plan, its switch and what history says of it.
LEMMA JobEdited ==
    ASSUME IInv, NEW id \in DOMAIN jobs, NEW k \in JobRecords, k.tag = jobs[id].tag,
           thread' = Notified, now' = now,
           jobs' = [jobs EXCEPT ![id] = k],
           hist' \in [Tags -> Histories],
           \A t \in Tags : t # k.tag => hist'[t] = hist[t],
           Good(k, hist'[k.tag], Roles(k.tag), Phase', now)
    PROVE  IInv'
<1>1. /\ DOMAIN jobs' = DOMAIN jobs /\ jobs'[id] = k
      /\ \A i \in DOMAIN jobs : i # id => jobs'[i] = jobs[i]
      /\ \A i \in DOMAIN jobs : jobs'[i].tag = jobs[i].tag
  OBVIOUS
<1>2. jobs' = [i \in DOMAIN jobs' |-> jobs'[i]]
  BY <1>1
<1>3. /\ DOMAIN jobs' \subseteq Nat /\ IsFiniteSet(DOMAIN jobs') /\ Cardinality(DOMAIN jobs') <= MaxJobs
      /\ \E m \in Nat : \A i \in DOMAIN jobs' : i <= m
      /\ \A i \in DOMAIN jobs' : jobs'[i] \in JobRecords
      /\ \A i, j \in DOMAIN jobs' : jobs'[i].tag = jobs'[j].tag => i = j
      /\ \A p \in Batch : \A i \in DOMAIN jobs' : p.tag = jobs'[i].tag => p.id = i
  BY <1>1 DEF IInv, Typed, Tick
<1>4. \A i \in DOMAIN jobs' :
        Good(jobs'[i], hist'[jobs'[i].tag], Roles(jobs'[i].tag), Phase', now)
  <2> SUFFICES ASSUME NEW i \in DOMAIN jobs, i # id
               PROVE  Good(jobs'[i], hist'[jobs'[i].tag], Roles(jobs'[i].tag), Phase', now)
    BY <1>1
  <2>1. jobs[i].tag \in Tags /\ jobs[i].tag # k.tag
    BY Known DEF IInv, Typed
  <2>2. Good(jobs[i], hist[jobs[i].tag], Roles(jobs[i].tag), Phase', now)
    BY OthersKept
  <2> QED BY <1>1, <2>1, <2>2
<1> QED BY <1>2, <1>3, <1>4, EditKeeps

LEMMA ReplaceKeeps ==
    ASSUME IInv, NEW id \in DOMAIN jobs, NEW plan \in Plans, NEW enabled \in BOOLEAN,
           Replace(id, plan, enabled)
    PROVE  IInv'
<1> DEFINE j == jobs[id]
           tag == j.tag
           ran == j.lastRun # None \/ \E p \in Batch : p.id = id
           k == [j EXCEPT !.plan = plan, !.enabled = enabled]
<1>1. /\ jobs' = [jobs EXCEPT ![id].plan = plan, ![id].enabled = enabled]
      /\ hist' = [Touched(tag, enabled, plan # j.plan) EXCEPT ![tag].mixed = @ \/ (ran /\ plan # j.plan)]
      /\ thread' = Notified /\ now' = now
  BY DEF Replace
<1>2. /\ j \in JobRecords /\ tag \in Tags /\ hist[tag] \in Histories /\ Roles(tag) \in RoleSets
      /\ Good(j, hist[tag], Roles(tag), Phase, now) /\ now \in Nat /\ hist \in [Tags -> Histories]
  BY Known DEF IInv, Typed
<1>3. jobs' = [jobs EXCEPT ![id] = k]
  BY <1>1
<1>4. /\ k \in JobRecords /\ k.plan = plan /\ k.enabled = enabled /\ k.tag = tag
      /\ k.lastRun = j.lastRun /\ k.lastRestore = j.lastRestore
  BY <1>2 DEF JobRecords
<1>5. Roles(tag) # {} => ran
  BY RolesAre DEF IInv, Tick
<1>6. PICK other \in BOOLEAN : other = (plan # j.plan)
  OBVIOUS
<1>7. PICK T : T = Touched(tag, enabled, other)
  OBVIOUS
<1> HIDE DEF ran, k, tag, j
<1>8. TouchedTo(T, tag, enabled, other)
  <2>1. hist \in [Tags -> Histories] /\ tag \in Tags
    BY <1>2
  <2> QED BY <1>7, <2>1, TouchedIs, Zenon
<1> USE DEF TouchedTo
<1>9. PICK x \in BOOLEAN : x = (hist[tag].mixed \/ (ran /\ plan # j.plan))
  OBVIOUS
<1>10. PICK g : g = [T[tag] EXCEPT !.mixed = x]
  OBVIOUS
<1>11. hist' = [T EXCEPT ![tag] = g]
  <2>1. hist' = [T EXCEPT ![tag].mixed = @ \/ (ran /\ plan # j.plan)]
    BY <1>1, <1>6, <1>7, Zenon
  <2>2. hist' = [T EXCEPT ![tag] = [T[tag] EXCEPT !.mixed = T[tag].mixed \/ (ran /\ plan # j.plan)]]
    BY <2>1
  <2>3. T[tag].mixed = hist[tag].mixed
    BY <1>8
  <2> QED BY <1>9, <1>10, <2>2, <2>3, Zenon
<1>12. /\ g \in Histories /\ g.mixed = x
       /\ g.runs = hist[tag].runs /\ g.current = hist[tag].current
       /\ g.applied = hist[tag].applied /\ g.lost = hist[tag].lost
       /\ g.on = enabled /\ g.fresh = TRUE /\ g.rewound = hist[tag].rewound
       /\ g.acted = T[tag].acted
  <2>1. T[tag] \in Histories
    BY <1>2, <1>8
  <2> QED BY <1>8, <1>10, <2>1 DEF Histories
<1>13. /\ hist' \in [Tags -> Histories] /\ hist'[tag] = g
       /\ \A t \in Tags : t # tag => hist'[t] = hist[t]
  BY <1>2, <1>8, <1>11, <1>12
<1>14. Good(k, g, Roles(tag), Phase', now)
  <2>1. Phase' = IF Phase = "parked" THEN "past" ELSE Phase
    BY <1>1, NotifiedIs
  <2>2. k.plan = j.plan => (g.acted <=> hist[tag].acted)
    BY <1>4, <1>6, <1>8, <1>12
  <2>3. k.plan # j.plan => g.mixed \/ (j.lastRun = None /\ Roles(tag) = {})
    <3>1. ~ran => j.lastRun = None
      BY DEF ran
    <3> QED BY <1>4, <1>5, <1>9, <1>12, <3>1
  <2>4. hist[tag].mixed => g.mixed
    BY <1>9, <1>12
  <2>5. k.plan \in Plans /\ (g.on <=> k.enabled) /\ g.fresh
    BY <1>4, <1>12
  <2> QED BY <1>2, <1>4, <1>12, <2>1, <2>2, <2>3, <2>4, <2>5, GoodEdits
<1>15. k.tag = jobs[id].tag /\ Good(k, hist'[k.tag], Roles(k.tag), Phase', now)
  BY <1>4, <1>13, <1>14 DEF j, tag
<1>16. /\ k \in JobRecords /\ jobs' = [jobs EXCEPT ![id] = k] /\ hist' \in [Tags -> Histories]
       /\ \A t \in Tags : t # k.tag => hist'[t] = hist[t]
  BY <1>3, <1>4, <1>13
<1> QED BY <1>1, <1>15, <1>16, JobEdited

LEMMA ToggleKeeps ==
    ASSUME IInv, NEW id \in DOMAIN jobs, Toggle(id)
    PROVE  IInv'
<1> DEFINE j == jobs[id]
           tag == j.tag
<1>1. /\ jobs' = [jobs EXCEPT ![id].enabled = ~@]
      /\ hist' = Touched(tag, ~j.enabled, FALSE)
      /\ thread' = Notified /\ now' = now
  BY DEF Toggle
<1>2. /\ j \in JobRecords /\ tag \in Tags /\ hist[tag] \in Histories /\ Roles(tag) \in RoleSets
      /\ Good(j, hist[tag], Roles(tag), Phase, now) /\ now \in Nat /\ hist \in [Tags -> Histories]
  BY Known DEF IInv, Typed
<1>3. PICK e \in BOOLEAN : e = ~j.enabled
  OBVIOUS
<1>4. PICK k : k = [j EXCEPT !.enabled = e]
  OBVIOUS
<1>5. jobs' = [jobs EXCEPT ![id] = k]
  <2>1. jobs' = [jobs EXCEPT ![id] = [jobs[id] EXCEPT !.enabled = ~jobs[id].enabled]]
    BY <1>1
  <2> QED BY <1>3, <1>4, <2>1, Zenon
<1>6. /\ k \in JobRecords /\ k.plan = j.plan /\ k.enabled = e /\ k.tag = tag
      /\ k.lastRun = j.lastRun /\ k.lastRestore = j.lastRestore /\ k.plan \in Plans
  BY <1>2, <1>4 DEF JobRecords
<1> HIDE DEF tag, j
<1>7. PICK T : T = Touched(tag, e, FALSE)
  OBVIOUS
<1>8. hist' = T
  BY <1>1, <1>3, <1>7, Zenon
<1>9. TouchedTo(T, tag, e, FALSE)
  <2>1. hist \in [Tags -> Histories] /\ tag \in Tags
    BY <1>2
  <2> QED BY <1>7, <2>1, TouchedIs, Zenon
<1> USE DEF TouchedTo
<1>10. Good(k, T[tag], Roles(tag), Phase', now)
  <2>1. Phase' = IF Phase = "parked" THEN "past" ELSE Phase
    BY <1>1, NotifiedIs
  <2>2. (T[tag].on <=> k.enabled) /\ T[tag].fresh
    BY <1>6, <1>9
  <2> QED BY <1>2, <1>6, <1>9, <2>1, <2>2, GoodEdits
<1>11. k.tag = jobs[id].tag /\ Good(k, hist'[k.tag], Roles(k.tag), Phase', now)
  BY <1>6, <1>8, <1>10 DEF j, tag
<1>12. /\ hist' \in [Tags -> Histories]
       /\ \A t \in Tags : t # k.tag => hist'[t] = hist[t]
  BY <1>6, <1>8, <1>9
<1> QED BY <1>1, <1>5, <1>6, <1>11, <1>12, JobEdited

LEMMA DeleteKeeps ==
    ASSUME IInv, NEW id \in DOMAIN jobs, Delete(id)
    PROVE  IInv'
<1>1. /\ DOMAIN jobs' = DOMAIN jobs \ {id} /\ \A i \in DOMAIN jobs' : jobs'[i] = jobs[i]
      /\ jobs' = [i \in DOMAIN jobs' |-> jobs'[i]]
      /\ thread' = Notified /\ now' = now /\ hist' = hist
  BY DEF Delete
<1>2. IsFiniteSet(DOMAIN jobs') /\ Cardinality(DOMAIN jobs') <= MaxJobs
  <2>1. IsFiniteSet(DOMAIN jobs) /\ Cardinality(DOMAIN jobs) <= MaxJobs
    BY DEF IInv, Typed
  <2>2. IsFiniteSet(DOMAIN jobs') /\ Cardinality(DOMAIN jobs') <= Cardinality(DOMAIN jobs)
    BY <1>1, <2>1, FS_Subset
  <2>3. Cardinality(DOMAIN jobs') \in Nat /\ Cardinality(DOMAIN jobs) \in Nat /\ MaxJobs \in Nat
    BY <2>1, <2>2, FS_CardinalityType, PlanAssumption
  <2> QED BY <2>1, <2>2, <2>3
<1>3. /\ DOMAIN jobs' \subseteq Nat
      /\ \E m \in Nat : \A i \in DOMAIN jobs' : i <= m
      /\ \A i \in DOMAIN jobs' : jobs'[i] \in JobRecords
      /\ \A i, j \in DOMAIN jobs' : jobs'[i].tag = jobs'[j].tag => i = j
      /\ \A p \in Batch : \A i \in DOMAIN jobs' : p.tag = jobs'[i].tag => p.id = i
      /\ hist' \in [Tags -> Histories]
  BY <1>1 DEF IInv, Typed, Tick
<1>4. \A i \in DOMAIN jobs' :
        Good(jobs'[i], hist'[jobs'[i].tag], Roles(jobs'[i].tag), Phase', now)
  BY <1>1, OthersKept
<1> QED BY <1>1, <1>2, <1>3, <1>4, EditKeeps

\* A minute passes: history forgets the tags that are not in the list.
LEMMA AdvanceKeeps ==
    ASSUME IInv, Advance
    PROVE  IInv'
<1>1. thread \in Threads /\ now \in Times /\ now \in Nat
  BY DEF IInv, Typed, Times
<1>2. /\ now' = now + 1 /\ now' \in Times /\ jobs' = jobs
      /\ thread' = IF thread.pc = "parked" THEN thread ELSE [thread EXCEPT !.left = 0]
      /\ thread.pc = "parked" \/ (thread.pc \in {"boot", "sleep"} /\ thread.left = 1)
  <2>1. /\ now' = now + 1 /\ now < MaxTime /\ jobs' = jobs
        /\ thread' = IF thread.pc = "parked" THEN thread ELSE [thread EXCEPT !.left = 0]
        /\ thread.pc = "parked" \/ (thread.pc \in {"boot", "sleep"} /\ thread.left = 1)
    BY DEF Advance
  <2>2. now' \in Times
    BY <1>1, <2>1, PlanAssumption DEF Times
  <2> QED BY <2>1, <2>2
<1>3. /\ thread' \in Threads /\ thread'.pc = thread.pc
      /\ thread'.actions = thread.actions /\ thread'.restores = thread.restores
      /\ thread.pc # "parked" => thread'.left = 0
  BY <1>1, <1>2 DEF Threads
<1>4. Tick' /\ (\A t : Roles(t)' = {}) /\ (\A t : Roles(t) = {})
  BY <1>2, <1>3, NoTick, EmptyTick
<1>5. \/ Phase = "boot" /\ Phase' = "boot"
      \/ Phase = "past" /\ Phase' = "due"
      \/ Phase = "parked" /\ Phase' = "parked"
  BY <1>2, <1>3 DEF Phase
<1>6. \A t \in Tags :
        hist'[t] = IF \E id \in DOMAIN jobs : jobs[id].tag = t
                   THEN [hist[t] EXCEPT !.fresh = FALSE, !.current = FALSE] ELSE Untouched
  BY DEF Advance
<1>7. Untouched \in Histories
  BY DEF Untouched, Histories
<1>8. ASSUME NEW h \in Histories, NEW g, g = [h EXCEPT !.fresh = FALSE, !.current = FALSE]
      PROVE  /\ g \in Histories /\ g.runs = h.runs /\ g.acted = h.acted /\ g.applied = h.applied
             /\ g.lost = h.lost /\ g.on = h.on /\ g.mixed = h.mixed /\ g.rewound = h.rewound
  BY <1>8 DEF Histories
<1>9. hist' \in [Tags -> Histories]
  <2>1. \A t \in Tags : hist[t] \in Histories /\ hist'[t] \in Histories
    BY <1>6, <1>7, <1>8 DEF IInv, Typed
  <2> QED BY <2>1 DEF Advance
<1>10. Jobs'
  <2> SUFFICES ASSUME NEW id \in DOMAIN jobs
               PROVE  Good(jobs[id], hist'[jobs[id].tag], {}, Phase', now + 1)
    BY <1>2, <1>4 DEF Jobs
  <2> DEFINE h == hist[jobs[id].tag]
             g == hist'[jobs[id].tag]
  <2>1. jobs[id] \in JobRecords /\ h \in Histories /\ Good(jobs[id], h, {}, Phase, now)
    BY <1>4, Known
  <2>2. g = [h EXCEPT !.fresh = FALSE, !.current = FALSE]
    BY <1>6, Known
  <2> HIDE DEF h, g
  <2>3. /\ g.runs = h.runs /\ g.acted = h.acted /\ g.applied = h.applied
        /\ g.lost = h.lost /\ g.on = h.on /\ g.mixed = h.mixed /\ g.rewound = h.rewound
    BY <1>8, <2>1, <2>2
  <2>4. Good(jobs[id], g, {}, Phase', now + 1)
    BY <1>1, <1>5, <2>1, <2>3, GoodAdvances
  <2> QED BY <2>4 DEF g
<1> QED BY <1>2, <1>3, <1>4, <1>9, <1>10, ListKept DEF IInv

\* The clock is set back: every job counts as touched in that minute.
LEMMA StepBackKeeps ==
    ASSUME IInv, NEW u \in Times, StepBack(u)
    PROVE  IInv'
<1>1. /\ thread \in Threads /\ thread.pc \in {"parked", "sleep"} /\ thread' = thread
      /\ jobs' = jobs /\ now' = u
  BY DEF StepBack, IInv, Typed
<1>2. Tick' /\ (\A t : Roles(t)' = {}) /\ (\A t : Roles(t) = {})
  BY <1>1, NoTick, EmptyTick
<1>3. Phase \in {"parked", "due", "past"} /\ Phase' = Phase
  BY <1>1 DEF Phase
<1>4. \A t \in Tags : /\ hist[t] \in Histories
                      /\ hist'[t] = [hist[t] EXCEPT !.fresh = TRUE, !.current = FALSE, !.rewound = TRUE]
  BY DEF StepBack, IInv, Typed
<1>5. ASSUME NEW h \in Histories, NEW g,
             g = [h EXCEPT !.fresh = TRUE, !.current = FALSE, !.rewound = TRUE]
      PROVE  /\ g \in Histories /\ g.runs = h.runs /\ g.acted = h.acted /\ g.applied = h.applied
             /\ g.lost = h.lost /\ g.on = h.on /\ g.fresh = TRUE /\ g.mixed = h.mixed /\ g.rewound = TRUE
  BY <1>5 DEF Histories
<1>6. hist' \in [Tags -> Histories]
  <2>1. \A t \in Tags : hist'[t] \in Histories
    BY <1>4, <1>5
  <2> QED BY <2>1 DEF StepBack
<1>7. Jobs'
  <2> SUFFICES ASSUME NEW id \in DOMAIN jobs
               PROVE  Good(jobs[id], hist'[jobs[id].tag], {}, Phase, u)
    BY <1>1, <1>2, <1>3 DEF Jobs
  <2> DEFINE h == hist[jobs[id].tag]
             g == hist'[jobs[id].tag]
  <2>1. jobs[id] \in JobRecords /\ h \in Histories /\ Good(jobs[id], h, {}, Phase, now)
    BY <1>2, Known
  <2>2. g = [h EXCEPT !.fresh = TRUE, !.current = FALSE, !.rewound = TRUE]
    BY <1>4, Known
  <2> HIDE DEF h, g
  <2>3. /\ g.runs = h.runs /\ g.acted = h.acted /\ g.applied = h.applied /\ g.lost = h.lost
        /\ g.on = h.on /\ g.fresh = TRUE /\ g.mixed = h.mixed /\ g.rewound = TRUE
    BY <1>5, <2>1, <2>2
  <2>4. Good(jobs[id], g, {}, Phase, u)
    BY <1>3, <2>1, <2>3, GoodStepsBack
  <2> QED BY <2>4 DEF g
<1> QED BY <1>1, <1>2, <1>6, <1>7, ListKept DEF IInv

\* A restart loses what a tick has run and not recorded.
LEMMA RestartKeeps ==
    ASSUME IInv, Restart
    PROVE  IInv'
<1>1. /\ thread \in Threads /\ now \in Times /\ now \in Nat
      /\ thread' = [pc |-> "boot", left |-> 1, tick |-> 0, actions |-> {}, restores |-> {}]
      /\ jobs' = jobs /\ now' \in {now, now + 1} /\ now' \in Times
  BY DEF Restart, IInv, Typed, Times
<1>2. thread' \in Threads /\ thread'.pc = "boot" /\ thread'.actions = {} /\ thread'.restores = {}
  BY <1>1, PlanAssumption DEF Threads, Times
<1>3. Tick' /\ (\A t : Roles(t)' = {}) /\ Phase' = "boot"
  BY <1>2, EmptyTick DEF Phase
<1>4. Phase = "update" <=> thread.pc = "update"
  BY <1>1 DEF Phase, Threads
<1>5. \A t \in Tags :
        /\ hist'[t] \in Histories
        /\ hist'[t].runs = hist[t].runs /\ hist'[t].acted = hist[t].acted
        /\ hist'[t].applied = hist[t].applied
        /\ hist'[t].lost <=> hist[t].lost \/ (Phase = "update" /\ Roles(t) # {})
        /\ hist'[t].on = hist[t].on /\ hist'[t].fresh = hist[t].fresh
        /\ hist'[t].mixed = hist[t].mixed /\ hist'[t].rewound = hist[t].rewound
  <2> SUFFICES ASSUME NEW t \in Tags
               PROVE  /\ hist'[t] \in Histories
                      /\ hist'[t].runs = hist[t].runs /\ hist'[t].acted = hist[t].acted
                      /\ hist'[t].applied = hist[t].applied
                      /\ hist'[t].lost <=> hist[t].lost \/ (Phase = "update" /\ Roles(t) # {})
                      /\ hist'[t].on = hist[t].on /\ hist'[t].fresh = hist[t].fresh
                      /\ hist'[t].mixed = hist[t].mixed /\ hist'[t].rewound = hist[t].rewound
    OBVIOUS
  <2> DEFINE lose == thread.pc = "update" /\ \E p \in Batch : p.tag = t
  <2>1. hist[t] \in Histories /\ hist'[t] = [hist[t] EXCEPT !.lost = @ \/ lose]
    BY DEF Restart, IInv, Typed
  <2>2. lose <=> Phase = "update" /\ Roles(t) # {}
    BY <1>4, RolesAre
  <2> HIDE DEF lose
  <2>3. PICK a \in BOOLEAN : a = (hist[t].lost \/ lose)
    OBVIOUS
  <2>4. hist'[t] = [hist[t] EXCEPT !.lost = a]
    BY <2>1, <2>3, Zenon
  <2>5. /\ hist'[t] \in Histories
        /\ hist'[t].runs = hist[t].runs /\ hist'[t].acted = hist[t].acted
        /\ hist'[t].applied = hist[t].applied /\ hist'[t].lost = a
        /\ hist'[t].on = hist[t].on /\ hist'[t].fresh = hist[t].fresh
        /\ hist'[t].mixed = hist[t].mixed /\ hist'[t].rewound = hist[t].rewound
    BY <2>1, <2>4 DEF Histories
  <2> QED BY <2>2, <2>3, <2>5
<1>6. hist' \in [Tags -> Histories]
  BY <1>5 DEF Restart
<1>7. Jobs'
  <2> SUFFICES ASSUME NEW id \in DOMAIN jobs
               PROVE  Good(jobs[id], hist'[jobs[id].tag], {}, "boot", now')
    BY <1>1, <1>3 DEF Jobs
  <2> DEFINE t == jobs[id].tag
             c == Roles(t)
  <2>1. /\ t \in Tags /\ c \in RoleSets /\ jobs[id] \in JobRecords
        /\ Good(jobs[id], hist[t], c, Phase, now)
    BY Known
  <2>2. hist'[t].lost <=> hist[t].lost \/ (Phase = "update" /\ c # {})
    BY <1>5, <2>1
  <2> HIDE DEF t, c
  <2>3. Good(jobs[id], hist'[t], {}, "boot", now')
    BY <1>1, <1>5, <2>1, <2>2, GoodRestarts
  <2> QED BY <2>3 DEF t
<1> QED BY <1>1, <1>2, <1>3, <1>6, <1>7, ListKept DEF IInv

LEMMA StepInvariant == IInv /\ [Next]_vars => IInv'
<1> SUFFICES ASSUME IInv, [Next]_vars PROVE IInv'
  OBVIOUS
<1>1. CASE Thread
  BY <1>1, BootKeeps, WaitKeeps, CollectKeeps, ExecuteKeeps, UpdateKeeps DEF Thread
<1>2. CASE Console
  <2>1. ASSUME NEW plan \in Plans, Create(plan) PROVE IInv'
    BY <2>1, CreateKeeps
  <2>2. ASSUME NEW id \in DOMAIN jobs, NEW plan \in Plans, NEW enabled \in BOOLEAN, Replace(id, plan, enabled)
        PROVE  IInv'
    BY <2>2, ReplaceKeeps
  <2>3. ASSUME NEW id \in DOMAIN jobs, Delete(id) \/ Toggle(id) PROVE IInv'
    BY <2>3, DeleteKeeps, ToggleKeeps
  <2> QED BY <1>2, <2>1, <2>2, <2>3 DEF Console
<1>3. CASE Advance
  BY <1>3, AdvanceKeeps
<1>4. CASE Restart
  BY <1>4, RestartKeeps
<1>5. CASE \E t \in Times : StepBack(t)
  BY <1>5, StepBackKeeps
<1>6. CASE UNCHANGED vars
  <2>1. /\ jobs' = jobs /\ thread' = thread /\ now' = now /\ hist' = hist
    BY <1>6 DEF vars
  <2>2. Batch' = Batch /\ Carried' = Carried /\ (\A t : Roles(t)' = Roles(t)) /\ Phase' = Phase
    BY <2>1 DEF Batch, Carried, Roles, Phase
  <2>3. Typed' /\ Tick'
    BY <2>1, <2>2 DEF IInv, Typed, Tick
  <2>4. Jobs'
    BY <2>1, <2>2 DEF IInv, Jobs
  <2> QED BY <2>3, <2>4 DEF IInv
<1> QED BY <1>1, <1>2, <1>3, <1>4, <1>5, <1>6 DEF Next

LEMMA Invariant == Spec => []IInv
BY InitInvariant, StepInvariant, PTL DEF Spec

-----------------------------------------------------------------------------
(* The theorems. *)

LEMMA SettledIs ==
    ASSUME IInv, Settled
    PROVE  Looked(Phase) /\ Phase # "execute" /\ \A t : Roles(t) = {}
<1>1. Phase \in {"parked", "past"}
  BY DEF Settled, Phase
<1>2. thread.pc \notin {"execute", "update"}
  BY DEF Settled
<1> QED BY <1>1, <1>2, NoTick DEF Looked

(* A one-time job acts at most once, however it is edited, switched and restarted and     *)
(* wherever the clock goes, unless a result was lost with the agent or is another plan's  *)
(* (tick, jobs_update).                                                                    *)
THEOREM OneTimeActsOnce == Spec => []OnceActsOnce
<1>1. IInv => OnceActsOnce
  <2> SUFFICES ASSUME IInv, NEW id \in DOMAIN jobs, jobs[id].plan.kind = "once"
               PROVE  \/ hist[jobs[id].tag].runs <= 1
                      \/ hist[jobs[id].tag].lost \/ hist[jobs[id].tag].mixed
    BY DEF OnceActsOnce
  <2> QED BY Known DEF Good, RunsCount
<1> QED BY Invariant, <1>1, PTL

(* No one-time job is passed over: once its time has come and a minute has begun it has   *)
(* run, and so before the thread parks (tick, wait_for_enabled_job).                      *)
THEOREM PastOneTimeRuns == Spec => []PastOnceRuns
<1>1. IInv => PastOnceRuns
  <2> SUFFICES ASSUME IInv, NEW id \in DOMAIN jobs, Settled, Stays(jobs[id]), OwnRuns(jobs[id]),
                      jobs[id].plan.kind = "once", jobs[id].plan.at <= now
               PROVE  hist[jobs[id].tag].acted
    BY DEF PastOnceRuns
  <2>1. Good(jobs[id], hist[jobs[id].tag], {}, Phase, now)
    BY Known, SettledIs
  <2> QED BY <2>1, SettledIs DEF Good, PastOnce, RunsAreActs, Stays, OwnRuns
<1> QED BY Invariant, <1>1, PTL

(* No scheduled minute of a recurring job is passed over, but for a job whose last run    *)
(* lies ahead of a clock that was set back: the guard against a second run in the same    *)
(* minute never holds a due run back (tick).                                              *)
THEOREM DailyIsOnTime == Spec => []DailyRunsOnTime
<1>1. IInv => DailyRunsOnTime
  <2> SUFFICES ASSUME IInv, NEW id \in DOMAIN jobs, Settled, Stays(jobs[id]), OwnRuns(jobs[id]),
                      jobs[id].plan.kind = "recurring",
                      jobs[id].plan.at = HourMinute, Weekday \in jobs[id].plan.days
               PROVE  \/ hist[jobs[id].tag].current
                      \/ jobs[id].lastRun # None /\ jobs[id].lastRun >= now
    BY DEF DailyRunsOnTime
  <2>1. Good(jobs[id], hist[jobs[id].tag], {}, Phase, now)
    BY Known, SettledIs
  <2> QED BY <2>1, SettledIs DEF Good, Daily, Scheduled, Since, Stays, OwnRuns, HourMinute, Weekday
<1> QED BY Invariant, <1>1, PTL

(* What a job switched is switched back: no restore minute passes over an enabled job     *)
(* whose action is in force from an earlier minute, whatever was deleted, edited or       *)
(* restarted before, but for what a clock set back makes the comparison of the last run   *)
(* with the last restore say (tick).                                                      *)
THEOREM RestoreIsOnTime == Spec => []RestoreOnTime
<1>1. IInv => RestoreOnTime
  <2> SUFFICES ASSUME IInv, NEW id \in DOMAIN jobs, Settled, Stays(jobs[id]), OwnRuns(jobs[id]),
                      jobs[id].plan.restore = HourMinute,
                      hist[jobs[id].tag].applied, ~hist[jobs[id].tag].lost
               PROVE  \/ hist[jobs[id].tag].current
                      \/ /\ jobs[id].lastRestore # None
                         /\ \/ jobs[id].lastRestore >= now
                            \/ /\ hist[jobs[id].tag].rewound
                               /\ jobs[id].lastRun <= jobs[id].lastRestore
    BY DEF RestoreOnTime
  <2>1. Good(jobs[id], hist[jobs[id].tag], {}, Phase, now)
    BY Known, SettledIs
  <2> QED BY <2>1, SettledIs DEF Good, Restored, Since, Stays, OwnRuns, HourMinute
<1> QED BY Invariant, <1>1, PTL

(* The list, the thread and the clock keep their types: ids identify jobs, and a tick in  *)
(* progress carries what it collected and only then.                                      *)
THEOREM TypesHold == Spec => []TypeOK
<1>1. IInv => TypeOK
  <2> SUFFICES ASSUME IInv PROVE TypeOK
    OBVIOUS
  <2>1. \A id \in DOMAIN jobs :
          /\ jobs[id].plan \in Plans /\ jobs[id].enabled \in BOOLEAN
          /\ jobs[id].lastRun \in Times \cup {None} /\ jobs[id].lastRestore \in Times \cup {None}
          /\ jobs[id].tag \in Tags
    BY DEF IInv, Typed, JobRecords, Maybe
  <2>2. thread.pc \in {"boot", "wait", "parked", "sleep", "execute", "update"}
    BY DEF IInv, Typed, Threads
  <2>3. (thread.actions \cup thread.restores # {}) <=> thread.pc \in {"execute", "update"}
    BY DEF IInv, Tick, Batch
  <2> QED BY <2>1, <2>2, <2>3 DEF IInv, Typed, TypeOK
<1> QED BY Invariant, <1>1, PTL

=============================================================================
