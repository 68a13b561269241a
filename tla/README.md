# Verification of the ZTE U60 Pro toolkit

TLA+ models of the on-device agent (`src/zte-agent`) and of the boot script it relies on
(`src/scripts/router/zte-agent-supervisor.sh`), checked with TLC and, for the update protocol,
the event streams, the live topics, the eSIM manager, SMS forwarding and the two connection policies,
proved with TLAPS. Run a model with
`tlc -config Streams.cfg MCStreams`, a proof with `tlapm OtaUpdateProofs.tla`.

## 1. The system

The agent is one Rust process on the router. Its threads and the processes around it:

| Part | State it keeps | Operations | What makes it hard |
|---|---|---|---|
| A/B update (`ota/`) | two slots, a rescue copy, the `active` and `pending` markers, `blocked.json`, the journal `state.json` | check, download, install, rollback, channel; helper: trial, commit, recover | three processes over the same files, a power loss between any two steps |
| Boot supervisor (shell) | none of its own; reads the markers and slots | undo a pending trial, choose, exec | runs first after every power loss, must always find an agent |
| Scheduler (`scheduler.rs`) | job list in memory and on disk, the minute thread | create, update, toggle, delete; tick | the tick runs jobs without the lock and then updates them by id; wall clock |
| Sessions (`auth/`) | bearer and browser tables, ring of expired digests, failure limiter | login, authenticate, logout, revoke, prune | expiry found by whoever looks first; the revocation hook runs outside the lock |
| Hub: streams (`events/hub.rs`, `stream.rs`) | entries, demand per topic, end reasons | subscribe, evict, end, drop, session check | connections end in any order with logins, evictions and standby |
| Hub: topics (`events/hub.rs`, `sampler.rs`) | a slot per topic: value, error, stale, times | touch, due read, store, deliver | reads without the lock overlap touches and other reads |
| ubus cache (`cache.rs`) | entry, generation and gate per key | get_or_fetch, invalidate | an invalidation during a fetch |
| Event bus (`event_bus.rs`) | subscribers, a child `ubus listen` | dispatch, restart | events while the child is down are lost |
| No-service policy (`oos_policy.rs`) | machine, knob backup on disk | service, user mode, timer, config | crash between steps; the user acts on the same modem |
| Connectivity watchdog (`conn_watchdog.rs`) | ladder, cooldowns, history and fast-boot flag on disk | probe, WAN event, timer, rungs | reboots itself; caps must survive |
| Standby guard (`standby_guard.rs`) | power mode, tries, a turn-off to confirm, a restore due | power event, Wi-Fi report, timer; switch threads | its commands overlap the firmware's own power-on |
| Charge limit (`charge_policy.rs`) | limit, override, charger state | set, event, tick | settings change during the wait |
| SMS forwarding (`sms_forward.rs`) | rules, watermark, log with held forwards | event, poll, flush, retry | partial success, restarts, link going up and down |
| eSIM (`esim*.rs`) | card flag and file lock, switch generation, download, receipts | enable, verify, download, confirm, cancel, delete | background verification against the next switch |
| SIM identity (`sim_identity.rs`) | phase machine | card, WAN and agent signals | signals in any order |
| HTTP (`httpd/`, `server.rs`, `web/`) | work gate, peer table, form tokens | requests | bounded waits for unbounded work |
| Others | see `PROJECT.json`, `components` | | |

Interactions. The event bus calls the cache's and the hub's listeners; the cache tells the hub
of every invalidation (after its own lock is released); the hub's samplers read through the
cache; page loads read through it too and offer their read to the hub. Sessions tell the hub
which ids were revoked, after the table's lock is released; a stream asks the sessions, on its
own time, whether it may go on. The scheduler and the web pages call the API's handlers
in-process. The watchdog, the no-service policy, the eSIM manager and the user's handlers all
drive the modem. The update ends the process and with it every other part.

What each part owes its users: the update always leaves a proven agent to boot, never commits
an untested one, and finishes; the scheduler misses and repeats nothing and switches back what
it switched; no stream outlives its session, limits hold, demand is exact; a subscriber sees
the last change; the modem policies undo what they did, also after a restart, and stay out of
the user's way; an SMS is forwarded once per rule or reported; the card is used by one command
at a time and a switch's verdict is about that switch. `PROJECT.json` lists under `hazards` the
places where these could fail, with the properties that look there.

## 2. The modules

| Module | Models | Lines of code read |
|---|---|---|
| `OtaUpdate` | update manager, helper, supervisor, files | `ota/mod.rs`, `ota/storage.rs`, the shell script, the bootstrap of `setup.sh` |
| `OtaPromise` | what an update promises: one image, changed only by an atomic commit of a trial that passed | abstract specification |
| `OtaUpdateProofs` | theorems about `OtaUpdate` under every fault; the refinement, and that something boots | |
| `Scheduler` | the job scheduler and its handlers | `scheduler.rs` |
| `SchedulerProofs` | theorems about it | |
| `Streams` | sessions, the hub's streams and their drivers, composed | `auth/mod.rs`, `auth/table.rs`, `events/hub.rs`, `events/stream.rs` |
| `LiveTopic` | event thread, cache, the hub's slot, sampler, page loads and a subscriber, composed | `cache.rs`, `events/hub.rs`, `events/sampler.rs`, `web/pages/mod.rs`, `event_bus.rs` |
| `HubProofs` | theorems about `Streams` and `LiveTopic` | |
| `OosPolicy` | the no-service policy: machine, executor, channel, the user's mode changes, the modem | `oos_policy.rs`, `modem_ext.rs` |
| `OosPolicyProofs` | theorems about it | |
| `ConnWatchdog` | the connectivity watchdog: ladder, executor, state file, restarts and reboots | `conn_watchdog.rs`, `modem_ext.rs` |
| `ConnWatchdogProofs` | theorems about it | |
| `SmsForward` | the forwarding thread, its log and watermark, the owner's requests | `sms_forward.rs` |
| `SmsForwardProofs` | theorems about it | |
| `EsimCard` | the card, its guard, the command workers, runs by hand | `esim.rs`, `esim_native.rs` |
| `EsimReceipts` | on top of it: the operators' receipts, their list, sending and retry loop | `esim.rs` |
| `EsimSwitch` | on top of both: switching with retries and verification, reading, deleting, renaming, downloading | `esim.rs`, `esim_download.rs` |
| `EsimSwitchProofs` | theorems about the three | |
| `StandbyGuard` | the standby guard, its feed, its switch threads, the firmware's power-on | `standby_guard.rs`, `wifi_watchdog.rs` |
| `StandbyGuardProofs` | theorems about it | |
| `MC...` | instances for TLC: values of the constants, symmetry | |

`PROJECT.json`, `map`, names the code lines of every definition.

### OtaUpdate

A release is its version. The signed manifest fixes size and digest, so a file either is
release *v* or is damaged (`Bad`); `bin`, `meta` and `digest` say so for each slot and for the
rescue copy. `active`, `pending`, `blocked` are the marker files, `st` the journal, which memory
and disk share because every change is written under the lock. `agent`, `helper` and `sup` hold
a program counter and the locals that live across a file operation, a wait or a network
transfer. Each such step is one action, so that `PowerLoss` (all three stop, the files stay)
can strike between any two: `Fetch`, `RenameBinary`, `RenameMetadata`, `FinishDownload` for a
download; `Install`/`Rollback` (preflight and `Launch`), `HelperReady`, `HandoffDone`,
`AgentExit`, `HelperSpawn`, `TrialPass`/`TrialFail`, then `CommitActive`, `CommitPending`,
`CopyBinary`, `CopyMetadata` or `RecoverActive`, `RecoverPending`, `RecoverSpawn`; `SupRestore`,
`SupClear`, `SupSelect` for the boot.

`Faults` selects what may go wrong: `power`; `kill` (agent or helper dies alone); `io` (a file
operation fails and the code takes its error path); `stall` (one side of the handoff gives up
first). `FlakyTrials`, `Damageable` and `ConsoleInTrial` add trials whose outcome changes,
damaged stores, and a console that starts downloads while a trial runs.

`OtaPromise` knows only the image the next boot runs, the release on trial and whether it has
passed. `Promise`, at the end of `OtaUpdate`, maps the protocol to it (`image` is what the
supervisor would choose if the power failed now, so the commit point is the removal of the
pending marker), and `ImplementsPromise` says that every step is one of its steps.

### Scheduler

Time is the wall clock in minutes, which may be set back. The thread's program counter follows
`start`: boot grace, park while no job is enabled, sleep to the next minute, collect (phase 1),
execute without the lock (phase 2), update by id (phase 3). Handlers may create, edit, switch
and delete jobs between the phases. `hist` is history: what was really executed, by a tag of
each creation, because ids are used again after the last job is deleted. Three known exceptions
of the code are named in the properties: a run that belongs to another plan or to an earlier job
of the same id counts as a run of this one (`mixed`); after the clock was set back a
recurring job is skipped until the clock has passed its last run again; and an action that ran
again, after the clock was set back, no later than the last restore is not restored (`rewound`).

### Streams

A session keeps its age and its time since last use, which is all the deadlines compare.
`table` and `recent` are the session table and the ring of expired digests, `hooks` the
revocation hooks still to run, `conn` the connections (asked, queued for `subscribe`, open),
`order` the hub's serials, `demand` its counters. `Open` and `Wake` are the driver's two looks
at the world; the session check, the bye and the release of demand are where the code has them.
The bounds on live streams and streams per owner are the code's caps, made small.

### LiveTopic

Values are the numbers of the source's changes. A change queues an announcement; `Invalidate`
and `TouchTopic` are the two halves of its handling (cache entry, then hub). A read is
`Start`, `Hit` or `Enter` (the gate), `Answer` (the ubus call takes its value at some moment),
`Return` or `Fail`, `Store`. Instants are kept as the comparisons the code makes with them: a
read was overtaken by a younger one, or a touch came since it started. Whether a cached entry
is young enough is left to chance, as each reader has its own limit.

### OosPolicy

`machine` decides, `exec` carries its actions out one step of I/O at a time (`thread.todo`),
`queue` is the channel, `handler` the user's request in progress, `disk` the configuration and
the backup of the owner's knobs; `knobs` and `lpm` are the modem's. A crash may come between any
two steps. Durations are left out: a deadline that is set may be reached at any moment.
`mishap` records what the code is known not to undo: AT+CFUN=1 failed, a restart that finds no
backup to tell it of the parking, a user's change between the decision to park and the parking.

### ConnWatchdog

`machine` is the ladder, `thread` the event in hand and the steps of the rung being carried
out, `disk` the state file. `done` is history: the remedies really given, by age. Ages and
waits count in units and stop where the code no longer tells them apart. What the code is known
to lose is in `mishap`: a record that could not be written, and the flag for fast boot, cleared
by a later rung's record or by a death between the switch and the record.

### SmsForward

A message is its id and `Matches` says which rules take it. `thread` goes through a batch as
the code does: read both stores, one forward after the other, log, actions after forwarding,
watermark; then flush of what is held. What is left of a batch is a set of forwards, taken in the
order of messages and rules. `state` is memory, `disk` what was saved last, `retry` what each
request handler is retrying by hand: the HTTP server runs two slow requests at once
(`SLOW_PERMITS`), and each writes its outcome to the entry with the timestamp it saw (`fresh`).
The owner edits rules and clears the log. The histories say what was delivered, delivered twice,
overlooked by the watermark or dropped from the log, and which second deliveries have a known
cause (`excused`). Reading a store is one page (the code asks for up to 50 messages); a torn state
file and the lengths of the waits are left out.

### EsimCard, EsimReceipts and EsimSwitch

A thread is the request that started it: an enable goes on as its retries and its verification,
and whoever starts the retry loop of the receipts goes on as that loop. `holder` is the busy
flag, `lockfile` whether the lock file can be made, `worker` the thread of a card command, which
goes on after its caller gave up (`awaited`), `cli` a run by hand, `session` a download's open
card. `card` has the enabled profile, the profiles, and the receipts it keeps for the operators
who want them (`notifying`), numbered by the card.

`EsimReceipts` has the saved list with its attempts (`pending`), the mark of the loop
(`retrying`), and sending as a procedure that a thread enters with the guard at `send` and
leaves at `back`. A receipt is sent by its number and counts attempts; after a failure the
operator's other receipts are left out of the round, and what was not started is not counted.
`clear` is what sending returned: whether the operators have been notified.

`EsimSwitch` gives the threads their program: one step is the code between two blocking calls,
and how long a loop lasts is left open. `modem` follows `card` some time later. `check_card` and
the list it reads first are one command. The order in which a round goes through the receipts is
left open, and the number of rounds of the loop.

### StandbyGuard

`mode`, `conf`, `staged` and `radio` are the firmware's; `air`, `queue` and `lines` the way of a
power event and of a Wi-Fi report to the guard; `switches` the threads with the steps left of
each turn-off. One turn of the loop is fed power events, then log lines, then timers, as
`wifi_watchdog.rs` (818-864) orders them. Assumed: the confirm and restore waits outlast a
switch thread's commands (the reload has the 30 s limit of ubus, the `uci` commands have none
and take milliseconds); an announcement and its report are
read before the firmware's own power-off or Wi-Fi start, seconds later, ends; a Wi-Fi start of
the firmware that meets a reload is refused. A power-on whose commit raced another may leave
`wifi_onoff` at 0.

## 3. The runs

| Run | Question | Result |
|---|---|---|
| `ota` | With power losses anywhere, does the next boot always find an agent, does the verified release run, does every trial, handoff and operation end, and is the promise implemented? | holds |
| `ota_faults` | Do the markers and the inactive slot stay sound when processes die, files fail, the handoff stalls and trials are flaky? | holds |
| `ota_flaky` | The previous agent stays available | violated: a quarantined release that passes a later trial becomes active, though the supervisor will refuse it; one more interrupted download leaves nothing to boot |
| `scheduler` | Is nothing due missed or repeated, and everything switched back in time, with edits, a clock set back and restarts at any point? | holds, with the exceptions named in the properties |
| `streams` | Do demand, revocation and the reason of a bye hold in every order of logins, logouts, expiry, standby and three connections? | holds |
| `live_topic` | Does every order of changes, announcements, cached and overlapping reads end with the subscriber seeing the last change, and is no reader served the past? | holds |
| `oos` | With crashes, failed writes and AT commands and the user's own mode changes: are the owner's knobs never lost, attended and given back, and is a modem never left parked with nobody attending it? | holds, except after the mishaps named above |
| `conn_watchdog` | Do cooldowns and caps hold over restarts and reboots, is fast boot remembered, does the ladder stop at a lost session, and does it move on? | holds, except after the mishaps named above |
| `sms_forward` | With a death, lost events, failed reads, failing links, an edit and two retries that may overlap at any point: is nothing sent twice, passed over or deleted unsent? | holds, with the exceptions in the histories |
| `sms_unmatched` | "Mark read / delete an SMS once every rule forwarded it" | violated: a message no rule takes is deleted too |
| `esim` | With two requests, a run by hand, a busy card, hanging and failing commands: is the card used by one command at a time, is a verdict the truth, does nothing stay marked, does an accepted cancel hold, is an operator said to be notified notified, and are receipts tried on? | holds; the verdict and the rest with one switch at a time, the retries except in the ways named above the property |
| `standby_guard` | Whatever step of a turn-off meets a power-on, does Wi-Fi end up off in standby and back when on, with nothing left staged? | holds |

Each violated run checks one sentence of the repository, quoted in `findings`.

### Divergences seen with the models, described only here

- A download started during a trial aims at the slot on trial, which becomes active when the
  trial commits; `ota/mod.rs:3` says downloads always land in the inactive slot
  (`ConsoleInTrial`).
- A helper killed during the trial leaves its marker; start-up takes a marker for a live helper
  (`ota/mod.rs:876`), so the phase stays until the next boot.
- A one-time job that ran and is given a new time keeps `last_run` and never runs again
  (`scheduler.rs:445`; `docs/web-ui.md:228` says a past one runs at the next minute). Likewise a
  job whose id was used again while the old one was running.
- The clock set back suppresses recurring jobs until it has passed their last run
  (`scheduler.rs:250`; 94-96 say at most one extra or late tick).
- A restore is due while the last run is later than the last restore (`scheduler.rs:281`). After
  the clock was set back, an action may run again at a time before the restore on record; it
  then stays in force until it has run again after that time. It takes a weekly job, so that the
  day of the run comes round again and the record is not replaced first: TLC shows it with days
  of two minutes, weeks of two days and twelve minutes of clock, which is more than the run has.
  The proof attempt found it, and `rewound` remembers it.
- A user's ONLINE between the policy's check (`oos_policy.rs:420`) and its LPM command is undone,
  and the request is answered by standing down without going online (960 says it leaves the
  cycle immediately). A user's LPM can be undone the same way by a GoOnline decided before it.
- A refused reboot leaves the fast-boot flag set "so the next agent start retries"
  (`conn_watchdog.rs:987`); the next rung's record clears it.
- Two enables that both pass the checks at 842-847: the second, refused as busy, replaces the
  switch and leaves `reloading` set, the first verification ends as superseded, and every later
  operation is refused until a restart (`esim.rs:956` says the SIM did not reload). This is why
  two properties speak of one switch at a time. A superseded verification that has the list
  also clears `reloading` without looking at the generation (1109), and a superseded retry asks
  the card once before it looks (1033).
- Two retries of the same failed entry that are under way at once (`SLOW_PERMITS` is 2,
  `httpd/mod.rs:48`) both pass the check at `sms_forward.rs:797` and both deliver it; 786 refuses
  only the entries held by a rule so that none is sent twice. `excused` remembers these.
- The retry loop finds nothing left to send and takes back its mark in two steps
  (`esim.rs:1756-1760`): a receipt listed in between finds the mark set and starts no loop, so
  nothing sends it until the next operation (1738 says a loop is started if receipts are waiting
  and none runs). The list a client reads (1776) starts none either. `dropped` remembers this.
- Nothing limits the time of a switch's `uci` commands (`standby_guard.rs:1062`). With six power
  changes, one turn-off hanging over two whole standbys, another begun in the following one and a
  foreign commit, TLC leaves a powered-on router without Wi-Fi and nothing under way to start it.
  `harmed` remembers a switch still running when the next standby has settled ("late"), and
  `WifiBack` excuses it.

### Bounds

- Updates: three releases (bootstrap, a sound one that is also a Beta, an unsound one) give an
  upgrade, a failed trial, a rollback and a quarantined release at once; the two slots and the
  rescue copy can then all differ. Nothing counts, so power losses are unbounded. `ota_faults`
  has two releases and every fault kind, also unbounded.
- Scheduler: days of three minutes, weeks of two days and six minutes of clock reach a second
  day for a daily job and a restore on the day after; the clock is set back once. One job at a
  time, with any number of successors under the same id: jobs do not interact except by ids. A
  day has at least two minutes, because a job that ran in the minute before is not run (1440 in
  the code). `SchedulerProofs` needs no other bound.
- Streams: three connections over two places and two replacement keys cover both kinds of
  eviction and a full hub; one session per kind with a cap of one makes every login evict;
  deadlines of one to three units and jumps of two let idle and absolute expiry come first in
  turn. Connections are symmetric and no liveness is checked, so symmetry is sound.
- Topic: two changes that may both precede the first announcement, two readers, one failing
  fetch. A third change or reader only repeats the pairwise races the flags record.

- No-service policy: an event in the channel while another is handled (`MaxQueue` 1); nothing
  else is counted, so crashes, failures and user changes are unbounded.
- Connectivity watchdog: windows of two units, cooldowns of two, a day of three, caps of one for
  the last two rungs, two failures to trigger: every rung is reached, blocked by its cooldown
  and by its cap, and each wait can outlast the other. Faults are unbounded.
- SMS: two messages, one taken by two rules (WAN and SMS) and one by none, a log of two
  entries so that it overflows, one death, one failure, two handlers and two requests, of which one
  may change the rules or the log: two retries, or an edit and a retry, at any point. Handlers
  are symmetric and no liveness is checked.
- eSIM: two profiles, two requests and a run by hand; rounds of a loop and faults are unbounded,
  a receipt is tried once (`MaxAttempts`), so that it is given up soon. `MCWorkloads` lists which
  requests meet: switches, lists and downloads each other without receipts, and a switch, a
  delete or a download the deletes and the requests about receipts on a card that keeps them.
  Other pairs differ only in requests that hold the guard throughout. Requests are symmetric and
  no liveness is checked.
- Standby guard: three tries, four power changes, four unwanted starts and two mishaps: two
  whole standbys with a power-on in the middle of any turn-off.

### Fairness

- `OtaUpdate`: the supervisor, a running agent's operation, its exit timer, the trial watcher
  and the helper's next step run on (weak fairness): they are threads and processes with
  bounded waits. Nothing makes the console act, nothing prevents power losses; `TrialResolves`
  and `AgentReturns` therefore assume that power losses stop eventually, and `PhaseSettles`
  also that the console is left alone.
- `LiveTopic`: announcements are handled, reads go on, a forked ubus call ends (it has its own
  timeout) and the sampler is not kept from the gate for ever by page loads (strong fairness:
  page loads are finite in number in practice, and the mutex is not held between them). No
  page has to load and no subscriber has to come.
- `OosPolicy`: the policy's thread runs on, a deadline that leads to an action is reached
  however often events come before it, and a restore of the knobs, tried again and again, does
  not fail for ever (strong fairness of the two).
- `ConnWatchdog`: the thread runs on, time passes and probes are reported however many WAN
  events and requests of the owner come between (strong fairness of the two).

## 4. The proofs

The theorems hold for every value of the constants. `OtaUpdateProofs` proves, for any set of versions, any channel, any trial outcomes and any
combination of faults:

| Theorem | States |
|---|---|
| `TypeCorrect` | every variable keeps its type: in particular the active marker always names a slot or the rescue copy |
| `TrialKeepsAFallback` | a pending marker names two different slots: a trial never runs from the slot it would fall back to |
| `ExitHasHelper` | without kills and stalls, an agent exits for an update only while its helper lives and the marker is on disk |
| `DownloadsLandInactive` | with the console left alone during trials, no operation replaces the binary of the active slot |

All four follow from one inductive invariant, `IInv`. Types and the two-slots property are not
inductive alone: that the marker written by `Launch` names two slots needs the journal to name
an existing slot when something is staged and the active marker to name one when the preflight
passed (`FilesOK`); that a commit writes a slot needs the helper's locals to agree with the
marker (`HelperOK`); that only one of supervisor, agent and helper acts on the markers needs to
be said (`ProcessesOK`); an exit without a helper is excluded by how the handoff's states pair
up (`HandoffOK`); and the inactive slot needs the transfer's target to differ from the active
slot while it runs (`TransferOK`, `ConsoleOK`). The proof has one lemma per action, a lemma for
the shared part of launching and of starting an agent, and lemmas about the pure operators
(`Reconciled`, `SelectCandidate`, `Choice`, `Started`). TLC checked `IInv` before it was proved.

The assumptions are those of `OtaUpdate`: versions are natural numbers, the bootstrap is one of
them, and the marks for "no file" and "damaged file" are not.

Its second part proves the three promises that hold when trials are decided by the release:

| Theorem | States |
|---|---|
| `SomeAgentBoots` | the next boot finds an agent to start, whatever is interrupted |
| `VerifiedRuns` | on trial runs the release the marker names, and without a trial the one that boots next |
| `UpdateKeepsPromise` | the protocol implements `OtaPromise`: the image changes only by one atomic commit of a trial that passed |

They assume `Calm`: power failures and stalled handoffs at any step, but no kills, failing file
operations or damage; the outcome of a trial a function of the release; the console left alone
during trials; a sound first release. `ota_flaky` shows what is lost without the second. The
argument has one idea: at any moment the device can fall back to one slot, its `Home` (the
active one, or the previous one of a pending trial), which is sealed (what is recorded of it is
what it holds) and holds a sound release. Nothing blocks a sound release, so the supervisor
chooses the home; no transfer touches it (`AgentGood`); the helper's locals agree with the
marker and with what it verified (`HelperGood`); and only `CommitPending` moves the home, to a
slot whose trial has passed. Every other step keeps the home's release, and one lemma maps all
of those to a step of the promise or to none (`KeepsImage`). TLC checked `Good`, this invariant,
with power failures and stalls before it was proved.

`EsimSwitchProofs` proves six theorems, for any number of requests and profiles, any workload and
any of the faults: `NoTwoCommands` (a command's worker, a download and a run by hand never use
the card together), `NotifiedOnlyWhenTrue` (when sending returns with nothing pending, the
card has no receipt left), `CancelKeepsItsWord` (an accepted cancel is not followed by an
install), `RetriesAreMade` (at most one retry loop, and one for receipts that can be sent), and of
the workloads with one switch `VerdictsAreTrue` (a switch reported applied is on the card; one
reported not applied is not, with no command left that could still apply it) and `RestSettles`
(at rest nothing is marked as reloading and the saved list is right or marked as doubtful).
None is inductive alone, because a worker may outlive the guard of
the request that started it. The invariant `IInv` adds who has the guard at which place in the
code (`Guarded`), that a session belongs to the holder and runs beside no worker
(`SessionOwned`), and that a run by hand found no holder and no worker (`CliAlone`). For the
receipts it adds that an answer a caller still waits for is what the card has (`Expected`: only
the holder starts workers and uses sessions) and what a thread knows while it sends (`Told`):
from its list on, the receipts on the card are among the pending ones, and a worker left behind
there can only take receipts away (`Quiet`). The proof sorts the steps into two kinds: those that
keep, take or drop the guard outside a session (`GuardStep`) and those of a session
(`SessionStep`). Each kind keeps the first part, each action is of a kind, and the commands, the
worker, the run by hand and the answers to a list or a send have lemmas of their own. For the
cancel, `Honest` adds that the control channel exists exactly while the session does; that in a
session nothing is installed, and a download marked as cancelling has its decision in the
channel, at most one `Accept` before it, with a check still ahead that hears it (`Heeded`); that
a download about to open starts with no decision taken (`Begun`); and that one that is over
and sends its receipts first ends as cancelled only if nothing was installed (`Over`). For the
retries, `Tried` adds which thread is the loop (`OneLoop`) and that receipts that can be sent
have the loop, one of the known excuses, or a thread on its way to the place where the loop is
started (`Attended`): sending keeps the place it returns to, so a thread that lists receipts for
a deletion, a switch or a download comes by there, and the loop's own rounds leave it marked. For
the switch, `Sound` follows the one thread that enables a profile. `Course` ties its place to the
generation and the reported state. `Still` says that until its command could have reached the
card, and again after each refusal, the card, the modem and the saved list are as at the start and
no command is left to act; this is why "not applied" may be reported after refusals alone.
`Looks` says that a list read under the guard is still the card's, with no command to enable
pending: one command runs at a time, so a command to enable whose caller gave up has acted
before the next list is read. `Judged` turns this into the verdict: the verifier compares
with what the card has, and while data is watched for the profile is on the card. `Settling`
keeps the mark and the saved list: the mark stands only while the verifier is at work, and a
list that may be wrong has the verifier ahead of it or the state `card_unconfirmed`. Steps are
sorted again: those that say nothing of the switch (`Aloof`), those of the thread that has it
(`Steered`), and the card's. The premise of one switch is needed; section 3 describes what
two of them can do.
TLC checked these invariants too, on the instance of the run. The assumptions are those of the three modules:
the requests are finitely many, `None` is neither a request nor a profile, and a receipt is tried
at least once.

`HubProofs` proves three theorems about `LiveTopic`, for any announcing threads, any page loads and
any bounds: `NoReadOfThePast` (a read that starts after an announcement does not answer with the
state from before it), `SlotNeverFallsBack` (nor does the slot return to such a state) and
`SettledSlotIsCurrent` (with all changes announced and nothing due, the slot holds the
firmware's state). The invariant has three parts beyond types and bounds. `Fresh`: the cache,
and a fetch that still counts, are not older than the last announcement, because an invalidation
empties the one and discounts the other. `Ordered`: of two reads in flight, the one that started
first began with no more announced, and a read that was not overtaken began with no less than
the slot is known to have. `Settling`: a change is pending with its notifier, or it is past; the
past changes were announced when a read that no touch reached began, a touched read that will
land keeps the slot stale, an untouched read started after every touched one, and a slot that is
not due has all the past changes. That third statement about the touched and the untouched is
what makes an untouched read overtake the touched ones when it lands. One lemma
covers the three steps that only move a read along (`GoesOn`). TLC checked this invariant but
for its types on the instance of the run. The assumptions: the sampler is not a page load, and
`Nothing` is neither a reader nor a number.

`HubProofs` proves three theorems about `Streams`, for any finite set of connections, any topics,
caps, limits and times, and any number of logins: `RevokedKeepNoStream` (once the hook of a revocation has run,
no stream of the session goes on), `SampledForItsStreams` (the demand of a topic is the number of
live streams that want it) and `ByesTellWhy` (a bye never tells an expiry as a logout nor a logout
as an expiry). For the first the invariant adds that what is in the table is live
and that a connection's owner was issued (`Sessions`): a step that opens or continues a stream
found its owner in the table, so it was live after that step's pruning too, and a session that
stops being live by revocation leaves a hook. For the second it adds that a connection which has
only asked has no end (`Demand`), and one lemma says what every step that takes live entries
away does to the count (`WantedLess`). The third has an invariant of its own on top, `ByeInv`,
because a bye is decided by a ring that forgets. `Ring`: a kind never has more sessions than its
cap, so what one call prunes fits the ring (`RingHoldsAKind`, `RingTurns`); the ring holds expired
ids only, and ids are given out in order, so the next one is new (`NextIdUnborn`). `Followed`: the
session of a connection that has looked since time last passed is not expired, and while one that
has not looked may be, nothing else is left to prune before it looks: its id is in the ring. So
what a look finds neither in the table nor in the ring has been revoked (`CheckIsTrue`). Every call
that prunes and only uses or removes sessions is settled by one lemma (`PruneKeepsRing`); the login
has its own. TLC checked both invariants on the instance of the run. The assumptions are those of
`Streams`: at least one session of each kind, positive times, finitely many connections, and `None`
neither an id nor a reason.

`ConnWatchdogProofs` proves four theorems, for any durations, cooldowns and caps, any settings and
any of the faults: `TypeCorrect`, `FastBootReturns` (with the thread at rest, fast boot that is off
is on record on disk, but for the two known gaps), `RareByTheBooks` (no remedy within its cooldown
or beyond its daily cap, over restarts and reboots, unless a record was lost) and
`LostSessionsAreLeft` (the ladder never goes on after a drop that outlived the last rung's window).
The second and the last are short; the third is an action property, and what allows a remedy is
decided steps before it is given, on a history that a restart replaces. The invariant `Recorded`
says that what was given is known on disk at all times and in memory once the start has read it;
that while a rung's steps run, the rung is allowed by what was given; and that its command comes
after its record. Known is weaker than equal: a failed step or a death leaves a rung in a history
that was never given, and of a rung without a cap only the last use is kept; `Covers` is the
relation that survives all of it, and it is enough, because ages of whole units below a day are
fewer than a day (`CoveredAllowed`). That a wait is over exactly when the guard allows the rung
needs the n-th youngest of a finite set of ages, whose existence is proved from the order on the
naturals (`NthAge`). Each handler of the machine answers with a sound step (`Sound`), so the
thread's proof has one lemma per step of its list. TLC checked this invariant, `TypeOK` included.
The assumption is `ConstantsAssumption`: times in order, positive cooldowns and caps, and `None` no
rung.

`OosPolicyProofs` proves three theorems, for any channel length, any faults and any requests:
`KnobsNeverLost` (the backup on disk holds the owner's knob values whenever the knobs do not),
`QuietKnobsHaveAnEnd` (while the thread waits and the knobs are not the owner's, a cycle is
on or a restore is due) and `ParkedByTheBooks` (the modem is parked with nobody attending it only
after a mishap the code knows of). They fail to be inductive because the actions are queued: the knobs
change some steps after the decision. The invariant relates the queue to the rest. `Ordered`:
behind the first action stand only actions on the modem, so a save or a restore is never put
off. `Backups`: knobs that are not the owner's have a backup in memory, and a backup in memory
one on disk; only a backup no longer in memory is removed from disk. `Cycles`: the knobs are
made quiet only in the state `Quiet`, and every step out of a cycle puts `RestoreKnobs` first.
`Planned` says which lists
park the modem: only those of the quiet half of a cycle; `Parked`, that this half is left only
with the command that brings the modem back ahead in the list or in the user's own handler.
The list of actions has lemmas of its own (`PopStep`, `HeadStep`). TLC checked this invariant,
`TypeOK` included, before it was proved. The assumptions are those of `OosPolicy`: the two knob
values and `None` differ, and `None` is not the name of who parks the modem.

`SmsForwardProofs` proves three theorems, for any messages, rules, log size and handlers, and any
number of deaths, requests, retries and failures:

| Theorem | States |
|---|---|
| `WatermarkSkipsNothing` | the saved watermark passes only messages that a batch dealt with, or that are known to be overlooked |
| `TwiceHasAReason` | a forward is delivered twice only if the agent died before its outcome was on disk, or the owner retried it twice at once |
| `DeletedIsForwarded` | a message is deleted only when every rule that takes it has sent it or was off, unless the log dropped an unsent entry of it while it was under way |

The first property says nothing of a batch under way, whose end will save a watermark read long
before. The invariant adds what makes that safe: ids come in their order, so nothing comes below
the watermark, which is 0 or the id of a message that came (`Device`, `Saved`); and during a batch
every message up to its last is dealt with or still in it (`Thread`). Most steps keep the
watermark and the batch and are settled by one lemma (`SameKeeps`); the fetch, the end of a
message, the end of a batch and an arrival have their own. That a finite set of ids has a
greatest one is proved from well-foundedness of the order on the naturals.

The second property holds because the three that send, a batch, a flush and a retry by hand, are
kept apart by two things. The watermark parts the batch from the others: everything sent, logged
or tried is reached by it or by the batch under way (`KnownIsReached`), so what a batch has left
is new (`LeftIsNew`). The state of the log's one entry parts the other two: a flush sends what is
held (`LeftIsHeld`), a request what is failed, and it stays failed until the outcome is written
(`TriedHasFailed`). In between, an entry may be unsent although its forward was delivered, but
only while the outcome is on its way (`SentIsKnown`). The attempt to prove this with the single
retry the model once had showed that it was the bound that held: with two handlers the same
failed entry is sent twice, and the property now says so.

For the third, each forward of a message that is in a batch or held is sent, still to do, or
unsent in the log (`Accounted`), and the log on disk, which a restart goes back to, says the same
of the messages the watermark has passed (`AccountedOnDisk`). Trying to prove it showed that the
history of dropped entries missed an entry that a full log drops as it is pushed.

The second and third rest on lemmas about the log: a log that was cleared or pushed keeps
entries of the old one, none twice (`Within`, `RetainOf`, `PushOf`; ranks in a finite set are
places, `NthOf`), and settling changes one entry's outcome and no key (`SettledOf`). TLC checked
both invariants with two retries, to a depth it could reach. The assumptions are
`ConstantsAssumption` (finitely many messages, with positive ids; rules are numbers) and
`NoneAssumption` (no attempt is `None`).

`StandbyGuardProofs` proves the three properties of its run, for any number of power changes,
wakes, mishaps and switch threads at once: `NothingLeftStaged`, `StandbyIsDark` and
`WifiComesBack`. For the first, the invariant is that while something is staged some thread stands where
only a commit or a revert leads on (`Owned`); with several threads it need not be the one that
staged it: one thread's commit or revert takes what another staged. A thread
that ends shifts those behind it in the list (`RemoveAtKeeps`).

The other two rest on what the guard knows (`Sane`): the last power action announced, queued or
fed is the firmware's last, the last Wi-Fi report is the radio's state, and what was received is
what was fed and what the queue holds (`CountAppend`, `CountTail`; this makes the restore's look
compare the right count). In standby a Wi-Fi that is on then has a report still to be read or a
turn-off to be confirmed (`Dark`). After a power-on there are five cases (`PoweredOn`): Wi-Fi is
on; the firmware is still to start it; it is off and the guard owes a restore (`Owed`: it has
acted and not yet heard of the power-on, or has heard and armed the timer); one turn-off is still
running, and the restore is owed; or one turn-on is running, which nothing can now stop before
its reload. That there is at most one thread comes from `InStandby`: a turn-off is only begun with
none running. The first attempt without the excuse "late" failed for a reason: a turn-off that
outlives a standby meets the next one's, and the five cases are no longer all (section 3). The
proof of `WifiComesBack` uses of the constants only that `None` is not a Boolean. TLC checked the
invariants with up to six power changes before they were proved.

`SchedulerProofs` proves the four invariants of its run and `TypeOK`, for any plans, any number of
jobs, days and weeks of any length and a clock that is set back any number of times:

| Theorem | States |
|---|---|
| `OneTimeActsOnce` | a one-time job acts once, unless the agent died before the run was on disk |
| `PastOneTimeRuns` | a one-time job whose time has come has run or is about to |
| `DailyIsOnTime` | a recurring job runs in every minute of its schedule, unless the clock was set back |
| `RestoreIsOnTime` | what a job switched is switched back in its minute, with the exceptions above |
| `TypesHold` | the types of the variables |

The four speak of a minute that is over; the invariant speaks of every step of the tick. It has
one conjunct, `Good`, of one job, its history, what the tick in progress does with it (`Roles`)
and where the thread is in the minute (`Phase`), so that a step that leaves a job, its roles and
the phase alone keeps it. A tick writes by id what it collected by id before it slept or
executed; that it writes to the job it read is due to the tags, which are new with each creation
(`Typed`, `Tick`), and where an id was given again, `mixed` says so. Runs are counted with
the one executed and not yet recorded (`RunsCount`). `PastOnce`, `Daily` and `Restored` say what
a finished look of this minute leaves, which is the property, and what it has still to carry
out. That the guard against a second run in a minute (60 s) suppresses nothing else needs that
two recorded runs lie whole days apart (`Minutes`); that a restore is due while the action is in
force needs that the last run is later than the last restore (`Order`), which the clock can undo,
and that of an action and a restore of the same minute the restore is recorded with the action or
after it (`Together`). That the thread may park needs that a job that is off, but was left on, is
a one-time job with nothing left to do (`Switched`). The attempt to prove `RestoreOnTime` as it
was first stated failed in `Order`, and TLC then refuted it on a longer clock (section 3). TLC
checked the invariant on days of two and three minutes before it was proved, with one job and
up to ten minutes and two steps of the clock in full, with two jobs in part. The assumptions are
those of `Scheduler`: a day of at least two minutes, and `None` not a number.

Only model-checked: liveness (no prover for fairness) and the other action properties of
`OtaUpdate`. Every invariant a passing run checks is proved. `TypeOK` has no run of its own: of
`OtaUpdate`, `ConnWatchdog` and `Scheduler` it is proved, of `Streams`, `LiveTopic` and
`SmsForward` it was checked with the same bounds while the modules were written and documents the
variables.

## 5. What is not modelled, and why

Signatures, TLS, JSON, frames and page rendering are pure functions of one input. The Wi-Fi
watchdog's detection of hung radios reads `/proc` and log lines; Tailscale, WireGuard, TTL and DNS run
ordered lists of external commands. The phone apps and the browser console are clients.

Within the modelled parts: damage to the active slot's files while running; the lapse of 1.2 s
between the handoff's success and the agent's exit is one state in which no operation starts;
the effects of jobs on the rest of the agent; a torn jobs file and ticks longer than a minute;
the login limiter and form tokens; sampled
topics, the settle window and `announce`; peers that stop reading (a stream is polled at least
once per unit of time); events lost while `ubus listen` restarts; of the eSIM manager,
data recovery after a switch, the card's information, and a swapped card. The charge limit and the login limiter are one thread and one table each.

Observed while reading, outside the properties: after a failed trial the offer keeps the
quarantined release, which can be downloaded and staged again; the trial environment variable
is inherited by the agent the helper starts in recovery; a slot excluded by the supervisor is
excluded for one boot only; nobody restarts an agent that dies outside an update; a data
recovery that can no longer read the identity of the SIM leaves mobile data switched off
(`esim.rs:1321`).

## 6. What is left

1. `EsimSwitch`: data recovery against the user's modem changes, then the SIM identity phases
   beside it.
2. The no-service policy and the watchdog together on one modem.
3. `ChargeLimit`: the enforcement thread against the owner's settings.
