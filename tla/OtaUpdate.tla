------------------------------ MODULE OtaUpdate ------------------------------
(***************************************************************************)
(* The A/B update of the on-device agent (zte-agent/src/ota) together with *)
(* the shell supervisor that picks a binary at boot                        *)
(* (scripts/router/zte-agent-supervisor.sh).                               *)
(*                                                                         *)
(* Three processes share the files of /data/open-u60/update:               *)
(*   - the agent: answers the console and runs one update operation at a   *)
(*     time (check, download, install, rollback, channel change);          *)
(*   - the helper: the old binary run as "ota-helper"; it waits for the    *)
(*     agent to exit, starts the candidate, watches it for 60 s and        *)
(*     commits or recovers;                                                *)
(*   - the supervisor: runs once at boot, before anything else.            *)
(* A power loss stops all three between any two steps; the files survive.  *)
(*                                                                         *)
(* A release is its version: a signed manifest fixes size and digest, so a *)
(* binary matches the manifest of version v exactly when it is release v.  *)
(***************************************************************************)
EXTENDS Naturals, FiniteSets

CONSTANTS
    Versions,        \* releases, ordered as semantic versions
    Prereleases,     \* the Beta releases among them
    Bootstrap,       \* the version setup.sh seeds into both slots
    Sound,           \* releases whose local health trial succeeds
    FlakyTrials,     \* TRUE: the outcome of a trial is not a function of the release
    ConsoleInTrial,  \* TRUE: check, download and settings are used during a trial
    Faults,          \* fault kinds that occur: power, kill, io, stall
    Damageable,      \* stores whose files may be damaged
    None,            \* no file, no value
    Bad              \* a damaged file

ASSUME VersionAssumption ==
    /\ Versions \subseteq Nat
    /\ Prereleases \subseteq Versions
    /\ Sound \subseteq Versions
    /\ Bootstrap \in Versions
    /\ None \notin Versions
    /\ Bad \notin Versions
    /\ None # Bad

ASSUME MarkerAssumption ==
    None \notin [cand : {"a", "b"}, prev : {"a", "b"}, ver : Versions \cup {None}]

ASSUME FlagAssumption ==
    /\ FlakyTrials \in BOOLEAN
    /\ ConsoleInTrial \in BOOLEAN
    /\ Faults \subseteq {"power", "kill", "io", "stall"}
    /\ Damageable \subseteq {"a", "b", "stable"}

VARIABLES
    bin,      \* store -> version of the executable there, None or Bad
    meta,     \* store -> version in release.json, None or Bad
    digest,   \* slot -> version in bootstrap.sha256, or None
    active,   \* contents of the "active" marker
    pending,  \* contents of the "pending" marker, or None
    blocked,  \* versions in blocked.json
    channel,  \* settings.channel
    st,       \* PersistentState: memory and journal are written together
    agent,    \* the running agent
    helper,   \* the update helper
    sup       \* the boot supervisor

disk == <<bin, meta, digest, active, pending, blocked>>
vars == <<bin, meta, digest, active, pending, blocked, channel, st, agent, helper, sup>>

Slots == {"a", "b"}
Stores == Slots \cup {"stable"}
Other(s) == IF s = "a" THEN "b" ELSE "a"

Phases == {"Idle", "Checking", "Downloading", "Staged", "Installing", "RollingBack", "Failed"}

NoAgent == [up |-> FALSE, ver |-> None, env |-> FALSE, watch |-> FALSE, exiting |-> FALSE,
            op |-> "none", want |-> None, slot |-> None]
NoHelper == [pc |-> "idle", cand |-> None, prev |-> None, ver |-> None, self |-> None,
             env |-> FALSE]

-----------------------------------------------------------------------------
(* What the files say *)

\* The supervisor's runnable_binary: metadata first, then the bootstrap
\* digest, then the legacy fallback on the executable bit.
RunnableSlot(s) ==
    /\ bin[s] # None
    /\ IF meta[s] # None THEN meta[s] \in Versions \ blocked /\ bin[s] = meta[s]
       ELSE digest[s] # None => bin[s] = digest[s]

RunnableStable == meta["stable"] \in Versions \ blocked /\ bin["stable"] = meta["stable"]

\* The store the supervisor starts, given the active marker and the slot it excludes.
Choice(act, excluded) ==
    IF act \in Slots /\ RunnableSlot(act) THEN act
    ELSE IF excluded # "a" /\ RunnableSlot("a") THEN "a"
    ELSE IF excluded # "b" /\ RunnableSlot("b") THEN "b"
    ELSE IF RunnableStable THEN "stable"
    ELSE "none"

\* The agent's verify_active_slot, run by a binary of version self.
VerifyActive(s, self) ==
    IF meta[s] \in Versions THEN meta[s] = self /\ bin[s] = self
    ELSE IF digest[s] # None THEN digest[s] = self /\ bin[s] = self
    ELSE bin[s] = self

\* Variant: the rollback preflight only looks for an executable.
VerifyRollbackExecutable(s) == bin[s] # None

\* verify_rollback_slot, and the label it returns for the trial.
VerifyRollback(s) ==
    IF meta[s] \in Versions THEN bin[s] = meta[s]
    ELSE IF digest[s] # None THEN bin[s] = digest[s]
    ELSE bin[s] # None

RollbackLabel(s) ==
    IF meta[s] \in Versions THEN meta[s] ELSE IF digest[s] # None THEN digest[s] ELSE None

\* select_candidate: what a check offers, for the releases the channels publish.
SelectCandidate(ch, current, stable, beta) ==
    LET newer == {v \in {stable, beta} \ ({None} \cup blocked) : v > current}
    IN  IF ch = "stable"
        THEN IF stable # None /\ stable # current /\ stable \notin blocked
                /\ (stable > current \/ current \in Prereleases)
             THEN stable ELSE None
        ELSE IF newer = {} THEN None ELSE CHOOSE v \in newer : \A w \in newer : w <= v

\* Variant: an interrupted rollback is left to the next operation.
ReconciledInstallOnly(pend, act, s) ==
    IF pend = None /\ s.phase = "Installing"
    THEN [s EXCEPT !.phase = "Idle", !.staged = None, !.slot = None]
    ELSE s

\* reconcile_startup_state: the journal an agent starts from.
Reconciled(pend, act, s) ==
    LET dropped == [s EXCEPT !.phase = "Idle", !.staged = None, !.slot = None]
    IN  IF pend # None THEN s
        ELSE IF s.phase = "Installing"
             THEN [dropped EXCEPT !.available = IF s.slot # None /\ s.slot = act THEN None ELSE @]
        ELSE IF s.phase = "RollingBack" THEN dropped
        ELSE IF s.phase \in {"Checking", "Downloading"}
             THEN [s EXCEPT !.phase = IF s.staged # None THEN "Staged" ELSE "Idle"]
        ELSE s

\* A freshly started agent; env is ZTE_OTA_TRIAL, which starts the trial-state thread.
Started(v, env) == [NoAgent EXCEPT !.up = TRUE, !.ver = v, !.env = env, !.watch = env]

StartAgent(v, env, pend, act) ==
    /\ agent' = Started(v, env)
    /\ st' = Reconciled(pend, act, st)

-----------------------------------------------------------------------------
\* setup.sh has just seeded both slots and starts the supervisor.
Init ==
    /\ bin = [s \in Stores |-> IF s \in Slots THEN Bootstrap ELSE None]
    /\ meta = [s \in Stores |-> None]
    /\ digest = [s \in Slots |-> Bootstrap]
    /\ active = "a"
    /\ pending = None
    /\ blocked = {}
    /\ channel = "stable"
    /\ st = [phase |-> "Idle", available |-> None, staged |-> None, slot |-> None]
    /\ agent = NoAgent
    /\ helper = NoHelper
    /\ sup = [pc |-> "restore", excluded |-> None]

-----------------------------------------------------------------------------
(* The supervisor *)

\* Power comes back.
PowerOn ==
    /\ sup.pc = "off"
    /\ sup' = [pc |-> "restore", excluded |-> None]
    /\ UNCHANGED <<disk, channel, st, agent, helper>>

\* Variant: the pending marker only excludes the candidate.
SupRestoreExcludeOnly ==
    /\ sup.pc = "restore"
    /\ sup' = IF pending # None THEN [pc |-> "clear", excluded |-> pending.cand]
              ELSE [sup EXCEPT !.pc = "select"]
    /\ UNCHANGED <<disk, channel, st, agent, helper>>

\* A pending marker: exclude the candidate and reselect the previous slot.
SupRestore ==
    /\ sup.pc = "restore"
    /\ IF pending # None
       THEN /\ active' = IF RunnableSlot(pending.prev) THEN pending.prev ELSE active
            /\ sup' = [pc |-> "clear", excluded |-> pending.cand]
       ELSE /\ sup' = [sup EXCEPT !.pc = "select"]
            /\ UNCHANGED active
    /\ UNCHANGED <<bin, meta, digest, pending, blocked, channel, st, agent, helper>>

SupClear ==
    /\ sup.pc = "clear"
    /\ pending' = None
    /\ sup' = [sup EXCEPT !.pc = "select"]
    /\ UNCHANGED <<bin, meta, digest, active, blocked, channel, st, agent, helper>>

\* Choose, record the choice and exec it; exit 127 when nothing is runnable.
SupSelect ==
    /\ sup.pc = "select"
    /\ LET c == Choice(active, sup.excluded)
       IN  IF c = "none"
           THEN /\ sup' = [pc |-> "dead", excluded |-> None]
                /\ UNCHANGED <<active, agent, st>>
           ELSE /\ sup' = [pc |-> "done", excluded |-> None]
                /\ active' = IF c \in Slots THEN c ELSE "rescue"
                /\ StartAgent(bin[c], FALSE, pending, active')
    /\ UNCHANGED <<bin, meta, digest, pending, blocked, channel, helper>>

-----------------------------------------------------------------------------
(* The agent: one operation at a time *)

Idle == agent.up /\ agent.op = "none"

\* Install and rollback are refused while a trial is pending; nothing refuses the others.
ConsoleAllowed == ConsoleInTrial \/ pending = None

\* update_settings with a new channel.
ChangeChannel ==
    /\ Idle /\ ConsoleAllowed
    /\ channel' = IF channel = "stable" THEN "beta" ELSE "stable"
    /\ st' = [phase |-> "Idle", available |-> None, staged |-> None, slot |-> None]
    /\ UNCHANGED <<disk, agent, helper, sup>>

\* begin: take the operation flag and record the phase.
Begin(op, phase) ==
    /\ Idle /\ ConsoleAllowed
    /\ agent' = [agent EXCEPT !.op = op]
    /\ st' = [st EXCEPT !.phase = phase]
    /\ UNCHANGED <<disk, channel, helper, sup>>

BeginCheck == Begin("check", "Checking")
BeginDownload == Begin("download", "Downloading")
BeginInstall == Begin("install", "Installing")
BeginRollback == Begin("rollback", "RollingBack")

Unstarted == [agent EXCEPT !.op = "none", !.want = None, !.slot = None]

\* An operation returns an error; after the first rename only a failing file operation does.
FailOperation ==
    /\ agent.up
    /\ \/ agent.op \in {"check", "download", "fetch", "install", "rollback"}
       \/ agent.op \in {"binary", "metadata"} /\ "io" \in Faults
    /\ agent' = Unstarted
    /\ st' = [st EXCEPT !.phase = "Failed"]
    /\ UNCHANGED <<disk, channel, helper, sup>>

FinishCheck ==
    /\ agent.up /\ agent.op = "check"
    /\ \E stable \in (Versions \ Prereleases) \cup {None}, beta \in Prereleases \cup {None} :
         st' = [st EXCEPT !.available = SelectCandidate(channel, agent.ver, stable, beta),
                          !.phase = IF st.staged # None THEN "Staged" ELSE "Idle"]
    /\ agent' = Unstarted
    /\ UNCHANGED <<disk, channel, helper, sup>>

\* Variant: the transfer replaces the running slot.
FetchIntoActive ==
    /\ agent.up /\ agent.op = "download"
    /\ st.available # None
    /\ agent' = [agent EXCEPT !.op = "fetch", !.want = st.available,
                              !.slot = IF active \in Slots THEN active ELSE "a"]
    /\ UNCHANGED <<disk, channel, st, helper, sup>>

\* download_inner reads the offer and the target slot before the transfer.
Fetch ==
    /\ agent.up /\ agent.op = "download"
    /\ st.available # None
    /\ agent' = [agent EXCEPT !.op = "fetch", !.want = st.available,
                              !.slot = Other(IF active \in Slots THEN active ELSE "a")]
    /\ UNCHANGED <<disk, channel, st, helper, sup>>

\* The verified transfer is renamed over the slot, binary first.
RenameBinary ==
    /\ agent.up /\ agent.op = "fetch"
    /\ bin' = [bin EXCEPT ![agent.slot] = agent.want]
    /\ agent' = [agent EXCEPT !.op = "binary"]
    /\ UNCHANGED <<meta, digest, active, pending, blocked, channel, st, helper, sup>>

RenameMetadata ==
    /\ agent.up /\ agent.op = "binary"
    /\ meta' = [meta EXCEPT ![agent.slot] = agent.want]
    /\ agent' = [agent EXCEPT !.op = "metadata"]
    /\ UNCHANGED <<bin, digest, active, pending, blocked, channel, st, helper, sup>>

\* The bootstrap digest is retired and the release is staged.
FinishDownload ==
    /\ agent.up /\ agent.op = "metadata"
    /\ digest' = [digest EXCEPT ![agent.slot] = None]
    /\ st' = [st EXCEPT !.staged = agent.want, !.slot = agent.slot, !.phase = "Staged"]
    /\ agent' = Unstarted
    /\ UNCHANGED <<bin, meta, active, pending, blocked, channel, helper, sup>>

\* launch_helper: write the pending marker, then spawn the helper.
Launch(cand, prev, ver) ==
    /\ pending' = [cand |-> cand, prev |-> prev, ver |-> ver]
    /\ helper' = [pc |-> "start", cand |-> cand, prev |-> prev, ver |-> ver,
                  self |-> agent.ver, env |-> agent.env]
    /\ agent' = [agent EXCEPT !.op = "handoff"]
    /\ UNCHANGED <<bin, meta, digest, active, blocked, channel, st, sup>>

\* Variant: install trusts the journal about the staged binary.
InstallUnverified ==
    /\ agent.up /\ agent.op = "install"
    /\ helper.pc = "idle"
    /\ pending = None
    /\ active \in Slots
    /\ st.staged # None /\ st.slot # active
    /\ VerifyActive(active, agent.ver)
    /\ Launch(st.slot, active, st.staged)

\* Variant: install does not compare the staged slot with the active one.
InstallAnySlot ==
    /\ agent.up /\ agent.op = "install"
    /\ helper.pc = "idle"
    /\ pending = None
    /\ active \in Slots
    /\ st.staged # None
    /\ meta[st.slot] = st.staged /\ bin[st.slot] = st.staged
    /\ VerifyActive(active, agent.ver)
    /\ Launch(st.slot, active, st.staged)

\* install_inner: verify both slots, then hand over to a helper.
Install ==
    /\ agent.up /\ agent.op = "install"
    /\ helper.pc = "idle"
    /\ pending = None
    /\ active \in Slots
    /\ st.staged # None /\ st.slot # active
    /\ meta[st.slot] = st.staged /\ bin[st.slot] = st.staged
    /\ VerifyActive(active, agent.ver)
    /\ Launch(st.slot, active, st.staged)

\* rollback_inner: the inactive slot, unless it holds a staged update.
Rollback ==
    /\ agent.up /\ agent.op = "rollback"
    /\ helper.pc = "idle"
    /\ pending = None
    /\ active \in Slots
    /\ VerifyActive(active, agent.ver)
    /\ st.slot # Other(active)
    /\ VerifyRollback(Other(active))
    /\ Launch(Other(active), active, RollbackLabel(Other(active)))

\* The helper has written helper-ready: the operation succeeds and the exit thread starts.
HandoffDone ==
    /\ agent.up /\ agent.op = "handoff"
    /\ helper.pc = "wait"
    /\ agent' = [Unstarted EXCEPT !.exiting = TRUE]
    /\ UNCHANGED <<disk, channel, st, helper, sup>>

\* Variant: the exit thread is started whatever launch_helper returns.
HandoffFailedExits ==
    /\ agent.up /\ agent.op = "handoff"
    /\ helper' = NoHelper
    /\ pending' = None
    /\ agent' = [Unstarted EXCEPT !.exiting = TRUE]
    /\ st' = [st EXCEPT !.phase = "Failed"]
    /\ UNCHANGED <<bin, meta, digest, active, blocked, channel, sup>>

\* No confirmation within 3 s: kill the helper and withdraw the marker.
HandoffFailed ==
    /\ agent.up /\ agent.op = "handoff"
    /\ helper' = NoHelper
    /\ pending' = None
    /\ agent' = Unstarted
    /\ st' = [st EXCEPT !.phase = "Failed"]
    /\ UNCHANGED <<bin, meta, digest, active, blocked, channel, sup>>

\* process::exit 1.2 s after the answer, whatever else is running by then.
AgentExit ==
    /\ agent.up /\ agent.exiting
    /\ agent' = NoAgent
    /\ UNCHANGED <<disk, channel, st, helper, sup>>

\* The trial-state thread: once the marker is gone, forget the installed update.
WatchReset ==
    /\ agent.up /\ agent.watch
    /\ pending = None
    /\ agent' = [agent EXCEPT !.watch = FALSE]
    /\ st' = [phase |-> "Idle", available |-> None, staged |-> None, slot |-> None]
    /\ UNCHANGED <<disk, channel, helper, sup>>

\* It polls for a minute after the trial and gives up when no helper is left.
WatchGivesUp ==
    /\ agent.up /\ agent.watch
    /\ pending # None /\ helper.pc = "idle"
    /\ agent' = [agent EXCEPT !.watch = FALSE]
    /\ UNCHANGED <<disk, channel, st, helper, sup>>

-----------------------------------------------------------------------------
(* The helper *)

\* It starts and writes helper-ready.
HelperReady ==
    /\ helper.pc = "start"
    /\ helper' = [helper EXCEPT !.pc = "wait"]
    /\ UNCHANGED <<disk, channel, st, agent, sup>>

\* The agent is gone: start the candidate, or block it when it cannot start.
HelperSpawn ==
    /\ helper.pc = "wait"
    /\ ~agent.up
    /\ \/ /\ bin[helper.cand] \in Versions
          /\ StartAgent(bin[helper.cand], TRUE, pending, active)
          /\ helper' = [helper EXCEPT !.pc = "trial"]
          /\ UNCHANGED blocked
       \/ /\ bin[helper.cand] \notin Versions \/ "io" \in Faults
          /\ blocked' = blocked \cup {helper.ver}
          /\ helper' = [helper EXCEPT !.pc = "recover"]
          /\ UNCHANGED <<agent, st>>
    /\ UNCHANGED <<bin, meta, digest, active, pending, channel, sup>>

\* The agent did not exit within 15 s.
HelperTimesOut ==
    /\ "stall" \in Faults
    /\ helper.pc = "wait"
    /\ agent.up /\ agent.op # "handoff"
    /\ pending' = None
    /\ helper' = NoHelper
    /\ UNCHANGED <<bin, meta, digest, active, blocked, channel, st, agent, sup>>

\* health_trial: the listener stayed reachable and the process alive for 60 s.
TrialPass ==
    /\ helper.pc = "trial"
    /\ agent.up
    /\ FlakyTrials \/ agent.ver \in Sound
    /\ helper' = [helper EXCEPT !.pc = "activate"]
    /\ UNCHANGED <<disk, channel, st, agent, sup>>

\* It exited or did not listen: quarantine the release.
TrialFail ==
    /\ helper.pc = "trial"
    /\ FlakyTrials \/ ~agent.up \/ agent.ver \notin Sound
    /\ blocked' = blocked \cup {helper.ver}
    /\ helper' = [helper EXCEPT !.pc = "recover"]
    /\ UNCHANGED <<bin, meta, digest, active, pending, channel, st, agent, sup>>

\* Commit: move the active marker, then remove the pending marker.
CommitActive ==
    /\ helper.pc = "activate"
    /\ active' = helper.cand
    /\ helper' = [helper EXCEPT !.pc = "commit"]
    /\ UNCHANGED <<bin, meta, digest, pending, blocked, channel, st, agent, sup>>

CommitPending ==
    /\ helper.pc = "commit"
    /\ pending' = None
    /\ helper' = IF meta[helper.cand] \in Versions \ Prereleases
                 THEN [helper EXCEPT !.pc = "copyBinary"] ELSE NoHelper
    /\ UNCHANGED <<bin, meta, digest, active, blocked, channel, st, agent, sup>>

\* Any of the commit's writes fails.
CommitFails ==
    /\ "io" \in Faults
    /\ helper.pc \in {"activate", "commit"}
    /\ helper' = [helper EXCEPT !.pc = "recover"]
    /\ UNCHANGED <<disk, channel, st, agent, sup>>

\* Keep the committed Stable release as the rescue copy; a failed copy is ignored.
CopyBinary ==
    /\ helper.pc = "copyBinary"
    /\ \/ bin' = [bin EXCEPT !["stable"] = bin[helper.cand]]
       \/ "io" \in Faults /\ UNCHANGED bin
    /\ helper' = [helper EXCEPT !.pc = "copyMetadata"]
    /\ UNCHANGED <<meta, digest, active, pending, blocked, channel, st, agent, sup>>

CopyMetadata ==
    /\ helper.pc = "copyMetadata"
    /\ \/ meta' = [meta EXCEPT !["stable"] = meta[helper.cand]]
       \/ "io" \in Faults /\ UNCHANGED meta
    /\ helper' = NoHelper
    /\ UNCHANGED <<bin, digest, active, pending, blocked, channel, st, agent, sup>>

\* Variant: recovery goes straight to the restart and leaves the marker behind.
RecoverActiveOnly ==
    /\ helper.pc = "recover"
    /\ agent' = NoAgent
    /\ active' = helper.prev
    /\ helper' = [helper EXCEPT !.pc = "respawn"]
    /\ UNCHANGED <<bin, meta, digest, pending, blocked, channel, st, sup>>

\* recover: kill the candidate and restore the active marker, ...
RecoverActive ==
    /\ helper.pc = "recover"
    /\ agent' = NoAgent
    /\ \/ active' = helper.prev
       \/ "io" \in Faults /\ UNCHANGED active
    /\ helper' = [helper EXCEPT !.pc = "clear"]
    /\ UNCHANGED <<bin, meta, digest, pending, blocked, channel, st, sup>>

\* ... remove the pending marker, ...
RecoverPending ==
    /\ helper.pc = "clear"
    /\ \/ pending' = None
       \/ "io" \in Faults /\ UNCHANGED pending
    /\ helper' = [helper EXCEPT !.pc = "respawn"]
    /\ UNCHANGED <<bin, meta, digest, active, blocked, channel, st, agent, sup>>

\* ... and restart the previous agent, the Stable copy, or nothing.
RecoverSpawn ==
    /\ helper.pc = "respawn"
    /\ helper' = NoHelper
    /\ LET previous == VerifyActive(helper.prev, helper.self)
           stable == meta["stable"] \in Versions /\ bin["stable"] = meta["stable"]
       IN  \/ /\ previous
              /\ StartAgent(helper.self, helper.env, pending, active)
              /\ UNCHANGED active
           \/ /\ ~previous \/ "io" \in Faults
              /\ stable
              /\ active' = "rescue"
              /\ StartAgent(bin["stable"], helper.env, pending, active')
           \/ /\ (~previous /\ ~stable) \/ "io" \in Faults
              /\ UNCHANGED <<active, agent, st>>
    /\ UNCHANGED <<bin, meta, digest, pending, blocked, channel, sup>>

-----------------------------------------------------------------------------
(* Faults *)

\* Everything stops; every write above is a rename or an unlink, so files keep their value.
PowerLoss ==
    /\ "power" \in Faults
    /\ agent' = NoAgent
    /\ helper' = NoHelper
    /\ sup' = [pc |-> "off", excluded |-> None]
    /\ UNCHANGED <<disk, channel, st>>

KillAgent ==
    /\ "kill" \in Faults
    /\ agent.up
    /\ agent' = NoAgent
    /\ UNCHANGED <<disk, channel, st, helper, sup>>

KillHelper ==
    /\ "kill" \in Faults
    /\ helper.pc # "idle"
    /\ helper' = NoHelper
    /\ UNCHANGED <<disk, channel, st, agent, sup>>

\* Storage damage by a power failure: the file no longer holds what was written.
Corrupt(s) ==
    /\ sup.pc = "off"
    /\ \/ bin[s] \in Versions /\ bin' = [bin EXCEPT ![s] = Bad] /\ UNCHANGED meta
       \/ meta[s] \in Versions /\ meta' = [meta EXCEPT ![s] = Bad] /\ UNCHANGED bin
    /\ UNCHANGED <<digest, active, pending, blocked, channel, st, agent, helper, sup>>

-----------------------------------------------------------------------------
Supervisor == PowerOn \/ SupRestore \/ SupClear \/ SupSelect

AgentStep ==
    \/ FailOperation \/ FinishCheck \/ Fetch \/ RenameBinary \/ RenameMetadata
    \/ FinishDownload \/ Install \/ Rollback \/ HandoffDone \/ HandoffFailed

Console == ChangeChannel \/ BeginCheck \/ BeginDownload \/ BeginInstall \/ BeginRollback

HelperStep ==
    \/ HelperReady \/ HelperSpawn \/ TrialPass \/ TrialFail \/ CommitActive \/ CommitPending
    \/ CopyBinary \/ CopyMetadata \/ RecoverActive \/ RecoverPending \/ RecoverSpawn

Watch == WatchReset \/ WatchGivesUp

Fault ==
    \/ PowerLoss \/ KillAgent \/ KillHelper \/ HelperTimesOut \/ CommitFails
    \/ \E s \in Damageable : Corrupt(s)

Next == Supervisor \/ Console \/ AgentStep \/ AgentExit \/ Watch \/ HelperStep \/ Fault

Spec == Init /\ [][Next]_vars

\* The processes keep running, every operation has a timeout, and power comes
\* back; the console and the faults are not obliged to do anything.
Fairness ==
    /\ WF_vars(Supervisor)
    /\ WF_vars(AgentStep)
    /\ WF_vars(AgentExit)
    /\ WF_vars(Watch)
    /\ WF_vars(HelperStep)

FairSpec == Spec /\ Fairness

-----------------------------------------------------------------------------
(* Properties *)

\* What the supervisor would start if the power failed now.
NextBoot ==
    IF pending = None THEN Choice(active, None)
    ELSE Choice(IF RunnableSlot(pending.prev) THEN pending.prev ELSE active, pending.cand)

Ops == {"none", "check", "download", "fetch", "binary", "metadata", "install", "rollback",
        "handoff"}

HelperPcs == {"idle", "start", "wait", "trial", "activate", "commit", "copyBinary",
              "copyMetadata", "recover", "clear", "respawn"}

Journals == [phase : Phases, available : Versions \cup {None},
             staged : Versions \cup {None}, slot : Slots \cup {None}]

Agents == [up : BOOLEAN, ver : Versions \cup {None}, env : BOOLEAN, watch : BOOLEAN,
           exiting : BOOLEAN, op : Ops, want : Versions \cup {None}, slot : Slots \cup {None}]

Helpers == [pc : HelperPcs, cand : Slots \cup {None}, prev : Slots \cup {None},
            ver : Versions \cup {None}, self : Versions \cup {None}, env : BOOLEAN]

\* Every variable holds what the code can store there; in particular the active
\* marker never names anything but a slot or "rescue" (storage.rs write_active, write_rescue).
TypeOK ==
    /\ bin \in [Stores -> Versions \cup {None, Bad}]
    /\ meta \in [Stores -> Versions \cup {None, Bad}]
    /\ digest \in [Slots -> Versions \cup {None}]
    /\ active \in Slots \cup {"rescue"}
    /\ pending \in [cand : Slots, prev : Slots, ver : Versions \cup {None}] \cup {None}
    /\ blocked \subseteq Versions \cup {None}
    /\ channel \in {"stable", "beta"}
    /\ st \in Journals
    /\ agent \in Agents
    /\ helper \in Helpers
    /\ sup \in [pc : {"off", "restore", "clear", "select", "done", "dead"},
                excluded : Slots \cup {None}]

\* However a download, install, trial or rollback is interrupted, the next boot
\* finds an agent to start: the supervisor never ends with "no runnable agent slot".
AlwaysBootable == NextBoot # "none"

\* The agent only exits for an update while the helper that will start its
\* successor is alive and the marker that undoes the attempt is on disk.
HandoffKeepsHelper == agent.exiting => helper.pc # "idle" /\ pending # None

\* What is verified is what runs, before the commit and after it: the binary on
\* trial is the release whose metadata was verified and that will be quarantined if
\* it fails, even when a torn download left the slot mixed (preflight, helper_cli);
\* and once a trial is committed the release that runs is the one that boots next,
\* not one in a slot the supervisor will refuse.
RightReleaseRuns ==
    /\ helper.pc = "trial" /\ agent.up => agent.ver = helper.ver
    /\ pending = None /\ agent.up /\ active \in Slots => NextBoot = active /\ bin[active] = agent.ver

\* Launching never aims the trial at the slot it has to fall back to.
MarkerNamesTwoSlots == pending # None => pending.cand # pending.prev

\* Downloads land in the inactive slot (ota/mod.rs:3): no operation replaces the
\* binary the active marker names.
InactiveSlotOnly == [][\A s \in Slots : bin'[s] \in Versions /\ bin'[s] # bin[s] => s # active]_vars

\* Power failures eventually stop (they may strike any number of times before).
PowerStays == <>[][~PowerLoss]_vars

\* Every trial ends: the marker goes away by commit, recovery or the next boot.
TrialResolves == PowerStays => ((pending # None) ~> (pending = None))

\* Whatever happens to an update, some agent is running again afterwards.
AgentReturns == PowerStays => []<>agent.up

\* The console is left alone from some point on.
ConsoleQuiet == <>[][~Console]_vars

\* The console is "not permanently stuck in progress" (reconcile_startup_state):
\* left alone, it leaves every transient phase.
PhaseSettles ==
    PowerStays /\ ConsoleQuiet => ((st.phase \in {"Checking", "Downloading", "Installing", "RollingBack"})
                    ~> (st.phase \in {"Idle", "Staged", "Failed"}))

\* The refinement: the image is what the supervisor would start now, so the commit point of
\* the protocol is the removal of the pending marker.
Promise == INSTANCE OtaPromise WITH
    image  <- IF NextBoot = "none" THEN None ELSE bin[NextBoot],
    trial  <- IF pending = None THEN None ELSE pending.ver,
    passed <- helper.pc \in {"activate", "commit"}

\* The update protocol implements the promise: the next boot's image changes only by an
\* atomic commit of the release whose trial has just passed.
ImplementsPromise == Promise!Spec

=============================================================================
