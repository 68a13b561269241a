--------------------------- MODULE OtaUpdateProofs ---------------------------
(***************************************************************************)
(* What OtaUpdate guarantees for every set of releases, every subset of    *)
(* the faults and every damageable store, from the two assumptions on its  *)
(* constants.  One inductive invariant carries all the theorems; its parts *)
(* say who is alive when, what the files and the journal may hold, what a  *)
(* transfer in progress aims at, and what the exit window relies on.       *)
(***************************************************************************)
EXTENDS OtaUpdate, TLAPS

\* The supervisor runs alone, and a recovering helper has killed the agent.
ProcessesOK ==
    /\ sup.pc # "done" => ~agent.up /\ helper.pc = "idle"
    /\ ~agent.up => agent.op = "none" /\ ~agent.exiting
    /\ agent.up => agent.ver \in Versions
    /\ helper.pc \in {"clear", "respawn"} => ~agent.up

\* A helper knows its two slots and its own release, and owns a marker until it removes it.
HelperOK ==
    /\ helper.pc # "idle" =>
          helper.cand \in Slots /\ helper.prev \in Slots /\ helper.self \in Versions
    /\ helper.pc \in {"start", "wait", "trial", "activate", "commit", "recover", "clear"} =>
          pending # None

\* The files of a slot are never all missing, and the journal names its slot.
FilesOK ==
    /\ \A s \in Slots : digest[s] = None => meta[s] # None
    /\ st.staged # None => st.slot \in Slots

\* A transfer in progress knows its release and its slot.
TransferOK ==
    /\ agent.op \in {"fetch", "binary", "metadata"} =>
          agent.slot \in Slots /\ agent.want \in Versions
    /\ agent.op = "metadata" => meta[agent.slot] # None

\* With the console left alone during trials, an operation excludes a marker
\* and a transfer aims at the inactive slot.
ConsoleOK ==
    ~ConsoleInTrial =>
        /\ agent.op \notin {"none", "handoff"} => pending = None
        /\ agent.op = "fetch" => agent.slot # active

\* Unless processes are killed or stall, the exit window has a waiting helper.
HandoffOK ==
    Faults \cap {"kill", "stall"} = {} =>
        (agent.exiting => helper.pc = "wait" /\ agent.op # "handoff")

IInv ==
    /\ TypeOK
    /\ MarkerNamesTwoSlots
    /\ ProcessesOK
    /\ HelperOK
    /\ FilesOK
    /\ TransferOK
    /\ ConsoleOK
    /\ HandoffOK

-----------------------------------------------------------------------------
(* Operators *)

\* Reconciling a journal at start yields a journal that still names its slot.
LEMMA ReconciledJournal ==
    ASSUME NEW pend, NEW act, NEW s \in Journals,
           s.staged # None => s.slot \in Slots
    PROVE  /\ Reconciled(pend, act, s) \in Journals
           /\ Reconciled(pend, act, s).staged # None => Reconciled(pend, act, s).slot \in Slots
BY VersionAssumption DEF Reconciled, Journals, Phases

\* A check offers a release or nothing.
LEMMA SelectCandidateType ==
    ASSUME NEW ch, NEW current \in Versions,
           NEW stable \in Versions \cup {None}, NEW beta \in Versions \cup {None}
    PROVE  SelectCandidate(ch, current, stable, beta) \in Versions \cup {None}
<1> DEFINE newer == {v \in {stable, beta} \ ({None} \cup blocked) : v > current}
<1>1. CASE newer = {}
  BY <1>1 DEF SelectCandidate
<1>2. CASE newer # {}
  <2>1. newer \subseteq Nat
    BY VersionAssumption
  <2>2. \E v \in newer : \A w \in newer : w <= v
    <3>1. CASE stable \in newer /\ beta \in newer
      BY <2>1, <3>1
    <3>2. CASE ~(stable \in newer /\ beta \in newer)
      <4>1. PICK v \in newer : TRUE
        BY <1>2
      <4>2. \A w \in newer : w = v
        BY <3>2, <4>1
      <4> QED BY <2>1, <4>1, <4>2
    <3> QED BY <3>1, <3>2
  <2>3. (CHOOSE v \in newer : \A w \in newer : w <= v) \in newer
    BY <2>2
  <2>4. newer \subseteq Versions \cup {None}
    OBVIOUS
  <2> HIDE DEF newer
  <2> QED BY <2>3, <2>4 DEF SelectCandidate, newer
<1> QED BY <1>1, <1>2

\* The supervisor only picks a store that holds a release.
LEMMA ChoiceHoldsRelease ==
    ASSUME TypeOK, FilesOK, NEW act, NEW excluded, Choice(act, excluded) # "none"
    PROVE  /\ Choice(act, excluded) \in Stores
           /\ bin[Choice(act, excluded)] \in Versions
<1>1. ASSUME NEW s \in Slots, RunnableSlot(s)
      PROVE  bin[s] \in Versions
  BY <1>1, VersionAssumption DEF RunnableSlot, TypeOK, FilesOK, Slots, Stores
<1>2. RunnableStable => bin["stable"] \in Versions
  BY DEF RunnableStable
<1> QED BY <1>1, <1>2 DEF Choice, Slots, Stores

-----------------------------------------------------------------------------
(* Steps *)

\* Ending an operation yields a well-formed agent.
LEMMA UnstartedType == ASSUME agent \in Agents PROVE Unstarted \in Agents
BY DEF Agents, Unstarted, Ops

\* Handing over to a helper needs two different slots and an operation to end.
LEMMA LaunchStep ==
    ASSUME IInv, agent.up, agent.op \in {"install", "rollback"}, helper.pc = "idle",
           NEW cand \in Slots, NEW prev \in Slots, cand # prev,
           NEW ver \in Versions \cup {None},
           Launch(cand, prev, ver)
    PROVE  IInv'
<1>1. agent' \in Agents
  BY DEF Launch, IInv, TypeOK, Agents, Ops
<1>2. helper' \in Helpers
  BY DEF Launch, IInv, TypeOK, Agents, Helpers, HelperPcs
<1>3. /\ pending' \in [cand : Slots, prev : Slots, ver : Versions \cup {None}]
      /\ pending'.cand # pending'.prev
  BY DEF Launch
<1>4. pending' # None
  BY <1>3, MarkerAssumption DEF Slots
<1>5. TypeOK'
  BY <1>1, <1>2, <1>3 DEF Launch, IInv, TypeOK
<1>6. ProcessesOK' /\ HelperOK' /\ HandoffOK'
  BY <1>4 DEF Launch, IInv, TypeOK, Agents, ProcessesOK, HelperOK, HandoffOK
<1>7. MarkerNamesTwoSlots' /\ FilesOK' /\ TransferOK' /\ ConsoleOK'
  BY <1>3
     DEF Launch, IInv, TypeOK, Agents, MarkerNamesTwoSlots, FilesOK, TransferOK, ConsoleOK
<1> QED BY <1>5, <1>6, <1>7 DEF IInv

\* A freshly started agent has no operation, no exit and no transfer.
LEMMA StartedAgent ==
    ASSUME NEW v \in Versions, NEW env \in BOOLEAN
    PROVE  /\ Started(v, env) \in Agents
           /\ Started(v, env).up /\ Started(v, env).ver = v
           /\ Started(v, env).op = "none" /\ ~Started(v, env).exiting
BY DEF Started, NoAgent, Agents, Ops

\* Starting an agent on a release preserves the parts about agents and the journal.
LEMMA StartAgentStep ==
    ASSUME IInv, NEW v \in Versions, NEW env \in BOOLEAN, NEW pend, NEW act,
           StartAgent(v, env, pend, act)
    PROVE  /\ st' \in Journals
           /\ st'.staged # None => st'.slot \in Slots
           /\ agent' \in Agents
           /\ agent'.up /\ agent'.ver \in Versions
           /\ agent'.op = "none" /\ ~agent'.exiting
<1>1. st \in Journals /\ (st.staged # None => st.slot \in Slots)
  BY DEF IInv, TypeOK, FilesOK
<1> QED BY <1>1, ReconciledJournal, StartedAgent DEF StartAgent

\* The supervisor restarting preserves the invariant.
LEMMA PowerOnStep == ASSUME IInv, PowerOn PROVE IInv'
BY VersionAssumption, FlagAssumption
   DEF PowerOn, IInv, TypeOK, MarkerNamesTwoSlots, ProcessesOK, HelperOK, FilesOK,
       TransferOK, ConsoleOK, HandoffOK, Agents, Helpers, Journals, disk, NoAgent, NoHelper,
       Ops, HelperPcs, Slots, Stores, Phases

\* Reselecting the previous slot (zte-agent-supervisor.sh, pending marker) preserves it.
LEMMA SupRestoreStep == ASSUME IInv, SupRestore PROVE IInv'
BY VersionAssumption, FlagAssumption
   DEF SupRestore, IInv, TypeOK, MarkerNamesTwoSlots, ProcessesOK, HelperOK, FilesOK,
       TransferOK, ConsoleOK, HandoffOK, Agents, Helpers, Journals, disk, NoAgent, NoHelper,
       Ops, HelperPcs, Slots, Stores, Phases

\* Removing the marker at boot preserves it: no helper is alive to own it.
LEMMA SupClearStep == ASSUME IInv, SupClear PROVE IInv'
BY VersionAssumption, FlagAssumption
   DEF SupClear, IInv, TypeOK, MarkerNamesTwoSlots, ProcessesOK, HelperOK, FilesOK,
       TransferOK, ConsoleOK, HandoffOK, Agents, Helpers, Journals, disk, NoAgent, NoHelper,
       Ops, HelperPcs, Slots, Stores, Phases

\* Selecting and starting an agent at boot preserves it: the chosen store holds a release.
LEMMA SupSelectStep == ASSUME IInv, SupSelect PROVE IInv'
<1> DEFINE c == Choice(active, sup.excluded)
<1>1. helper.pc = "idle" /\ agent.op = "none" /\ ~agent.exiting /\ ~agent.up
  BY DEF SupSelect, IInv, ProcessesOK
<1>2. CASE c = "none"
  BY <1>1, <1>2
     DEF SupSelect, IInv, TypeOK, MarkerNamesTwoSlots, ProcessesOK, HelperOK, FilesOK,
         TransferOK, ConsoleOK, HandoffOK
<1>3. CASE c # "none"
  <2>1. bin[c] \in Versions
    BY <1>3, ChoiceHoldsRelease DEF IInv
  <2>2. StartAgent(bin[c], FALSE, pending, active')
    BY <1>3 DEF SupSelect
  <2>3. /\ st' \in Journals
        /\ st'.staged # None => st'.slot \in Slots
        /\ agent' \in Agents
        /\ agent'.up /\ agent'.ver \in Versions
        /\ agent'.op = "none" /\ ~agent'.exiting
    BY <2>1, <2>2, StartAgentStep
  <2>4. active' \in Slots \cup {"rescue"} /\ sup' = [pc |-> "done", excluded |-> None]
    BY <1>3 DEF SupSelect
  <2>5. UNCHANGED <<bin, meta, digest, pending, blocked, channel, helper>>
    BY DEF SupSelect
  <2> HIDE DEF c
  <2> QED
    BY <1>1, <2>3, <2>4, <2>5
       DEF IInv, TypeOK, MarkerNamesTwoSlots, ProcessesOK, HelperOK, FilesOK, TransferOK,
           ConsoleOK, HandoffOK
<1> QED BY <1>2, <1>3

\* OtaManager::update_settings preserves it.
LEMMA ChangeChannelStep == ASSUME IInv, ChangeChannel PROVE IInv'
BY VersionAssumption, FlagAssumption
   DEF ChangeChannel, IInv, TypeOK, MarkerNamesTwoSlots, ProcessesOK, HelperOK, FilesOK,
       TransferOK, ConsoleOK, HandoffOK, Agents, Helpers, Journals, disk, NoAgent, NoHelper,
       Ops, HelperPcs, Slots, Stores, Phases

\* OtaManager::begin preserves it: with the console left alone in trials, no marker is pending.
LEMMA BeginStep ==
    ASSUME IInv, NEW op \in {"check", "download", "install", "rollback"}, NEW phase \in Phases,
           Begin(op, phase)
    PROVE  IInv'
<1>1. agent' \in Agents
  BY VersionAssumption DEF Begin, Idle, IInv, TypeOK, Agents, Ops
<1>2. st' \in Journals
  BY VersionAssumption DEF Begin, Idle, IInv, TypeOK, Journals, Phases
<1>3. TypeOK'
  BY <1>1, <1>2, VersionAssumption DEF Begin, Idle, disk, IInv, TypeOK, Slots, Stores
<1>4. ProcessesOK' /\ HelperOK' /\ HandoffOK'
  BY DEF Begin, Idle, disk, IInv, TypeOK, Agents, ProcessesOK, HelperOK, HandoffOK
<1>5. MarkerNamesTwoSlots' /\ FilesOK' /\ TransferOK'
  BY VersionAssumption
     DEF Begin, Idle, disk, IInv, TypeOK, Agents, Journals, MarkerNamesTwoSlots, FilesOK,
         TransferOK, Slots, Stores
<1>6. ConsoleOK'
  BY DEF Begin, Idle, disk, IInv, TypeOK, Agents, ConsoleOK, ConsoleAllowed, Slots
<1> QED BY <1>3, <1>4, <1>5, <1>6 DEF IInv

\* OtaManager::fail preserves it.
LEMMA FailOperationStep == ASSUME IInv, FailOperation PROVE IInv'
<1>1. agent' \in Agents
  BY UnstartedType, VersionAssumption
     DEF FailOperation, Unstarted, IInv, TypeOK, Agents, Ops
<1>2. st' \in Journals
  BY VersionAssumption DEF FailOperation, Unstarted, IInv, TypeOK, Journals, Phases
<1>3. TypeOK'
  BY <1>1, <1>2, VersionAssumption
     DEF FailOperation, Unstarted, disk, IInv, TypeOK, Slots, Stores
<1>4. ProcessesOK' /\ HelperOK' /\ HandoffOK'
  BY DEF FailOperation, Unstarted, disk, IInv, TypeOK, Agents, ProcessesOK, HelperOK,
         HandoffOK
<1>5. MarkerNamesTwoSlots' /\ FilesOK' /\ TransferOK'
  BY VersionAssumption
     DEF FailOperation, Unstarted, disk, IInv, TypeOK, Agents, Journals,
         MarkerNamesTwoSlots, FilesOK, TransferOK, Slots, Stores
<1>6. ConsoleOK'
  BY DEF FailOperation, Unstarted, disk, IInv, TypeOK, Agents, ConsoleOK, ConsoleAllowed,
         Slots
<1> QED BY <1>3, <1>4, <1>5, <1>6 DEF IInv

\* A finished check preserves it: the offer is a release or nothing.
LEMMA FinishCheckStep == ASSUME IInv, FinishCheck PROVE IInv'
<1>1. agent' \in Agents
  BY UnstartedType, VersionAssumption DEF FinishCheck, Unstarted, IInv, TypeOK, Agents, Ops
<1>2. st' \in Journals
  <2>1. PICK stable \in (Versions \ Prereleases) \cup {None}, beta \in Prereleases \cup {None} :
           st' = [st EXCEPT !.available = SelectCandidate(channel, agent.ver, stable, beta),
                            !.phase = IF st.staged # None THEN "Staged" ELSE "Idle"]
    BY DEF FinishCheck
  <2>2. SelectCandidate(channel, agent.ver, stable, beta) \in Versions \cup {None}
    BY SelectCandidateType, VersionAssumption DEF FinishCheck, IInv, ProcessesOK
  <2> QED BY <2>1, <2>2 DEF IInv, TypeOK, Journals, Phases
<1>3. TypeOK'
  BY <1>1, <1>2, VersionAssumption
     DEF FinishCheck, Unstarted, disk, IInv, TypeOK, Slots, Stores
<1>4. ProcessesOK' /\ HelperOK' /\ HandoffOK'
  BY DEF FinishCheck, Unstarted, disk, IInv, TypeOK, Agents, ProcessesOK, HelperOK,
         HandoffOK
<1>5. MarkerNamesTwoSlots' /\ FilesOK' /\ TransferOK'
  BY VersionAssumption
     DEF FinishCheck, Unstarted, disk, IInv, TypeOK, Agents, Journals, MarkerNamesTwoSlots,
         FilesOK, TransferOK, Slots, Stores
<1>6. ConsoleOK'
  BY DEF FinishCheck, Unstarted, disk, IInv, TypeOK, Agents, ConsoleOK, ConsoleAllowed,
         Slots
<1> QED BY <1>3, <1>4, <1>5, <1>6 DEF IInv

\* download_inner choosing the inactive slot preserves it.
LEMMA FetchStep == ASSUME IInv, Fetch PROVE IInv'
<1>1. agent' \in Agents
  BY VersionAssumption DEF Fetch, Other, Slots, IInv, TypeOK, Agents, Ops, Journals
<1>2. st' \in Journals
  BY VersionAssumption DEF Fetch, Other, Slots, IInv, TypeOK, Journals, Phases
<1>3. TypeOK'
  BY <1>1, <1>2, VersionAssumption DEF Fetch, Other, Slots, disk, IInv, TypeOK, Stores
<1>4. ProcessesOK' /\ HelperOK' /\ HandoffOK'
  BY DEF Fetch, Other, Slots, disk, IInv, TypeOK, Agents, ProcessesOK, HelperOK, HandoffOK
<1>5. MarkerNamesTwoSlots' /\ FilesOK' /\ TransferOK'
  BY VersionAssumption
     DEF Fetch, Other, Slots, disk, IInv, TypeOK, Agents, Journals, MarkerNamesTwoSlots,
         FilesOK, TransferOK, Stores
<1>6. ConsoleOK'
  BY DEF Fetch, Other, Slots, disk, IInv, TypeOK, Agents, ConsoleOK, ConsoleAllowed
<1> QED BY <1>3, <1>4, <1>5, <1>6 DEF IInv

\* Renaming the transferred binary over the slot preserves it.
LEMMA RenameBinaryStep == ASSUME IInv, RenameBinary PROVE IInv'
<1>1. agent' \in Agents
  BY VersionAssumption DEF RenameBinary, Slots, Stores, IInv, TypeOK, Agents, Ops
<1>2. st' \in Journals
  BY VersionAssumption DEF RenameBinary, Slots, Stores, IInv, TypeOK, Journals, Phases
<1>3. TypeOK'
  BY <1>1, <1>2, VersionAssumption
     DEF RenameBinary, Slots, Stores, disk, IInv, TypeOK, TransferOK
<1>4. ProcessesOK' /\ HelperOK' /\ HandoffOK'
  BY DEF RenameBinary, Slots, Stores, disk, IInv, TypeOK, Agents, ProcessesOK, HelperOK,
         HandoffOK
<1>5. MarkerNamesTwoSlots' /\ FilesOK' /\ TransferOK'
  BY VersionAssumption
     DEF RenameBinary, Slots, Stores, disk, IInv, TypeOK, Agents, Journals,
         MarkerNamesTwoSlots, FilesOK, TransferOK
<1>6. ConsoleOK'
  BY DEF RenameBinary, Slots, Stores, disk, IInv, TypeOK, Agents, ConsoleOK, ConsoleAllowed
<1> QED BY <1>3, <1>4, <1>5, <1>6 DEF IInv

\* Renaming release.json over the slot preserves it.
LEMMA RenameMetadataStep == ASSUME IInv, RenameMetadata PROVE IInv'
<1>1. agent' \in Agents
  BY VersionAssumption DEF RenameMetadata, Slots, Stores, IInv, TypeOK, Agents, Ops
<1>2. st' \in Journals
  BY VersionAssumption DEF RenameMetadata, Slots, Stores, IInv, TypeOK, Journals, Phases
<1>3. TypeOK'
  BY <1>1, <1>2, VersionAssumption
     DEF RenameMetadata, Slots, Stores, disk, IInv, TypeOK, TransferOK
<1>4. ProcessesOK' /\ HelperOK' /\ HandoffOK'
  BY DEF RenameMetadata, Slots, Stores, disk, IInv, TypeOK, Agents, ProcessesOK, HelperOK,
         HandoffOK
<1>5. MarkerNamesTwoSlots' /\ FilesOK' /\ TransferOK'
  BY VersionAssumption
     DEF RenameMetadata, Slots, Stores, disk, IInv, TypeOK, Agents, Journals,
         MarkerNamesTwoSlots, FilesOK, TransferOK
<1>6. ConsoleOK'
  BY DEF RenameMetadata, Slots, Stores, disk, IInv, TypeOK, Agents, ConsoleOK,
         ConsoleAllowed
<1> QED BY <1>3, <1>4, <1>5, <1>6 DEF IInv

\* Retiring the bootstrap digest and staging preserves it: release.json is already there.
LEMMA FinishDownloadStep == ASSUME IInv, FinishDownload PROVE IInv'
<1>1. agent' \in Agents
  BY UnstartedType, VersionAssumption
     DEF FinishDownload, Unstarted, IInv, TypeOK, Agents, Ops
<1>2. st' \in Journals
  BY VersionAssumption
     DEF FinishDownload, Unstarted, IInv, TypeOK, TransferOK, Journals, Phases
<1>3. TypeOK'
  BY <1>1, <1>2, VersionAssumption
     DEF FinishDownload, Unstarted, disk, IInv, TypeOK, Slots, Stores
<1>4. ProcessesOK' /\ HelperOK' /\ HandoffOK'
  BY DEF FinishDownload, Unstarted, disk, IInv, TypeOK, Agents, ProcessesOK, HelperOK,
         HandoffOK
<1>5. MarkerNamesTwoSlots' /\ FilesOK' /\ TransferOK'
  BY VersionAssumption
     DEF FinishDownload, Unstarted, disk, IInv, TypeOK, Agents, Journals,
         MarkerNamesTwoSlots, FilesOK, TransferOK, Slots, Stores
<1>6. ConsoleOK'
  BY DEF FinishDownload, Unstarted, disk, IInv, TypeOK, Agents, ConsoleOK, ConsoleAllowed,
         Slots
<1> QED BY <1>3, <1>4, <1>5, <1>6 DEF IInv

\* install_inner preserves it: the journal's slot is a slot and not the active one.
LEMMA InstallStep == ASSUME IInv, Install PROVE IInv'
<1>1. st.slot \in Slots /\ active \in Slots /\ st.staged \in Versions \cup {None}
  BY DEF Install, IInv, TypeOK, FilesOK, Journals
<1> QED BY <1>1, LaunchStep DEF Install

\* rollback_inner preserves it: the other slot is not the active one.
LEMMA RollbackStep == ASSUME IInv, Rollback PROVE IInv'
<1>1. Other(active) \in Slots /\ Other(active) # active
  BY DEF Rollback, Other, Slots
<1>2. RollbackLabel(Other(active)) \in Versions \cup {None}
  BY <1>1 DEF RollbackLabel, IInv, TypeOK, Stores
<1> QED BY <1>1, <1>2, LaunchStep DEF Rollback

\* launch_helper seeing helper-ready preserves it: the helper is waiting.
LEMMA HandoffDoneStep == ASSUME IInv, HandoffDone PROVE IInv'
<1>1. agent' \in Agents
  BY UnstartedType, VersionAssumption DEF HandoffDone, Unstarted, IInv, TypeOK, Agents, Ops
<1>2. st' \in Journals
  BY VersionAssumption DEF HandoffDone, Unstarted, IInv, TypeOK, Journals, Phases
<1>3. TypeOK'
  BY <1>1, <1>2, VersionAssumption
     DEF HandoffDone, Unstarted, disk, IInv, TypeOK, Slots, Stores
<1>4. ProcessesOK' /\ HelperOK' /\ HandoffOK'
  BY DEF HandoffDone, Unstarted, disk, IInv, TypeOK, Agents, ProcessesOK, HelperOK,
         HandoffOK
<1>5. MarkerNamesTwoSlots' /\ FilesOK' /\ TransferOK'
  BY VersionAssumption
     DEF HandoffDone, Unstarted, disk, IInv, TypeOK, Agents, Journals, MarkerNamesTwoSlots,
         FilesOK, TransferOK, Slots, Stores
<1>6. ConsoleOK'
  BY DEF HandoffDone, Unstarted, disk, IInv, TypeOK, Agents, ConsoleOK, ConsoleAllowed,
         Slots
<1> QED BY <1>3, <1>4, <1>5, <1>6 DEF IInv

\* clear_failed_launch preserves it: marker and helper go together.
LEMMA HandoffFailedStep == ASSUME IInv, HandoffFailed PROVE IInv'
<1>1. agent' \in Agents
  BY UnstartedType, VersionAssumption
     DEF HandoffFailed, Unstarted, NoHelper, Helpers, HelperPcs, IInv, TypeOK, Agents, Ops
<1>2. st' \in Journals
  BY VersionAssumption
     DEF HandoffFailed, Unstarted, NoHelper, Helpers, HelperPcs, IInv, TypeOK, Journals,
         Phases
<1>3. TypeOK'
  BY <1>1, <1>2, VersionAssumption
     DEF HandoffFailed, Unstarted, NoHelper, Helpers, HelperPcs, disk, IInv, TypeOK, Slots,
         Stores
<1>4. ProcessesOK' /\ HelperOK' /\ HandoffOK'
  BY DEF HandoffFailed, Unstarted, NoHelper, Helpers, HelperPcs, disk, IInv, TypeOK, Agents,
         ProcessesOK, HelperOK, HandoffOK
<1>5. MarkerNamesTwoSlots' /\ FilesOK' /\ TransferOK'
  BY VersionAssumption
     DEF HandoffFailed, Unstarted, NoHelper, Helpers, HelperPcs, disk, IInv, TypeOK, Agents,
         Journals, MarkerNamesTwoSlots, FilesOK, TransferOK, Slots, Stores
<1>6. ConsoleOK'
  BY DEF HandoffFailed, Unstarted, NoHelper, Helpers, HelperPcs, disk, IInv, TypeOK, Agents,
         ConsoleOK, ConsoleAllowed, Slots
<1> QED BY <1>3, <1>4, <1>5, <1>6 DEF IInv

\* The exit of the agent preserves it.
LEMMA AgentExitStep == ASSUME IInv, AgentExit PROVE IInv'
BY VersionAssumption, FlagAssumption
   DEF AgentExit, IInv, TypeOK, MarkerNamesTwoSlots, ProcessesOK, HelperOK, FilesOK,
       TransferOK, ConsoleOK, HandoffOK, Agents, Helpers, Journals, disk, NoAgent, NoHelper,
       Ops, HelperPcs, Slots, Stores, Phases

\* The trial-state thread resetting the journal preserves it.
LEMMA WatchResetStep == ASSUME IInv, WatchReset PROVE IInv'
<1>1. agent' \in Agents
  BY VersionAssumption DEF WatchReset, Phases, IInv, TypeOK, Agents, Ops
<1>2. st' \in Journals
  BY VersionAssumption DEF WatchReset, Phases, IInv, TypeOK, Journals
<1>3. TypeOK'
  BY <1>1, <1>2, VersionAssumption DEF WatchReset, Phases, disk, IInv, TypeOK, Slots, Stores
<1>4. ProcessesOK' /\ HelperOK' /\ HandoffOK'
  BY DEF WatchReset, Phases, disk, IInv, TypeOK, Agents, ProcessesOK, HelperOK, HandoffOK
<1>5. MarkerNamesTwoSlots' /\ FilesOK' /\ TransferOK'
  BY VersionAssumption
     DEF WatchReset, Phases, disk, IInv, TypeOK, Agents, Journals, MarkerNamesTwoSlots,
         FilesOK, TransferOK, Slots, Stores
<1>6. ConsoleOK'
  BY DEF WatchReset, Phases, disk, IInv, TypeOK, Agents, ConsoleOK, ConsoleAllowed, Slots
<1> QED BY <1>3, <1>4, <1>5, <1>6 DEF IInv

\* The trial-state thread giving up preserves it.
LEMMA WatchGivesUpStep == ASSUME IInv, WatchGivesUp PROVE IInv'
<1>1. agent' \in Agents
  BY VersionAssumption DEF WatchGivesUp, Phases, IInv, TypeOK, Agents, Ops
<1>2. st' \in Journals
  BY VersionAssumption DEF WatchGivesUp, Phases, IInv, TypeOK, Journals
<1>3. TypeOK'
  BY <1>1, <1>2, VersionAssumption
     DEF WatchGivesUp, Phases, disk, IInv, TypeOK, Slots, Stores
<1>4. ProcessesOK' /\ HelperOK' /\ HandoffOK'
  BY DEF WatchGivesUp, Phases, disk, IInv, TypeOK, Agents, ProcessesOK, HelperOK, HandoffOK
<1>5. MarkerNamesTwoSlots' /\ FilesOK' /\ TransferOK'
  BY VersionAssumption
     DEF WatchGivesUp, Phases, disk, IInv, TypeOK, Agents, Journals, MarkerNamesTwoSlots,
         FilesOK, TransferOK, Slots, Stores
<1>6. ConsoleOK'
  BY DEF WatchGivesUp, Phases, disk, IInv, TypeOK, Agents, ConsoleOK, ConsoleAllowed, Slots
<1> QED BY <1>3, <1>4, <1>5, <1>6 DEF IInv

\* helper_cli writing helper-ready preserves it.
LEMMA HelperReadyStep == ASSUME IInv, HelperReady PROVE IInv'
BY VersionAssumption, FlagAssumption
   DEF HelperReady, IInv, TypeOK, MarkerNamesTwoSlots, ProcessesOK, HelperOK, FilesOK,
       TransferOK, ConsoleOK, HandoffOK, Agents, Helpers, Journals, disk, NoAgent, NoHelper,
       Ops, HelperPcs, Slots, Stores, Phases

\* helper_cli starting the candidate preserves it: the old agent is gone.
LEMMA HelperSpawnStep == ASSUME IInv, HelperSpawn PROVE IInv'
<1>1. agent.op = "none" /\ ~agent.exiting /\ ~agent.up /\ sup.pc = "done"
  BY DEF HelperSpawn, IInv, ProcessesOK
<1>2. CASE StartAgent(bin[helper.cand], TRUE, pending, active) /\ bin[helper.cand] \in Versions
           /\ helper' = [helper EXCEPT !.pc = "trial"] /\ blocked' = blocked
  <2>1. /\ st' \in Journals
        /\ st'.staged # None => st'.slot \in Slots
        /\ agent' \in Agents
        /\ agent'.up /\ agent'.ver \in Versions
        /\ agent'.op = "none" /\ ~agent'.exiting
    BY <1>2, StartAgentStep
  <2>2. helper' \in Helpers
    BY <1>2 DEF IInv, TypeOK, Helpers, HelperPcs
  <2> QED
    BY <1>1, <1>2, <2>1, <2>2
       DEF HelperSpawn, IInv, TypeOK, MarkerNamesTwoSlots, ProcessesOK, HelperOK, FilesOK,
           TransferOK, ConsoleOK, HandoffOK, Helpers
<1>3. CASE helper' = [helper EXCEPT !.pc = "recover"] /\ UNCHANGED <<agent, st>>
           /\ blocked' = blocked \cup {helper.ver}
  <2>1. helper' \in Helpers
    BY <1>3 DEF IInv, TypeOK, Helpers, HelperPcs
  <2> QED
    BY <1>1, <1>3, <2>1
       DEF HelperSpawn, IInv, TypeOK, MarkerNamesTwoSlots, ProcessesOK, HelperOK, FilesOK,
           TransferOK, ConsoleOK, HandoffOK, Helpers
<1> QED BY <1>2, <1>3 DEF HelperSpawn

\* A passed health_trial preserves it.
LEMMA TrialPassStep == ASSUME IInv, TrialPass PROVE IInv'
BY VersionAssumption, FlagAssumption
   DEF TrialPass, IInv, TypeOK, MarkerNamesTwoSlots, ProcessesOK, HelperOK, FilesOK,
       TransferOK, ConsoleOK, HandoffOK, Agents, Helpers, Journals, disk, NoAgent, NoHelper,
       Ops, HelperPcs, Slots, Stores, Phases

\* A failed health_trial preserves it.
LEMMA TrialFailStep == ASSUME IInv, TrialFail PROVE IInv'
BY VersionAssumption, FlagAssumption
   DEF TrialFail, IInv, TypeOK, MarkerNamesTwoSlots, ProcessesOK, HelperOK, FilesOK,
       TransferOK, ConsoleOK, HandoffOK, Agents, Helpers, Journals, disk, NoAgent, NoHelper,
       Ops, HelperPcs, Slots, Stores, Phases

\* Moving the active marker preserves it: no operation runs beside the marker.
LEMMA CommitActiveStep == ASSUME IInv, CommitActive PROVE IInv'
BY VersionAssumption, FlagAssumption
   DEF CommitActive, IInv, TypeOK, MarkerNamesTwoSlots, ProcessesOK, HelperOK, FilesOK,
       TransferOK, ConsoleOK, HandoffOK, Agents, Helpers, Journals, disk, NoAgent, NoHelper,
       Ops, HelperPcs, Slots, Stores, Phases

\* Removing the marker at the commit preserves it.
LEMMA CommitPendingStep == ASSUME IInv, CommitPending PROVE IInv'
BY VersionAssumption, FlagAssumption
   DEF CommitPending, IInv, TypeOK, MarkerNamesTwoSlots, ProcessesOK, HelperOK, FilesOK,
       TransferOK, ConsoleOK, HandoffOK, Agents, Helpers, Journals, disk, NoAgent, NoHelper,
       Ops, HelperPcs, Slots, Stores, Phases

\* Copying the committed binary to the Stable store preserves it.
LEMMA CopyBinaryStep == ASSUME IInv, CopyBinary PROVE IInv'
BY VersionAssumption, FlagAssumption
   DEF CopyBinary, IInv, TypeOK, MarkerNamesTwoSlots, ProcessesOK, HelperOK, FilesOK,
       TransferOK, ConsoleOK, HandoffOK, Agents, Helpers, Journals, disk, NoAgent, NoHelper,
       Ops, HelperPcs, Slots, Stores, Phases

\* Copying its metadata preserves it.
LEMMA CopyMetadataStep == ASSUME IInv, CopyMetadata PROVE IInv'
BY VersionAssumption, FlagAssumption
   DEF CopyMetadata, IInv, TypeOK, MarkerNamesTwoSlots, ProcessesOK, HelperOK, FilesOK,
       TransferOK, ConsoleOK, HandoffOK, Agents, Helpers, Journals, disk, NoAgent, NoHelper,
       Ops, HelperPcs, Slots, Stores, Phases

\* recover killing the candidate and restoring the active marker preserves it.
LEMMA RecoverActiveStep == ASSUME IInv, RecoverActive PROVE IInv'
BY VersionAssumption, FlagAssumption
   DEF RecoverActive, IInv, TypeOK, MarkerNamesTwoSlots, ProcessesOK, HelperOK, FilesOK,
       TransferOK, ConsoleOK, HandoffOK, Agents, Helpers, Journals, disk, NoAgent, NoHelper,
       Ops, HelperPcs, Slots, Stores, Phases

\* recover removing the marker preserves it.
LEMMA RecoverPendingStep == ASSUME IInv, RecoverPending PROVE IInv'
BY VersionAssumption, FlagAssumption
   DEF RecoverPending, IInv, TypeOK, MarkerNamesTwoSlots, ProcessesOK, HelperOK, FilesOK,
       TransferOK, ConsoleOK, HandoffOK, Agents, Helpers, Journals, disk, NoAgent, NoHelper,
       Ops, HelperPcs, Slots, Stores, Phases

\* recover restarting an agent preserves it: the release it starts is a release.
LEMMA RecoverSpawnStep == ASSUME IInv, RecoverSpawn PROVE IInv'
<1>1. agent.op = "none" /\ ~agent.exiting /\ ~agent.up /\ sup.pc = "done"
  BY DEF RecoverSpawn, IInv, ProcessesOK
<1>2. helper' = NoHelper /\ NoHelper \in Helpers
      /\ UNCHANGED <<bin, meta, digest, pending, blocked, channel, sup>>
  BY DEF RecoverSpawn, NoHelper, Helpers, HelperPcs
<1>3. active' \in Slots \cup {"rescue"}
  BY DEF RecoverSpawn, IInv, TypeOK
<1>4. CASE \E v \in Versions : StartAgent(v, helper.env, pending, active')
  <2>1. /\ st' \in Journals
        /\ st'.staged # None => st'.slot \in Slots
        /\ agent' \in Agents
        /\ agent'.up /\ agent'.ver \in Versions
        /\ agent'.op = "none" /\ ~agent'.exiting
    <3>1. helper.env \in BOOLEAN
      BY DEF IInv, TypeOK, Helpers
    <3> QED BY <1>4, <3>1, StartAgentStep
  <2> QED
    BY <1>1, <1>2, <1>3, <2>1
       DEF IInv, TypeOK, MarkerNamesTwoSlots, ProcessesOK, HelperOK, FilesOK, TransferOK,
           ConsoleOK, HandoffOK, NoHelper
<1>5. CASE UNCHANGED <<active, agent, st>>
  BY <1>1, <1>2, <1>5
     DEF IInv, TypeOK, MarkerNamesTwoSlots, ProcessesOK, HelperOK, FilesOK, TransferOK,
         ConsoleOK, HandoffOK, NoHelper
<1>6. helper.self \in Versions
  BY DEF RecoverSpawn, IInv, HelperOK
<1> QED BY <1>4, <1>5, <1>6 DEF RecoverSpawn

\* A power loss preserves it: it takes the agent and the helper together.
LEMMA PowerLossStep == ASSUME IInv, PowerLoss PROVE IInv'
BY VersionAssumption, FlagAssumption
   DEF PowerLoss, IInv, TypeOK, MarkerNamesTwoSlots, ProcessesOK, HelperOK, FilesOK,
       TransferOK, ConsoleOK, HandoffOK, Agents, Helpers, Journals, disk, NoAgent, NoHelper,
       Ops, HelperPcs, Slots, Stores, Phases

\* Killing the agent preserves it.
LEMMA KillAgentStep == ASSUME IInv, KillAgent PROVE IInv'
BY VersionAssumption, FlagAssumption
   DEF KillAgent, IInv, TypeOK, MarkerNamesTwoSlots, ProcessesOK, HelperOK, FilesOK,
       TransferOK, ConsoleOK, HandoffOK, Agents, Helpers, Journals, disk, NoAgent, NoHelper,
       Ops, HelperPcs, Slots, Stores, Phases

\* Killing the helper preserves it.
LEMMA KillHelperStep == ASSUME IInv, KillHelper PROVE IInv'
BY VersionAssumption, FlagAssumption
   DEF KillHelper, IInv, TypeOK, MarkerNamesTwoSlots, ProcessesOK, HelperOK, FilesOK,
       TransferOK, ConsoleOK, HandoffOK, Agents, Helpers, Journals, disk, NoAgent, NoHelper,
       Ops, HelperPcs, Slots, Stores, Phases

\* A helper that waited 15 s in vain preserves it: it takes its marker away.
LEMMA HelperTimesOutStep == ASSUME IInv, HelperTimesOut PROVE IInv'
BY VersionAssumption, FlagAssumption
   DEF HelperTimesOut, IInv, TypeOK, MarkerNamesTwoSlots, ProcessesOK, HelperOK, FilesOK,
       TransferOK, ConsoleOK, HandoffOK, Agents, Helpers, Journals, disk, NoAgent, NoHelper,
       Ops, HelperPcs, Slots, Stores, Phases

\* A failed commit write preserves it.
LEMMA CommitFailsStep == ASSUME IInv, CommitFails PROVE IInv'
BY VersionAssumption, FlagAssumption
   DEF CommitFails, IInv, TypeOK, MarkerNamesTwoSlots, ProcessesOK, HelperOK, FilesOK,
       TransferOK, ConsoleOK, HandoffOK, Agents, Helpers, Journals, disk, NoAgent, NoHelper,
       Ops, HelperPcs, Slots, Stores, Phases

\* Storage damage preserves it.
LEMMA CorruptStep == ASSUME IInv, NEW s \in Damageable, Corrupt(s) PROVE IInv'
BY VersionAssumption, FlagAssumption
   DEF Corrupt, IInv, TypeOK, MarkerNamesTwoSlots, ProcessesOK, HelperOK, FilesOK,
       TransferOK, ConsoleOK, HandoffOK, Agents, Helpers, Journals, disk, NoAgent, NoHelper,
       Ops, HelperPcs, Slots, Stores, Phases

-----------------------------------------------------------------------------
(* Theorems *)

\* The freshly seeded device satisfies the invariant.
LEMMA InitHolds == Init => IInv
BY VersionAssumption
   DEF Init, NoAgent, NoHelper, Ops, HelperPcs, Slots, Stores, Phases, IInv, TypeOK,
       MarkerNamesTwoSlots, ProcessesOK, HelperOK, FilesOK, TransferOK, ConsoleOK,
       HandoffOK, Agents, Helpers, Journals

\* The invariant is inductive: no step of any process and no fault leaves it.
LEMMA StepPreserves == IInv /\ [Next]_vars => IInv'
<1> SUFFICES ASSUME IInv, [Next]_vars PROVE IInv'
  OBVIOUS
<1>1. CASE Supervisor
  BY <1>1, PowerOnStep, SupRestoreStep, SupClearStep, SupSelectStep
     DEF Supervisor
<1>2. CASE Console
  BY <1>2, ChangeChannelStep, BeginStep
     DEF Console, BeginCheck, BeginDownload, BeginInstall, BeginRollback, Phases
<1>3. CASE AgentStep \/ AgentExit \/ Watch
  BY <1>3, FailOperationStep, FinishCheckStep, FetchStep, RenameBinaryStep,
     RenameMetadataStep, FinishDownloadStep, InstallStep, RollbackStep,
     HandoffDoneStep, HandoffFailedStep, AgentExitStep, WatchResetStep,
     WatchGivesUpStep
     DEF AgentStep, Watch
<1>4. CASE HelperStep
  BY <1>4, HelperReadyStep, HelperSpawnStep, TrialPassStep, TrialFailStep,
     CommitActiveStep, CommitPendingStep, CopyBinaryStep, CopyMetadataStep,
     RecoverActiveStep, RecoverPendingStep, RecoverSpawnStep
     DEF HelperStep
<1>5. CASE Fault
  BY <1>5, PowerLossStep, KillAgentStep, KillHelperStep, HelperTimesOutStep,
     CommitFailsStep, CorruptStep
     DEF Fault
<1>6. CASE UNCHANGED vars
  BY <1>6
     DEF vars, IInv, TypeOK, MarkerNamesTwoSlots, ProcessesOK, HelperOK, FilesOK,
         TransferOK, ConsoleOK, HandoffOK
<1> QED BY <1>1, <1>2, <1>3, <1>4, <1>5, <1>6 DEF Next

\* The invariant holds in every reachable state.
THEOREM Invariance == Spec => []IInv
<1> QED BY InitHolds, StepPreserves, PTL DEF Spec

\* Every file, marker, journal and process record stays well formed under every
\* fault: in particular the active marker always names a slot or "rescue" and no
\* process ever runs a damaged binary.
THEOREM TypeCorrect == Spec => []TypeOK
<1>1. IInv => TypeOK
  BY DEF IInv
<1> QED BY <1>1, Invariance, PTL

\* install_inner and rollback_inner never aim a trial at the slot they fall back to.
THEOREM TrialKeepsAFallback == Spec => []MarkerNamesTwoSlots
<1>1. IInv => MarkerNamesTwoSlots
  BY DEF IInv
<1> QED BY <1>1, Invariance, PTL

\* While no process is killed and none stalls, the agent only exits for an update
\* with a helper waiting for it and the marker on disk (launch_helper, ota-exit).
THEOREM ExitHasHelper ==
    ASSUME Faults \cap {"kill", "stall"} = {}
    PROVE  Spec => []HandoffKeepsHelper
<1>1. IInv => HandoffKeepsHelper
  BY DEF IInv, HandoffOK, HelperOK, HandoffKeepsHelper
<1> QED BY <1>1, Invariance, PTL

\* With the console left alone during trials, downloads only ever land in the
\* inactive slot (ota/mod.rs:3), whatever fails: no step replaces the binary that
\* the active marker names.
THEOREM DownloadsLandInactive ==
    ASSUME ~ConsoleInTrial
    PROVE  Spec => InactiveSlotOnly
<1> DEFINE Keeps == \A s \in Slots : bin'[s] \in Versions /\ bin'[s] # bin[s] => s # active
<1>1. IInv /\ [Next]_vars => [Keeps]_vars
  <2> SUFFICES ASSUME IInv, Next, NEW s \in Slots, bin'[s] \in Versions, bin'[s] # bin[s]
               PROVE  s # active
    BY DEF Keeps
  <2>1. CASE RenameBinary
    BY <2>1 DEF RenameBinary, IInv, TypeOK, TransferOK, ConsoleOK, Slots, Stores
  <2>2. CASE CopyBinary
    BY <2>2 DEF CopyBinary, IInv, TypeOK, Slots, Stores
  <2>3. CASE \E t \in Damageable : Corrupt(t)
    BY <2>3, VersionAssumption, FlagAssumption DEF Corrupt, IInv, TypeOK, Slots, Stores
  <2>4. CASE UNCHANGED bin
    BY <2>4
  <2> QED
    BY <2>1, <2>2, <2>3, <2>4
       DEF Next, Supervisor, PowerOn, SupRestore, SupClear, SupSelect, Console,
           ChangeChannel, BeginCheck, BeginDownload, BeginInstall, BeginRollback, Begin,
           AgentStep, FailOperation, FinishCheck, Fetch, RenameMetadata, FinishDownload,
           Install, Rollback, Launch, HandoffDone, HandoffFailed, AgentExit, Watch,
           WatchReset, WatchGivesUp, HelperStep, HelperReady, HelperSpawn, TrialPass,
           TrialFail, CommitActive, CommitPending, CopyMetadata, RecoverActive,
           RecoverPending, RecoverSpawn, Fault, PowerLoss, KillAgent, KillHelper,
           HelperTimesOut, CommitFails, disk
<1> QED BY <1>1, Invariance, PTL DEF Spec, InactiveSlotOnly

-----------------------------------------------------------------------------
(***************************************************************************)
(* OtaUpdate implements OtaPromise, some agent can always be booted, and   *)
(* what runs is the release that was verified: for every set of releases   *)
(* and channel, whatever power failures and stalls interrupt an update, as *)
(* long as trials are decided by the release (Calm).                       *)
(*                                                                         *)
(* The argument: at any moment the slot the device falls back to is the    *)
(* active one, or, with a trial pending, its previous one (Home).  It is   *)
(* sealed and holds a sound release, so nothing blocks it and the          *)
(* supervisor chooses it.  No transfer touches it, and only the commit of  *)
(* a trial, which has shown another sealed slot to be sound, makes that    *)
(* the home.                                                               *)
(***************************************************************************)
\* Nothing but power failures and stalls happens, the outcome of a trial is a function of the
\* release, the console is left alone during trials, and the first release is sound.
Calm ==
    /\ Faults \subseteq {"power", "stall"} /\ Damageable = {}
    /\ ~FlakyTrials /\ ~ConsoleInTrial
    /\ Bootstrap \in Sound

\* The slot the device falls back to.
Home == IF pending = None THEN active ELSE pending.prev

\* What is recorded of a slot is what it holds.
Sealed(s) ==
    \/ meta[s] \in Versions /\ bin[s] = meta[s]
    \/ meta[s] = None /\ bin[s] = digest[s]

OwnsMarker == {"start", "wait", "trial", "activate", "commit", "recover", "clear"}
OnCandidate == {"trial", "activate", "commit", "recover"}

FilesGood ==
    /\ blocked \cap Sound = {}
    /\ \A s \in Slots : bin[s] \in Versions /\ meta[s] \in Versions \cup {None}

HomeGood ==
    /\ active \in Slots
    /\ Sealed(Home) /\ bin[Home] \in Sound
    /\ sup.pc = "select" => pending = None
    /\ sup.pc = "clear" => active = Home

AgentGood ==
    /\ agent.op \in {"fetch", "binary", "metadata"} => agent.slot # active /\ pending = None
    /\ agent.op = "handoff" => helper.pc \in {"start", "wait"}
    /\ agent.up => agent.ver = bin[IF helper.pc \in OnCandidate THEN helper.cand ELSE active]

HelperGood ==
    /\ helper.pc \in OwnsMarker =>
         pending.cand = helper.cand /\ pending.prev = helper.prev /\ pending.ver = helper.ver
    /\ helper.pc \in OwnsMarker \cup {"respawn"} =>
         active = (IF helper.pc = "commit" THEN helper.cand ELSE helper.prev)
    /\ helper.pc \in OwnsMarker \cup {"respawn"} =>
         bin[helper.prev] = helper.self /\ VerifyActive(helper.prev, helper.self)
    /\ helper.pc \in OwnsMarker \ {"clear"} => Sealed(helper.cand) /\ bin[helper.cand] = helper.ver
    /\ helper.pc = "trial" => agent.up /\ ~agent.exiting /\ agent.op = "none"
    /\ helper.pc \in {"activate", "commit"} => bin[helper.cand] \in Sound

Good == FilesGood /\ HomeGood /\ AgentGood /\ HelperGood

-----------------------------------------------------------------------------
(* What the supervisor makes of the files *)

\* A sealed slot with a sound release can be started.
LEMMA SoundIsRunnable ==
    ASSUME IInv, FilesGood, NEW s \in Slots, Sealed(s), bin[s] \in Sound
    PROVE  RunnableSlot(s)
BY VersionAssumption DEF RunnableSlot, Sealed, FilesGood, IInv, TypeOK, Slots, Stores

\* The home is in a slot.
LEMMA HomeIsSlot == ASSUME IInv, Good PROVE Home \in Slots
BY DEF Home, IInv, TypeOK, Good, HomeGood

\* The next boot starts the home.
LEMMA NextBootIsHome ==
    ASSUME IInv, Good
    PROVE  NextBoot = Home /\ bin[Home] \in Versions /\ RunnableSlot(Home)
<1>1. Home \in Slots /\ RunnableSlot(Home)
  BY HomeIsSlot, SoundIsRunnable DEF Good, HomeGood
<1>2. NextBoot = Home
  BY <1>1 DEF NextBoot, Choice, Home
<1> QED BY <1>1, <1>2 DEF Good, FilesGood

-----------------------------------------------------------------------------
(* The steps of the agent *)

\* Steps that leave the files, the helper and the supervisor alone.
LEMMA AgentAlone ==
    ASSUME IInv, Good, UNCHANGED <<disk, helper, sup>>,
           agent'.up => agent.up /\ agent'.ver = agent.ver,
           agent'.op \in {"fetch", "binary", "metadata"} => agent'.slot # active /\ pending = None,
           agent'.op = "handoff" => helper.pc \in {"start", "wait"},
           helper.pc = "trial" => agent'.up /\ ~agent'.exiting /\ agent'.op = "none"
    PROVE  Good' /\ Home' = Home
<1>1. FilesGood' /\ HomeGood' /\ Home' = Home
  BY DEF disk, Good, FilesGood, HomeGood, Home, Sealed
<1>2. AgentGood'
  BY DEF disk, Good, AgentGood
<1>3. HelperGood'
  BY DEF disk, Good, HelperGood, Sealed, VerifyActive
<1> QED BY <1>1, <1>2, <1>3 DEF Good

AgentAloneStep ==
    \/ ChangeChannel \/ BeginCheck \/ BeginDownload \/ BeginInstall \/ BeginRollback
    \/ FailOperation \/ FinishCheck \/ Fetch \/ HandoffDone \/ AgentExit
    \/ WatchReset \/ WatchGivesUp

LEMMA AgentAloneKeeps ==
    ASSUME Calm, IInv, Good, AgentAloneStep
    PROVE  Good' /\ Home' = Home /\ UNCHANGED <<disk, helper>>
<1>0. agent \in Agents
  BY DEF IInv, TypeOK
<1>1. UNCHANGED <<disk, helper, sup>>
  BY DEF AgentAloneStep, ChangeChannel, BeginCheck, BeginDownload, BeginInstall, BeginRollback, Begin,
         FailOperation, FinishCheck, Fetch, HandoffDone, AgentExit, WatchReset, WatchGivesUp
<1>2. helper.pc = "trial" => pending # None /\ agent.up /\ ~agent.exiting /\ agent.op = "none"
  BY DEF IInv, HelperOK, Good, HelperGood
<1>3. CASE ChangeChannel \/ AgentExit \/ WatchReset \/ WatchGivesUp
  BY <1>0, <1>1, <1>2, <1>3, AgentAlone
     DEF ChangeChannel, AgentExit, WatchReset, WatchGivesUp, NoAgent, Agents, Good, AgentGood
<1>4. CASE BeginCheck \/ BeginDownload \/ BeginInstall \/ BeginRollback
  BY <1>0, <1>1, <1>2, <1>4, AgentAlone
     DEF BeginCheck, BeginDownload, BeginInstall, BeginRollback, Begin, ConsoleAllowed, Calm, Agents
<1>5. CASE FailOperation \/ FinishCheck
  BY <1>0, <1>1, <1>2, <1>5, AgentAlone DEF FailOperation, FinishCheck, Unstarted, Agents
<1>6. CASE Fetch
  <2>1. pending = None
    BY <1>6 DEF Fetch, IInv, ConsoleOK, Calm
  <2> QED BY <1>0, <1>1, <1>2, <1>6, <2>1, AgentAlone
             DEF Fetch, Agents, Other, Slots, Good, HomeGood
<1>7. CASE HandoffDone
  BY <1>0, <1>1, <1>2, <1>7, AgentAlone DEF HandoffDone, Unstarted, Agents
<1> QED BY <1>1, <1>3, <1>4, <1>5, <1>6, <1>7 DEF AgentAloneStep

\* A transfer writes beside the home, and only while no helper needs a slot.
LEMMA TransferKeeps ==
    ASSUME Calm, IInv, Good, RenameBinary \/ RenameMetadata \/ FinishDownload
    PROVE  Good' /\ Home' = Home /\ bin'[Home] = bin[Home] /\ UNCHANGED <<pending, helper>>
<1>0. /\ agent.up /\ agent.op \in {"fetch", "binary", "metadata"}
      /\ agent.slot \in Slots /\ agent.want \in Versions /\ agent.slot # active /\ pending = None
  BY DEF RenameBinary, RenameMetadata, FinishDownload, IInv, TransferOK, Good, AgentGood
<1>1. Home = active /\ active \in Slots /\ Home' = Home
  BY <1>0 DEF Home, Good, HomeGood, RenameBinary, RenameMetadata, FinishDownload
<1>2. helper.pc \notin OwnsMarker \cup {"respawn"} /\ sup.pc = "done"
  BY <1>0 DEF IInv, HelperOK, ProcessesOK, OwnsMarker
<1>3. /\ UNCHANGED <<active, pending, blocked, helper, sup>>
      /\ bin'[active] = bin[active] /\ meta'[active] = meta[active] /\ digest'[active] = digest[active]
      /\ \A s \in Slots : bin'[s] \in Versions /\ meta'[s] \in Versions \cup {None}
  BY <1>0, <1>1 DEF RenameBinary, RenameMetadata, FinishDownload, IInv, TypeOK, Slots, Stores, Good, FilesGood
<1>4. /\ agent'.up /\ agent'.ver = agent.ver /\ agent'.op \notin {"fetch", "handoff"}
      /\ agent'.op \in {"binary", "metadata"} => agent'.slot = agent.slot
  BY <1>0 DEF RenameBinary, RenameMetadata, FinishDownload, Unstarted, IInv, TypeOK, Agents
<1>5. FilesGood' /\ HomeGood'
  BY <1>0, <1>1, <1>2, <1>3 DEF Good, FilesGood, HomeGood, Sealed
<1>6. AgentGood'
  BY <1>0, <1>1, <1>2, <1>3, <1>4 DEF Good, AgentGood, OwnsMarker, OnCandidate
<1>7. HelperGood'
  BY <1>2, <1>3 DEF HelperGood, OwnsMarker
<1> QED BY <1>1, <1>3, <1>5, <1>6, <1>7 DEF Good

-----------------------------------------------------------------------------
(* Handing over *)

\* What a trial starts from: two sealed slots, the active one verified.
LEMMA LaunchKeeps ==
    ASSUME Calm, IInv, Good, agent.up, agent.op \in {"install", "rollback"}, pending = None,
           helper.pc = "idle", VerifyActive(active, agent.ver),
           NEW cand \in Slots, Sealed(cand), Launch(cand, active, bin[cand])
    PROVE  /\ Good' /\ Home' = Home /\ UNCHANGED bin
           /\ pending' # None /\ pending'.ver = bin[cand] /\ helper'.pc = "start"
<1>1. /\ pending' = [cand |-> cand, prev |-> active, ver |-> bin[cand]]
      /\ helper' = [pc |-> "start", cand |-> cand, prev |-> active, ver |-> bin[cand],
                    self |-> agent.ver, env |-> agent.env]
      /\ agent' = [agent EXCEPT !.op = "handoff"]
      /\ UNCHANGED <<bin, meta, digest, active, blocked, sup>>
  BY DEF Launch
<1>2. pending' # None
  BY <1>1, MarkerAssumption DEF Good, FilesGood, HomeGood, Slots
<1>3. agent'.up = agent.up /\ agent'.ver = agent.ver /\ agent'.op = "handoff"
  BY <1>1 DEF IInv, TypeOK, Agents
<1>4. sup.pc = "done" /\ agent.ver = bin[active]
  BY DEF IInv, ProcessesOK, Good, AgentGood, OnCandidate
<1>5. FilesGood' /\ HomeGood' /\ Home' = Home
  BY <1>1, <1>2, <1>4 DEF Good, FilesGood, HomeGood, Home, Sealed
<1>6. AgentGood'
  BY <1>1, <1>3, <1>4 DEF AgentGood, OnCandidate
<1>7. HelperGood'
  BY <1>1, <1>4 DEF HelperGood, OwnsMarker, VerifyActive, Sealed
<1> QED BY <1>1, <1>2, <1>5, <1>6, <1>7 DEF Good

LEMMA InstallKeeps ==
    ASSUME Calm, IInv, Good, Install \/ Rollback
    PROVE  /\ Good' /\ Home' = Home /\ UNCHANGED bin /\ pending = None /\ helper.pc = "idle"
           /\ pending' # None /\ pending'.ver \in Versions /\ helper'.pc = "start"
<1>1. CASE Install
  <2>1. st.slot \in Slots /\ Sealed(st.slot) /\ bin[st.slot] = st.staged
    BY <1>1, VersionAssumption DEF Install, Sealed, IInv, TypeOK, FilesOK, Good, FilesGood
  <2> QED BY <1>1, <2>1, LaunchKeeps DEF Install, Good, FilesGood
<1>2. CASE Rollback
  <2> DEFINE other == Other(active)
  <2>1. other \in Slots
    BY DEF Other, Slots
  <2>2. Sealed(other) /\ bin[other] = RollbackLabel(other)
    BY <1>2, <2>1, VersionAssumption
       DEF Rollback, VerifyRollback, RollbackLabel, Sealed, IInv, TypeOK, FilesOK, Good, FilesGood
  <2>3. Launch(other, active, bin[other])
    BY <1>2, <2>2 DEF Rollback
  <2> HIDE DEF other
  <2> QED BY <1>2, <2>1, <2>2, <2>3, LaunchKeeps DEF Rollback, Good, FilesGood
<1> QED BY <1>1, <1>2

\* The handoff is given up: the home stays.
LEMMA WithdrawKeeps ==
    ASSUME Calm, IInv, Good, HandoffFailed \/ HelperTimesOut
    PROVE  Good' /\ Home' = Home /\ UNCHANGED bin /\ pending' = None /\ helper'.pc = "idle"
<1>1. /\ helper.pc \in {"start", "wait"} /\ agent.up /\ sup.pc = "done"
      /\ helper' = NoHelper /\ pending' = None
      /\ UNCHANGED <<bin, meta, digest, active, blocked, sup>>
  BY DEF HandoffFailed, HelperTimesOut, Good, AgentGood, IInv, ProcessesOK
<1>2. /\ agent'.up /\ agent'.ver = agent.ver /\ agent'.op # "handoff"
      /\ agent'.op \in {"fetch", "binary", "metadata"} => agent'.slot # active
  BY DEF HandoffFailed, HelperTimesOut, Unstarted, IInv, TypeOK, Agents, Good, AgentGood
<1>3. pending # None /\ active = helper.prev /\ pending.prev = helper.prev
  BY <1>1 DEF IInv, HelperOK, Good, HelperGood, OwnsMarker
<1>4. FilesGood' /\ HomeGood' /\ Home' = Home
  BY <1>1, <1>3 DEF Good, FilesGood, HomeGood, Home, Sealed
<1>5. helper'.pc = "idle"
  BY <1>1 DEF NoHelper
<1>6. AgentGood'
  BY <1>1, <1>2, <1>5 DEF Good, AgentGood, OnCandidate
<1>7. HelperGood'
  BY <1>5 DEF HelperGood, OwnsMarker
<1> QED BY <1>1, <1>4, <1>5, <1>6, <1>7 DEF Good

-----------------------------------------------------------------------------
(* The supervisor *)

\* The pending marker is undone before anything is chosen.
LEMMA BootKeeps ==
    ASSUME Calm, IInv, Good, PowerOn \/ SupRestore \/ SupClear
    PROVE  /\ Good' /\ Home' = Home /\ UNCHANGED <<bin, helper>> /\ helper.pc = "idle"
           /\ pending' \in {pending, None}
<1>1. /\ UNCHANGED <<bin, meta, digest, blocked, agent, helper>>
      /\ sup.pc # "done" /\ helper.pc = "idle" /\ ~agent.up /\ agent.op = "none"
  BY DEF PowerOn, SupRestore, SupClear, disk, IInv, ProcessesOK
<1>2. Home \in Slots /\ RunnableSlot(Home)
  BY HomeIsSlot, NextBootIsHome
<1>3. CASE PowerOn
  BY <1>1, <1>3 DEF PowerOn, disk, Good, FilesGood, HomeGood, AgentGood, HelperGood, Home, Sealed, OwnsMarker
<1>4. CASE SupRestore
  <2>1. /\ pending' = pending /\ active' \in Slots
        /\ IF pending # None THEN active' = Home /\ sup'.pc = "clear" ELSE active' = active /\ sup'.pc = "select"
    BY <1>2, <1>4 DEF SupRestore, Home, Good, HomeGood, IInv, TypeOK
  <2> QED BY <1>1, <2>1 DEF Good, FilesGood, HomeGood, AgentGood, HelperGood, Home, Sealed, OwnsMarker
<1>5. CASE SupClear
  <2>1. pending' = None /\ active' = active /\ active = Home /\ sup'.pc = "select"
    BY <1>5 DEF SupClear, Good, HomeGood, IInv, TypeOK
  <2> QED BY <1>1, <2>1 DEF Good, FilesGood, HomeGood, AgentGood, HelperGood, Home, Sealed, OwnsMarker
<1> QED BY <1>1, <1>3, <1>4, <1>5

\* The active slot is the home, and the supervisor starts it.
LEMMA SelectKeeps ==
    ASSUME Calm, IInv, Good, SupSelect
    PROVE  Good' /\ Home' = Home /\ UNCHANGED <<bin, pending, helper>>
<1>1. Home = active /\ pending = None /\ active \in Slots /\ RunnableSlot(active)
  BY NextBootIsHome, HomeIsSlot DEF SupSelect, Good, HomeGood, Home
<1>2. Choice(active, sup.excluded) = active /\ active # "none"
  BY <1>1 DEF Choice, Slots
<1>3. /\ active' = active /\ sup' = [pc |-> "done", excluded |-> None]
      /\ agent' = Started(bin[active], FALSE)
      /\ UNCHANGED <<bin, meta, digest, pending, blocked, helper>>
  BY <1>1, <1>2 DEF SupSelect, StartAgent
<1>4. agent'.up /\ agent'.ver = bin[active] /\ agent'.op = "none" /\ helper.pc = "idle" /\ sup'.pc = "done"
  BY <1>3 DEF Started, NoAgent, SupSelect, IInv, ProcessesOK
<1>5. FilesGood' /\ HomeGood' /\ Home' = Home
  BY <1>1, <1>3, <1>4 DEF Good, FilesGood, HomeGood, Home, Sealed
<1>6. AgentGood' /\ HelperGood'
  BY <1>3, <1>4 DEF AgentGood, HelperGood, OwnsMarker, OnCandidate
<1> QED BY <1>3, <1>5, <1>6 DEF Good

-----------------------------------------------------------------------------
(* The helper *)

\* The facts a helper relies on while it owns the marker.
LEMMA OwnerFacts ==
    ASSUME Calm, IInv, Good, helper.pc \in OwnsMarker
    PROVE  /\ helper \in Helpers /\ sup.pc = "done" /\ pending # None
           /\ helper.cand \in Slots /\ helper.prev \in Slots
           /\ Home = helper.prev /\ pending.cand = helper.cand
           /\ bin[helper.cand] \in Versions /\ bin[helper.prev] = helper.self
           /\ agent.op \in {"none", "handoff"}
           /\ agent.op = "handoff" => helper.pc \in {"start", "wait"}
BY DEF IInv, TypeOK, ProcessesOK, HelperOK, ConsoleOK, Calm, Good, FilesGood, AgentGood, HelperGood,
       Home, OwnsMarker

\* Steps of the helper that only move it on.
LEMMA HelperMovesOn ==
    ASSUME Calm, IInv, Good, helper.pc \in OwnsMarker \ {"clear"},
           NEW pc \in OwnsMarker, helper' = [helper EXCEPT !.pc = pc],
           UNCHANGED <<bin, meta, digest, pending, sup>>,
           active' = (IF pc = "commit" THEN helper.cand ELSE helper.prev),
           blocked' \cap Sound = {},
           agent'.op \in {"none", "handoff"}, agent'.op = "handoff" => pc \in {"start", "wait"},
           agent'.up => agent'.ver = bin[IF pc \in OnCandidate THEN helper.cand ELSE helper.prev],
           pc = "trial" => agent'.up /\ ~agent'.exiting /\ agent'.op = "none",
           pc \in {"activate", "commit"} => bin[helper.cand] \in Sound
    PROVE  Good' /\ Home' = Home /\ helper'.pc = pc
<1>1. /\ helper'.pc = pc /\ helper'.cand = helper.cand /\ helper'.prev = helper.prev
      /\ helper'.ver = helper.ver /\ helper'.self = helper.self
  BY DEF IInv, TypeOK, Helpers
<1>2. sup.pc = "done" /\ pending # None /\ Home = helper.prev /\ helper.cand \in Slots /\ helper.prev \in Slots
  BY OwnerFacts
<1>3. FilesGood' /\ HomeGood' /\ Home' = Home
  BY <1>2 DEF Good, FilesGood, HomeGood, Home, Sealed
<1>4. AgentGood'
  BY <1>1, <1>2 DEF AgentGood, OnCandidate
<1>5. HelperGood'
  BY <1>1 DEF Good, HelperGood, OwnsMarker, Sealed, VerifyActive
<1> QED BY <1>1, <1>3, <1>4, <1>5 DEF Good

LEMMA HelperRunsOn ==
    ASSUME Calm, IInv, Good, HelperReady \/ HelperSpawn \/ TrialFail \/ CommitActive
    PROVE  /\ Good' /\ Home' = Home /\ UNCHANGED <<bin, pending>>
           /\ (helper'.pc \in {"activate", "commit"}) <=> (helper.pc \in {"activate", "commit"})
<1>1. /\ helper.pc \in {"start", "wait", "trial", "activate"}
      /\ UNCHANGED <<bin, meta, digest, pending, sup>>
  BY DEF HelperReady, HelperSpawn, TrialFail, CommitActive, disk
<1>2. /\ helper.pc \in OwnsMarker \ {"clear"} /\ active = helper.prev /\ bin[helper.cand] = helper.ver
      /\ blocked \cap Sound = {}
  BY <1>1 DEF OwnsMarker, Good, FilesGood, HelperGood
<1>3. /\ agent.op \in {"none", "handoff"} /\ bin[helper.cand] \in Versions
      /\ agent.op = "handoff" => helper.pc \in {"start", "wait"}
      /\ agent.up => agent.ver = bin[IF helper.pc \in OnCandidate THEN helper.cand ELSE helper.prev]
  BY <1>2, OwnerFacts DEF Good, AgentGood
<1>4. CASE HelperReady
  <2>1. /\ helper' = [helper EXCEPT !.pc = "wait"] /\ UNCHANGED <<active, blocked, agent>> /\ helper.pc = "start"
    BY <1>4 DEF HelperReady, disk
  <2> QED BY <1>1, <1>2, <1>3, <2>1, HelperMovesOn DEF OwnsMarker, OnCandidate
<1>5. CASE HelperSpawn
  <2>1. /\ helper' = [helper EXCEPT !.pc = "trial"] /\ agent' = Started(bin[helper.cand], TRUE)
        /\ UNCHANGED <<active, blocked>> /\ helper.pc = "wait"
    BY <1>3, <1>5 DEF HelperSpawn, StartAgent, Calm
  <2>2. agent'.up /\ agent'.ver = bin[helper.cand] /\ ~agent'.exiting /\ agent'.op = "none"
    BY <2>1 DEF Started, NoAgent
  <2> QED BY <1>1, <1>2, <2>1, <2>2, HelperMovesOn DEF OwnsMarker, OnCandidate
<1>6. CASE TrialFail
  <2>1. /\ helper' = [helper EXCEPT !.pc = "recover"] /\ UNCHANGED <<active, agent>>
        /\ helper.pc = "trial" /\ blocked' = blocked \cup {helper.ver}
    BY <1>6 DEF TrialFail
  <2>2. agent.up /\ agent.ver = helper.ver /\ agent.ver \notin Sound
    BY <1>2, <1>3, <1>6, <2>1 DEF TrialFail, Calm, Good, HelperGood, OnCandidate
  <2> QED BY <1>1, <1>2, <1>3, <2>1, <2>2, HelperMovesOn DEF OwnsMarker, OnCandidate
<1>7. CASE CommitActive
  <2>1. /\ helper' = [helper EXCEPT !.pc = "commit"] /\ UNCHANGED <<blocked, agent>>
        /\ helper.pc = "activate" /\ active' = helper.cand /\ bin[helper.cand] \in Sound
    BY <1>7 DEF CommitActive, Good, HelperGood
  <2> QED BY <1>1, <1>2, <1>3, <2>1, HelperMovesOn DEF OwnsMarker, OnCandidate
<1> QED BY <1>4, <1>5, <1>6, <1>7

LEMMA TrialPassKeeps ==
    ASSUME Calm, IInv, Good, TrialPass
    PROVE  Good' /\ Home' = Home /\ UNCHANGED <<bin, pending>> /\ pending # None /\ helper'.pc = "activate"
<1>1. /\ helper.pc = "trial" /\ helper' = [helper EXCEPT !.pc = "activate"] /\ agent.up /\ agent.ver \in Sound
      /\ UNCHANGED <<bin, meta, digest, active, pending, blocked, sup, agent>>
  BY DEF TrialPass, disk, Calm
<1>2. /\ helper.pc \in OwnsMarker \ {"clear"} /\ active = helper.prev /\ blocked \cap Sound = {}
      /\ agent.ver = bin[helper.cand]
  BY <1>1 DEF OwnsMarker, OnCandidate, Good, FilesGood, HelperGood, AgentGood
<1>3. agent.op = "none" /\ pending # None
  BY <1>1, <1>2, OwnerFacts
<1> QED BY <1>1, <1>2, <1>3, HelperMovesOn DEF OwnsMarker, OnCandidate

\* The commit: the home moves to the slot whose trial passed.
LEMMA CommitKeeps ==
    ASSUME Calm, IInv, Good, CommitPending
    PROVE  /\ Good' /\ UNCHANGED bin /\ helper.pc = "commit" /\ helper'.pc \notin {"activate", "commit"}
           /\ pending # None /\ pending' = None /\ bin[Home'] = pending.ver
<1>1. /\ helper.pc = "commit" /\ helper.pc \in OwnsMarker \ {"clear"} /\ pending' = None
      /\ UNCHANGED <<bin, meta, digest, active, blocked, agent, sup>>
  BY DEF CommitPending, OwnsMarker
<1>2. /\ helper.cand \in Slots /\ active = helper.cand /\ Sealed(helper.cand) /\ bin[helper.cand] \in Sound
      /\ pending # None /\ pending.ver = bin[helper.cand] /\ sup.pc = "done"
  BY <1>1, OwnerFacts DEF Good, HelperGood, OwnsMarker
<1>3. helper'.pc \in {"copyBinary", "idle"}
  BY DEF CommitPending, NoHelper, IInv, TypeOK, Helpers
<1>4. Home' = helper.cand
  BY <1>1, <1>2 DEF Home
<1>5. FilesGood' /\ HomeGood'
  BY <1>1, <1>2, <1>4 DEF Good, FilesGood, HomeGood, Sealed
<1>6. agent.op \in {"none", "handoff"} /\ agent.op # "handoff"
  BY <1>1, OwnerFacts
<1>7. AgentGood' /\ HelperGood'
  BY <1>1, <1>2, <1>3, <1>6 DEF Good, AgentGood, HelperGood, OwnsMarker, OnCandidate
<1> QED BY <1>1, <1>2, <1>3, <1>4, <1>5, <1>7 DEF Good

\* The rescue copy is beside the slots.
LEMMA CopyKeeps ==
    ASSUME Calm, IInv, Good, CopyBinary \/ CopyMetadata
    PROVE  /\ Good' /\ Home' = Home /\ bin'[Home] = bin[Home] /\ UNCHANGED pending
           /\ helper.pc \notin {"activate", "commit"} /\ helper'.pc \notin {"activate", "commit"}
<1>1. /\ helper.pc \in {"copyBinary", "copyMetadata"} /\ helper'.pc \in {"copyMetadata", "idle"}
      /\ UNCHANGED <<digest, active, pending, blocked, agent, sup>>
      /\ \A s \in Slots : bin'[s] = bin[s] /\ meta'[s] = meta[s]
  BY DEF CopyBinary, CopyMetadata, NoHelper, IInv, TypeOK, Helpers, Slots, Stores
<1>2. Home \in Slots /\ Home' = Home
  BY <1>1, HomeIsSlot DEF Home
<1>3. FilesGood' /\ HomeGood'
  BY <1>1, <1>2 DEF Good, FilesGood, HomeGood, Sealed
<1>4. AgentGood' /\ HelperGood'
  BY <1>1 DEF Good, HomeGood, AgentGood, HelperGood, OwnsMarker, OnCandidate
<1> QED BY <1>1, <1>2, <1>3, <1>4 DEF Good

\* Recovery goes back to the home.
LEMMA RecoverKeeps ==
    ASSUME Calm, IInv, Good, RecoverActive \/ RecoverPending
    PROVE  /\ Good' /\ Home' = Home /\ UNCHANGED bin /\ pending' \in {pending, None}
           /\ helper'.pc \notin {"activate", "commit"}
<1>1. /\ helper.pc \in {"recover", "clear"} /\ UNCHANGED <<bin, meta, digest, blocked, sup>> /\ helper.pc \in OwnsMarker
  BY DEF RecoverActive, RecoverPending, OwnsMarker
<1>2. /\ sup.pc = "done" /\ pending # None /\ helper.prev \in Slots /\ Home = helper.prev
      /\ active = helper.prev /\ bin[helper.prev] = helper.self /\ VerifyActive(helper.prev, helper.self)
  BY <1>1, OwnerFacts DEF Good, HelperGood, OwnsMarker
<1>3. helper \in Helpers
  BY DEF IInv, TypeOK
<1>4. CASE RecoverActive
  <2>1. active' = helper.prev /\ pending' = pending /\ ~agent'.up /\ agent'.op = "none" /\ helper.pc = "recover"
    BY <1>4 DEF RecoverActive, NoAgent, Calm
  <2>2. /\ helper'.pc = "clear" /\ helper'.cand = helper.cand /\ helper'.prev = helper.prev
        /\ helper'.ver = helper.ver /\ helper'.self = helper.self
    BY <1>3, <1>4 DEF RecoverActive, Helpers
  <2>3. FilesGood' /\ HomeGood' /\ Home' = Home
    BY <1>1, <1>2, <2>1 DEF Good, FilesGood, HomeGood, Home, Sealed
  <2>4. AgentGood' /\ HelperGood'
    BY <1>1, <1>2, <2>1, <2>2 DEF Good, AgentGood, HelperGood, OwnsMarker, VerifyActive
  <2> QED BY <1>1, <2>1, <2>2, <2>3, <2>4 DEF Good
<1>5. CASE RecoverPending
  <2>1. UNCHANGED <<active, agent>> /\ pending' = None /\ ~agent.up /\ agent.op = "none"
    BY <1>5 DEF RecoverPending, Calm, IInv, ProcessesOK
  <2>2. /\ helper'.pc = "respawn" /\ helper'.prev = helper.prev /\ helper'.self = helper.self
    BY <1>3, <1>5 DEF RecoverPending, Helpers
  <2>3. FilesGood' /\ HomeGood' /\ Home' = Home
    BY <1>1, <1>2, <2>1 DEF Good, FilesGood, HomeGood, Home, Sealed
  <2>4. AgentGood' /\ HelperGood'
    BY <1>1, <1>2, <2>1, <2>2 DEF Good, AgentGood, HelperGood, OwnsMarker, VerifyActive
  <2> QED BY <1>1, <2>1, <2>2, <2>3, <2>4 DEF Good
<1> QED BY <1>4, <1>5

LEMMA RespawnKeeps ==
    ASSUME Calm, IInv, Good, RecoverSpawn
    PROVE  Good' /\ Home' = Home /\ UNCHANGED <<bin, pending>> /\ helper'.pc = "idle"
<1>1. /\ helper.pc = "respawn" /\ VerifyActive(helper.prev, helper.self)
      /\ active = helper.prev /\ bin[helper.prev] = helper.self
  BY DEF RecoverSpawn, Good, HelperGood
<1>2. /\ helper' = NoHelper /\ agent' = Started(helper.self, helper.env)
      /\ UNCHANGED <<bin, meta, digest, active, pending, blocked, sup>>
  BY <1>1 DEF RecoverSpawn, StartAgent, Calm
<1>3. helper'.pc = "idle" /\ agent'.up /\ agent'.ver = bin[active] /\ agent'.op = "none"
  BY <1>1, <1>2 DEF NoHelper, Started, NoAgent
<1>4. FilesGood' /\ HomeGood' /\ Home' = Home
  BY <1>2 DEF Good, FilesGood, HomeGood, Home, Sealed
<1>5. AgentGood' /\ HelperGood'
  BY <1>2, <1>3 DEF AgentGood, HelperGood, OwnsMarker, OnCandidate
<1> QED BY <1>2, <1>3, <1>4, <1>5 DEF Good

-----------------------------------------------------------------------------
(* Power *)

LEMMA PowerLossKeeps ==
    ASSUME Calm, IInv, Good, PowerLoss
    PROVE  Good' /\ Home' = Home /\ UNCHANGED <<bin, pending>> /\ helper'.pc = "idle"
<1>1. /\ UNCHANGED disk /\ helper'.pc = "idle" /\ ~agent'.up /\ agent'.op = "none" /\ sup'.pc = "off"
  BY DEF PowerLoss, NoAgent, NoHelper
<1>2. FilesGood' /\ HomeGood' /\ Home' = Home
  BY <1>1 DEF disk, Good, FilesGood, HomeGood, Home, Sealed
<1>3. AgentGood' /\ HelperGood'
  BY <1>1 DEF AgentGood, HelperGood, OwnsMarker
<1> QED BY <1>1, <1>2, <1>3 DEF disk, Good

-----------------------------------------------------------------------------
(* The refinement *)

LEMMA InitGood == ASSUME Calm, Init PROVE Good
<1>1. FilesGood
  BY VersionAssumption DEF Init, FilesGood, Slots, Stores
<1>2. HomeGood
  BY DEF Init, HomeGood, Home, Sealed, Calm, Slots, Stores
<1>3. AgentGood /\ HelperGood
  BY DEF Init, AgentGood, HelperGood, NoAgent, NoHelper, OwnsMarker
<1> QED BY <1>1, <1>2, <1>3 DEF Good

\* What the promise calls the image is the home's release, after a step too.
LEMMA ImageIsHome == IInv /\ Good => NextBoot = Home /\ NextBoot # "none"
BY NextBootIsHome, HomeIsSlot DEF Slots

LEMMA ImageStep ==
    ASSUME IInv, Good, IInv', Good'
    PROVE  /\ (IF NextBoot = "none" THEN None ELSE bin[NextBoot]) = bin[Home]
           /\ (IF NextBoot = "none" THEN None ELSE bin[NextBoot])' = bin'[Home']
<1>1. (IInv /\ Good => NextBoot = Home /\ NextBoot # "none")'
  BY ImageIsHome, PTL
<1> QED BY <1>1, ImageIsHome

\* A step that keeps the home's release, and keeps the marker or takes it away, is a step of
\* the promise: nothing, or a trial that is forgotten.
LEMMA KeepsImage ==
    ASSUME IInv, Good, IInv', Good', bin'[Home'] = bin[Home], pending' \in {pending, None},
           \/ helper'.pc \notin {"activate", "commit"}
           \/ helper.pc \in {"activate", "commit"} /\ pending' = pending
    PROVE  [Promise!Next]_(Promise!pvars)
<1> QED BY ImageStep DEF Promise!Next, Promise!Forget, Promise!pvars

LEMMA GoodStep ==
    ASSUME Calm, IInv, Good, IInv', [Next]_vars
    PROVE  Good' /\ [Promise!Next]_(Promise!pvars)
<1>1. CASE AgentAloneStep
  BY <1>1, AgentAloneKeeps, KeepsImage DEF disk
<1>2. CASE RenameBinary \/ RenameMetadata \/ FinishDownload
  BY <1>2, TransferKeeps, KeepsImage
<1>3. CASE Install \/ Rollback
  <2>1. /\ Good' /\ Home' = Home /\ UNCHANGED bin /\ pending = None /\ helper.pc = "idle"
        /\ pending' # None /\ pending'.ver \in Versions /\ helper'.pc = "start"
    BY <1>3, InstallKeeps
  <2>2. Promise!Try
    BY <2>1, ImageStep DEF Promise!Try
  <2> QED BY <2>1, <2>2 DEF Promise!Next
<1>4. CASE HandoffFailed \/ HelperTimesOut
  BY <1>4, WithdrawKeeps, KeepsImage
<1>5. CASE PowerOn \/ SupRestore \/ SupClear
  BY <1>5, BootKeeps, KeepsImage
<1>6. CASE SupSelect
  BY <1>6, SelectKeeps, KeepsImage
<1>7. CASE HelperReady \/ HelperSpawn \/ TrialFail \/ CommitActive
  BY <1>7, HelperRunsOn, KeepsImage
<1>8. CASE TrialPass
  <2>1. /\ Good' /\ Home' = Home /\ UNCHANGED <<bin, pending>> /\ pending # None /\ helper'.pc = "activate"
        /\ helper.pc = "trial"
    BY <1>8, TrialPassKeeps DEF TrialPass
  <2>2. pending.ver # None
    BY <2>1, OwnerFacts, VersionAssumption DEF Good, HelperGood, OwnsMarker
  <2>3. Promise!Pass
    BY <2>1, <2>2, ImageStep DEF Promise!Pass
  <2> QED BY <2>1, <2>3 DEF Promise!Next
<1>9. CASE CommitPending
  <2>1. /\ Good' /\ UNCHANGED bin /\ helper.pc = "commit" /\ helper'.pc \notin {"activate", "commit"}
        /\ pending # None /\ pending' = None /\ bin[Home'] = pending.ver
    BY <1>9, CommitKeeps
  <2>2. Promise!Commit
    BY <2>1, ImageStep DEF Promise!Commit
  <2> QED BY <2>1, <2>2 DEF Promise!Next
<1>10. CASE CopyBinary \/ CopyMetadata
  BY <1>10, CopyKeeps, KeepsImage
<1>11. CASE RecoverActive \/ RecoverPending
  BY <1>11, RecoverKeeps, KeepsImage
<1>12. CASE RecoverSpawn
  BY <1>12, RespawnKeeps, KeepsImage
<1>13. CASE PowerLoss
  BY <1>13, PowerLossKeeps, KeepsImage
<1>14. CASE UNCHANGED vars
  <2>1. UNCHANGED <<bin, meta, digest, active, pending, blocked, agent, helper, sup>>
    BY <1>14 DEF vars, disk
  <2>2. Good' /\ Home' = Home
    BY <2>1 DEF Good, FilesGood, HomeGood, AgentGood, HelperGood, Home, Sealed, VerifyActive
  <2> QED BY <2>1, <2>2, KeepsImage
<1>15. ~(KillAgent \/ KillHelper \/ CommitFails \/ \E s \in Damageable : Corrupt(s))
  BY DEF Calm, KillAgent, KillHelper, CommitFails
<1> QED
  BY <1>1, <1>2, <1>3, <1>4, <1>5, <1>6, <1>7, <1>8, <1>9, <1>10, <1>11, <1>12, <1>13, <1>14, <1>15
     DEF Next, Supervisor, Console, AgentStep, Watch, HelperStep, Fault, AgentAloneStep

\* Under calm conditions Good holds beside IInv.
LEMMA GoodInvariant == ASSUME Calm PROVE Spec => []Good
<1>1. Init => Good
  BY InitGood
<1>2. IInv /\ IInv' /\ Good /\ [Next]_vars => Good'
  BY GoodStep
<1> QED BY <1>1, <1>2, Invariance, PTL DEF Spec

\* However a download, an install, a trial or a rollback is interrupted by power failures
\* or stalls, the next boot finds an agent to start (zte-agent-supervisor.sh, selection).
THEOREM SomeAgentBoots ==
    ASSUME Calm
    PROVE  Spec => []AlwaysBootable
<1>1. IInv /\ Good => AlwaysBootable
  BY ImageIsHome DEF AlwaysBootable
<1> QED BY <1>1, Invariance, GoodInvariant, PTL

\* What was verified is what runs: on trial the release the marker names, and without a
\* trial the release the next boot starts (ota/mod.rs, install_inner, helper_cli).
THEOREM VerifiedRuns ==
    ASSUME Calm
    PROVE  Spec => []RightReleaseRuns
<1>1. IInv /\ Good => RightReleaseRuns
  BY ImageIsHome
     DEF RightReleaseRuns, Home, Good, AgentGood, HelperGood, OwnsMarker, OnCandidate, IInv, HelperOK
<1> QED BY <1>1, Invariance, GoodInvariant, PTL

\* The update protocol, with its slots, markers and processes, implements what an update
\* promises: the image changes only by one atomic commit of a trial that passed.
THEOREM UpdateKeepsPromise ==
    ASSUME Calm
    PROVE  Spec => ImplementsPromise
<1>1. Init => Promise!Init
  <2> SUFFICES ASSUME Init PROVE Promise!Init
    OBVIOUS
  <2>1. Good /\ IInv
    BY InitGood, InitHolds
  <2>2. NextBoot = "a" /\ bin["a"] = Bootstrap
    BY <2>1, ImageIsHome DEF Init, Home, Stores, Slots
  <2> QED BY <2>2 DEF Init, NoHelper, Promise!Init
<1>2. IInv /\ IInv' /\ Good /\ [Next]_vars => [Promise!Next]_(Promise!pvars)
  BY GoodStep
<1> QED BY <1>1, <1>2, Invariance, GoodInvariant, PTL DEF Spec, ImplementsPromise, Promise!Spec

=============================================================================
