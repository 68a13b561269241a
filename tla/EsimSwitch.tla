----------------------------- MODULE EsimSwitch -----------------------------
(***************************************************************************)
(* The eSIM manager's operations on the card (esim.rs): switching to a     *)
(* profile, with the retries when the card is busy and the background      *)
(* check of what really happened; reading the list; deleting and renaming; *)
(* downloading a profile with preview and cancel (esim_download.rs).       *)
(*                                                                         *)
(* One step stands for the code between two blocking calls.  How long a    *)
(* loop goes on is left open: its time limit may pass at any round.        *)
(***************************************************************************)
EXTENDS EsimReceipts, Sequences, SequencesExt

CONSTANTS
    Workloads   \* what may be asked, of a card whose operators want which receipts

Jobs == [kind : {"enable", "delete", "rename"}, profile : Profiles]
            \cup [kind : {"list", "download", "notices", "send"}, profile : {None}]

ASSUME WorkloadsAssumption == Workloads \subseteq [Requests -> Jobs] \X SUBSET (Profiles \cup {None})

VARIABLES
    modem,      \* the profile the modem has loaded
    reloading,  \* Inventory.reloading: operations are refused, reads get the saved list
    inv,        \* the saved list's enabled profile, and whether a read failed since
    switch,     \* the last switch: state, target, generation
    download,   \* the last download: state and step
    ctl,        \* decisions sent to the running download
    open,       \* the control channel exists
    installed   \* the downloaded profile is on the card

switchVars == <<modem, reloading, inv, switch>>
downloadVars == <<download, ctl, open, installed>>
vars == <<cardVars, receiptVars, switchVars, downloadVars>>

Ended == {"", "connected", "no_data", "modem_unconfirmed", "card_unconfirmed", "not_applied"}
Current(t) == switch.gen = thread[t].gen
SameOthers == CardFrame /\ UNCHANGED receiptVars
Listed(saw) == [enabled |-> saw.enabled, error |-> FALSE]

(***************************************************************************)
(* Asking.  The switch in progress is checked before the guard is taken.   *)
(***************************************************************************)
MayAsk(t) ==
    /\ ~reloading
    /\ job[t].kind = "enable" => switch.state # "card_busy"

Checked == [enable |-> "ask", download |-> "ask", delete |-> "ask", rename |-> "ask",
            list |-> "ask_list", notices |-> "ask_notices", send |-> "ask_send"]

Ask(t) ==
    /\ At(t, "idle")
    /\ IF MayAsk(t) THEN Go(t, Checked[job[t].kind]) ELSE Go(t, "done")
    /\ UNCHANGED <<holder, switchVars, downloadVars>> /\ SameOthers

Enter(t) ==
    /\ \/ Acquire(t, "ask", "read") \/ Refused(t, "ask", "done")
       \/ Acquire(t, "ask_list", "query") \/ Refused(t, "ask_list", "done")
       \/ Acquire(t, "ask_notices", "notices") \/ Refused(t, "ask_notices", "done")
       \/ Acquire(t, "ask_send", "send_now") \/ Refused(t, "ask_send", "done")
    /\ UNCHANGED <<switchVars, downloadVars>> /\ SameOthers

(* Reading the list: recorded, or the error kept, before the guard goes.  The *)
(* first good read also looks for receipts.                                   *)
Query(t) ==
    /\ Answered(t, "query")
    /\ IF thread[t].ans = "ok" /\ pending = None
         THEN Go(t, "first_receipts") /\ UNCHANGED <<holder, inv>>
         ELSE /\ inv' = IF thread[t].ans = "ok" THEN Listed(thread[t].saw) ELSE [inv EXCEPT !.error = TRUE]
              /\ Release(t) /\ Go(t, "done")
    /\ UNCHANGED <<modem, reloading, switch, downloadVars>> /\ SameOthers

FirstReceipts(t) ==
    /\ Answered(t, "first_receipts")
    /\ pending' = Fresh(t)
    /\ EnsureRetry(t, pending')
    /\ inv' = Listed(thread[t].saw)
    /\ Release(t)
    /\ UNCHANGED <<modem, reloading, switch, downloadVars>> /\ CardFrame

(* The first reads of an operation: the right card, and its list. *)
Fits(t) ==
    CASE job[t].kind \in {"enable", "delete"} ->
             job[t].profile \in thread[t].saw.profiles \ {thread[t].saw.enabled}
      [] job[t].kind = "rename" -> job[t].profile \in thread[t].saw.profiles
      [] OTHER -> TRUE

FirstRead(t) ==
    /\ Answered(t, "read")
    /\ \/ /\ ~(thread[t].ans = "ok" /\ Fits(t))
          /\ Release(t) /\ Go(t, "done") /\ UNCHANGED downloadVars
       \/ /\ thread[t].ans = "ok" /\ Fits(t)
          /\ job[t].kind # "download" /\ Go(t, job[t].kind) /\ UNCHANGED <<holder, downloadVars>>
       \/ /\ thread[t].ans = "ok" /\ job[t].kind = "download"
          /\ \/ /\ download' = [state |-> "running", step |-> "starting"]
                /\ Go(t, "dl_open") /\ installed' = FALSE /\ UNCHANGED <<holder, ctl, open>>
             \/ /\ "spawn" \in Faults
                /\ download' = [state |-> "failed", step |-> "starting"]
                /\ Release(t) /\ Go(t, "done") /\ UNCHANGED <<ctl, open, installed>>
    /\ UNCHANGED switchVars /\ SameOthers

(* Deleting and renaming: the list as it is now, recorded under the guard. *)
Deleted(t) ==
    /\ Answered(t, "delete")
    /\ IF thread[t].ans = "ok"
         THEN /\ inv' = Listed(thread[t].saw)
              /\ thread' = [thread EXCEPT ![t].pc = "send", ![t].ans = "none", ![t].back = "deleted"]
              /\ UNCHANGED holder
         ELSE Release(t) /\ Go(t, "done") /\ UNCHANGED inv
    /\ UNCHANGED <<modem, reloading, switch, downloadVars>> /\ SameOthers

DeleteEnds(t) ==
    /\ At(t, "deleted") /\ Release(t) /\ EnsureRetry(t, pending)
    /\ UNCHANGED <<pending, switchVars, downloadVars>> /\ CardFrame

Renamed(t) ==
    /\ Answered(t, "rename")
    /\ inv' = IF thread[t].ans = "ok" THEN Listed(thread[t].saw) ELSE inv
    /\ Release(t) /\ Go(t, "done")
    /\ UNCHANGED <<modem, reloading, switch, downloadVars>> /\ SameOthers

(***************************************************************************)
(* Switching.  The guard is dropped before the outcome is recorded.        *)
(***************************************************************************)
EnableAnswered(t) ==
    /\ Answered(t, "enable")
    /\ Release(t)
    /\ thread' = [thread EXCEPT ![t].pc = CASE thread[t].ans = "notstarted" -> "done"
                                            [] thread[t].ans = "busy" -> "record_busy"
                                            [] OTHER -> "record", ![t].ans = "none"]
    /\ UNCHANGED <<switchVars, downloadVars>> /\ SameOthers

(* A new generation, with the list as it was; the worker thread is spawned. *)
NewSwitch(t, state, pc, failure) ==
    /\ inv' = Listed(thread[t].saw)
    /\ \/ /\ thread' = [thread EXCEPT ![t].pc = pc, ![t].gen = switch.gen + 1]
          /\ switch' = [state |-> state, target |-> job[t].profile, gen |-> switch.gen + 1]
          /\ reloading' = (state = "reloading" \/ reloading)
       \/ /\ "spawn" \in Faults
          /\ Go(t, "done")
          /\ switch' = [state |-> failure, target |-> job[t].profile, gen |-> switch.gen + 1]
          /\ reloading' = (state # "reloading" /\ reloading)
    /\ UNCHANGED <<holder, modem, downloadVars>> /\ SameOthers

Record(t) == At(t, "record") /\ NewSwitch(t, "reloading", "settle", "card_unconfirmed")
RecordBusy(t) == At(t, "record_busy") /\ NewSwitch(t, "card_busy", "retry", "not_applied")

(* A busy card: tried again until it answers otherwise. *)
RetryAcquires(t) ==
    /\ Acquire(t, "retry", "retry_enable")
    /\ UNCHANGED <<switchVars, downloadVars>> /\ SameOthers

RetryAnsweredLoose(t) ==    \* A slip: a failure or a time-out counts as a refusal
    /\ Answered(t, "retry_enable") /\ Release(t)
    /\ IF thread[t].ans = "ok" /\ Current(t)
         THEN /\ Go(t, "settle") /\ reloading' = TRUE
              /\ switch' = [switch EXCEPT !.state = "reloading"]
         ELSE Go(t, "retry") /\ UNCHANGED <<reloading, switch>>
    /\ UNCHANGED <<modem, inv, downloadVars>> /\ SameOthers

RetryAnswered(t) ==
    /\ Answered(t, "retry_enable")
    /\ Release(t)
    /\ CASE ~Current(t) -> Go(t, "done") /\ UNCHANGED <<reloading, switch>>
         [] Current(t) /\ thread[t].ans \in {"busy", "notstarted"} ->
              Go(t, "retry") /\ UNCHANGED <<reloading, switch>>
         [] OTHER -> /\ Go(t, "settle") /\ reloading' = TRUE
                     /\ switch' = [switch EXCEPT !.state = "reloading"]
    /\ UNCHANGED <<modem, inv, downloadVars>> /\ SameOthers

Finish(t, state) == switch' = IF Current(t) THEN [switch EXCEPT !.state = state] ELSE switch

RetryEnds(t) ==
    /\ At(t, "retry")
    /\ Finish(t, "not_applied") /\ Go(t, "done")
    /\ UNCHANGED <<holder, modem, reloading, inv, downloadVars>> /\ SameOthers

(***************************************************************************)
(* The check of a switch: the card's list once the SIM is back, then what  *)
(* the modem loaded and whether data connects.                             *)
(***************************************************************************)
VerifierLooks(t) ==
    /\ At(t, "settle")
    /\ Go(t, IF Current(t) THEN "look" ELSE "done")
    /\ UNCHANGED <<holder, switchVars, downloadVars>> /\ SameOthers

VerifierAcquires(t) ==
    /\ \/ Acquire(t, "look", "verify")
       \/ Go(t, "settle") /\ At(t, "look") /\ UNCHANGED holder   \* SIM not ready, or no guard
    /\ UNCHANGED <<switchVars, downloadVars>> /\ SameOthers

VerifierAnswered(t) ==
    /\ Answered(t, "verify")
    /\ Release(t)
    /\ Go(t, IF thread[t].ans = "ok" THEN "confirm" ELSE "settle")
    /\ UNCHANGED <<switchVars, downloadVars>> /\ SameOthers

(* The list is saved and reloading ends, whatever the generation. *)
VerifierRecords(t) ==
    /\ At(t, "confirm")
    /\ reloading' = FALSE
    /\ inv' = Listed(thread[t].saw)
    /\ Go(t, "verdict")
    /\ UNCHANGED <<holder, modem, switch, downloadVars>> /\ SameOthers

VerifierJudges(t) ==
    /\ At(t, "verdict")
    /\ IF thread[t].saw.enabled # job[t].profile
         THEN Finish(t, "not_applied") /\ Go(t, "done")
         ELSE Finish(t, "card_confirmed") /\ Go(t, IF Current(t) THEN "watch" ELSE "done")
    /\ UNCHANGED <<holder, modem, reloading, inv, downloadVars>> /\ SameOthers

UnreadableForgets(t) ==     \* A slip: an unreadable card leaves the mark
    /\ At(t, "settle")
    /\ inv' = [inv EXCEPT !.error = TRUE]
    /\ Finish(t, "card_unconfirmed") /\ Go(t, "done")
    /\ UNCHANGED <<holder, modem, reloading, downloadVars>> /\ SameOthers

(* No list within the limit: the modem's word, or none. *)
Unreadable(t) ==
    /\ At(t, "settle")
    /\ reloading' = FALSE /\ inv' = [inv EXCEPT !.error = TRUE]
    /\ IF modem = job[t].profile
         THEN Go(t, "watch") /\ UNCHANGED switch
         ELSE Finish(t, "card_unconfirmed") /\ Go(t, IF Current(t) THEN "after_list" ELSE "done")
    /\ UNCHANGED <<holder, modem, downloadVars>> /\ SameOthers

WatchReads(t) ==
    /\ At(t, "watch")
    /\ thread' = [thread EXCEPT ![t].pc = IF Current(t) THEN "watched" ELSE "done",
                                ![t].loaded = modem = job[t].profile]
    /\ UNCHANGED <<holder, switchVars, downloadVars>> /\ SameOthers

Outcomes(loaded) == IF loaded THEN {"modem_confirmed", "connected", "no_data"}
                              ELSE {switch.state, "modem_unconfirmed"}

WatchWrites(t) ==
    /\ At(t, "watched")
    /\ \E state \in Outcomes(thread[t].loaded) :
         /\ Finish(t, state)
         /\ Go(t, CASE ~Current(t) -> "done"
                    [] state = "connected" -> "after"
                    [] state \in Ended \ {"connected"} -> "after_list"
                    [] OTHER -> "watch")
    /\ UNCHANGED <<holder, modem, reloading, inv, downloadVars>> /\ SameOthers

(* The receipts the switch left on the card: sent when data is up, with a second *)
(* try, or only listed.                                                          *)
AfterSwitch(t) ==
    /\ \/ At(t, "after") /\ reloading /\ Go(t, "ensure") /\ UNCHANGED holder
       \/ At(t, "after") /\ ~reloading /\ Go(t, "after_take") /\ UNCHANGED holder
       \/ AcquireToSend(t, "after_take", "after_sent") \/ Refused(t, "after_take", "again")
       \/ AcquireToSend(t, "again", "again_sent")
       \/ At(t, "again") /\ Go(t, "ensure") /\ UNCHANGED holder        \* no data, or no guard
       \/ Acquire(t, "after_list", "after_receipts") \/ Refused(t, "after_list", "ensure")
    /\ UNCHANGED <<switchVars, downloadVars>> /\ SameOthers

AfterSent(t) ==
    /\ \/ At(t, "after_sent") /\ Go(t, IF thread[t].clear THEN "ensure" ELSE "again") /\ UNCHANGED pending
       \/ At(t, "again_sent") /\ Go(t, "ensure") /\ UNCHANGED pending
       \/ Answered(t, "after_receipts") /\ Go(t, "ensure") /\ pending' = Fresh(t)
    /\ Release(t)
    /\ UNCHANGED <<retrying, dropped, switchVars, downloadVars>> /\ CardFrame

(***************************************************************************)
(* Downloading.  The thread holds the guard to the end.  A decision counts *)
(* when it is in the channel; the steps are those between its checks.      *)
(***************************************************************************)
Cancelled == Contains(ctl, "Cancel")
Stop(t, result) ==
    /\ session' = FALSE /\ open' = FALSE /\ ctl' = <<>>
    /\ thread' = [thread EXCEPT ![t].pc = IF download.step = "install" THEN "send" ELSE "dl_final",
                                ![t].back = "dl_sent", ![t].result = result]

(* A failed step: a pending Cancel is taken as the reason when there is a session to cancel. *)
Fails(t) ==
    /\ "fail" \in Faults
    /\ \E result \in {"failed"} \cup (IF Cancelled THEN {"cancelled"} ELSE {}) : Stop(t, result)

DownloadFrame == UNCHANGED <<job, holder, lockfile, worker, cli, receiptVars, switchVars>>

DownloadOpens(t) ==
    /\ At(t, "dl_open")
    /\ IF worker.on
         THEN Stop(t, "failed")
         ELSE session' = TRUE /\ open' = TRUE /\ ctl' = <<>> /\ Go(t, "dl_before")
    /\ UNCHANGED <<card, download, installed>> /\ DownloadFrame

(* The requests to the operator's server before the preview, and those after it. *)
DownloadChecks(t, from, to) ==
    /\ At(t, from)
    /\ \/ IF Cancelled THEN Stop(t, "cancelled")
                       ELSE Go(t, to) /\ ctl' = <<>> /\ UNCHANGED <<session, open>>
       \/ Fails(t)
    /\ UNCHANGED <<card, download, installed>> /\ DownloadFrame

DownloadShows(t) ==
    /\ At(t, "dl_show")
    /\ \/ /\ download' = [state |-> IF download.state = "running" THEN "confirm" ELSE download.state,
                          step |-> "preview"]
          /\ Go(t, "dl_preview")
       \/ Go(t, "dl_after") /\ UNCHANGED download      \* no preview asked for
    /\ UNCHANGED <<card, ctl, open, installed, session>> /\ DownloadFrame

DownloadHears(t) ==
    /\ At(t, "dl_preview")
    /\ \/ /\ ctl # <<>>
          /\ IF Head(ctl) = "Accept"
               THEN Go(t, "dl_after") /\ ctl' = Tail(ctl) /\ UNCHANGED <<session, open>>
               ELSE Stop(t, "cancelled")
       \/ "timeout" \in Faults /\ ctl = <<>> /\ Stop(t, "cancelled")  \* the deadline
    /\ UNCHANGED <<card, download, installed>> /\ DownloadFrame

DownloadLoads(t) ==
    /\ At(t, "dl_load")
    /\ download' = [download EXCEPT !.step = "install"]
    /\ Go(t, "dl_install")
    /\ UNCHANGED <<card, ctl, open, installed, session>> /\ DownloadFrame

DownloadInstallsBlind(t) == \* A slip: no look at the channel before the install
    /\ At(t, "dl_install")
    /\ Stop(t, "ok") /\ installed' = TRUE /\ card' = Noted(card, None)
    /\ UNCHANGED download /\ DownloadFrame

DownloadInstalls(t) ==
    /\ At(t, "dl_install")
    /\ \/ Cancelled /\ Stop(t, "cancelled") /\ UNCHANGED <<installed, card>>
       \/ ~Cancelled /\ Stop(t, "ok") /\ installed' = TRUE /\ card' = Noted(card, None)
       \/ /\ ~Cancelled /\ "fail" \in Faults /\ Stop(t, "failed")
          /\ installed' \in BOOLEAN /\ card' \in {card, Noted(card, None)}
    /\ UNCHANGED download /\ DownloadFrame

DownloadEnds(t) ==
    /\ \/ At(t, "dl_final") /\ Go(t, "done") /\ UNCHANGED <<retrying, dropped>>
       \/ At(t, "dl_sent") /\ EnsureRetry(t, pending)
    /\ download' = [download EXCEPT !.state = IF thread[t].result = "ok" THEN "done" ELSE thread[t].result]
    /\ Release(t)
    /\ UNCHANGED <<pending, ctl, open, installed, switchVars>> /\ CardFrame

(***************************************************************************)
(* The owner's decisions, and the preview's own limit.                     *)
(***************************************************************************)
Send(decision, state) ==
    /\ open /\ ctl' = Append(ctl, decision)
    /\ download' = [download EXCEPT !.state = state]
    /\ UNCHANGED <<cardVars, receiptVars, switchVars, open, installed>>

DownloadConfirm ==
    /\ download.state = "confirm"
    /\ Send("Accept", "running") \/ Send("Decline", "cancelling")

DownloadCancel ==
    /\ download.state \in {"confirm", "running"}
    /\ ~(download.state = "running" /\ download.step = "install")
    /\ Send("Cancel", "cancelling")

PreviewTimeout == download.state = "confirm" /\ Send("PreviewTimeout", "cancelling")

DownloadDismiss ==
    /\ download.state \in {"done", "failed", "cancelled"}
    /\ download' = [state |-> "idle", step |-> ""]
    /\ UNCHANGED <<cardVars, receiptVars, switchVars, ctl, open, installed>>

(* The modem reloads the SIM some time after a switch. *)
ModemReloads ==
    /\ modem # card.enabled /\ modem' = card.enabled
    /\ UNCHANGED <<cardVars, receiptVars, reloading, inv, switch, downloadVars>>

(***************************************************************************)
(* The specification.                                                      *)
(***************************************************************************)
Init ==
    /\ \E w \in Workloads :
         LET c == [enabled |-> First, profiles |-> Profiles, notifying |-> w[2], receipts |-> {}, last |-> 0]
         IN  job = w[1] /\ card \in {c, Noted(c, First)}
    /\ thread = [t \in Requests |-> [pc |-> "idle", ans |-> "none", saw |-> None, gen |-> 0, loaded |-> FALSE,
                                     result |-> "", item |-> None, todo |-> {}, back |-> "loop_sent", clear |-> FALSE]]
    /\ holder = None /\ worker = NoWorker /\ session = FALSE /\ cli = "idle"
    /\ lockfile \in {TRUE} \cup (IF "lockfile" \in Faults THEN {FALSE} ELSE {})
    /\ modem = First
    /\ pending = None /\ retrying = FALSE /\ dropped = FALSE
    /\ reloading = FALSE /\ inv = [enabled |-> First, error |-> FALSE]
    /\ switch = [state |-> "", target |-> None, gen |-> 0]
    /\ download = [state |-> "idle", step |-> ""]
    /\ ctl = <<>> /\ open = FALSE /\ installed = FALSE

CardSteps == WorkerActs \/ WorkerEnds \/ CallerGivesUp \/ Cli
SwitchSteps(t) ==
    \/ Ask(t) \/ Enter(t) \/ Query(t) \/ FirstReceipts(t) \/ FirstRead(t) \/ Deleted(t) \/ DeleteEnds(t)
    \/ Renamed(t) \/ EnableAnswered(t) \/ Record(t)
    \/ RecordBusy(t) \/ RetryAcquires(t) \/ RetryAnswered(t) \/ RetryEnds(t)
    \/ VerifierLooks(t) \/ VerifierAcquires(t) \/ VerifierAnswered(t) \/ VerifierRecords(t)
    \/ VerifierJudges(t) \/ Unreadable(t) \/ WatchReads(t) \/ WatchWrites(t)
    \/ AfterSwitch(t) \/ AfterSent(t)
DownloadSteps(t) ==
    \/ DownloadOpens(t) \/ DownloadChecks(t, "dl_before", "dl_show")
    \/ DownloadShows(t) \/ DownloadHears(t) \/ DownloadChecks(t, "dl_after", "dl_load")
    \/ DownloadLoads(t) \/ DownloadInstalls(t) \/ DownloadEnds(t)
OwnersSteps == DownloadConfirm \/ DownloadCancel \/ PreviewTimeout \/ DownloadDismiss

AllDone == \A t \in Requests : thread[t].pc = "done"
Rest == AllDone /\ ~worker.on /\ UNCHANGED vars

Next ==
    \/ \E t \in Requests :
         \/ Command(t) /\ UNCHANGED <<receiptVars, switchVars, downloadVars>>
         \/ (ReceiptSteps(t) \/ LoopTries(t, reloading)) /\ UNCHANGED <<switchVars, downloadVars>>
         \/ SwitchSteps(t) \/ DownloadSteps(t)
    \/ CardSteps /\ UNCHANGED <<receiptVars, switchVars, downloadVars>>
    \/ OwnersSteps \/ ModemReloads \/ Rest

Spec == Init /\ [][Next]_vars

(***************************************************************************)
(* Properties.                                                             *)
(***************************************************************************)
OneSwitch == Cardinality({t \in Requests : job[t].kind = "enable"}) <= 1

(* A verdict is the truth: a switch reported applied is on the card; one reported *)
(* "not_applied" is not, and no command of it is left that could still apply it   *)
(* (verify_switch, retry_enable).                                                 *)
VerdictIsTrue ==
    OneSwitch =>
        /\ switch.state \in {"card_confirmed", "modem_confirmed", "connected", "no_data"} => card.enabled = switch.target
        /\ switch.state = "not_applied" =>
             card.enabled # switch.target /\ ~(worker.on /\ worker.cmd \in EnablePcs /\ worker.acted = "no")

(* When all threads have ended or wait, nothing is left marked as reloading, which would refuse *)
(* every later operation, and the saved list shows the profile the card has, or that it *)
(* could not be read (verify_switch, profiles).                                         *)
RestIsSettled ==
    OneSwitch /\ (\A t \in Requests : Resting(t)) =>
        /\ ~reloading
        /\ inv.error \/ switch.state = "card_unconfirmed" \/ inv.enabled = card.enabled

(* A cancel that was accepted keeps its word: the profile is not installed, and the *)
(* download does not end as if it were (download_cancel_for, steps).                *)
CancelIsHonoured == download.state \in {"cancelling", "cancelled"} => ~installed

=============================================================================
