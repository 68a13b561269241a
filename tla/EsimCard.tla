------------------------------ MODULE EsimCard ------------------------------
(***************************************************************************)
(* The eSIM card and who may talk to it (esim.rs).  Every operation takes  *)
(* the guard: a busy flag plus a lock file shared with command-line runs.  *)
(* A command runs on a worker thread; its caller stops waiting at a limit, *)
(* while the worker may go on for as long as the modem stalls.  A download *)
(* uses the card from its own thread, without a worker.                    *)
(*                                                                         *)
(* A thread is the request that started it: an enable goes on as its       *)
(* retries and its verifier.  EsimReceipts and EsimSwitch say what the     *)
(* threads do.                                                             *)
(***************************************************************************)
EXTENDS Integers, FiniteSets

CONSTANTS
    None,
    Requests,   \* requests made to the manager, one thread each
    Profiles,   \* profiles on the card
    First,      \* the one enabled at the start
    Faults      \* "busy", "timeout", "fail", "spawn", "lockfile"

ASSUME EsimAssumption ==
    /\ IsFiniteSet(Requests) /\ None \notin Requests
    /\ First \in Profiles /\ None \notin Profiles
    /\ Faults \subseteq {"busy", "timeout", "fail", "spawn", "lockfile"}

VARIABLES
    job,        \* what each request asks: a kind and a profile
    thread,     \* what each thread is doing, its command's answer, the list it read
    holder,     \* the thread holding the guard, or None when the manager is idle
    lockfile,   \* the lock file can be created
    worker,     \* the worker thread of a card command
    session,    \* a download has the card open
    cli,        \* a run by hand: "idle", "on" or "over"
    card        \* the card: enabled profile, profiles, those whose operator wants
                \* receipts (None: a downloaded one), the receipts, the last one's number

cardVars == <<job, thread, holder, lockfile, worker, session, cli, card>>

NoWorker == [on |-> FALSE, cmd |-> "none", by |-> None, item |-> None, awaited |-> FALSE,
             acted |-> "no", saw |-> None]
Answers == {"ok", "busy", "failed", "notstarted"}
At(t, pc) == thread[t].pc = pc /\ thread[t].ans = "none"
Answered(t, pc) == thread[t].pc = pc /\ thread[t].ans \in Answers
Go(t, pc) == thread' = [thread EXCEPT ![t].pc = pc, ![t].ans = "none"]
Holds(t) == holder = t
Release(t) == holder' = None /\ Holds(t)

(***************************************************************************)
(* The guard: the flag first, then the file.                               *)
(***************************************************************************)
WorkerLocksNot == FALSE                     \* A slip: a worker without its copy
WorkerLocks == worker.on                    \* the worker's copy of the lock
LockHeld == lockfile /\ (holder # None \/ WorkerLocks \/ cli = "on")
Free == holder = None /\ ~LockHeld

Acquire(t, from, to) ==
    /\ At(t, from) /\ Free
    /\ holder' = t /\ Go(t, to)

Refused(t, from, to) ==
    /\ At(t, from) /\ ~Free
    /\ Go(t, to) /\ UNCHANGED holder

(***************************************************************************)
(* A card command.                                                         *)
(***************************************************************************)
EnablePcs == {"enable", "retry_enable"}
ListPcs == {"read", "query", "verify"}
ReceiptPcs == {"first_receipts", "notices", "after_receipts", "send", "relist"}
CommandPcs == EnablePcs \cup ListPcs \cup ReceiptPcs \cup {"delete", "rename", "sending"}

Command(t) ==
    /\ thread[t].pc \in CommandPcs /\ thread[t].ans = "none" /\ Holds(t)
    /\ \/ /\ ~worker.on
          /\ thread' = [thread EXCEPT ![t].ans = "waits"]
          /\ worker' = [NoWorker EXCEPT !.on = TRUE, !.cmd = thread[t].pc, !.by = t,
                                        !.item = thread[t].item, !.awaited = TRUE]
       \/ /\ worker.on \/ "spawn" \in Faults
          /\ thread' = [thread EXCEPT ![t].ans = "notstarted"] /\ UNCHANGED worker
    /\ UNCHANGED <<job, holder, lockfile, session, cli, card>>

(* The card keeps a receipt of every change for an operator who wants one. *)
Noted(c, profile) ==
    IF profile \notin c.notifying THEN c
    ELSE [c EXCEPT !.last = @ + 1, !.receipts = @ \cup {[seq |-> c.last + 1, from |-> profile]}]

Effect(w) ==
    CASE w.cmd \in EnablePcs -> [Noted(Noted(card, card.enabled), job[w.by].profile)
                                    EXCEPT !.enabled = job[w.by].profile]
      [] w.cmd = "delete" -> [Noted(card, job[w.by].profile) EXCEPT !.profiles = @ \ {job[w.by].profile}]
      [] w.cmd = "sending" -> [card EXCEPT !.receipts = @ \ {w.item}]
      [] OTHER -> card

(* Only a disabled profile can be enabled or deleted. *)
Possible(w) ==
    w.cmd \in EnablePcs \cup {"delete"} => job[w.by].profile \in card.profiles \ {card.enabled}

(* The card does what it is asked, refuses it for now, or fails before or after it. *)
WorkerActs ==
    /\ worker.on /\ worker.acted = "no"
    /\ \E outcome \in {"ok", "busy", "failed"} :
         /\ outcome = "ok" => Possible(worker)
         /\ outcome = "busy" => "busy" \in Faults /\ worker.cmd \in EnablePcs
         /\ outcome = "failed" => "fail" \in Faults \/ ~Possible(worker)
         /\ worker' = [worker EXCEPT !.acted = outcome, !.saw = IF outcome = "ok" THEN card ELSE None]
         /\ card' \in (IF outcome = "ok" THEN {} ELSE {card})
                         \cup (IF outcome # "busy" /\ Possible(worker) THEN {Effect(worker)} ELSE {})
    /\ UNCHANGED <<job, thread, holder, lockfile, session, cli>>

(* The claims are dropped before the caller is answered. *)
WorkerEnds ==
    /\ worker.on /\ worker.acted # "no"
    /\ worker' = NoWorker
    /\ thread' = IF worker.awaited
                   THEN [thread EXCEPT ![worker.by].ans = worker.acted,
                                       ![worker.by].saw =
                                           IF worker.acted = "ok" /\ worker.cmd \in ListPcs \cup ReceiptPcs
                                             THEN worker.saw ELSE @]
                   ELSE thread
    /\ UNCHANGED <<job, holder, lockfile, session, cli, card>>

CallerGivesUp ==
    /\ "timeout" \in Faults /\ worker.on /\ worker.awaited
    /\ worker' = [worker EXCEPT !.awaited = FALSE]
    /\ thread' = [thread EXCEPT ![worker.by].ans = "failed"]
    /\ UNCHANGED <<job, holder, lockfile, session, cli, card>>

(* A run by hand takes the same lock file, and does not run without it. *)
CliStarts == cli = "idle" /\ lockfile /\ ~LockHeld /\ cli' = "on"
CliEnds == cli = "on" /\ cli' = "over"
Cli == (CliStarts \/ CliEnds) /\ UNCHANGED <<job, thread, holder, lockfile, worker, session, card>>

(***************************************************************************)
(* One command at a time: no two of a worker, a download and a run by hand *)
(* use the card at once, whoever gave up waiting for what (acquire, card,  *)
(* download), with or without a lock file.                                 *)
(***************************************************************************)
OneCommandAtATime ==
    ~(worker.on /\ session) /\ ~(worker.on /\ cli = "on") /\ ~(session /\ cli = "on")
=============================================================================
