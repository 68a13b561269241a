---------------------------- MODULE EsimReceipts ----------------------------
(***************************************************************************)
(* The operators' receipts (esim.rs): the card keeps one for every change  *)
(* until the operator's server has it.  They are listed, sent one by one   *)
(* under the guard, counted, and tried again by one background loop for as *)
(* long as some can still be sent.                                         *)
(*                                                                         *)
(* Sending is a procedure: a thread enters it at "send", holding the       *)
(* guard, and returns at the place kept in thread[t].back.  The loop is    *)
(* the thread that started it going on.                                    *)
(***************************************************************************)
EXTENDS EsimCard

CONSTANTS
    MaxAttempts     \* RECEIPT_MAX_ATTEMPTS

ASSUME ReceiptsAssumption == MaxAttempts \in Nat \ {0}

VARIABLES
    pending,    \* Receipts.pending: attempts by receipt, None before the first list
    retrying,   \* Receipts.retrying
    dropped     \* history: the loop ended, or was not started, in one of the known ways

receiptVars == <<pending, retrying, dropped>>

CanRetry(p) == p # None /\ \E r \in DOMAIN p : p[r] < MaxAttempts
Merged(fresh) == [r \in fresh |-> IF pending # None /\ r \in DOMAIN pending THEN pending[r] ELSE 0]
Fresh(t) == IF thread[t].ans = "ok" THEN Merged(thread[t].saw.receipts) ELSE pending

CardFrame == UNCHANGED <<job, lockfile, worker, session, cli, card>>

(***************************************************************************)
(* Sending.                                                                *)
(***************************************************************************)
Proceed(t, pc, item, todo) ==
    thread' = [thread EXCEPT ![t].pc = pc, ![t].ans = "none", ![t].item = item, ![t].todo = todo]

\* The guard is taken to send.
AcquireToSend(t, from, back) ==
    /\ At(t, from) /\ Free /\ holder' = t
    /\ thread' = [thread EXCEPT ![t].pc = "send", ![t].back = back]

\* The next of those left, or the last look at the card.
SendNext(t, todo) ==
    \/ todo = {} /\ Proceed(t, "relist", None, {})
    \/ \E r \in todo : Proceed(t, "sending", r, todo \ {r})

Return(t, clear) ==
    thread' = [thread EXCEPT ![t].pc = thread[t].back, ![t].ans = "none", ![t].clear = clear]

SendUnlisted(t) ==      \* A slip: the saved list will do
    /\ Answered(t, "send")
    /\ pending' = Fresh(t)
    /\ IF pending' = None
         THEN Return(t, FALSE)
         ELSE SendNext(t, {r \in DOMAIN pending' : pending'[r] < MaxAttempts})
    /\ UNCHANGED <<holder, retrying, dropped>> /\ CardFrame

SendListed(t) ==
    /\ Answered(t, "send")
    /\ pending' = Fresh(t)
    /\ IF thread[t].ans = "ok"
         THEN SendNext(t, {r \in DOMAIN pending' : pending'[r] < MaxAttempts})
         ELSE Return(t, FALSE)
    /\ UNCHANGED <<holder, retrying, dropped>> /\ CardFrame

\* What was not started counts for nothing; a failed server is left out of the round.
SendAnswered(t) ==
    /\ Answered(t, "sending")
    /\ LET item == thread[t].item
           left == thread[t].todo
       IN  CASE thread[t].ans = "ok" ->
                  /\ pending' = [r \in DOMAIN pending \ {item} |-> pending[r]]
                  /\ SendNext(t, left)
             [] thread[t].ans = "notstarted" -> SendNext(t, {}) /\ UNCHANGED pending
             [] OTHER ->
                  /\ pending' = [pending EXCEPT ![item] = @ + 1]
                  /\ SendNext(t, {r \in left : r.from # item.from})
    /\ UNCHANGED <<holder, retrying, dropped>> /\ CardFrame

SendRelisted(t) ==
    /\ Answered(t, "relist")
    /\ pending' = Fresh(t)
    /\ Return(t, DOMAIN pending' = {})
    /\ UNCHANGED <<holder, retrying, dropped>> /\ CardFrame

(***************************************************************************)
(* The retry loop: at most one, while something can be sent.               *)
(***************************************************************************)
EnsureRetryMarked(t, p) ==    \* A slip: marked as running although no thread could be had
    IF retrying \/ ~CanRetry(p)
      THEN Go(t, "done") /\ UNCHANGED <<retrying, dropped>>
      ELSE /\ retrying' = TRUE
           /\ \/ Go(t, "loop") /\ UNCHANGED dropped
              \/ "spawn" \in Faults /\ Go(t, "done") /\ dropped' = TRUE

\* The thread goes on as the loop, or ends.
EnsureRetry(t, p) ==
    IF retrying \/ ~CanRetry(p)
      THEN Go(t, "done") /\ UNCHANGED <<retrying, dropped>>
      ELSE \/ Go(t, "loop") /\ retrying' = TRUE /\ UNCHANGED dropped
           \/ "spawn" \in Faults /\ Go(t, "done") /\ dropped' = TRUE /\ UNCHANGED retrying

Ensure(t) ==
    /\ At(t, "ensure") /\ EnsureRetry(t, pending)
    /\ UNCHANGED <<holder, pending>> /\ CardFrame

\* A round is skipped while the SIM reloads, without data, and when the card is in use.
LoopTries(t, reloading) ==
    /\ \/ At(t, "loop") /\ ~reloading /\ Go(t, "loop_take") /\ UNCHANGED holder
       \/ At(t, "loop") /\ Go(t, "loop_check") /\ UNCHANGED holder
       \/ AcquireToSend(t, "loop_take", "loop_sent") \/ Refused(t, "loop_take", "loop_check")
    /\ UNCHANGED receiptVars /\ CardFrame

LoopSent(t) ==
    /\ At(t, "loop_sent") /\ Release(t) /\ Go(t, "loop_check")
    /\ UNCHANGED receiptVars /\ CardFrame

\* The rounds may be used up.
LoopChecks(t) ==
    /\ At(t, "loop_check")
    /\ \/ CanRetry(pending) /\ Go(t, "loop")
       \/ Go(t, "loop_end")
    /\ UNCHANGED holder /\ UNCHANGED receiptVars /\ CardFrame

\* Receipts listed since the check found the loop still marked as running.
LoopEnds(t) ==
    /\ At(t, "loop_end") /\ Go(t, "done")
    /\ retrying' = FALSE /\ dropped' = (dropped \/ CanRetry(pending))
    /\ UNCHANGED <<holder, pending>> /\ CardFrame

(***************************************************************************)
(* GET notifications, and sending on request.                              *)
(***************************************************************************)
\* Only lists: no loop is started for what it finds.
NoticesListed(t) ==
    /\ Answered(t, "notices")
    /\ pending' = Fresh(t)
    /\ dropped' = (dropped \/ (CanRetry(pending') /\ ~retrying))
    /\ Release(t) /\ Go(t, "done")
    /\ UNCHANGED retrying /\ CardFrame

SendNow(t) ==
    /\ At(t, "send_now")
    /\ pending' = IF pending = None THEN None ELSE [r \in DOMAIN pending |-> 0]
    /\ \/ /\ thread' = [thread EXCEPT ![t].pc = "send", ![t].back = "sent_now"]
          /\ UNCHANGED <<holder, dropped>>
       \/ /\ "spawn" \in Faults /\ Release(t) /\ Go(t, "done")
          /\ dropped' = (dropped \/ (CanRetry(pending') /\ ~retrying))
    /\ UNCHANGED retrying /\ CardFrame

SentNow(t) ==
    /\ At(t, "sent_now") /\ Release(t) /\ Go(t, "ensure")
    /\ UNCHANGED receiptVars /\ CardFrame

ReceiptSteps(t) ==
    \/ SendListed(t) \/ SendAnswered(t) \/ SendRelisted(t) \/ Ensure(t)
    \/ LoopSent(t) \/ LoopChecks(t) \/ LoopEnds(t) \/ NoticesListed(t) \/ SendNow(t) \/ SentNow(t)

(***************************************************************************)
(* Properties.                                                             *)
(***************************************************************************)
Looping == {"loop", "loop_take", "loop_check", "loop_end", "loop_sent"}
IsLoop(t) == \/ thread[t].pc \in Looping
             \/ thread[t].pc \in {"send", "sending", "relist"} /\ thread[t].back = "loop_sent"
Resting(t) == thread[t].pc \in {"idle", "done"} \/ IsLoop(t)

(* Who is told that the operators have been notified is told the truth: the   *)
(* card has no receipt left when sending returns with nothing pending         *)
(* (send_receipts, whatever timed out, failed or was left running before).    *)
NotifiedIsTrue ==
    \A t \in Requests :
        thread[t].clear /\ thread[t].pc \in {"deleted", "dl_sent", "after_sent", "again_sent",
                                             "sent_now", "loop_sent"}
            => card.receipts = {}

(* There is one loop exactly while it is marked as running, and a receipt that *)
(* can still be sent has one once nobody else is at work, except in the known  *)
(* ways (ensure_receipt_retry): the rounds ran out, no thread could be had, a  *)
(* mere look found the receipt, or it was listed while the loop was ending.    *)
RetriesGoOn ==
    /\ Cardinality({t \in Requests : IsLoop(t)}) = IF retrying THEN 1 ELSE 0
    /\ CanRetry(pending) /\ (\A t \in Requests : Resting(t)) => retrying \/ dropped
=============================================================================
