-------------------------- MODULE EsimSwitchProofs --------------------------
(***************************************************************************)
(* The eSIM manager never has two commands on the card at once, who is     *)
(* told that the operators were notified is told the truth, an accepted    *)
(* cancel is kept, receipts are tried on, the verdict on a switch is true, *)
(* and what it leaves at rest is settled: for any number of requests and   *)
(* profiles, any subset of the faults and any workload (the last two of a  *)
(* workload with one switch).                                              *)
(*                                                                         *)
(* The argument: the guard belongs to the thread whose place in the code   *)
(* lies between taking it and dropping it (Guarded), an open download is   *)
(* such a place and leaves no worker behind, and a run by hand excludes    *)
(* both the guard and a worker.  Every step is one of a few kinds of steps *)
(* on the guard, which keep this.                                          *)
(*                                                                         *)
(* For the receipts: an answer a thread waits for is what the card has     *)
(* now (Expected), since only the guard's holder starts workers and uses   *)
(* sessions; so from the list to the return of sending the receipts on the *)
(* card are among the pending ones, and a worker left behind there can     *)
(* only take receipts away (Told).                                         *)
(*                                                                         *)
(* For the cancel: while the session is open, an accepted decision is in   *)
(* the channel or the next to be heard (Heeded).  For the loop: receipts   *)
(* that can be sent have one, or a thread that will come by the place      *)
(* where it is started (Attended).                                         *)
(*                                                                         *)
(* For the switch: until a command to enable was given to the card,        *)
(* everything is as at the start (Still), and a command left behind has    *)
(* been acted on once a list was read under the guard (Looks); so what     *)
(* the verifier judges by is what the card has (Judged).                   *)
(***************************************************************************)
EXTENDS EsimSwitch, SequenceTheorems, FiniteSetTheorems, TLAPS

\* The places that hold a session on the card, those sending returns to, and all
\* that hold the guard.
SessionPcs == {"dl_before", "dl_show", "dl_preview", "dl_after", "dl_load", "dl_install"}
BackPcs == {"deleted", "dl_sent", "after_sent", "again_sent", "sent_now", "loop_sent"}
GuardPcs == SessionPcs \cup BackPcs \cup CommandPcs \cup {"dl_open", "dl_final", "send_now"}

ThreadFields == {"pc", "ans", "saw", "gen", "loaded", "result", "item", "todo", "back", "clear"}
WorkerFields == {"on", "cmd", "by", "item", "awaited", "acted", "saw"}
CardFields == {"enabled", "profiles", "notifying", "receipts", "last"}

Shaped(r) == DOMAIN r = ThreadFields /\ r.back \in BackPcs
Threads == DOMAIN thread = Requests /\ \A t \in Requests : Shaped(thread[t])

Typed ==
    /\ Threads
    /\ holder \in Requests \cup {None}
    /\ lockfile \in BOOLEAN /\ session \in BOOLEAN
    /\ DOMAIN worker = WorkerFields /\ worker.on \in BOOLEAN
    /\ worker.on => worker.by \in Requests
    /\ job \in [Requests -> Jobs]
    /\ DOMAIN card = CardFields

\* What is asked of the card as an operation, with a first read.
Operations == {"enable", "delete", "rename", "download"}
OperationPcs == {"ask", "read"}

\* Who is between taking and dropping the guard has it, and only an operation reads first.
Guarded ==
    \A t \in Requests : /\ thread[t].pc \in GuardPcs => holder = t
                        /\ thread[t].pc \in OperationPcs => job[t].kind \in Operations

\* A download's session belongs to the thread that has the guard; no worker runs beside it.
SessionOwned ==
    /\ session => /\ holder \in Requests /\ thread[holder].pc \in SessionPcs
                  /\ ~worker.on
    /\ \A t \in Requests : thread[t].pc \in SessionPcs => session

\* A run by hand found neither.
CliAlone == cli = "on" => lockfile /\ holder = None /\ ~worker.on

\* The answer its caller waits for is what the card has.
Expected ==
    worker.on /\ worker.awaited =>
        /\ thread[worker.by].ans = "waits" /\ holder = worker.by
        /\ worker.cmd = thread[worker.by].pc /\ worker.item = thread[worker.by].item
        /\ worker.acted = "ok" /\ worker.cmd \in {"send", "relist"} => worker.saw = card
        /\ worker.acted = "ok" /\ worker.cmd = "sending" => worker.item \notin card.receipts

\* No worker can add a receipt.
Quiet == worker.on => worker.cmd \in {"sending", "relist"}

\* What a thread that sends knows of the card.
Told(t) ==
    /\ thread[t].ans = "ok" /\ thread[t].pc \in {"send", "relist"} => ~worker.on /\ thread[t].saw = card
    /\ thread[t].ans = "ok" /\ thread[t].pc = "sending" => ~worker.on /\ thread[t].item \notin card.receipts
    /\ thread[t].pc \in {"sending", "relist"} => Quiet /\ card.receipts \subseteq DOMAIN pending
    /\ thread[t].pc \in BackPcs /\ thread[t].clear => Quiet /\ card.receipts = {}

IInv == Typed /\ Guarded /\ SessionOwned /\ CliAlone /\ Expected /\ \A t \in Requests : Told(t)

\* One thread goes to pc, with its answer used up; the others stay.
Moves(t, pc) ==
    /\ Threads' /\ thread'[t].pc = pc /\ thread'[t].ans = "none"
    /\ \A u \in Requests : u # t => thread'[u] = thread[u]

\* What a step of one thread, which does not wait, leaves alone.
Alone(t) ==
    /\ Moves(t, thread'[t].pc) /\ thread[t].ans # "waits"
    /\ UNCHANGED <<job, lockfile, worker, cli>>
    /\ UNCHANGED pending \/ holder = t

\* A step outside a session: the guard is kept, taken or dropped.
GuardStep(t) ==
    /\ Alone(t) /\ UNCHANGED session
    /\ thread[t].pc \notin SessionPcs /\ thread'[t].pc \notin SessionPcs
    /\ \/ holder' = holder /\ (thread'[t].pc \in GuardPcs => thread[t].pc \in GuardPcs)
       \/ Free /\ holder' = t
       \/ holder = t /\ holder' = None /\ thread'[t].pc \notin GuardPcs
    /\ thread'[t].pc \in OperationPcs => job[t].kind \in Operations
    /\ UNCHANGED card

\* The download is over and its result not yet known, the receipts being sent first.
Ending(t) ==
    \/ thread[t].pc \in {"dl_sent", "dl_final"}
    \/ thread[t].pc \in {"send", "sending", "relist"} /\ thread[t].back = "dl_sent"

\* No download begins or gets its result by it.
Follows(t) ==
    /\ thread'[t].pc # "dl_open"
    /\ Ending(t)' => Ending(t) /\ thread'[t].result = thread[t].result
Apart(t) == ~Ending(t)' /\ (FirstRead(t) \/ (UNCHANGED downloadVars /\ thread'[t].pc # "dl_open"))

\* From here a thread comes by the place where a loop is started.
CommittedPcs == {"ensure", "deleted", "dl_sent", "after_sent", "again_sent", "sent_now", "again"}
SendPcs == {"send", "sending", "relist"}
Committed(t) ==
    thread[t].pc \in CommittedPcs \/ (thread[t].pc \in SendPcs /\ thread[t].back # "loop_sent")

\* It has nothing to do with receipts, or comes by the place where their loop is started.
Aside(t) ==
    \/ UNCHANGED receiptVars /\ ~IsLoop(t) /\ ~IsLoop(t)' /\ ~Committed(t)
    \/ FirstReceipts(t) \/ DeleteEnds(t) \/ AfterSwitch(t) \/ AfterSent(t)

\* Sending is not at work after it.
Elsewhere(t) == thread'[t].pc \notin BackPcs \cup {"sending", "relist"}

\* A step that opens, uses or closes a session.
SessionStep(t) ==
    /\ Alone(t) /\ UNCHANGED holder
    /\ thread[t].pc \in SessionPcs \cup {"dl_open"} /\ thread'[t].pc \in GuardPcs
    /\ session' \in BOOLEAN
    /\ session' => thread'[t].pc \in SessionPcs
    /\ thread'[t].pc \in SessionPcs => session'
    /\ thread'[t].pc \notin OperationPcs
    /\ session' => session \/ ~worker.on
    /\ UNCHANGED card \/ (session /\ DOMAIN card' = CardFields)
    /\ Elsewhere(t)

-----------------------------------------------------------------------------
(* The two kinds of steps keep the invariant. *)

\* Where a thread does not send and waits for nothing, there is nothing to know.
LEMMA ElsewhereTold ==
    ASSUME NEW t \in Requests, Alone(t), Elsewhere(t)
    PROVE  Told(t)'
BY DEF Alone, Moves, Elsewhere, Told

\* Taking the guard needs it free, which a run by hand and a session exclude.
LEMMA GuardStepKeeps ==
    ASSUME IInv, NEW t \in Requests, GuardStep(t), Told(t)'
    PROVE  IInv'
<1> USE EsimAssumption
<1>1. Typed'
  BY DEF IInv, Typed, GuardStep, Alone, Moves
<1>2. Guarded'
  <2> SUFFICES ASSUME NEW u \in Requests, thread'[u].pc \in GuardPcs
               PROVE  holder' = u
    <3>1. ASSUME NEW u \in Requests, thread'[u].pc \in OperationPcs PROVE job'[u].kind \in Operations
      BY <3>1 DEF IInv, Guarded, GuardStep, Alone, Moves
    <3> QED BY <3>1 DEF Guarded
  <2>1. CASE u = t
    BY <2>1 DEF IInv, Guarded, GuardStep
  <2>2. CASE u # t
    <3>1. holder = u
      BY <2>2 DEF IInv, Guarded, GuardStep, Alone, Moves
    <3> QED BY <2>2, <3>1 DEF GuardStep, Free
  <2> QED BY <2>1, <2>2
<1>3. SessionOwned'
  <2>0. \A u \in Requests : thread'[u].pc \in SessionPcs => session'
    BY DEF IInv, SessionOwned, GuardStep, Alone, Moves
  <2> SUFFICES ASSUME session
               PROVE  holder' \in Requests /\ thread'[holder'].pc \in SessionPcs /\ ~worker.on
    BY <2>0 DEF SessionOwned, GuardStep, Alone, Moves
  <2>1. holder \in Requests /\ thread[holder].pc \in SessionPcs /\ ~worker.on
    BY DEF IInv, SessionOwned
  <2>2. holder # t /\ ~Free
    BY <2>1 DEF GuardStep, Free
  <2> QED BY <2>1, <2>2 DEF GuardStep, Alone, Moves
<1>4. CliAlone'
  <2> SUFFICES ASSUME cli = "on"
               PROVE  lockfile /\ holder' = None /\ ~worker.on
    BY DEF CliAlone, GuardStep, Alone, Moves
  <2>1. lockfile /\ holder = None /\ ~worker.on
    BY DEF IInv, CliAlone
  <2>2. ~Free
    BY <2>1 DEF Free, LockHeld
  <2> QED BY <2>1, <2>2 DEF GuardStep
<1>5. Expected'
  <2> SUFFICES ASSUME worker.on, worker.awaited PROVE Expected'
    BY DEF Expected, GuardStep, Alone
  <2>1. worker.by \in Requests /\ worker.by # t /\ holder = worker.by
    BY DEF IInv, Typed, Expected, GuardStep, Alone
  <2>2. holder' = holder /\ thread'[worker.by] = thread[worker.by]
    BY <2>1 DEF GuardStep, Alone, Moves, Free
  <2> QED BY <2>2 DEF IInv, Expected, GuardStep, Alone
<1>6. ASSUME NEW u \in Requests, u # t PROVE Told(u)'
  <2>1. CASE thread[u].pc \in GuardPcs
    <3>1. holder = u /\ thread'[u] = thread[u]
      BY <1>6, <2>1 DEF IInv, Guarded, GuardStep, Alone, Moves
    <3> QED BY <1>6, <3>1 DEF IInv, Told, Quiet, GuardStep, Alone
  <2>2. CASE thread[u].pc \notin GuardPcs
    BY <1>6, <2>2 DEF Told, GuardStep, Alone, Moves, GuardPcs, CommandPcs, ReceiptPcs
  <2> QED BY <2>1, <2>2
<1> QED BY <1>1, <1>2, <1>3, <1>4, <1>5, <1>6 DEF IInv

\* The thread of a session has the guard before and after.
LEMMA SessionStepKeeps ==
    ASSUME IInv, NEW t \in Requests, SessionStep(t)
    PROVE  IInv'
<1> USE EsimAssumption
<1>1. holder = t
  BY DEF IInv, Guarded, SessionStep, GuardPcs
<1>2. Typed'
  BY DEF IInv, Typed, SessionStep, Alone, Moves
<1>3. Guarded'
  BY <1>1 DEF IInv, Guarded, SessionStep, Alone, Moves
<1>4. SessionOwned'
  BY <1>1 DEF IInv, Guarded, SessionOwned, SessionStep, Alone, Moves, GuardPcs
<1>5. CliAlone'
  BY <1>1 DEF IInv, CliAlone, SessionStep, Alone, Moves
<1>6. Expected'
  BY <1>1 DEF IInv, Expected, SessionStep, Alone
<1>7. ASSUME NEW u \in Requests PROVE Told(u)'
  <2>1. CASE u = t
    BY <2>1, ElsewhereTold DEF SessionStep
  <2>2. CASE u # t
    <3>1. thread[u].pc \notin GuardPcs /\ thread'[u] = thread[u]
      BY <1>1, <2>2 DEF IInv, Guarded, SessionStep, Alone, Moves
    <3> QED BY <3>1 DEF Told, GuardPcs, CommandPcs, ReceiptPcs
  <2> QED BY <2>1, <2>2
<1> QED BY <1>2, <1>3, <1>4, <1>5, <1>6, <1>7 DEF IInv

-----------------------------------------------------------------------------
(* A thread's record, a few fields changed. *)

\* n is r but for fields no argument is about.
Like(n, r) == Shaped(n) /\ n.pc = r.pc /\ n.ans = r.ans
Kin(n, r) == n.back = r.back /\ n.result = r.result
Same(n, r) == n.saw = r.saw /\ n.gen = r.gen

LEMMA SetPc ==
    ASSUME NEW r, Shaped(r), NEW v
    PROVE  LET n == [r EXCEPT !.pc = v]
           IN  Shaped(n) /\ n.pc = v /\ n.ans = r.ans /\ Kin(n, r) /\ Same(n, r)
BY DEF Kin, Same, Shaped, ThreadFields

LEMMA SetAns ==
    ASSUME NEW r, Shaped(r), NEW v
    PROVE  LET n == [r EXCEPT !.ans = v]
           IN  /\ Shaped(n) /\ n.pc = r.pc /\ n.ans = v
               /\ n.item = r.item /\ n.clear = r.clear /\ Kin(n, r) /\ Same(n, r)
BY DEF Kin, Same, Shaped, ThreadFields

LEMMA SetSaw ==
    ASSUME NEW r, Shaped(r), NEW v
    PROVE  LET n == [r EXCEPT !.saw = v]
           IN  /\ Like(n, r) /\ Kin(n, r) /\ n.saw = v /\ n.gen = r.gen
               /\ n.item = r.item /\ n.clear = r.clear
BY DEF Like, Kin, Shaped, ThreadFields

LEMMA SetClear ==
    ASSUME NEW r, Shaped(r), NEW v
    PROVE  LET n == [r EXCEPT !.clear = v] IN Like(n, r) /\ Kin(n, r) /\ n.clear = v
BY DEF Like, Kin, Shaped, ThreadFields

LEMMA SetBack ==
    ASSUME NEW r, Shaped(r), NEW v \in BackPcs
    PROVE  LET n == [r EXCEPT !.back = v] IN Like(n, r) /\ n.back = v /\ n.result = r.result
BY DEF Like, Shaped, ThreadFields

LEMMA SetOther ==
    ASSUME NEW r, Shaped(r), NEW v
    PROVE  /\ Like([r EXCEPT !.item = v], r) /\ Kin([r EXCEPT !.item = v], r)
           /\ Like([r EXCEPT !.todo = v], r) /\ Kin([r EXCEPT !.todo = v], r)
BY DEF Like, Kin, Shaped, ThreadFields

LEMMA SetGen ==
    ASSUME NEW r, Shaped(r), NEW v
    PROVE  LET n == [r EXCEPT !.gen = v] IN Like(n, r) /\ n.gen = v /\ n.saw = r.saw
BY DEF Like, Shaped, ThreadFields

LEMMA SetLoaded ==
    ASSUME NEW r, Shaped(r), NEW v
    PROVE  LET n == [r EXCEPT !.loaded = v] IN Like(n, r) /\ Same(n, r)
BY DEF Like, Same, Shaped, ThreadFields

LEMMA SetResult ==
    ASSUME NEW r, Shaped(r), NEW v
    PROVE  LET n == [r EXCEPT !.result = v] IN Like(n, r) /\ n.back = r.back /\ n.result = v
BY DEF Like, Shaped, ThreadFields

\* A thread takes another record.
LEMMA RecordStep ==
    ASSUME Threads, NEW t \in Requests, NEW r, Shaped(r), r.ans = "none",
           thread' = [thread EXCEPT ![t] = r]
    PROVE  Moves(t, r.pc) /\ thread'[t] = r
BY DEF Threads, Moves

\* The step most actions take.
LEMMA GoStep ==
    ASSUME Threads, NEW t \in Requests, NEW pc, Go(t, pc)
    PROVE  Moves(t, pc) /\ Same(thread'[t], thread[t])
<1> DEFINE mid == [thread[t] EXCEPT !.pc = pc]
           new == [mid EXCEPT !.ans = "none"]
<1>1. thread' = [thread EXCEPT ![t] = new]
  BY Zenon DEF Go, Threads
<1>2. Shaped(mid) /\ mid.pc = pc /\ Same(mid, thread[t])
  BY SetPc DEF Threads
<1> HIDE DEF mid
<1>3. Shaped(new) /\ new.pc = pc /\ new.ans = "none" /\ Same(new, thread[t])
  BY <1>2, SetAns DEF Same
<1> HIDE DEF new
<1>4. Moves(t, new.pc) /\ thread'[t] = new
  BY <1>1, <1>3, RecordStep, Zenon
<1> QED BY <1>3, <1>4, Zenon

\* An answer, with the thread where it was.
Hears(t, v) ==
    /\ Threads' /\ thread'[t].pc = thread[t].pc /\ thread'[t].ans = v
    /\ thread'[t].item = thread[t].item /\ thread'[t].clear = thread[t].clear
    /\ Kin(thread'[t], thread[t])
    /\ \A u \in Requests : u # t => thread'[u] = thread[u]

LEMMA AnswerStep ==
    ASSUME Threads, NEW t \in Requests, NEW v, thread' = [thread EXCEPT ![t].ans = v]
    PROVE  Hears(t, v) /\ Same(thread'[t], thread[t])
<1> DEFINE new == [thread[t] EXCEPT !.ans = v]
<1>1. thread' = [thread EXCEPT ![t] = new]
  BY Zenon DEF Threads
<1>2. /\ Shaped(new) /\ new.pc = thread[t].pc /\ new.ans = v
      /\ new.item = thread[t].item /\ new.clear = thread[t].clear /\ Kin(new, thread[t]) /\ Same(new, thread[t])
  BY SetAns DEF Threads
<1> HIDE DEF new
<1>3. thread'[t] = new /\ Threads' /\ \A u \in Requests : u # t => thread'[u] = thread[u]
  BY <1>1, <1>2, Zenon DEF Threads
<1> QED BY <1>2, <1>3, Zenon DEF Hears

\* An answer with what the card showed.
LEMMA ListStep ==
    ASSUME Threads, NEW t \in Requests, NEW v, NEW saw,
           thread' = [thread EXCEPT ![t].ans = v, ![t].saw = saw]
    PROVE  Hears(t, v) /\ thread'[t].saw = saw /\ thread'[t].gen = thread[t].gen
<1> DEFINE mid == [thread[t] EXCEPT !.ans = v]
           new == [mid EXCEPT !.saw = saw]
<1>1. thread' = [thread EXCEPT ![t] = new]
  BY Zenon DEF Threads
<1>2. /\ Shaped(mid) /\ mid.pc = thread[t].pc /\ mid.ans = v
      /\ mid.item = thread[t].item /\ mid.clear = thread[t].clear /\ Kin(mid, thread[t]) /\ mid.gen = thread[t].gen
  BY SetAns DEF Threads, Same
<1> HIDE DEF mid
<1>3. /\ Shaped(new) /\ new.pc = thread[t].pc /\ new.ans = v /\ new.saw = saw
      /\ new.item = thread[t].item /\ new.clear = thread[t].clear /\ Kin(new, thread[t]) /\ new.gen = thread[t].gen
  BY <1>2, SetSaw DEF Like, Kin
<1> HIDE DEF new
<1>4. thread'[t] = new /\ Threads' /\ \A u \in Requests : u # t => thread'[u] = thread[u]
  BY <1>1, <1>3, Zenon DEF Threads
<1> QED BY <1>3, <1>4, Zenon DEF Hears

\* The thread goes to a send, with the place to return to.
LEMMA ToSend ==
    ASSUME Threads, NEW t \in Requests, NEW back \in BackPcs, thread[t].ans = "none",
           thread' = [thread EXCEPT ![t].pc = "send", ![t].back = back]
    PROVE  Moves(t, "send") /\ thread'[t].back = back
<1> DEFINE mid == [thread[t] EXCEPT !.pc = "send"]
           new == [mid EXCEPT !.back = back]
<1>1. thread' = [thread EXCEPT ![t] = new]
  BY Zenon DEF Threads
<1>2. Shaped(mid) /\ mid.pc = "send" /\ mid.ans = "none"
  BY SetPc DEF Threads
<1> HIDE DEF mid
<1>3. Shaped(new) /\ new.pc = "send" /\ new.ans = "none" /\ new.back = back
  BY <1>2, SetBack DEF Like
<1> HIDE DEF new
<1>4. Moves(t, new.pc) /\ thread'[t] = new
  BY <1>1, <1>3, RecordStep, Zenon
<1> QED BY <1>3, <1>4, Zenon

LEMMA DeletedMoves ==
    ASSUME Threads, NEW t \in Requests,
           thread' = [thread EXCEPT ![t].pc = "send", ![t].ans = "none", ![t].back = "deleted"]
    PROVE  Moves(t, "send") /\ thread'[t].back = "deleted"
<1> DEFINE first == [thread[t] EXCEPT !.pc = "send"]
           mid == [first EXCEPT !.ans = "none"]
           new == [mid EXCEPT !.back = "deleted"]
<1>1. thread' = [thread EXCEPT ![t] = new]
  BY Zenon DEF Threads
<1>2. Shaped(first) /\ first.pc = "send"
  BY SetPc DEF Threads
<1> HIDE DEF first
<1>3. Shaped(mid) /\ mid.pc = "send" /\ mid.ans = "none"
  BY <1>2, SetAns
<1> HIDE DEF mid
<1>4. Shaped(new) /\ new.pc = "send" /\ new.ans = "none" /\ new.back = "deleted"
  <2>1. "deleted" \in BackPcs
    BY DEF BackPcs
  <2> QED BY <1>3, <2>1, SetBack DEF Like
<1> HIDE DEF new
<1>5. Moves(t, new.pc) /\ thread'[t] = new
  BY <1>1, <1>4, RecordStep, Zenon
<1> QED BY <1>4, <1>5, Zenon

LEMMA StopMoves ==
    ASSUME Threads, NEW t \in Requests, NEW result, Stop(t, result), thread[t].ans = "none"
    PROVE  /\ Moves(t, "send") \/ Moves(t, "dl_final")
           /\ thread'[t].back = "dl_sent" /\ thread'[t].result = result
<1>1. PICK pc \in {"send", "dl_final"} :
           thread' = [thread EXCEPT ![t].pc = pc, ![t].back = "dl_sent", ![t].result = result]
  BY Zenon DEF Stop
<1> DEFINE first == [thread[t] EXCEPT !.pc = pc]
           mid == [first EXCEPT !.back = "dl_sent"]
           new == [mid EXCEPT !.result = result]
<1>2. thread' = [thread EXCEPT ![t] = new]
  BY <1>1, Zenon DEF Threads
<1>3. Shaped(first) /\ first.pc = pc /\ first.ans = "none"
  BY SetPc DEF Threads
<1> HIDE DEF first
<1>4. Shaped(mid) /\ mid.pc = pc /\ mid.ans = "none" /\ mid.back = "dl_sent"
  <2>1. "dl_sent" \in BackPcs
    BY DEF BackPcs
  <2> QED BY <1>3, <2>1, SetBack DEF Like
<1> HIDE DEF mid
<1>5. /\ Shaped(new) /\ new.pc = pc /\ new.ans = "none"
      /\ new.back = "dl_sent" /\ new.result = result
  BY <1>4, SetResult DEF Like
<1> HIDE DEF new
<1> QED BY <1>2, <1>5, RecordStep

\* A step of sending, and its end.
LEMMA ProceedMoves ==
    ASSUME Threads, NEW t \in Requests, NEW pc, NEW item, NEW todo, Proceed(t, pc, item, todo)
    PROVE  Moves(t, pc) /\ Kin(thread'[t], thread[t])
<1> DEFINE first == [thread[t] EXCEPT !.pc = pc]
           second == [first EXCEPT !.ans = "none"]
           third == [second EXCEPT !.item = item]
           new == [third EXCEPT !.todo = todo]
<1>1. thread' = [thread EXCEPT ![t] = new]
  BY Zenon DEF Proceed, Threads
<1>2. Shaped(first) /\ first.pc = pc /\ Kin(first, thread[t])
  BY SetPc DEF Threads
<1> HIDE DEF first
<1>3. Shaped(second) /\ second.pc = pc /\ second.ans = "none" /\ Kin(second, thread[t])
  BY <1>2, SetAns DEF Kin
<1> HIDE DEF second
<1>4. Shaped(third) /\ third.pc = pc /\ third.ans = "none" /\ Kin(third, thread[t])
  BY <1>3, SetOther DEF Like, Kin
<1> HIDE DEF third
<1>5. Shaped(new) /\ new.pc = pc /\ new.ans = "none" /\ Kin(new, thread[t])
  BY <1>4, SetOther DEF Like, Kin
<1> HIDE DEF new
<1> QED BY <1>1, <1>5, RecordStep

LEMMA SendNextMoves ==
    ASSUME Threads, NEW t \in Requests, NEW todo, SendNext(t, todo)
    PROVE  (Moves(t, "relist") \/ Moves(t, "sending")) /\ Kin(thread'[t], thread[t])
<1>1. CASE Proceed(t, "relist", None, {})
  BY <1>1, ProceedMoves
<1>2. CASE \E r \in todo : Proceed(t, "sending", r, todo \ {r})
  <2>1. PICK r \in todo : Proceed(t, "sending", r, todo \ {r})
    BY <1>2
  <2> QED BY <2>1, ProceedMoves
<1> QED BY <1>1, <1>2 DEF SendNext

LEMMA ReturnMoves ==
    ASSUME Threads, NEW t \in Requests, NEW clear, Return(t, clear)
    PROVE  /\ Moves(t, thread[t].back) /\ thread[t].back \in BackPcs /\ thread'[t].clear = clear
           /\ Kin(thread'[t], thread[t])
<1> DEFINE first == [thread[t] EXCEPT !.pc = thread[t].back]
           mid == [first EXCEPT !.ans = "none"]
           new == [mid EXCEPT !.clear = clear]
<1>1. thread' = [thread EXCEPT ![t] = new]
  BY Zenon DEF Return, Threads
<1>2. Shaped(first) /\ first.pc = thread[t].back /\ Kin(first, thread[t])
  BY SetPc DEF Threads
<1> HIDE DEF first
<1>3. Shaped(mid) /\ mid.pc = thread[t].back /\ mid.ans = "none" /\ Kin(mid, thread[t])
  BY <1>2, SetAns DEF Kin
<1> HIDE DEF mid
<1>4. /\ Shaped(new) /\ new.pc = thread[t].back /\ new.ans = "none" /\ new.clear = clear
      /\ Kin(new, thread[t])
  BY <1>3, SetClear DEF Like, Kin
<1> HIDE DEF new
<1>5. thread[t].back \in BackPcs /\ thread'[t] = new
  BY <1>1 DEF Threads, Shaped
<1> QED BY <1>1, <1>4, <1>5, RecordStep

\* A recorded switch: the thread goes on with the new generation, or ends.
LEMMA RecordMoves ==
    ASSUME Threads, NEW t \in Requests, NEW pc, NEW gen, thread[t].ans = "none",
           thread' = [thread EXCEPT ![t].pc = pc, ![t].gen = gen]
    PROVE  Moves(t, pc) /\ thread'[t].gen = gen /\ thread'[t].saw = thread[t].saw
<1> DEFINE mid == [thread[t] EXCEPT !.pc = pc]
           new == [mid EXCEPT !.gen = gen]
<1>1. thread' = [thread EXCEPT ![t] = new]
  BY Zenon DEF Threads
<1>2. Shaped(mid) /\ mid.pc = pc /\ mid.ans = "none" /\ mid.saw = thread[t].saw
  BY SetPc DEF Threads, Same
<1> HIDE DEF mid
<1>3. Shaped(new) /\ new.pc = pc /\ new.ans = "none" /\ new.saw = thread[t].saw /\ new.gen = gen
  BY <1>2, SetGen DEF Like
<1> HIDE DEF new
<1>4. Moves(t, new.pc) /\ thread'[t] = new
  BY <1>1, <1>3, RecordStep, Zenon
<1> QED BY <1>3, <1>4, Zenon

LEMMA NewSwitchMoves ==
    ASSUME Threads, NEW t \in Requests, NEW state, NEW pc, NEW failure, thread[t].ans = "none",
           NewSwitch(t, state, pc, failure)
    PROVE  Moves(t, pc) \/ Moves(t, "done")
BY GoStep, RecordMoves DEF NewSwitch

LEMMA WatchReadsMoves ==
    ASSUME Threads, NEW t \in Requests, WatchReads(t)
    PROVE  (Moves(t, "watched") \/ Moves(t, "done")) /\ Same(thread'[t], thread[t])
<1>1. PICK pc \in {"watched", "done"}, loaded \in BOOLEAN :
           thread' = [thread EXCEPT ![t].pc = pc, ![t].loaded = loaded]
  BY Zenon DEF WatchReads
<1> DEFINE mid == [thread[t] EXCEPT !.pc = pc]
           new == [mid EXCEPT !.loaded = loaded]
<1>2. thread' = [thread EXCEPT ![t] = new]
  BY <1>1, Zenon DEF Threads
<1>3. Shaped(mid) /\ mid.pc = pc /\ mid.ans = "none" /\ Same(mid, thread[t])
  BY SetPc DEF Threads, WatchReads, At
<1> HIDE DEF mid
<1>4. Shaped(new) /\ new.pc = pc /\ new.ans = "none" /\ Same(new, thread[t])
  BY <1>3, SetLoaded DEF Like, Same
<1> HIDE DEF new
<1>5. Moves(t, new.pc) /\ thread'[t] = new
  BY <1>2, <1>4, RecordStep, Zenon
<1> QED BY <1>4, <1>5, Zenon

\* A retry loop is started, or the thread ends.
LEMMA EnsureMoves ==
    ASSUME Threads, NEW t \in Requests, NEW p, EnsureRetry(t, p)
    PROVE  Moves(t, "done") \/ Moves(t, "loop")
BY GoStep DEF EnsureRetry

-----------------------------------------------------------------------------
(* The steps of the code. *)

\* The operations' steps take, keep or drop the guard.
LEMMA SwitchGuards ==
    ASSUME IInv, NEW t \in Requests, SwitchSteps(t)
    PROVE  GuardStep(t) /\ Elsewhere(t) /\ Apart(t) /\ Aside(t)
<1> USE DEF SessionPcs, BackPcs, GuardPcs, CommandPcs, EnablePcs, ListPcs, ReceiptPcs, At, Answered,
            CardFrame, SameOthers, receiptVars, Release, Holds, Alone, Elsewhere, Apart, Ending, Answers,
            OperationPcs, Operations, Aside, IsLoop, Looping, Committed, CommittedPcs, SendPcs
<1>0. Threads
  BY DEF IInv, Typed
<1>1. CASE Ask(t)
  <2>1. PICK pc \in {"ask", "ask_list", "ask_notices", "ask_send", "done"} :
           Go(t, pc) /\ (pc = "ask" => job[t].kind \in Operations)
    BY <1>1 DEF Ask, Checked, IInv, Typed, Jobs
  <2>2. Moves(t, pc)
    BY <1>0, <2>1, GoStep
  <2> QED BY <1>0, <1>1, <2>1, <2>2 DEF Ask, GuardStep, Moves
<1>2. CASE Enter(t)
  BY <1>0, <1>2, GoStep DEF IInv, Guarded, Enter, Acquire, Refused, GuardStep, Moves
<1>3. CASE Query(t)
  BY <1>0, <1>3, GoStep DEF Query, GuardStep, Moves
<1>4. CASE FirstReceipts(t)
  <2>1. Moves(t, "done") \/ Moves(t, "loop")
    BY <1>0, <1>4, EnsureMoves DEF FirstReceipts
  <2> QED BY <1>4, <2>1 DEF FirstReceipts, GuardStep, Moves
<1>5. CASE FirstRead(t)
  <2>1. job[t].kind \in {"enable", "delete", "rename", "download"}
    BY <1>5 DEF IInv, Guarded, FirstRead
  <2>2. PICK pc \in {"enable", "delete", "rename", "dl_open", "done"} :
           Go(t, pc) /\ (holder' = holder \/ (Release(t) /\ pc = "done"))
    BY <1>5, <2>1 DEF FirstRead
  <2>3. Moves(t, pc)
    BY <1>0, <2>2, GoStep
  <2>4. Apart(t)
    BY <1>5, <2>2, <2>3 DEF Moves
  <2>5. GuardStep(t) /\ Elsewhere(t) /\ Aside(t)
    BY <1>5, <2>2, <2>3 DEF FirstRead, GuardStep, Moves
  <2> QED BY <2>4, <2>5
<1>6. CASE Deleted(t)
  <2>1. CASE thread[t].ans = "ok"
    <3>1. Moves(t, "send") /\ thread'[t].back = "deleted" /\ UNCHANGED holder
      BY <1>0, <1>6, <2>1, DeletedMoves, Zenon DEF Deleted
    <3> QED BY <1>6, <3>1 DEF Deleted, GuardStep, Moves
  <2>2. CASE thread[t].ans # "ok"
    <3>1. Moves(t, "done") /\ Release(t)
      BY <1>0, <1>6, <2>2, GoStep DEF Deleted
    <3> QED BY <1>6, <3>1 DEF Deleted, GuardStep, Moves
  <2> QED BY <2>1, <2>2
<1>7. CASE DeleteEnds(t)
  <2>1. Moves(t, "done") \/ Moves(t, "loop")
    BY <1>0, <1>7, EnsureMoves DEF DeleteEnds
  <2> QED BY <1>7, <2>1 DEF DeleteEnds, GuardStep, Moves
<1>8. CASE Renamed(t)
  BY <1>0, <1>8, GoStep DEF Renamed, GuardStep, Moves
<1>9. CASE EnableAnswered(t)
  <2>1. PICK pc \in {"done", "record_busy", "record"} : Go(t, pc)
    BY <1>9 DEF EnableAnswered, Go
  <2>2. Moves(t, pc)
    BY <1>0, <2>1, GoStep
  <2> QED BY <1>0, <1>9, <2>2 DEF EnableAnswered, GuardStep, Moves
<1>10. CASE Record(t)
  <2>1. Moves(t, "settle") \/ Moves(t, "done")
    BY <1>0, <1>10, NewSwitchMoves DEF Record
  <2> QED BY <1>10, <2>1 DEF Record, NewSwitch, GuardStep, Moves
<1>11. CASE RecordBusy(t)
  <2>1. Moves(t, "retry") \/ Moves(t, "done")
    BY <1>0, <1>11, NewSwitchMoves DEF RecordBusy
  <2> QED BY <1>11, <2>1 DEF RecordBusy, NewSwitch, GuardStep, Moves
<1>12. CASE RetryAcquires(t)
  BY <1>0, <1>12, GoStep DEF RetryAcquires, Acquire, GuardStep, Moves
<1>13. CASE RetryAnswered(t)
  BY <1>0, <1>13, GoStep DEF RetryAnswered, GuardStep, Moves
<1>14. CASE RetryEnds(t)
  BY <1>0, <1>14, GoStep DEF RetryEnds, GuardStep, Moves
<1>15. CASE VerifierLooks(t)
  BY <1>0, <1>15, GoStep DEF VerifierLooks, GuardStep, Moves
<1>16. CASE VerifierAcquires(t)
  BY <1>0, <1>16, GoStep DEF VerifierAcquires, Acquire, GuardStep, Moves
<1>17. CASE VerifierAnswered(t)
  BY <1>0, <1>17, GoStep DEF VerifierAnswered, GuardStep, Moves
<1>18. CASE VerifierRecords(t)
  BY <1>0, <1>18, GoStep DEF VerifierRecords, GuardStep, Moves
<1>19. CASE VerifierJudges(t)
  BY <1>0, <1>19, GoStep DEF VerifierJudges, GuardStep, Moves
<1>20. CASE Unreadable(t)
  BY <1>0, <1>20, GoStep DEF Unreadable, GuardStep, Moves
<1>21. CASE WatchReads(t)
  <2>1. Moves(t, "watched") \/ Moves(t, "done")
    BY <1>0, <1>21, WatchReadsMoves
  <2> QED BY <1>0, <1>21, <2>1 DEF WatchReads, GuardStep, Moves
<1>22. CASE WatchWrites(t)
  <2>1. PICK pc \in {"done", "after", "after_list", "watch"} : Go(t, pc)
    BY <1>22 DEF WatchWrites
  <2>2. Moves(t, pc)
    BY <1>0, <2>1, GoStep
  <2> QED BY <1>0, <1>22, <2>2 DEF WatchWrites, GuardStep, Moves
<1>23. CASE AfterSwitch(t)
  <2>1. GuardStep(t) /\ Elsewhere(t) /\ Apart(t)
    <3>1. ASSUME NEW pc, Go(t, pc) PROVE Moves(t, pc)
      BY <1>0, <3>1, GoStep
    <3> QED BY <1>0, <1>23, <3>1, ToSend DEF AfterSwitch, AcquireToSend, Acquire, Refused, GuardStep, Moves
  <2> QED BY <1>23, <2>1
<1>24. CASE AfterSent(t)
  BY <1>0, <1>24, GoStep DEF AfterSent, GuardStep, Moves
<1> QED BY <1>1, <1>2, <1>3, <1>4, <1>5, <1>6, <1>7, <1>8, <1>9, <1>10, <1>11, <1>12, <1>13, <1>14,
           <1>15, <1>16, <1>17, <1>18, <1>19, <1>20, <1>21, <1>22, <1>23, <1>24 DEF SwitchSteps

\* Sending stays under the guard, and returns to a place under it.
LEMMA ReceiptsGuard ==
    ASSUME IInv, NEW t \in Requests, ReceiptSteps(t) \/ LoopTries(t, reloading)
    PROVE  GuardStep(t) /\ (Elsewhere(t) \/ Told(t)') /\ Follows(t)
<1> USE DEF SessionPcs, BackPcs, GuardPcs, CommandPcs, EnablePcs, ListPcs, ReceiptPcs, At, Answered,
            CardFrame, receiptVars, Release, Holds, Alone, Answers, OperationPcs, Operations
<1>0. Threads
  BY DEF IInv, Typed
<1> USE DEF Elsewhere, Follows, Ending, Kin
<1>1. CASE SendListed(t)
  <2>0. holder = t /\ Told(t)
    BY <1>1 DEF IInv, Guarded, SendListed
  <2>1. CASE thread[t].ans = "ok"
    <3>1. (Moves(t, "relist") \/ Moves(t, "sending")) /\ Kin(thread'[t], thread[t])
      BY <1>0, <1>1, <2>1, SendNextMoves DEF SendListed
    <3>2. DOMAIN pending' = card.receipts /\ ~worker.on
      BY <1>1, <2>0, <2>1 DEF SendListed, Fresh, Merged, Told
    <3>3. Told(t)'
      BY <1>1, <3>1, <3>2 DEF SendListed, Told, Quiet, Moves
    <3> QED BY <1>1, <2>0, <3>1, <3>3 DEF SendListed, GuardStep, Moves
  <2>2. CASE thread[t].ans # "ok"
    <3>1. PICK pc \in BackPcs : /\ Moves(t, pc) /\ thread'[t].clear = FALSE /\ pc = thread[t].back
                                /\ Kin(thread'[t], thread[t])
      BY <1>0, <1>1, <2>2, ReturnMoves DEF SendListed
    <3>2. Told(t)'
      BY <3>1 DEF Told, Moves
    <3> QED BY <1>1, <2>0, <3>1, <3>2 DEF SendListed, GuardStep, Moves
  <2> QED BY <2>1, <2>2
<1>2. CASE SendAnswered(t)
  <2>0. holder = t /\ Told(t)
    BY <1>2 DEF IInv, Guarded, SendAnswered
  <2>1. PICK todo : SendNext(t, todo)
    BY <1>2 DEF SendAnswered
  <2>2. (Moves(t, "relist") \/ Moves(t, "sending")) /\ Kin(thread'[t], thread[t])
    BY <1>0, <2>1, SendNextMoves
  <2>3. card.receipts \subseteq DOMAIN pending' /\ Quiet
    BY <1>2, <2>0 DEF SendAnswered, Told
  <2>4. Told(t)'
    BY <1>2, <2>2, <2>3 DEF SendAnswered, Told, Quiet, Moves
  <2> QED BY <1>2, <2>0, <2>2, <2>4 DEF SendAnswered, GuardStep, Moves
<1>3. CASE SendRelisted(t)
  <2>0. holder = t /\ Told(t)
    BY <1>3 DEF IInv, Guarded, SendRelisted
  <2>1. PICK pc \in BackPcs : /\ Moves(t, pc) /\ thread'[t].clear = (DOMAIN pending' = {})
                              /\ pc = thread[t].back /\ Kin(thread'[t], thread[t])
    BY <1>0, <1>3, ReturnMoves DEF SendRelisted
  <2>2. card.receipts \subseteq DOMAIN pending' /\ Quiet
    BY <1>3, <2>0 DEF SendRelisted, Fresh, Merged, Told
  <2>3. Told(t)'
    BY <1>3, <2>1, <2>2 DEF SendRelisted, Told, Quiet, Moves
  <2> QED BY <1>3, <2>0, <2>1, <2>3 DEF SendRelisted, GuardStep, Moves
<1>4. CASE Ensure(t)
  <2>1. Moves(t, "done") \/ Moves(t, "loop")
    BY <1>0, <1>4, EnsureMoves DEF Ensure
  <2> QED BY <1>4, <2>1 DEF Ensure, GuardStep, Moves
<1>5. CASE LoopTries(t, reloading)
  BY <1>0, <1>5, GoStep, ToSend DEF LoopTries, AcquireToSend, Refused, GuardStep, Moves
<1>6. CASE LoopSent(t)
  BY <1>0, <1>6, GoStep DEF LoopSent, GuardStep, Moves
<1>7. CASE LoopChecks(t)
  BY <1>0, <1>7, GoStep DEF LoopChecks, GuardStep, Moves
<1>8. CASE LoopEnds(t)
  BY <1>0, <1>8, GoStep DEF LoopEnds, GuardStep, Moves
<1>9. CASE NoticesListed(t)
  BY <1>0, <1>9, GoStep DEF NoticesListed, GuardStep, Moves
<1>10. CASE SendNow(t)
  <2>1. holder = t
    BY <1>10 DEF IInv, Guarded, SendNow
  <2>2. (Moves(t, "send") /\ thread'[t].back = "sent_now" /\ UNCHANGED holder) \/ (Moves(t, "done") /\ Release(t))
    BY <1>0, <1>10, GoStep, ToSend DEF SendNow
  <2> QED BY <1>10, <2>1, <2>2 DEF SendNow, GuardStep, Moves
<1>11. CASE SentNow(t)
  BY <1>0, <1>11, GoStep DEF SentNow, GuardStep, Moves
<1> QED BY <1>1, <1>2, <1>3, <1>4, <1>5, <1>6, <1>7, <1>8, <1>9, <1>10, <1>11 DEF ReceiptSteps

LEMMA SwitchKeeps ==
    ASSUME IInv, NEW t \in Requests, SwitchSteps(t) \/ ReceiptSteps(t) \/ LoopTries(t, reloading)
    PROVE  IInv'
BY SwitchGuards, ReceiptsGuard, ElsewhereTold, GuardStepKeeps DEF GuardStep

\* A download holds the guard; only its opening starts the session, with no worker on the card.
LEMMA DownloadKeeps ==
    ASSUME IInv, NEW t \in Requests, DownloadSteps(t)
    PROVE  IInv'
<1> USE DEF SessionPcs, BackPcs, GuardPcs, CommandPcs, EnablePcs, ListPcs, ReceiptPcs, At, Answered,
            DownloadFrame, receiptVars, Alone, Elsewhere, OperationPcs, Operations
<1>0. Threads /\ session \in BOOLEAN /\ (thread[t].pc \in SessionPcs => session)
  BY DEF IInv, Typed, SessionOwned
<1>1. ASSUME NEW result, Stop(t, result), thread[t].ans = "none"
      PROVE  Moves(t, thread'[t].pc) /\ thread'[t].pc \in {"send", "dl_final"} /\ session' = FALSE
  <2>1. Moves(t, "send") \/ Moves(t, "dl_final")
    BY <1>0, <1>1, StopMoves
  <2> QED BY <1>1, <2>1 DEF Moves, Stop
<1>2. ASSUME NEW pc \in SessionPcs, Go(t, pc)
      PROVE  Moves(t, thread'[t].pc) /\ thread'[t].pc = pc
  <2>1. Moves(t, pc)
    BY <1>0, <1>2, GoStep
  <2> QED BY <2>1 DEF Moves
<1>3. ASSUME Fails(t), thread[t].ans = "none"
      PROVE  Moves(t, thread'[t].pc) /\ thread'[t].pc \in {"send", "dl_final"} /\ session' = FALSE
  <2>1. PICK result : Stop(t, result)
    BY <1>3 DEF Fails
  <2> QED BY <1>1, <1>3, <2>1
<1>4. CASE SessionStep(t)
  BY <1>4, SessionStepKeeps
<1>5. CASE DownloadOpens(t)
  <2>1. CASE worker.on
    BY <1>0, <1>1, <1>5, <2>1, <1>4 DEF DownloadOpens, SessionStep
  <2>2. CASE ~worker.on
    BY <1>0, <1>2, <1>5, <2>2, <1>4 DEF DownloadOpens, SessionStep
  <2> QED BY <2>1, <2>2
<1>6. ASSUME NEW from \in {"dl_before", "dl_after"}, NEW to \in {"dl_show", "dl_load"},
             DownloadChecks(t, from, to)
      PROVE  IInv'
  <2>1. CASE Stop(t, "cancelled")
    BY <1>0, <1>1, <1>6, <2>1, <1>4 DEF DownloadChecks, SessionStep
  <2>2. CASE Fails(t)
    BY <1>0, <1>3, <1>6, <2>2, <1>4 DEF DownloadChecks, SessionStep
  <2>3. CASE Go(t, to) /\ UNCHANGED session
    BY <1>0, <1>2, <1>6, <2>3, <1>4 DEF DownloadChecks, SessionStep
  <2> QED BY <1>6, <2>1, <2>2, <2>3 DEF DownloadChecks
<1>7. CASE DownloadShows(t)
  BY <1>0, <1>2, <1>4, <1>7 DEF DownloadShows, SessionStep
<1>8. CASE DownloadHears(t)
  <2>1. CASE Stop(t, "cancelled")
    BY <1>0, <1>1, <1>4, <1>8, <2>1 DEF DownloadHears, SessionStep
  <2>2. CASE Go(t, "dl_after") /\ UNCHANGED session
    BY <1>0, <1>2, <1>4, <1>8, <2>2 DEF DownloadHears, SessionStep
  <2> QED BY <1>8, <2>1, <2>2 DEF DownloadHears
<1>9. CASE DownloadLoads(t)
  BY <1>0, <1>2, <1>4, <1>9 DEF DownloadLoads, SessionStep
<1>10. CASE DownloadInstalls(t)
  <2>1. PICK result : Stop(t, result)
    BY <1>10 DEF DownloadInstalls
  <2>2. session /\ DOMAIN card' = CardFields
    BY <1>10 DEF IInv, Typed, SessionOwned, DownloadInstalls, Noted, CardFields
  <2> QED BY <1>0, <1>1, <1>4, <1>10, <2>1, <2>2 DEF DownloadInstalls, SessionStep
<1>11. CASE DownloadEnds(t)
  <2>1. Moves(t, "done") \/ Moves(t, "loop")
    BY <1>0, <1>11, GoStep, EnsureMoves DEF DownloadEnds
  <2>2. GuardStep(t)
    BY <1>11, <2>1 DEF DownloadEnds, GuardStep, Moves, CardFrame, Release, Holds
  <2>3. Elsewhere(t)
    BY <2>1 DEF Moves
  <2> QED BY <2>2, <2>3, ElsewhereTold, GuardStepKeeps DEF GuardStep
<1> QED BY <1>5, <1>6, <1>7, <1>8, <1>9, <1>10, <1>11 DEF DownloadSteps

\* A command's worker is started by the thread that has the guard, outside a session.
LEMMA CommandKeeps ==
    ASSUME IInv, NEW t \in Requests, Command(t), UNCHANGED pending
    PROVE  IInv'
<1>1. Threads /\ holder = t /\ thread[t].pc \in CommandPcs /\ thread[t].ans = "none"
  BY DEF IInv, Typed, Command, Holds
<1>2. ~session /\ cli # "on"
  BY <1>1, EsimAssumption
     DEF IInv, SessionOwned, CliAlone, CommandPcs, EnablePcs, ListPcs, ReceiptPcs, SessionPcs
<1>3. CASE /\ ~worker.on /\ thread' = [thread EXCEPT ![t].ans = "waits"]
           /\ worker' = [NoWorker EXCEPT !.on = TRUE, !.cmd = thread[t].pc, !.by = t,
                                         !.item = thread[t].item, !.awaited = TRUE]
  <2>1. Hears(t, "waits")
    BY <1>1, <1>3, AnswerStep
  <2>2. /\ DOMAIN worker' = WorkerFields /\ worker'.on = TRUE /\ worker'.by = t
        /\ worker'.cmd = thread[t].pc /\ worker'.item = thread[t].item /\ worker'.acted = "no"
    BY <1>3 DEF NoWorker, WorkerFields
  <2>3. Typed'
    BY <1>1, <2>1, <2>2 DEF IInv, Typed, Command, Hears
  <2>4. Guarded' /\ SessionOwned' /\ CliAlone'
    BY <1>1, <1>2, <2>1 DEF IInv, Guarded, SessionOwned, CliAlone, Command, Hears
  <2>5. Expected'
    BY <1>1, <2>1, <2>2 DEF Expected, Command, Hears
  <2>6. ASSUME NEW u \in Requests PROVE Told(u)'
    <3>1. CASE u = t
      BY <1>1, <2>1, <2>2, <3>1
         DEF IInv, Told, Quiet, Command, Hears, CommandPcs, EnablePcs, ListPcs, ReceiptPcs, BackPcs
    <3>2. CASE u # t
      <4>1. thread[u].pc \notin GuardPcs /\ thread'[u] = thread[u]
        BY <1>1, <2>1, <3>2 DEF IInv, Guarded, Hears
      <4> QED BY <4>1 DEF Told, GuardPcs, CommandPcs, ReceiptPcs
    <3> QED BY <3>1, <3>2
  <2> QED BY <2>3, <2>4, <2>5, <2>6 DEF IInv
<1>4. CASE thread' = [thread EXCEPT ![t].ans = "notstarted"] /\ UNCHANGED worker
  <2>1. Hears(t, "notstarted")
    BY <1>1, <1>4, AnswerStep
  <2>2. Typed'
    BY <1>4, <2>1 DEF IInv, Typed, Command, Hears
  <2>3. Guarded' /\ SessionOwned' /\ CliAlone'
    BY <1>2, <1>4, <2>1 DEF IInv, Guarded, SessionOwned, CliAlone, Command, Hears
  <2>4. Expected'
    BY <1>1, <1>4 DEF IInv, Expected, Command
  <2>5. \A u \in Requests : Told(u)'
    BY <1>4, <2>1 DEF IInv, Told, Quiet, Command, Hears
  <2> QED BY <2>2, <2>3, <2>4, <2>5 DEF IInv
<1> QED BY <1>3, <1>4 DEF Command

\* What a command does to the card.
LEMMA EffectOf ==
    ASSUME DOMAIN card = CardFields
    PROVE  /\ DOMAIN Effect(worker) = CardFields
           /\ worker.cmd \in {"send", "relist"} => Effect(worker) = card
           /\ worker.cmd = "sending" => Effect(worker).receipts = card.receipts \ {worker.item}
<1>1. CASE worker.cmd \in EnablePcs
  <2>1. DOMAIN Effect(worker) = CardFields
    BY <1>1 DEF Effect, Noted, CardFields
  <2> QED BY <1>1, <2>1 DEF EnablePcs
<1>2. CASE worker.cmd \notin EnablePcs
  BY <1>2 DEF Effect, Noted, CardFields
<1> QED BY <1>1, <1>2

\* The worker acts, ends, or is left by its caller; no thread moves to another place.
LEMMA WorkerKeeps ==
    ASSUME IInv, WorkerActs \/ WorkerEnds \/ CallerGivesUp, UNCHANGED pending
    PROVE  IInv'
<1> USE EsimAssumption
<1>0. /\ DOMAIN worker = WorkerFields /\ worker.on /\ worker.by \in Requests
      /\ Threads /\ ~session /\ cli # "on" /\ DOMAIN card = CardFields
  BY DEF IInv, Typed, SessionOwned, CliAlone, WorkerActs, WorkerEnds, CallerGivesUp
<1>1. ASSUME thread' = thread \/ \E v : Hears(worker.by, v),
             DOMAIN worker' = WorkerFields, worker'.on \in BOOLEAN, worker'.on => worker'.by = worker.by,
             UNCHANGED <<job, holder, lockfile, session, cli>>, DOMAIN card' = CardFields
      PROVE  Typed' /\ Guarded' /\ SessionOwned' /\ CliAlone'
  <2>1. Threads'
    BY <1>0, <1>1 DEF Hears, Threads
  <2>2. Typed'
    BY <1>0, <1>1, <2>1 DEF IInv, Typed
  <2>3. \A u \in Requests : thread'[u].pc = thread[u].pc
    BY <1>1 DEF Hears
  <2> QED BY <1>0, <1>1, <2>2, <2>3 DEF IInv, Guarded, SessionOwned, CliAlone
<1>2. CASE WorkerActs
  <2>1. PICK outcome \in {"ok", "busy", "failed"} :
           /\ worker' = [worker EXCEPT !.acted = outcome, !.saw = IF outcome = "ok" THEN card ELSE None]
           /\ card' \in (IF outcome = "ok" THEN {} ELSE {card})
                           \cup (IF outcome # "busy" /\ Possible(worker) THEN {Effect(worker)} ELSE {})
    BY <1>2 DEF WorkerActs
  <2>2. /\ DOMAIN worker' = WorkerFields /\ worker'.on = worker.on /\ worker'.by = worker.by
        /\ worker'.cmd = worker.cmd /\ worker'.item = worker.item /\ worker'.awaited = worker.awaited
        /\ worker'.acted = outcome /\ (outcome = "ok" => worker'.saw = card)
    BY <1>0, <2>1 DEF WorkerFields
  <2>3. card' \in {card, Effect(worker)} /\ (outcome = "ok" => card' = Effect(worker))
    BY <2>1
  <2>4. Typed' /\ Guarded' /\ SessionOwned' /\ CliAlone'
    BY <1>0, <1>1, <1>2, <2>2, <2>3, EffectOf DEF WorkerActs
  <2>5. Expected'
    BY <1>0, <1>2, <2>2, <2>3, EffectOf DEF IInv, Expected, WorkerActs
  <2>6. Quiet => card'.receipts \subseteq card.receipts
    BY <1>0, <2>3, EffectOf DEF Quiet
  <2>7. \A u \in Requests : Told(u)'
    BY <1>0, <1>2, <2>2, <2>6 DEF IInv, Told, Quiet, WorkerActs
  <2> QED BY <2>4, <2>5, <2>7 DEF IInv
<1>3. CASE WorkerEnds
  <2>1. DOMAIN worker' = WorkerFields /\ worker'.on = FALSE
    BY <1>3 DEF WorkerEnds, NoWorker, WorkerFields
  <2>2. Expected' /\ Quiet'
    BY <2>1 DEF Expected, Quiet
  <2>3. CASE ~worker.awaited
    <3>1. Typed' /\ Guarded' /\ SessionOwned' /\ CliAlone'
      BY <1>0, <1>1, <1>3, <2>1, <2>3 DEF WorkerEnds
    <3>2. \A u \in Requests : Told(u)'
      BY <1>0, <1>3, <2>1, <2>2, <2>3 DEF IInv, Told, WorkerEnds
    <3> QED BY <2>2, <3>1, <3>2 DEF IInv
  <2>4. CASE worker.awaited
    <3>0. PICK t \in Requests : t = worker.by
      BY <1>0
    <3> DEFINE saw == IF worker.acted = "ok" /\ worker.cmd \in ListPcs \cup ReceiptPcs
                        THEN worker.saw ELSE thread[t].saw
    <3>1. thread' = [thread EXCEPT ![t].ans = worker.acted, ![t].saw = saw]
      BY <1>3, <2>4, <3>0, Zenon DEF WorkerEnds
    <3> HIDE DEF saw
    <3>2. Hears(t, worker.acted) /\ thread'[t].saw = saw
      BY <1>0, <3>1, ListStep
    <3> USE DEF saw
    <3>3. Typed' /\ Guarded' /\ SessionOwned' /\ CliAlone'
      BY <1>0, <1>1, <1>3, <2>1, <3>0, <3>2 DEF WorkerEnds
    <3>4. UNCHANGED <<card, pending>>
      BY <1>3 DEF WorkerEnds
    <3>5. Told(t)'
      <4>1. /\ worker.cmd = thread[t].pc /\ worker.item = thread[t].item
            /\ worker.acted = "ok" /\ worker.cmd \in {"send", "relist"} => worker.saw = card
            /\ worker.acted = "ok" /\ worker.cmd = "sending" => worker.item \notin card.receipts
        BY <1>0, <2>4, <3>0 DEF IInv, Expected
      <4>2. worker.acted = "ok" /\ thread[t].pc \in {"send", "relist"} => thread'[t].saw = card
        BY <3>2, <4>1 DEF ReceiptPcs
      <4>3. Told(t)
        BY DEF IInv
      <4> QED BY <2>1, <2>2, <3>2, <3>4, <4>1, <4>2, <4>3 DEF Told, Hears
    <3>6. ASSUME NEW u \in Requests, u # t PROVE Told(u)'
      <4>1. Told(u) /\ thread'[u] = thread[u]
        BY <3>2, <3>6 DEF IInv, Hears
      <4> QED BY <2>1, <2>2, <3>4, <4>1 DEF Told
    <3> QED BY <2>2, <3>3, <3>5, <3>6 DEF IInv
  <2> QED BY <2>3, <2>4
<1>4. CASE CallerGivesUp
  <2>1. /\ DOMAIN worker' = WorkerFields /\ worker'.on = worker.on /\ worker'.by = worker.by
        /\ worker'.cmd = worker.cmd /\ worker'.awaited = FALSE
    BY <1>0, <1>4 DEF CallerGivesUp, WorkerFields
  <2>2. Hears(worker.by, "failed")
    BY <1>0, <1>4, AnswerStep DEF CallerGivesUp
  <2>3. Typed' /\ Guarded' /\ SessionOwned' /\ CliAlone'
    BY <1>0, <1>1, <1>4, <2>1, <2>2 DEF CallerGivesUp
  <2>4. Expected'
    BY <2>1 DEF Expected
  <2>5. ASSUME NEW u \in Requests PROVE Told(u)'
    BY <1>0, <1>4, <2>1, <2>2 DEF IInv, Told, Quiet, CallerGivesUp, Hears
  <2> QED BY <2>3, <2>4, <2>5 DEF IInv
<1> QED BY <1>2, <1>3, <1>4

\* A run by hand starts only when nothing holds the lock file.
LEMMA CliKeeps ==
    ASSUME IInv, Cli, UNCHANGED pending
    PROVE  IInv'
<1>1. Typed' /\ Guarded' /\ SessionOwned' /\ CliAlone'
  BY DEF IInv, Typed, Threads, Guarded, SessionOwned, CliAlone, Cli, CliStarts, CliEnds, LockHeld, WorkerLocks
<1>2. Expected' /\ \A u \in Requests : Told(u)'
  BY DEF IInv, Expected, Told, Quiet, Cli
<1> QED BY <1>1, <1>2 DEF IInv

-----------------------------------------------------------------------------
(* Downloads and their cancelling. *)

\* What the owner asked for is on its way to an open download.
Heeded ==
    session =>
        /\ download.state \in {"running", "confirm", "cancelling"} /\ ~installed
        /\ download.state = "running" =>
             ctl = <<>> \/ (ctl = <<"Accept">> /\ thread[holder].pc = "dl_preview")
        /\ download.state = "confirm" => ctl = <<>> /\ thread[holder].pc = "dl_preview"
        /\ download.state = "cancelling" =>
             \/ ctl \in {<<"Cancel">>, <<"Accept", "Cancel">>}
             \/ ctl \in {<<"Decline">>, <<"PreviewTimeout">>} /\ thread[holder].pc = "dl_preview"

\* A download that is about to begin, and one that is over.
Begun(t) == thread[t].pc = "dl_open" => download.state = "running" /\ ~installed
Over(t) == Ending(t) /\ thread[t].result \notin {"ok", "failed"} => ~installed

Honest ==
    /\ open = session /\ DOMAIN download = {"state", "step"}
    /\ Heeded /\ CancelIsHonoured
    /\ \A t \in Requests : Begun(t) /\ Over(t)

\* Such a thread has the guard.
LEMMA BusyHolds ==
    ASSUME IInv, NEW t \in Requests, Ending(t) \/ thread[t].pc = "dl_open"
    PROVE  holder = t
BY DEF IInv, Guarded, Ending, GuardPcs, SessionPcs, BackPcs, CommandPcs, ReceiptPcs

\* A step outside a session that leaves downloads alone.
LEMMA AsideHonest ==
    ASSUME IInv, Honest, NEW t \in Requests, GuardStep(t), Follows(t), UNCHANGED downloadVars
    PROVE  Honest'
<1>1. Heeded'
  <2> SUFFICES ASSUME session PROVE Heeded'
    BY DEF Heeded, GuardStep
  <2>1. holder \in Requests /\ holder # t /\ holder # None
    BY EsimAssumption DEF IInv, SessionOwned, GuardStep
  <2>2. holder' = holder /\ thread'[holder] = thread[holder]
    BY <2>1 DEF GuardStep, Free, Alone, Moves
  <2> QED BY <2>2 DEF Honest, Heeded, GuardStep, downloadVars
<1>2. ASSUME NEW u \in Requests PROVE Begun(u)' /\ Over(u)'
  <2>1. CASE u = t
    BY <2>1 DEF Honest, Begun, Over, Follows, downloadVars
  <2>2. CASE u # t
    BY <2>2 DEF Honest, Begun, Over, Ending, GuardStep, Alone, Moves, downloadVars
  <2> QED BY <2>1, <2>2
<1> QED BY <1>1, <1>2 DEF Honest, CancelIsHonoured, GuardStep, downloadVars

\* The operations: only a first read begins a download.
LEMMA SwitchHonest ==
    ASSUME IInv, Honest, NEW t \in Requests, SwitchSteps(t)
    PROVE  Honest'
<1>0. GuardStep(t) /\ Apart(t)
  BY SwitchGuards
<1>1. CASE UNCHANGED downloadVars /\ thread'[t].pc # "dl_open"
  BY <1>0, <1>1, AsideHonest DEF Apart, Follows
<1>2. CASE FirstRead(t)
  <2>1. holder = t /\ ~session /\ UNCHANGED session
    BY <1>0, <1>2 DEF IInv, Guarded, SessionOwned, FirstRead, Answered, GuardPcs, CommandPcs, ListPcs,
       GuardStep
  <2>2. CASE UNCHANGED downloadVars /\ thread'[t].pc # "dl_open"
    BY <1>1, <2>2
  <2>3. CASE /\ download' = [state |-> "running", step |-> "starting"]
             /\ installed' = FALSE /\ UNCHANGED open
    BY <2>1, <2>3 DEF Honest, Heeded, CancelIsHonoured, Begun, Over
  <2>4. CASE /\ download' = [state |-> "failed", step |-> "starting"]
             /\ Go(t, "done") /\ UNCHANGED <<open, installed>>
    <3>1. thread'[t].pc = "done"
      BY <2>4, GoStep DEF IInv, Typed, Moves
    <3>2. ASSUME NEW u \in Requests PROVE Begun(u)' /\ Over(u)'
      <4>1. CASE u = t
        BY <3>1, <4>1 DEF Begun, Over, Ending
      <4>2. CASE u # t
        <5>1. ~Ending(u) /\ thread[u].pc # "dl_open" /\ thread'[u] = thread[u]
          BY <1>0, <2>1, <4>2, BusyHolds DEF GuardStep, Alone, Moves
        <5> QED BY <5>1 DEF Begun, Over, Ending
      <4> QED BY <4>1, <4>2
    <3> QED BY <2>1, <2>4, <3>2 DEF Honest, Heeded, CancelIsHonoured
  <2>5. CASE (Go(t, "done") \/ Go(t, job[t].kind)) /\ UNCHANGED downloadVars
    <3>1. job[t].kind # "dl_open"
      BY DEF IInv, Typed, Jobs
    <3>2. thread'[t].pc # "dl_open"
      BY <2>5, <3>1, GoStep DEF IInv, Typed, Moves
    <3> QED BY <2>2, <2>5, <3>2
  <2> QED BY <1>2, <2>3, <2>4, <2>5 DEF FirstRead
<1> QED BY <1>0, <1>1, <1>2 DEF Apart

\* Where a session's thread stands is a place to heed.
LEMMA SessionHonest ==
    ASSUME IInv, Honest, NEW t \in Requests, thread[t].pc \in SessionPcs \cup {"dl_open"},
           Moves(t, thread'[t].pc), UNCHANGED holder, open' = session',
           DOMAIN download' = {"state", "step"},
           thread'[t].pc # "dl_open", Heeded', CancelIsHonoured', Over(t)'
    PROVE  Honest'
<1>1. holder = t
  BY DEF IInv, Guarded, GuardPcs
<1>2. ASSUME NEW u \in Requests, u # t PROVE Begun(u)' /\ Over(u)'
  <2>1. ~Ending(u) /\ thread[u].pc # "dl_open" /\ thread'[u] = thread[u]
    BY <1>1, <1>2, BusyHolds DEF Moves
  <2> QED BY <2>1 DEF Begun, Over, Ending
<1>3. Begun(t)'
  BY DEF Begun
<1> QED BY <1>2, <1>3 DEF Honest

\* A download that stops: its result is the cancel only if nothing was installed.
LEMMA StopHonest ==
    ASSUME IInv, Honest, NEW t \in Requests, thread[t].pc \in SessionPcs \cup {"dl_open"},
           NEW result, Stop(t, result), thread[t].ans = "none", UNCHANGED holder,
           UNCHANGED download, result \notin {"ok", "failed"} => ~installed',
           download.state \in {"cancelling", "cancelled"} => ~installed'
    PROVE  Honest'
<1>1. (Moves(t, "send") \/ Moves(t, "dl_final")) /\ thread'[t].result = result
  BY StopMoves DEF IInv, Typed
<1>2. Moves(t, thread'[t].pc) /\ thread'[t].pc # "dl_open"
  BY <1>1 DEF Moves
<1>3. open' = session' /\ Heeded' /\ CancelIsHonoured' /\ Over(t)'
  BY <1>1 DEF Stop, Heeded, CancelIsHonoured, Over
<1> QED BY <1>2, <1>3, SessionHonest DEF Honest

\* The places of a download between two looks at the channel.
LEMMA GoHonest ==
    ASSUME IInv, Honest, NEW t \in Requests, thread[t].pc \in SessionPcs \cup {"dl_open"},
           NEW pc \in SessionPcs, Go(t, pc), UNCHANGED <<holder, installed>>, open' = session',
           DOMAIN download' = {"state", "step"},
           thread'[t].pc = pc => Heeded', CancelIsHonoured'
    PROVE  Honest'
<1>1. Moves(t, pc)
  BY GoStep DEF IInv, Typed
<1>2. thread'[t].pc = pc /\ Moves(t, thread'[t].pc)
  BY <1>1 DEF Moves
<1>3. thread'[t].pc # "dl_open" /\ Over(t)'
  BY <1>2 DEF SessionPcs, Over, Ending
<1> QED BY <1>2, <1>3, SessionHonest

\* A decision to cancel is found in the channel, or is the next to be heard.
LEMMA CancelFound ==
    ASSUME Heeded, session, download.state = "cancelling", thread[holder].pc # "dl_preview"
    PROVE  Cancelled
<1>1. ctl \in {<<"Cancel">>, <<"Accept", "Cancel">>}
  BY DEF Heeded
<1> QED BY <1>1 DEF Cancelled, Contains

LEMMA DownloadHonest ==
    ASSUME IInv, Honest, NEW t \in Requests, DownloadSteps(t)
    PROVE  Honest'
<1> USE DEF At, DownloadFrame
<1>1. ASSUME thread[t].pc \in SessionPcs
      PROVE  session /\ holder = t /\ ~installed
             /\ download.state \in {"running", "confirm", "cancelling"}
             /\ (download.state = "cancelling" /\ thread[t].pc # "dl_preview" => Cancelled)
  <2>1. session /\ holder = t
    BY <1>1 DEF IInv, SessionOwned, Guarded, GuardPcs
  <2> QED BY <2>1, CancelFound DEF Honest, Heeded
<1>2. ASSUME NEW result, Stop(t, result), thread[t].ans = "none", thread[t].pc \in SessionPcs,
             UNCHANGED <<holder, download, installed>>
      PROVE  Honest'
  <2>1. ~installed'
    BY <1>1, <1>2
  <2> QED BY <1>2, <2>1, StopHonest
<1>3. ASSUME Fails(t), thread[t].ans = "none", thread[t].pc \in SessionPcs,
             UNCHANGED <<holder, download, installed>>
      PROVE  Honest'
  BY <1>2, <1>3 DEF Fails
<1>4. CASE DownloadOpens(t)
  <2>1. download.state = "running" /\ ~installed
    BY <1>4 DEF DownloadOpens, Honest, Begun
  <2>2. CASE Stop(t, "failed")
    BY <1>4, <2>1, <2>2, StopHonest DEF DownloadOpens
  <2>3. CASE Go(t, "dl_before") /\ session' = TRUE /\ open' = TRUE /\ ctl' = <<>>
    <3>1. Heeded' /\ CancelIsHonoured'
      BY <1>4, <2>1, <2>3 DEF DownloadOpens, Heeded, CancelIsHonoured
    <3>2. DOMAIN download' = {"state", "step"}
      BY <1>4 DEF DownloadOpens, Honest
    <3> QED BY <1>4, <2>3, <3>1, <3>2, GoHonest DEF DownloadOpens, SessionPcs
  <2> QED BY <1>4, <2>2, <2>3 DEF DownloadOpens
<1>5. ASSUME NEW from \in {"dl_before", "dl_after"}, NEW to \in {"dl_show", "dl_load"},
             DownloadChecks(t, from, to)
      PROVE  Honest'
  <2>0. /\ thread[t].pc \in SessionPcs \ {"dl_preview"} /\ thread[t].ans = "none"
        /\ UNCHANGED <<holder, download, installed>>
    BY <1>5 DEF DownloadChecks, SessionPcs
  <2>1. CASE Stop(t, "cancelled")
    BY <1>2, <2>0, <2>1
  <2>2. CASE Fails(t)
    BY <1>3, <2>0, <2>2
  <2>3. CASE ~Cancelled /\ Go(t, to) /\ ctl' = <<>> /\ UNCHANGED <<session, open>>
    <3>1. session /\ holder = t /\ ~installed /\ download.state \in {"running", "confirm"}
      BY <1>1, <2>0, <2>3
    <3>2. download.state = "running"
      BY <2>0, <3>1 DEF Honest, Heeded
    <3>3. Heeded' /\ CancelIsHonoured'
      BY <2>0, <2>3, <3>1, <3>2 DEF Heeded, CancelIsHonoured
    <3> QED BY <2>0, <2>3, <3>3, GoHonest DEF Honest, SessionPcs
  <2> QED BY <1>5, <2>1, <2>2, <2>3 DEF DownloadChecks
<1>6. CASE DownloadShows(t)
  <2>0. thread[t].pc = "dl_show" /\ thread[t].pc \in SessionPcs
    BY <1>6 DEF DownloadShows, SessionPcs
  <2>1. session /\ holder = t /\ ~installed /\ Heeded
    BY <1>1, <2>0 DEF Honest
  <2>2. download.state # "confirm" /\ (download.state = "running" => ctl = <<>>)
    BY <2>0, <2>1 DEF Heeded
  <2>3. CASE /\ download' = [state |-> IF download.state = "running" THEN "confirm" ELSE download.state,
                             step |-> "preview"]
             /\ Go(t, "dl_preview")
    <3>1. thread'[t].pc = "dl_preview" => Heeded' /\ CancelIsHonoured'
      BY <1>6, <2>1, <2>2, <2>3 DEF DownloadShows, Heeded, CancelIsHonoured
    <3>2. CancelIsHonoured' /\ DOMAIN download' = {"state", "step"}
      BY <1>6, <2>1, <2>3 DEF DownloadShows, CancelIsHonoured
    <3> QED BY <1>6, <2>0, <2>3, <3>1, <3>2, GoHonest DEF DownloadShows, Honest, SessionPcs
  <2>4. CASE Go(t, "dl_after") /\ UNCHANGED download
    <3>1. Heeded' /\ CancelIsHonoured'
      BY <1>6, <2>0, <2>1, <2>2, <2>4 DEF DownloadShows, Heeded, CancelIsHonoured
    <3> QED BY <1>6, <2>0, <2>4, <3>1, GoHonest DEF DownloadShows, Honest, SessionPcs
  <2> QED BY <1>6, <2>3, <2>4 DEF DownloadShows
<1>7. CASE DownloadHears(t)
  <2>0. thread[t].pc \in SessionPcs /\ thread[t].ans = "none" /\ UNCHANGED <<holder, download, installed>>
    BY <1>7 DEF DownloadHears, SessionPcs
  <2>1. CASE Stop(t, "cancelled")
    BY <1>2, <2>0, <2>1
  <2>2. CASE /\ ctl # <<>> /\ Head(ctl) = "Accept" /\ Go(t, "dl_after") /\ ctl' = Tail(ctl)
             /\ UNCHANGED <<session, open>>
    <3>1. session /\ holder = t /\ ~installed /\ Heeded
      BY <1>1, <2>0 DEF Honest
    <3>2. \/ download.state = "running" /\ ctl = <<"Accept">>
          \/ download.state = "cancelling" /\ ctl = <<"Accept", "Cancel">>
      BY <2>2, <3>1 DEF Heeded
    <3>3. \/ download.state = "running" /\ ctl' = <<>>
          \/ download.state = "cancelling" /\ ctl' = <<"Cancel">>
      <4>1. Tail(<<"Accept">>) = <<>> /\ Tail(<<"Accept", "Cancel">>) = <<"Cancel">>
        OBVIOUS
      <4> QED BY <2>2, <3>2, <4>1
    <3>4. Heeded' /\ CancelIsHonoured'
      BY <2>0, <3>1, <3>3 DEF Heeded, CancelIsHonoured
    <3> QED BY <2>0, <2>2, <3>4, GoHonest DEF Honest, SessionPcs
  <2> QED BY <1>7, <2>1, <2>2 DEF DownloadHears
<1>8. CASE DownloadLoads(t)
  <2>0. thread[t].pc = "dl_load" /\ thread[t].pc \in SessionPcs
    BY <1>8 DEF DownloadLoads, SessionPcs
  <2>1. session /\ holder = t /\ ~installed /\ Heeded
    BY <1>1, <2>0 DEF Honest
  <2>2. download'.state = download.state /\ DOMAIN download' = {"state", "step"}
    BY <1>8 DEF DownloadLoads, Honest
  <2>3. Heeded' /\ CancelIsHonoured'
    BY <1>8, <2>0, <2>1, <2>2 DEF DownloadLoads, Heeded, CancelIsHonoured
  <2> QED BY <1>8, <2>0, <2>2, <2>3, GoHonest DEF DownloadLoads, Honest, SessionPcs
<1>9. CASE DownloadInstalls(t)
  <2>0. /\ thread[t].pc \in SessionPcs \ {"dl_preview"} /\ thread[t].ans = "none"
        /\ UNCHANGED <<holder, download>>
    BY <1>9 DEF DownloadInstalls, SessionPcs
  <2>1. CASE Cancelled /\ Stop(t, "cancelled") /\ UNCHANGED installed
    BY <1>2, <2>0, <2>1
  <2>2. CASE ~Cancelled /\ (Stop(t, "ok") \/ Stop(t, "failed"))
    <3>1. download.state \notin {"cancelling", "cancelled"}
      BY <1>1, <2>0, <2>2
    <3> QED BY <2>0, <2>2, <3>1, StopHonest
  <2> QED BY <1>9, <2>1, <2>2 DEF DownloadInstalls
<1>10. CASE DownloadEnds(t)
  <2>1. holder = t /\ ~session /\ UNCHANGED <<session, open, installed>>
    BY <1>10, EsimAssumption
       DEF IInv, Guarded, SessionOwned, DownloadEnds, CardFrame, GuardPcs, BackPcs, SessionPcs
  <2>2. Moves(t, "done") \/ Moves(t, "loop")
    BY <1>10, GoStep, EnsureMoves DEF DownloadEnds, IInv, Typed
  <2>3. /\ DOMAIN download' = {"state", "step"}
        /\ download'.state = IF thread[t].result = "ok" THEN "done" ELSE thread[t].result
    BY <1>10 DEF DownloadEnds, Honest
  <2>5. CancelIsHonoured'
    BY <1>10, <2>1, <2>3 DEF DownloadEnds, Honest, Over, Ending, CancelIsHonoured
  <2>6. ASSUME NEW u \in Requests PROVE Begun(u)' /\ Over(u)'
    <3>1. CASE u = t
      BY <2>2, <3>1 DEF Moves, Begun, Over, Ending
    <3>2. CASE u # t
      <4>1. ~Ending(u) /\ thread[u].pc # "dl_open" /\ thread'[u] = thread[u]
        BY <2>1, <2>2, <3>2, BusyHolds DEF Moves
      <4> QED BY <4>1 DEF Begun, Over, Ending
    <3> QED BY <3>1, <3>2
  <2> QED BY <2>1, <2>3, <2>5, <2>6 DEF Honest, Heeded
<1> QED BY <1>4, <1>5, <1>6, <1>7, <1>8, <1>9, <1>10 DEF DownloadSteps

LEMMA AppendTwo ==
    ASSUME NEW S, NEW a \in S, NEW b \in S
    PROVE  Append(<<>>, b) = <<b>> /\ Append(<<a>>, b) = <<a, b>>
<1> DEFINE one == Append(<<>>, b)
           two == Append(<<a>>, b)
<1>1. one \in Seq(S) /\ Len(one) = 1 /\ one[1] = b
  BY AppendProperties
<1>2. two \in Seq(S) /\ Len(two) = 2 /\ two[1] = a /\ two[2] = b
  BY AppendProperties
<1> HIDE DEF one, two
<1>3. one = <<one[1]>> /\ two = <<two[1], two[2]>>
  BY <1>1, <1>2
<1> QED BY <1>1, <1>2, <1>3 DEF one, two

\* A decision is taken while the session is open, and while it is asked for or awaited.
LEMMA OwnersHonest ==
    ASSUME IInv, Honest, OwnersSteps
    PROVE  Honest'
<1>1. ASSUME download.state # "cancelling", download.state # "cancelled",
             session => download.state \in {"running", "confirm"},
             NEW decision, NEW state, Send(decision, state),
             \/ state = "running" /\ decision = "Accept" /\ download.state = "confirm"
             \/ state = "cancelling" /\ decision = "Cancel"
             \/ state = "cancelling" /\ download.state = "confirm" /\ decision \in {"Decline", "PreviewTimeout"}
      PROVE  Honest'
  <2>1. session /\ ~installed /\ download.state \in {"running", "confirm"} /\ Heeded
    BY <1>1 DEF Honest, Heeded, Send
  <2>2. UNCHANGED <<thread, holder, session, open, installed>> /\ DOMAIN download' = {"state", "step"}
        /\ download'.state = state /\ ctl' = Append(ctl, decision)
    BY <1>1 DEF Send, cardVars, Honest
  <2>3. /\ ctl = <<>> => ctl' = <<decision>>
        /\ ctl = <<"Accept">> => ctl' = <<"Accept", decision>>
    <3>0. decision \in {"Accept", "Cancel", "Decline", "PreviewTimeout"}
      BY <1>1
    <3>1. Append(<<>>, decision) = <<decision>> /\ Append(<<"Accept">>, decision) = <<"Accept", decision>>
      BY <3>0, AppendTwo
    <3> QED BY <2>2, <3>1
  <2>4. Heeded' /\ CancelIsHonoured'
    BY <1>1, <2>1, <2>2, <2>3 DEF Heeded, CancelIsHonoured
  <2>5. ASSUME NEW u \in Requests PROVE Begun(u)' /\ Over(u)'
    <3>1. thread[u].pc # "dl_open"
      BY <2>1, BusyHolds DEF IInv, SessionOwned, SessionPcs
    <3> QED BY <2>1, <2>2, <3>1 DEF Begun, Over, Ending
  <2> QED BY <2>2, <2>4, <2>5 DEF Honest
<1>2. CASE DownloadDismiss
  <2>1. ~session
    BY <1>2 DEF DownloadDismiss, Honest, Heeded
  <2>2. ASSUME NEW u \in Requests PROVE Begun(u)' /\ Over(u)'
    BY <1>2 DEF DownloadDismiss, cardVars, Honest, Begun, Over, Ending
  <2> QED BY <1>2, <2>1, <2>2 DEF DownloadDismiss, cardVars, Honest, Heeded, CancelIsHonoured
<1> QED BY <1>1, <1>2 DEF OwnersSteps, DownloadConfirm, DownloadCancel, PreviewTimeout

\* The worker and the run by hand move no thread; it may get an answer.
LEMMA CardHears ==
    ASSUME IInv, CardSteps \/ \E t \in Requests : Command(t)
    PROVE  UNCHANGED <<holder, session>> /\ (thread' = thread \/ \E t \in Requests : \E v : Hears(t, v))
<1>0. Threads /\ (worker.on => worker.by \in Requests)
  BY DEF IInv, Typed
<1>1. UNCHANGED <<holder, session>>
  BY DEF CardSteps, WorkerActs, WorkerEnds, CallerGivesUp, Cli, Command
<1> SUFFICES ASSUME thread' # thread PROVE \E t \in Requests : \E v : Hears(t, v)
  BY <1>1
<1>2. ASSUME NEW t \in Requests, Command(t) PROVE \E v : Hears(t, v)
  <2>1. PICK v : thread' = [thread EXCEPT ![t].ans = v]
    BY <1>2 DEF Command
  <2> QED BY <1>0, <2>1, AnswerStep
<1>3. CASE WorkerEnds
  <2>0. PICK t \in Requests : t = worker.by
    BY <1>0, <1>3 DEF WorkerEnds
  <2> DEFINE saw == IF worker.acted = "ok" /\ worker.cmd \in ListPcs \cup ReceiptPcs
                      THEN worker.saw ELSE thread[t].saw
  <2>1. thread' = [thread EXCEPT ![t].ans = worker.acted, ![t].saw = saw]
    BY <1>3, <2>0, Zenon DEF WorkerEnds
  <2>2. Hears(t, worker.acted)
    BY <1>0, <2>1, ListStep
  <2> QED BY <2>2
<1>4. CASE CallerGivesUp
  <2>1. Hears(worker.by, "failed") /\ worker.by \in Requests
    BY <1>0, <1>4, AnswerStep DEF CallerGivesUp
  <2> QED BY <2>1
<1> QED BY <1>2, <1>3, <1>4 DEF CardSteps, WorkerActs, Cli

LEMMA CardHonest ==
    ASSUME IInv, Honest, UNCHANGED <<holder, session, downloadVars>>,
           thread' = thread \/ \E t \in Requests : \E v : Hears(t, v)
    PROVE  Honest'
<1>1. ASSUME NEW u \in Requests PROVE thread'[u].pc = thread[u].pc /\ Kin(thread'[u], thread[u])
  BY DEF Hears, Kin
<1>2. ASSUME NEW u \in Requests PROVE Begun(u)' /\ Over(u)'
  BY <1>1 DEF downloadVars, Honest, Begun, Over, Ending, Kin
<1>3. Heeded'
  <2>1. session => holder \in Requests
    BY DEF IInv, SessionOwned
  <2> QED BY <1>1, <2>1 DEF downloadVars, Honest, Heeded
<1> QED BY <1>2, <1>3 DEF downloadVars, Honest, CancelIsHonoured

-----------------------------------------------------------------------------
(* Receipts that can be sent, and who will try them. *)

OneLoop ==
    /\ retrying => \E l \in Requests : \A t \in Requests : IsLoop(t) <=> t = l
    /\ ~retrying => \A t \in Requests : ~IsLoop(t)
Attended == CanRetry(pending) => retrying \/ dropped \/ \E t \in Requests : Committed(t)
Tried == retrying \in BOOLEAN /\ OneLoop /\ Attended

\* The kinds of steps: a loop is started if need be, or ends, or neither.
Ensures(t) == ~IsLoop(t) /\ EnsureRetry(t, pending')
Stops(t) ==
    /\ retrying' = FALSE /\ IsLoop(t) /\ ~IsLoop(t)'
    /\ CanRetry(pending) => dropped'
    /\ UNCHANGED pending
GoesOn(t) ==
    /\ UNCHANGED retrying /\ (IsLoop(t)' <=> IsLoop(t)) /\ (dropped => dropped')
    /\ CanRetry(pending') =>
         \/ Committed(t)' \/ retrying' \/ dropped'
         \/ CanRetry(pending) /\ ~Committed(t)
Attends(t) == Ensures(t) \/ Stops(t) \/ GoesOn(t)

LEMMA AttendsKeeps ==
    ASSUME Tried, Threads, NEW t \in Requests, Attends(t), Moves(t, thread'[t].pc)
    PROVE  Tried'
<1>1. \A u \in Requests \ {t} : (IsLoop(u)' <=> IsLoop(u)) /\ (Committed(u)' <=> Committed(u))
  BY DEF IsLoop, Committed, Moves
<1>2. CASE Ensures(t)
  <2>1. CASE /\ retrying \/ ~CanRetry(pending')
             /\ Go(t, "done") /\ UNCHANGED <<retrying, dropped>>
    <3>1. ~IsLoop(t)'
      BY <2>1, GoStep DEF Moves, IsLoop, Looping
    <3> QED BY <1>1, <1>2, <2>1, <3>1 DEF Ensures, Tried, OneLoop, Attended
  <2>2. CASE ~retrying /\ Go(t, "loop") /\ retrying' = TRUE
    <3>1. IsLoop(t)'
      BY <2>2, GoStep DEF Moves, IsLoop, Looping
    <3> QED BY <1>1, <2>2, <3>1 DEF Tried, OneLoop, Attended
  <2>3. CASE Go(t, "done") /\ dropped' = TRUE /\ UNCHANGED retrying
    <3>1. ~IsLoop(t)'
      BY <2>3, GoStep DEF Moves, IsLoop, Looping
    <3> QED BY <1>1, <1>2, <2>3, <3>1 DEF Ensures, Tried, OneLoop, Attended
  <2> QED BY <1>2, <2>1, <2>2, <2>3 DEF Ensures, EnsureRetry
<1>3. CASE Stops(t)
  BY <1>1, <1>3 DEF Stops, Tried, OneLoop, Attended
<1>4. CASE GoesOn(t)
  BY <1>1, <1>4 DEF GoesOn, Tried, OneLoop, Attended
<1> QED BY <1>2, <1>3, <1>4 DEF Attends

\* A download's thread is no loop, and sends on its own account.
LEMMA DownloadAttends ==
    ASSUME IInv, NEW t \in Requests, DownloadSteps(t)
    PROVE  Attends(t) /\ Moves(t, thread'[t].pc)
<1> USE DEF At, DownloadFrame, receiptVars
<1>0. Threads
  BY DEF IInv, Typed
<1>1. ASSUME thread[t].pc \in SessionPcs \cup {"dl_open"}, thread[t].ans = "none",
             UNCHANGED receiptVars,
             (\E result : Stop(t, result)) \/ (\E pc \in SessionPcs : Go(t, pc))
      PROVE  Attends(t) /\ Moves(t, thread'[t].pc)
  <2>1. CASE \E result : Stop(t, result)
    <3>1. (Moves(t, "send") \/ Moves(t, "dl_final")) /\ thread'[t].back = "dl_sent"
      BY <1>0, <1>1, <2>1, StopMoves
    <3>2. ~IsLoop(t) /\ ~IsLoop(t)' /\ ~Committed(t)
      BY <1>1, <3>1 DEF Moves, IsLoop, Looping, Committed, CommittedPcs, SendPcs, SessionPcs
    <3> QED BY <1>1, <3>1, <3>2 DEF Attends, GoesOn, Moves
  <2>2. CASE \E pc \in SessionPcs : Go(t, pc)
    <3>1. PICK pc \in SessionPcs : Moves(t, pc)
      BY <1>0, <2>2, GoStep
    <3>2. ~IsLoop(t) /\ ~IsLoop(t)' /\ ~Committed(t)
      BY <1>1, <3>1 DEF Moves, IsLoop, Looping, Committed, CommittedPcs, SendPcs, SessionPcs
    <3> QED BY <1>1, <3>1, <3>2 DEF Attends, GoesOn, Moves
  <2> QED BY <1>1, <2>1, <2>2
<1>2. CASE DownloadEnds(t)
  <2>1. CASE At(t, "dl_final") /\ Go(t, "done") /\ UNCHANGED <<retrying, dropped>>
    <3>1. Moves(t, "done")
      BY <1>0, <2>1, GoStep
    <3>2. ~IsLoop(t) /\ ~IsLoop(t)' /\ ~Committed(t)
      BY <2>1, <3>1 DEF Moves, IsLoop, Looping, Committed, CommittedPcs, SendPcs
    <3> QED BY <1>2, <2>1, <3>1, <3>2 DEF DownloadEnds, Attends, GoesOn, Moves
  <2>2. CASE At(t, "dl_sent") /\ EnsureRetry(t, pending)
    <3>1. (Moves(t, "done") \/ Moves(t, "loop")) /\ UNCHANGED pending
      BY <1>0, <1>2, <2>2, EnsureMoves DEF DownloadEnds
    <3>2. ~IsLoop(t)
      BY <2>2 DEF IsLoop, Looping
    <3> QED BY <2>2, <3>1, <3>2 DEF Attends, Ensures, Moves
  <2> QED BY <1>2, <2>1, <2>2 DEF DownloadEnds
<1>3. CASE DownloadOpens(t) \/ DownloadShows(t) \/ DownloadLoads(t)
  BY <1>1, <1>3 DEF DownloadOpens, DownloadShows, DownloadLoads, SessionPcs
<1>4. CASE DownloadChecks(t, "dl_before", "dl_show") \/ DownloadChecks(t, "dl_after", "dl_load")
  BY <1>1, <1>4 DEF DownloadChecks, Fails, SessionPcs
<1>5. CASE DownloadHears(t) \/ DownloadInstalls(t)
  BY <1>1, <1>5 DEF DownloadHears, DownloadInstalls, SessionPcs
<1> QED BY <1>2, <1>3, <1>4, <1>5 DEF DownloadSteps

\* The operations: deleting and the first list end with a look for the loop, and
\* the receipts after a switch are listed on the way to one.
LEMMA SwitchAttends ==
    ASSUME IInv, NEW t \in Requests, SwitchSteps(t)
    PROVE  Attends(t) /\ Moves(t, thread'[t].pc)
<1> USE DEF At, Answered, SameOthers, CardFrame, receiptVars
<1>0. Threads /\ Moves(t, thread'[t].pc) /\ Aside(t)
  BY SwitchGuards DEF IInv, Typed, GuardStep, Alone
<1> SUFFICES Attends(t)
  BY <1>0
<1>1. CASE FirstReceipts(t) \/ DeleteEnds(t)
  <2>1. EnsureRetry(t, pending') /\ ~IsLoop(t)
    BY <1>1 DEF FirstReceipts, DeleteEnds, IsLoop, Looping
  <2> QED BY <1>0, <2>1 DEF Attends, Ensures
<1>2. ASSUME ~IsLoop(t), UNCHANGED <<retrying, dropped>>, ~IsLoop(t)',
             Committed(t)' \/ (UNCHANGED pending /\ ~Committed(t))
      PROVE  Attends(t)
  BY <1>2 DEF Attends, GoesOn
<1>3. ASSUME NEW pc, Go(t, pc) PROVE thread'[t].pc = pc
  BY <1>0, <1>3, GoStep DEF Moves
<1>4. CASE AfterSwitch(t)
  <2>0. UNCHANGED receiptVars /\ ~IsLoop(t)
    BY <1>4 DEF AfterSwitch, AcquireToSend, Acquire, Refused, IsLoop, Looping
  <2>1. ASSUME NEW pc \in {"ensure", "again", "after_take", "after_receipts"}, Go(t, pc),
               thread[t].pc \in {"after", "after_take", "after_list"} \/ pc = "ensure"
        PROVE  Attends(t)
    BY <1>2, <1>3, <2>0, <2>1 DEF IsLoop, Looping, Committed, CommittedPcs, SendPcs
  <2>2. ASSUME NEW from \in {"after_take", "again"}, NEW back \in {"after_sent", "again_sent"},
               AcquireToSend(t, from, back)
        PROVE  Attends(t)
    <3>1. thread'[t].pc = "send" /\ thread'[t].back = back
      BY <1>0, <2>2, ToSend DEF AcquireToSend, Moves, BackPcs
    <3> QED BY <1>2, <2>0, <3>1 DEF IsLoop, Looping, Committed, CommittedPcs, SendPcs
  <2> QED BY <1>4, <2>1, <2>2 DEF AfterSwitch, Acquire, Refused
<1>5. CASE AfterSent(t)
  <2>1. PICK pc \in {"ensure", "again"} : Go(t, pc)
    BY <1>5 DEF AfterSent
  <2>2. thread'[t].pc = pc
    BY <1>3, <2>1
  <2>3. thread[t].pc \in {"after_sent", "again_sent", "after_receipts"} /\ UNCHANGED <<retrying, dropped>>
    BY <1>5 DEF AfterSent
  <2> QED BY <1>2, <2>1, <2>2, <2>3 DEF IsLoop, Looping, Committed, CommittedPcs, SendPcs
<1>6. CASE UNCHANGED receiptVars /\ ~IsLoop(t) /\ ~IsLoop(t)' /\ ~Committed(t)
  BY <1>2, <1>6
<1> QED BY <1>0, <1>1, <1>4, <1>5, <1>6 DEF Aside

\* Sending keeps the place it returns to, and with it whose it is.
LEMMA ReceiptsAttend ==
    ASSUME IInv, Tried, NEW t \in Requests, ReceiptSteps(t) \/ LoopTries(t, reloading)
    PROVE  Attends(t) /\ Moves(t, thread'[t].pc)
<1> USE DEF At, Answered, CardFrame, receiptVars
<1>0. Threads /\ Moves(t, thread'[t].pc)
  BY ReceiptsGuard DEF IInv, Typed, GuardStep, Alone
<1> SUFFICES Attends(t)
  BY <1>0
<1>1. IsLoop(t) => retrying
  BY DEF Tried, OneLoop
<1>2. ASSUME UNCHANGED <<retrying, dropped>>, IsLoop(t)' <=> IsLoop(t), IsLoop(t) \/ Committed(t)'
      PROVE  Attends(t)
  BY <1>1, <1>2 DEF Attends, GoesOn
<1>3. CASE SendListed(t) \/ SendAnswered(t) \/ SendRelisted(t)
  <2>1. thread[t].pc \in SendPcs /\ UNCHANGED <<retrying, dropped>>
    BY <1>3 DEF SendListed, SendAnswered, SendRelisted, SendPcs
  <2>2. CASE \E todo : SendNext(t, todo)
    <3>1. (Moves(t, "relist") \/ Moves(t, "sending")) /\ Kin(thread'[t], thread[t])
      BY <1>0, <2>2, SendNextMoves
    <3> QED BY <1>2, <2>1, <3>1 DEF Moves, Kin, IsLoop, Looping, Committed, CommittedPcs, SendPcs
  <2>3. CASE \E clear : Return(t, clear)
    <3>1. Moves(t, thread[t].back) /\ thread[t].back \in BackPcs
      BY <1>0, <2>3, ReturnMoves
    <3> QED BY <1>2, <2>1, <3>1 DEF Moves, IsLoop, Looping, Committed, CommittedPcs, SendPcs, BackPcs
  <2> QED BY <1>3, <2>2, <2>3 DEF SendListed, SendAnswered, SendRelisted
<1>4. CASE Ensure(t)
  <2>1. ~IsLoop(t) /\ EnsureRetry(t, pending')
    BY <1>4 DEF Ensure, IsLoop, Looping
  <2> QED BY <2>1 DEF Attends, Ensures
<1>5. CASE LoopTries(t, reloading) \/ LoopSent(t) \/ LoopChecks(t)
  <2>1. UNCHANGED <<retrying, dropped>> /\ IsLoop(t)
    BY <1>5 DEF LoopTries, LoopSent, LoopChecks, AcquireToSend, Refused, IsLoop, Looping
  <2>2. CASE \E pc \in Looping : Go(t, pc)
    <3>1. thread'[t].pc \in Looping
      BY <1>0, <2>2, GoStep DEF Moves
    <3> QED BY <1>2, <2>1, <3>1 DEF IsLoop
  <2>3. CASE AcquireToSend(t, "loop_take", "loop_sent")
    <3>1. thread'[t].pc = "send" /\ thread'[t].back = "loop_sent"
      BY <1>0, <2>3, ToSend DEF AcquireToSend, Moves, BackPcs
    <3> QED BY <1>2, <2>1, <3>1 DEF IsLoop
  <2> QED BY <1>5, <2>2, <2>3 DEF LoopTries, LoopSent, LoopChecks, Refused, Looping
<1>6. CASE LoopEnds(t)
  <2>1. IsLoop(t) /\ ~IsLoop(t)'
    BY <1>0, <1>6, GoStep DEF LoopEnds, Moves, IsLoop, Looping
  <2> QED BY <1>6, <2>1 DEF LoopEnds, Attends, Stops
<1>7. ASSUME ~IsLoop(t), Go(t, "done"), UNCHANGED retrying,
             dropped' = (dropped \/ (CanRetry(pending') /\ ~retrying))
      PROVE  Attends(t)
  <2>1. ~IsLoop(t)'
    BY <1>0, <1>7, GoStep DEF Moves, IsLoop, Looping
  <2> QED BY <1>7, <2>1 DEF Attends, GoesOn
<1>8. CASE NoticesListed(t)
  BY <1>7, <1>8 DEF NoticesListed, IsLoop, Looping
<1>9. CASE SendNow(t)
  <2>1. ~IsLoop(t) /\ UNCHANGED retrying
    BY <1>9 DEF SendNow, IsLoop, Looping
  <2>2. CASE thread' = [thread EXCEPT ![t].pc = "send", ![t].back = "sent_now"] /\ UNCHANGED dropped
    <3>1. thread'[t].pc = "send" /\ thread'[t].back = "sent_now"
      BY <1>0, <1>9, <2>2, ToSend DEF SendNow, Moves, BackPcs
    <3> QED BY <1>2, <2>1, <2>2, <3>1 DEF IsLoop, Looping, Committed, SendPcs
  <2> QED BY <1>7, <1>9, <2>1, <2>2 DEF SendNow
<1>10. CASE SentNow(t)
  <2>1. thread'[t].pc = "ensure"
    BY <1>0, <1>10, GoStep DEF SentNow, Moves
  <2> QED BY <1>2, <1>10, <2>1 DEF SentNow, IsLoop, Looping, Committed, CommittedPcs
<1> QED BY <1>3, <1>4, <1>5, <1>6, <1>8, <1>9, <1>10 DEF ReceiptSteps

\* Who waits for an answer stays where it is.
LEMMA CardAttends ==
    ASSUME Tried, UNCHANGED receiptVars,
           thread' = thread \/ \E t \in Requests : \E v : Hears(t, v)
    PROVE  Tried'
<1>1. ASSUME NEW u \in Requests PROVE thread'[u].pc = thread[u].pc /\ thread'[u].back = thread[u].back
  BY DEF Hears, Kin
<1>2. \A u \in Requests : (IsLoop(u)' <=> IsLoop(u)) /\ (Committed(u)' <=> Committed(u))
  BY <1>1 DEF IsLoop, Committed
<1> QED BY <1>2 DEF receiptVars, Tried, OneLoop, Attended

-----------------------------------------------------------------------------
(* What is said of a switch: for the one switch of a run. *)

FirstPcs == {"enable", "record", "record_busy"}
ReadPcs == {"settle", "look", "verify", "confirm"}
WatchPcs == {"watch", "watched"}
LaterPcs == {"retry", "retry_enable", "verdict"} \cup ReadPcs \cup WatchPcs
SwitchPcs == FirstPcs \cup LaterPcs
NotingPcs == {"delete", "rename", "first_receipts"}
StartPcs == {"idle", "ask", "read"}

Switcher(t) == job[t].kind = "enable"
OneSwitcher == \A t, u \in Requests : Switcher(t) /\ Switcher(u) => t = u

\* What is said of a switch only when there is one.
Reports == {"reloading", "card_busy", "card_confirmed", "modem_confirmed", "connected", "no_data",
            "modem_unconfirmed", "card_unconfirmed", "not_applied"}

\* A command that may still enable the profile, and a card and a list as at the start.
Applying == worker.on /\ worker.cmd \in EnablePcs /\ worker.acted = "no"
ListGood == inv.error \/ inv.enabled = card.enabled
Before == card.enabled = First /\ modem = First /\ ListGood

\* A list a thread read under the guard is still the card's.
Looks(t) ==
    thread[t].pc \in NotingPcs \/ (thread[t].pc \in ListPcs /\ thread[t].ans = "ok")
        => ~Applying /\ thread[t].saw.enabled = card.enabled
Seen ==
    worker.on /\ worker.acted = "ok" /\ worker.cmd \in ListPcs \cup ReceiptPcs
        => worker.saw.enabled = card.enabled

\* Where the switch has got to, by the thread's place.
Course(t) ==
    /\ IF switch.gen = 0 THEN switch.state \notin Reports
       ELSE switch.gen = 1 /\ switch.target = job[t].profile /\ job[t].profile # First
    /\ thread[t].pc \in StartPcs => switch.gen = 0
    /\ thread[t].pc \in FirstPcs =>
         switch.gen = 0 /\ job[t].profile # First /\ thread[t].saw.enabled = First
    /\ thread[t].pc \in LaterPcs => switch.gen = 1 /\ thread[t].gen = 1
    /\ thread[t].pc \in {"retry", "retry_enable"} => switch.state = "card_busy"
    /\ thread[t].pc \in ReadPcs \cup {"verdict"} => switch.state = "reloading"
    /\ thread[t].pc \in WatchPcs => switch.state \in {"reloading", "card_confirmed", "modem_confirmed"}

\* What the card and the modem have by then.
Enabled(t) == card.enabled = job[t].profile
Unapplied(t) ==
    \/ switch.gen = 0 /\ thread[t].pc \notin FirstPcs
    \/ thread[t].pc \in {"record_busy", "retry"}
    \/ thread[t].pc \in EnablePcs /\ thread[t].ans \in {"none", "busy", "notstarted"}
Still(t) == Unapplied(t) => Before /\ ~Applying
Asking ==
    worker.on /\ worker.awaited /\ worker.cmd \in EnablePcs /\ worker.acted \in {"no", "busy"} => Before
Judged(t) ==
    /\ thread[t].pc \in {"confirm", "verdict"} => ~Applying /\ thread[t].saw.enabled = card.enabled
    /\ thread[t].pc \in WatchPcs => Enabled(t)
    /\ switch.gen = 1 /\ thread[t].pc \notin {"retry", "retry_enable", "verdict"} \cup ReadPcs =>
         Enabled(t) \/ switch.state \in {"card_unconfirmed", "not_applied"}
    /\ switch.state = "not_applied" => ~Enabled(t) /\ ~Applying
Carried(t) ==
    /\ card.enabled \in {First, job[t].profile} /\ modem \in {First, card.enabled}
    /\ Still(t) /\ Asking /\ Judged(t)

\* What is still to be put right.
Settling(t) ==
    /\ reloading => thread[t].pc \in ReadPcs
    /\ \/ ListGood \/ switch.state = "card_unconfirmed"
       \/ thread[t].pc \in EnablePcs \cup {"record"} \cup ReadPcs

Place(t) == Course(t) /\ Carried(t) /\ Settling(t)
Unasked ==
    (\A t \in Requests : ~Switcher(t)) =>
        switch.gen = 0 /\ switch.state \notin Reports /\ Before /\ ~reloading

Sound ==
    /\ DOMAIN switch = {"state", "target", "gen"} /\ DOMAIN inv = {"enabled", "error"}
    /\ \A t \in Requests : thread[t].pc \in SwitchPcs => Switcher(t)
    /\ worker.on => worker.acted \in {"no", "ok", "busy", "failed"}
    /\ worker.on /\ worker.cmd \in EnablePcs => Switcher(worker.by)
    /\ Unasked /\ Seen
    /\ \A t \in Requests : Looks(t) /\ (Switcher(t) => Place(t))

\* A thread on other business.
Passes(t) ==
    /\ Moves(t, thread'[t].pc)
    /\ thread[t].pc \notin SwitchPcs /\ thread'[t].pc \notin SwitchPcs
    /\ thread'[t].pc \in StartPcs => thread[t].pc \in StartPcs
    /\ thread'[t].pc \in NotingPcs => Looks(t)'

\* Nothing is said of the switch by it.
Aloof ==
    /\ UNCHANGED <<job, worker, modem, reloading, switch>> /\ card'.enabled = card.enabled
    /\ DOMAIN inv' = DOMAIN inv /\ (ListGood => ListGood')

LEMMA AloofSound ==
    ASSUME Sound, Aloof, thread' = thread \/ \E t \in Requests : Passes(t)
    PROVE  Sound'
<1> USE DEF Aloof, Passes, Moves
<1>1. UNCHANGED Applying /\ (Before => Before')
  BY DEF Applying, Before
<1>2. ASSUME NEW u \in Requests PROVE Looks(u)'
  BY <1>1, <1>2 DEF Sound, Looks, ListPcs
<1>3. ASSUME NEW u \in Requests PROVE thread'[u].pc \in SwitchPcs => Switcher(u)'
  BY <1>3 DEF Sound, Switcher
<1>4. ASSUME NEW u \in Requests, Switcher(u) PROVE Place(u)'
  <2>0. Place(u)
    BY <1>4 DEF Sound
  <2>1. CASE thread'[u] = thread[u]
    <3>1. Course(u)'
      BY <2>0, <2>1 DEF Place, Course
    <3>2. Carried(u)'
      BY <1>1, <2>0, <2>1 DEF Place, Carried, Still, Unapplied, Asking, Judged, Enabled
    <3>3. Settling(u)'
      BY <2>0, <2>1 DEF Place, Settling
    <3> QED BY <3>1, <3>2, <3>3 DEF Place
  <2>2. CASE /\ thread[u].pc \notin SwitchPcs /\ thread'[u].pc \notin SwitchPcs
             /\ thread'[u].pc \in StartPcs => thread[u].pc \in StartPcs
    BY <1>1, <2>0, <2>2
       DEF Place, Course, Carried, Still, Unapplied, Asking, Judged, Settling, Enabled, SwitchPcs, FirstPcs, LaterPcs, ReadPcs, WatchPcs, EnablePcs
  <2> QED BY <2>1, <2>2
<1>5. Unasked' /\ Seen'
  BY <1>1 DEF Sound, Unasked, Seen, Switcher
<1> QED BY <1>2, <1>3, <1>4, <1>5 DEF Sound, Switcher

\* A step of the switch itself.
Steered(t) ==
    /\ Switcher(t) /\ Moves(t, thread'[t].pc) /\ thread'[t].pc \notin NotingPcs
    /\ UNCHANGED <<job, worker, modem, card>>
    /\ DOMAIN switch' = DOMAIN switch /\ DOMAIN inv' = DOMAIN inv
    /\ Before => Before'
    /\ Course(t)' /\ Still(t)' /\ Judged(t)' /\ Settling(t)'

LEMMA SteeredSound ==
    ASSUME Sound, OneSwitcher, NEW t \in Requests, Steered(t)
    PROVE  Sound'
<1> USE DEF Steered, Moves
<1>1. ASSUME NEW u \in Requests PROVE Looks(u)'
  BY <1>1 DEF Sound, Looks, ListPcs, Applying
<1>2. Place(t)'
  BY DEF Sound, Place, Carried, Asking
<1>3. ASSUME NEW u \in Requests PROVE /\ thread'[u].pc \in SwitchPcs => Switcher(u)'
                                      /\ Switcher(u)' => Place(u)'
  BY <1>2, <1>3 DEF Sound, OneSwitcher, Switcher
<1>4. Unasked' /\ Seen'
  BY DEF Sound, Unasked, Seen, Switcher
<1> QED BY <1>1, <1>3, <1>4 DEF Sound, Switcher

\* The operations, but for the switch's own steps.
LEMMA OperationsSound ==
    ASSUME IInv, Sound, NEW t \in Requests,
           \/ Ask(t) \/ Enter(t) \/ Query(t) \/ FirstReceipts(t) \/ Deleted(t) \/ DeleteEnds(t)
           \/ Renamed(t) \/ AfterSwitch(t) \/ AfterSent(t)
    PROVE  Sound'
<1> USE DEF SwitchPcs, FirstPcs, LaterPcs, ReadPcs, WatchPcs, StartPcs, NotingPcs, At, Answered
<1>0. Threads /\ DOMAIN inv = {"enabled", "error"} /\ Looks(t)
  BY DEF IInv, Typed, Sound
<1>1. ASSUME NEW pc, Go(t, pc) PROVE Moves(t, pc) /\ Same(thread'[t], thread[t])
  BY <1>0, <1>1, GoStep
<1>2. Passes(t)
  <2>1. CASE Ask(t)
    <3>1. PICK pc \in {"ask", "ask_list", "ask_notices", "ask_send", "done"} : Go(t, pc)
      BY <2>1 DEF Ask, Checked, IInv, Typed, Jobs
    <3> QED BY <1>1, <2>1, <3>1 DEF Ask, Passes, Moves
  <2>2. CASE Enter(t)
    BY <1>1, <2>2 DEF Enter, Acquire, Refused, Passes, Moves
  <2>3. CASE Query(t)
    <3>1. CASE Go(t, "first_receipts") /\ thread[t].ans = "ok"
      <4>1. Looks(t)'
        BY <1>0, <1>1, <2>3, <3>1 DEF Query, SameOthers, CardFrame, Looks, ListPcs, Applying, Same
      <4> QED BY <1>1, <2>3, <3>1, <4>1 DEF Query, Passes, Moves
    <3>2. CASE Go(t, "done")
      BY <1>1, <2>3, <3>2 DEF Query, Passes, Moves
    <3> QED BY <2>3, <3>1, <3>2 DEF Query
  <2>4. CASE FirstReceipts(t)
    BY <1>0, <2>4, EnsureMoves DEF FirstReceipts, Passes, Moves
  <2>5. CASE Deleted(t)
    <3>1. Moves(t, "send") \/ Moves(t, "done")
      BY <1>0, <1>1, <2>5, DeletedMoves DEF Deleted
    <3> QED BY <2>5, <3>1 DEF Deleted, Passes, Moves
  <2>6. CASE DeleteEnds(t)
    BY <1>0, <2>6, EnsureMoves DEF DeleteEnds, Passes, Moves
  <2>7. CASE Renamed(t)
    BY <1>1, <2>7 DEF Renamed, Passes, Moves
  <2>8. CASE AfterSwitch(t)
    <3>1. ASSUME NEW from, NEW back \in {"after_sent", "again_sent"}, AcquireToSend(t, from, back)
          PROVE  Moves(t, "send")
      BY <1>0, <3>1, ToSend DEF AcquireToSend, BackPcs
    <3>2. thread[t].pc \in {"after", "after_take", "again", "after_list"}
      BY <2>8 DEF AfterSwitch, AcquireToSend, Acquire, Refused
    <3>3. PICK pc \in {"ensure", "after_take", "send", "again", "after_receipts"} : Moves(t, pc)
      BY <1>1, <2>8, <3>1 DEF AfterSwitch, Acquire, Refused
    <3> QED BY <3>2, <3>3 DEF Passes, Moves
  <2>9. CASE AfterSent(t)
    BY <1>1, <2>9 DEF AfterSent, Passes, Moves
  <2> QED BY <2>1, <2>2, <2>3, <2>4, <2>5, <2>6, <2>7, <2>8, <2>9
<1>3. UNCHANGED <<job, worker, modem, reloading, switch, card>>
  BY DEF Ask, Enter, Query, FirstReceipts, Deleted, DeleteEnds, Renamed, AfterSwitch, AfterSent,
     SameOthers, CardFrame, switchVars
<1>4. CASE inv' = inv
  BY <1>2, <1>3, <1>4, AloofSound DEF Aloof, ListGood
<1>5. CASE inv' = [inv EXCEPT !.error = TRUE]
  BY <1>0, <1>2, <1>3, <1>5, AloofSound DEF Aloof, ListGood
<1>6. CASE inv' = Listed(thread[t].saw) /\ thread[t].saw.enabled = card.enabled
  BY <1>0, <1>2, <1>3, <1>6, AloofSound DEF Aloof, ListGood, Listed
<1>7. thread[t].pc \in NotingPcs \/ (thread[t].pc = "query" /\ thread[t].ans = "ok") =>
        thread[t].saw.enabled = card.enabled
  BY <1>0 DEF Looks, ListPcs
<1> QED BY <1>4, <1>5, <1>6, <1>7
    DEF Ask, Enter, Query, FirstReceipts, Deleted, DeleteEnds, Renamed, AfterSwitch, AfterSent, switchVars

\* Sending and downloading.
LEMMA OthersSound ==
    ASSUME IInv, Sound, UNCHANGED switchVars, NEW t \in Requests,
           ReceiptSteps(t) \/ LoopTries(t, reloading) \/ DownloadSteps(t)
    PROVE  Sound'
<1> USE DEF SwitchPcs, FirstPcs, LaterPcs, ReadPcs, WatchPcs, StartPcs, NotingPcs, At, Answered
<1>0. Threads /\ DOMAIN card = CardFields
  BY DEF IInv, Typed
<1>1. ASSUME NEW pc, Go(t, pc) PROVE Moves(t, pc)
  BY <1>0, <1>1, GoStep
<1>2. ASSUME ReceiptSteps(t) \/ LoopTries(t, reloading) PROVE Passes(t) /\ UNCHANGED <<job, worker, card>>
  <2>1. UNCHANGED <<job, worker, card>>
    BY <1>2 DEF ReceiptSteps, LoopTries, SendListed, SendAnswered, SendRelisted, Ensure, LoopSent,
       LoopChecks, LoopEnds, NoticesListed, SendNow, SentNow, CardFrame
  <2>2. CASE SendListed(t) \/ SendAnswered(t) \/ SendRelisted(t)
    <3>1. PICK pc \in {"relist", "sending"} \cup BackPcs : Moves(t, pc)
      BY <1>0, <2>2, SendNextMoves, ReturnMoves DEF SendListed, SendAnswered, SendRelisted
    <3> QED BY <2>1, <2>2, <3>1 DEF SendListed, SendAnswered, SendRelisted, Passes, Moves, BackPcs
  <2>3. CASE Ensure(t)
    BY <1>0, <2>1, <2>3, EnsureMoves DEF Ensure, Passes, Moves
  <2>4. CASE LoopTries(t, reloading)
    BY <1>0, <1>1, <2>1, <2>4, ToSend DEF LoopTries, AcquireToSend, Refused, Passes, Moves, BackPcs
  <2>5. CASE LoopSent(t) \/ LoopChecks(t) \/ LoopEnds(t)
    BY <1>1, <2>1, <2>5 DEF LoopSent, LoopChecks, LoopEnds, Passes, Moves
  <2>6. CASE NoticesListed(t)
    BY <1>1, <2>1, <2>6 DEF NoticesListed, Passes, Moves
  <2>7. CASE SendNow(t)
    BY <1>0, <1>1, <2>1, <2>7, ToSend DEF SendNow, Passes, Moves, BackPcs
  <2>8. CASE SentNow(t)
    BY <1>1, <2>1, <2>8 DEF SentNow, Passes, Moves
  <2> QED BY <1>2, <2>2, <2>3, <2>4, <2>5, <2>6, <2>7, <2>8 DEF ReceiptSteps
<1>3. ASSUME DownloadSteps(t) PROVE Passes(t)
  <2>1. ASSUME thread[t].pc \in SessionPcs \cup {"dl_open", "dl_final", "dl_sent"},
               \E pc \in SessionPcs \cup {"done", "send", "dl_final", "loop"} : Moves(t, pc)
        PROVE  Passes(t)
    BY <2>1 DEF SessionPcs, Passes, Moves
  <2>2. ASSUME NEW result, Stop(t, result), thread[t].ans = "none" PROVE Moves(t, "send") \/ Moves(t, "dl_final")
    BY <1>0, <2>2, StopMoves
  <2>3. CASE DownloadOpens(t) \/ DownloadShows(t) \/ DownloadLoads(t)
    BY <1>1, <2>1, <2>2, <2>3 DEF DownloadOpens, DownloadShows, DownloadLoads, SessionPcs
  <2>4. CASE DownloadChecks(t, "dl_before", "dl_show") \/ DownloadChecks(t, "dl_after", "dl_load")
    BY <1>1, <2>1, <2>2, <2>4 DEF DownloadChecks, Fails, SessionPcs
  <2>5. CASE DownloadHears(t) \/ DownloadInstalls(t)
    BY <1>1, <2>1, <2>2, <2>5 DEF DownloadHears, DownloadInstalls, SessionPcs
  <2>6. CASE DownloadEnds(t)
    BY <1>0, <1>1, <2>1, <2>6, EnsureMoves DEF DownloadEnds, SessionPcs
  <2> QED BY <1>3, <2>3, <2>4, <2>5, <2>6 DEF DownloadSteps
<1>4. ASSUME DownloadSteps(t) PROVE UNCHANGED <<job, worker>> /\ card'.enabled = card.enabled
  <2>1. Noted(card, None).enabled = card.enabled
    BY <1>0 DEF Noted, CardFields
  <2> QED BY <1>4, <2>1 DEF DownloadSteps, DownloadOpens, DownloadChecks, DownloadShows, DownloadHears,
          DownloadLoads, DownloadInstalls, DownloadEnds, DownloadFrame, CardFrame
<1> QED BY <1>2, <1>3, <1>4, AloofSound DEF Aloof, switchVars, ListGood

\* The card's commands.  What is enabled changes by nothing but a command to enable.
LEMMA CommandSound ==
    ASSUME IInv, Sound, OneSwitcher, NEW t \in Requests, Command(t), UNCHANGED switchVars
    PROVE  Sound'
<1> USE DEF switchVars
<1>0. /\ Threads /\ holder = t /\ thread[t].pc \in CommandPcs /\ thread[t].ans = "none"
      /\ UNCHANGED <<job, card>>
  BY DEF IInv, Typed, Command, Holds
<1>1. PICK v \in {"waits", "notstarted"} : Hears(t, v) /\ Same(thread'[t], thread[t])
  BY <1>0, AnswerStep DEF Command
<1>2. \/ worker' = worker /\ v = "notstarted"
      \/ /\ ~worker.on /\ worker'.on = TRUE /\ worker'.cmd = thread[t].pc /\ worker'.by = t
         /\ worker'.acted = "no" /\ v = "waits"
  <2>1. CASE thread' = [thread EXCEPT ![t].ans = "notstarted"] /\ UNCHANGED worker
    BY <1>0, <1>1, <2>1, AnswerStep DEF Hears
  <2>2. CASE /\ ~worker.on /\ thread' = [thread EXCEPT ![t].ans = "waits"]
             /\ worker' = [NoWorker EXCEPT !.on = TRUE, !.cmd = thread[t].pc, !.by = t,
                                           !.item = thread[t].item, !.awaited = TRUE]
    <3>1. Hears(t, "waits")
      BY <1>0, <2>2, AnswerStep
    <3> QED BY <1>1, <2>2, <3>1 DEF NoWorker, Hears
  <2> QED BY <2>1, <2>2 DEF Command
<1>3. Applying' => Applying \/ (thread[t].pc \in EnablePcs /\ v = "waits")
  BY <1>2 DEF Applying
<1>4. ASSUME NEW u \in Requests PROVE Looks(u)'
  <2>1. CASE u = t
    BY <1>0, <1>1, <1>3, <2>1 DEF Sound, Looks, Hears, Same, NotingPcs, EnablePcs
  <2>2. CASE u # t
    <3>1. thread[u].pc \notin GuardPcs /\ thread'[u] = thread[u]
      BY <1>0, <1>1, <2>2 DEF IInv, Guarded, Hears
    <3> QED BY <3>1 DEF Looks, NotingPcs, GuardPcs, CommandPcs, ListPcs, ReceiptPcs
  <2> QED BY <2>1, <2>2
<1>5. Seen'
  BY <1>0, <1>2 DEF Sound, Seen
<1>6. ASSUME NEW u \in Requests PROVE thread'[u].pc \in SwitchPcs => Switcher(u)'
  BY <1>0, <1>1, <1>6 DEF Sound, Switcher, Hears
<1>7. (worker.on /\ worker.cmd \in EnablePcs => Switcher(worker.by))'
  BY <1>0, <1>2 DEF Sound, Switcher, SwitchPcs, FirstPcs, LaterPcs, EnablePcs
<1>8. ASSUME NEW u \in Requests, Switcher(u) PROVE Place(u)'
  <2>0. Place(u) /\ UNCHANGED Enabled(u) /\ (ListGood <=> ListGood') /\ (Before <=> Before')
    BY <1>0, <1>8 DEF Sound, Enabled, ListGood, Before
  <2>1. thread'[u].pc = thread[u].pc /\ Same(thread'[u], thread[u])
    BY <1>1 DEF Hears, Same
  <2>2. Course(u)'
    BY <1>0, <2>0, <2>1 DEF Place, Course, Same
  <2>3. Settling(u)'
    BY <2>0, <2>1 DEF Place, Settling
  <2>4. CASE u = t /\ thread[t].pc \in EnablePcs
    <3>1. /\ Before /\ ~Applying /\ switch.state # "not_applied"
          /\ switch.gen = 0 \/ thread[t].pc = "retry_enable"
      BY <1>0, <2>0, <2>4
         DEF Place, Carried, Still, Unapplied, Course, EnablePcs, FirstPcs, LaterPcs, Reports
    <3>2. switch.gen = 0 => thread[t].pc \in FirstPcs
      BY <2>0, <2>4 DEF Place, Course, EnablePcs, FirstPcs, LaterPcs
    <3>3. v = "notstarted" => ~Applying'
      BY <1>2, <3>1 DEF Applying
    <3>4. Still(t)'
      BY <1>1, <2>0, <2>1, <2>4, <3>1, <3>2, <3>3 DEF Still, Unapplied, Hears, EnablePcs
    <3>5. Judged(t)'
      BY <1>0, <2>0, <2>1, <2>4, <3>1, <3>2
         DEF Place, Carried, Judged, Enabled, EnablePcs, FirstPcs, ReadPcs, WatchPcs
    <3> QED BY <1>0, <2>0, <2>2, <2>3, <2>4, <3>1, <3>4, <3>5 DEF Place, Carried, Asking
  <2>5. CASE u # t \/ thread[t].pc \notin EnablePcs
    <3>1. thread[t].pc \notin EnablePcs
      BY <1>8, <2>5 DEF Sound, OneSwitcher, SwitchPcs, FirstPcs, LaterPcs, EnablePcs
    <3>2. (Applying' => Applying) /\ (worker'.on /\ worker'.cmd \in EnablePcs => worker' = worker)
      BY <1>2, <1>3, <3>1
    <3>3. thread[u].pc \in EnablePcs => thread'[u].ans = thread[u].ans
      BY <1>1, <3>1 DEF Hears
    <3>4. Still(u)'
      BY <2>0, <2>1, <3>2, <3>3 DEF Place, Carried, Still, Unapplied
    <3>5. Asking'
      BY <2>0, <3>2 DEF Place, Carried, Asking
    <3>6. Judged(u)'
      BY <1>0, <2>0, <2>1, <3>2 DEF Place, Carried, Judged, Enabled, Same
    <3> QED BY <1>0, <2>0, <2>2, <2>3, <3>4, <3>5, <3>6 DEF Place, Carried
  <2> QED BY <2>4, <2>5
<1> QED BY <1>0, <1>2, <1>4, <1>5, <1>6, <1>7, <1>8 DEF Sound, Unasked, Before, ListGood, Switcher

\* The worker acts.
LEMMA ActsSound ==
    ASSUME IInv, Sound, OneSwitcher, WorkerActs, UNCHANGED switchVars
    PROVE  Sound'
<1> USE DEF switchVars
<1>0. /\ DOMAIN worker = WorkerFields /\ DOMAIN card = CardFields /\ worker.by \in Requests
      /\ worker.on /\ worker.acted = "no" /\ UNCHANGED <<job, thread, holder>>
  BY DEF IInv, Typed, WorkerActs
<1>1. PICK outcome \in {"ok", "busy", "failed"} :
         /\ worker' = [worker EXCEPT !.acted = outcome, !.saw = IF outcome = "ok" THEN card ELSE None]
         /\ card' \in (IF outcome = "ok" THEN {} ELSE {card})
                         \cup (IF outcome # "busy" /\ Possible(worker) THEN {Effect(worker)} ELSE {})
         /\ outcome = "busy" => worker.cmd \in EnablePcs
  BY DEF WorkerActs
<1>2. /\ worker'.on = worker.on /\ worker'.by = worker.by /\ worker'.cmd = worker.cmd
      /\ worker'.awaited = worker.awaited /\ worker'.acted = outcome
      /\ outcome = "ok" => worker'.saw = card
  BY <1>0, <1>1 DEF WorkerFields
<1>3. ~Applying'
  BY <1>1, <1>2 DEF Applying
<1>4. \/ card'.enabled = card.enabled
      \/ /\ worker.cmd \in EnablePcs /\ outcome # "busy" /\ card'.enabled = job[worker.by].profile
         /\ card.enabled # job[worker.by].profile
  <2>1. worker.cmd \notin EnablePcs => Effect(worker).enabled = card.enabled
    BY <1>0 DEF Effect, Noted, CardFields
  <2>2. worker.cmd \in EnablePcs => Effect(worker).enabled = job[worker.by].profile
    <3>1. "enabled" \in DOMAIN Noted(Noted(card, card.enabled), job[worker.by].profile)
      BY <1>0 DEF Noted, CardFields
    <3> QED BY <3>1 DEF Effect, EnablePcs
  <2>3. worker.cmd \in EnablePcs /\ Possible(worker) => card.enabled # job[worker.by].profile
    BY DEF Possible
  <2> QED BY <1>1, <2>1, <2>2, <2>3
<1>5. CASE card'.enabled = card.enabled
  <2>1. \A u \in Requests : Looks(u)'
    BY <1>0, <1>3, <1>5 DEF Sound, Looks
  <2>2. Seen'
    BY <1>1, <1>2, <1>5 DEF Seen
  <2>3. (Before <=> Before') /\ (ListGood <=> ListGood')
    BY <1>5 DEF Before, ListGood
  <2>4. Unasked'
    BY <1>0, <2>3 DEF Sound, Unasked, Switcher
  <2>5. ASSUME NEW u \in Requests, Switcher(u) PROVE Place(u)'
    <3>0. Place(u)
      BY <2>5 DEF Sound
    <3>1. Course(u)' /\ Settling(u)'
      BY <1>0, <2>3, <3>0 DEF Place, Course, Settling
    <3>2. Still(u)'
      BY <1>0, <1>3, <2>3, <3>0 DEF Place, Carried, Still, Unapplied
    <3>3. Asking'
      BY <1>0, <1>2, <2>3, <3>0 DEF Place, Carried, Asking
    <3>4. Judged(u)'
      BY <1>0, <1>3, <1>5, <3>0 DEF Place, Carried, Judged, Enabled
    <3> QED BY <1>0, <1>5, <3>0, <3>1, <3>2, <3>3, <3>4 DEF Place, Carried
  <2> QED BY <1>0, <1>2, <2>1, <2>2, <2>4, <2>5 DEF Sound, Switcher
<1>6. CASE /\ worker.cmd \in EnablePcs /\ outcome # "busy" /\ card'.enabled = job[worker.by].profile
           /\ card.enabled # job[worker.by].profile
  <2> PICK t \in Requests : t = worker.by
    BY <1>0
  <2>0. Switcher(t) /\ Place(t) /\ Applying
    BY <1>0, <1>6 DEF Sound, Applying
  <2>1. \A u \in Requests : Looks(u)'
    BY <1>0, <2>0 DEF Sound, Looks
  <2>2. Seen'
    BY <1>1, <1>2, <1>6 DEF Seen, EnablePcs, ListPcs, ReceiptPcs
  <2>3. Unasked'
    BY <1>0, <2>0 DEF Unasked, Switcher
  <2>4. thread[t].pc \notin {"record_busy", "retry", "confirm", "verdict"} /\ ~Enabled(t)
    BY <1>6, <2>0 DEF Place, Carried, Still, Unapplied, Judged, Enabled
  <2>5. switch.gen = 0 => thread[t].pc \in FirstPcs
    BY <1>0, <2>0 DEF Place, Carried, Still, Unapplied
  <2>6. thread[t].pc \in EnablePcs => thread[t].ans \notin {"none", "busy", "notstarted"}
    BY <1>0, <2>0 DEF Place, Carried, Still, Unapplied
  <2>7. thread[t].pc \notin WatchPcs /\ switch.state # "not_applied"
    BY <1>0, <2>0, <2>4 DEF Place, Carried, Judged
  <2>8. Course(t)'
    BY <1>0, <2>0 DEF Place, Course
  <2>9. Still(t)' /\ Asking' /\ Judged(t)'
    BY <1>0, <1>2, <1>3, <1>6, <2>4, <2>5, <2>6, <2>7 DEF Still, Unapplied, Asking, Judged, Enabled
  <2>10. Settling(t)'
    <3>1. thread[t].pc \in EnablePcs \cup {"record"} \cup ReadPcs \/ switch.state = "card_unconfirmed"
      BY <1>0, <2>0, <2>4, <2>5, <2>7
         DEF Place, Course, Carried, Judged, FirstPcs, EnablePcs
    <3> QED BY <1>0, <2>0, <3>1 DEF Place, Settling
  <2>11. Carried(t)'
    <3>1. modem = First
      BY <1>0, <1>6, <2>0 DEF Place, Carried
    <3> QED BY <1>0, <1>6, <2>9, <3>1 DEF Carried
  <2>12. ASSUME NEW u \in Requests, Switcher(u) PROVE u = t
    BY <1>0, <2>0, <2>12 DEF OneSwitcher
  <2>13. Place(t)'
    BY <2>8, <2>10, <2>11 DEF Place
  <2> QED BY <1>0, <1>2, <2>1, <2>2, <2>3, <2>12, <2>13 DEF Sound, Switcher
<1> QED BY <1>4, <1>5, <1>6

\* A thread has its answer, or none: nothing is begun.
LEMMA AnsweredSound ==
    ASSUME Sound, UNCHANGED <<job, card, switchVars>>, NEW t \in Requests, NEW v, Hears(t, v),
           thread'[t].gen = thread[t].gen,
           thread'[t].saw = thread[t].saw \/ thread[t].pc \in ListPcs \cup ReceiptPcs,
           Looks(t)', Asking', Applying' => Applying,
           worker'.on => worker.on /\ worker'.by = worker.by /\ worker'.cmd = worker.cmd
                           /\ worker'.acted = worker.acted /\ worker'.saw = worker.saw,
           thread[t].pc \in EnablePcs /\ v \in {"none", "busy", "notstarted"} => Before /\ ~Applying'
    PROVE  Sound'
<1> USE DEF switchVars, Hears
<1>1. ASSUME NEW u \in Requests PROVE Looks(u)'
  BY <1>1 DEF Sound, Looks
<1>2. (Before <=> Before') /\ (ListGood <=> ListGood')
  BY DEF Before, ListGood
<1>3. Unasked' /\ Seen'
  BY <1>2 DEF Sound, Unasked, Seen, Switcher
<1>4. ASSUME NEW u \in Requests, Switcher(u) PROVE Place(u)'
  <2>0. Place(u)
    BY <1>4 DEF Sound
  <2>1. Course(u)'
    BY <2>0 DEF Place, Course, FirstPcs, ListPcs, ReceiptPcs
  <2>2. Settling(u)'
    BY <1>2, <2>0 DEF Place, Settling
  <2>3. Still(u)'
    BY <1>2, <2>0 DEF Place, Carried, Still, Unapplied
  <2>4. Judged(u)'
    BY <2>0 DEF Place, Carried, Judged, Enabled, ListPcs, ReceiptPcs
  <2> QED BY <2>0, <2>1, <2>2, <2>3, <2>4 DEF Place, Carried
<1> QED BY <1>1, <1>3, <1>4 DEF Sound, Switcher

LEMMA CardSound ==
    ASSUME IInv, Sound, OneSwitcher, CardSteps, UNCHANGED switchVars
    PROVE  Sound'
<1>0. Threads /\ DOMAIN worker = WorkerFields /\ (worker.on => worker.by \in Requests)
  BY DEF IInv, Typed
<1>1. CASE WorkerActs
  BY <1>1, ActsSound
<1>2. CASE WorkerEnds
  <2>1. worker'.on = FALSE /\ UNCHANGED <<job, card>> /\ worker.on /\ worker.acted # "no"
    BY <1>2 DEF WorkerEnds, NoWorker
  <2>2. CASE thread' = thread
    <3>1. ~Applying' /\ Asking' /\ Seen'
      BY <2>1 DEF Applying, Asking, Seen
    <3>2. \A u \in Requests : Looks(u)'
      BY <2>1, <2>2, <3>1 DEF Sound, Looks
    <3>3. (Before <=> Before') /\ (ListGood <=> ListGood') /\ Unasked'
      BY <2>1 DEF Sound, Unasked, Switcher, Before, ListGood, switchVars
    <3>4. ASSUME NEW u \in Requests, Switcher(u) PROVE Place(u)'
      <4>0. Place(u)
        BY <3>4 DEF Sound
      <4>1. Course(u)' /\ Settling(u)'
        BY <2>1, <2>2, <3>3, <4>0 DEF Place, Course, Settling, switchVars
      <4>2. Still(u)' /\ Judged(u)'
        BY <2>1, <2>2, <3>1, <3>3, <4>0 DEF Place, Carried, Still, Unapplied, Judged, Enabled, switchVars
      <4> QED BY <2>1, <3>1, <4>0, <4>1, <4>2 DEF Place, Carried, switchVars
    <3> QED BY <2>1, <2>2, <3>1, <3>2, <3>3, <3>4 DEF Sound, Switcher, switchVars
  <2>3. CASE worker.awaited
    <3>0. PICK t \in Requests : t = worker.by
      BY <1>0, <2>1
    <3> DEFINE saw == IF worker.acted = "ok" /\ worker.cmd \in ListPcs \cup ReceiptPcs
                        THEN worker.saw ELSE thread[t].saw
    <3>1. thread' = [thread EXCEPT ![t].ans = worker.acted, ![t].saw = saw]
      BY <1>2, <2>3, <3>0, Zenon DEF WorkerEnds
    <3> HIDE DEF saw
    <3>2. Hears(t, worker.acted) /\ thread'[t].saw = saw /\ thread'[t].gen = thread[t].gen
      BY <1>0, <3>1, ListStep
    <3> USE DEF saw
    <3>3. worker.cmd = thread[t].pc
      BY <2>1, <2>3, <3>0 DEF IInv, Expected
    <3>4. ~Applying' /\ Asking'
      BY <2>1 DEF Applying, Asking
    <3>5. Looks(t)'
      <4>1. Looks(t) /\ Seen
        BY DEF Sound
      <4>2. CASE worker.acted = "ok" /\ thread[t].pc \in ListPcs \cup ReceiptPcs
        BY <2>1, <3>2, <3>3, <3>4, <4>1, <4>2 DEF Looks, Seen, Hears
      <4>3. CASE ~(worker.acted = "ok" /\ thread[t].pc \in ListPcs \cup ReceiptPcs)
        BY <2>1, <3>2, <3>3, <3>4, <4>1, <4>3 DEF Looks, Hears
      <4> QED BY <4>2, <4>3
    <3>6. thread[t].pc \in EnablePcs /\ worker.acted \in {"none", "busy", "notstarted"} => Before
      <4>1. Switcher(t) => Asking
        BY DEF Sound, Place, Carried
      <4>2. thread[t].pc \in EnablePcs => Switcher(t)
        BY DEF Sound, SwitchPcs, FirstPcs, LaterPcs, EnablePcs
      <4>3. worker.acted \in {"ok", "busy", "failed"}
        BY <2>1 DEF Sound
      <4> QED BY <2>1, <2>3, <3>3, <4>1, <4>2, <4>3 DEF Asking
    <3> QED BY <2>1, <3>2, <3>3, <3>4, <3>5, <3>6, AnsweredSound
  <2> QED BY <1>2, <2>2, <2>3 DEF WorkerEnds
<1>3. CASE CallerGivesUp
  <2>1. /\ worker'.on = worker.on /\ worker'.by = worker.by /\ worker'.cmd = worker.cmd
        /\ worker'.acted = worker.acted /\ worker'.saw = worker.saw /\ worker'.awaited = FALSE
        /\ UNCHANGED <<job, card>>
    BY <1>0, <1>3 DEF CallerGivesUp, WorkerFields
  <2>2. PICK t \in Requests : t = worker.by
    BY <1>0, <1>3 DEF CallerGivesUp
  <2>3. Hears(t, "failed") /\ Same(thread'[t], thread[t])
    BY <1>0, <1>3, <2>2, AnswerStep DEF CallerGivesUp
  <2>4. (Applying' => Applying) /\ Asking'
    BY <2>1 DEF Applying, Asking
  <2>5. Looks(t)'
    BY <2>1, <2>3, <2>4 DEF Sound, Looks, Hears, Same
  <2> QED BY <2>1, <2>3, <2>4, <2>5, AnsweredSound DEF Same
<1>4. CASE Cli
  BY <1>4, AloofSound DEF Cli, Aloof, ListGood, switchVars
<1> QED BY <1>1, <1>2, <1>3, <1>4 DEF CardSteps

\* The first half of a switch: it is asked of the card, and recorded.
LEMMA FirstReadSound ==
    ASSUME IInv, Sound, OneSwitcher, NEW t \in Requests, FirstRead(t)
    PROVE  Sound'
<1> USE DEF SwitchPcs, FirstPcs, LaterPcs, ReadPcs, WatchPcs, StartPcs, NotingPcs, Answered, Reports
<1>0. Threads /\ Looks(t) /\ thread[t].pc = "read"
  BY DEF IInv, Typed, Sound, FirstRead
<1>1. UNCHANGED <<job, worker, card, switchVars>>
  BY DEF FirstRead, SameOthers, CardFrame
<1>2. ASSUME NEW pc, Go(t, pc) PROVE Moves(t, pc) /\ Same(thread'[t], thread[t])
  BY <1>0, <1>2, GoStep
<1>3. ASSUME NEW pc \in {"delete", "rename", "dl_open", "done"}, Go(t, pc),
             thread[t].ans = "ok" \/ pc = "done"
      PROVE  Sound'
  <2>1. Looks(t)'
    BY <1>0, <1>1, <1>2, <1>3 DEF Looks, ListPcs, Moves, Same, Applying
  <2>2. Passes(t)
    BY <1>0, <1>2, <1>3, <2>1 DEF Passes, Moves
  <2> QED BY <1>1, <2>2, AloofSound DEF Aloof, switchVars, ListGood
<1>4. CASE thread[t].ans = "ok" /\ Fits(t) /\ Switcher(t) /\ Go(t, "enable")
  <2>1. /\ Moves(t, "enable") /\ thread'[t].pc = "enable"
        /\ thread'[t].saw = thread[t].saw /\ thread'[t].gen = thread[t].gen
    BY <1>2, <1>4 DEF Same, Moves
  <2>2. Place(t)
    BY <1>4 DEF Sound
  <2>3. switch.gen = 0 /\ switch.state \notin Reports /\ Before /\ ~Applying /\ ~reloading
    BY <1>0, <2>2 DEF Place, Course, Carried, Still, Unapplied, Settling
  <2>4. thread[t].saw.enabled = First /\ job[t].profile # First
    BY <1>0, <1>4, <2>3 DEF Looks, ListPcs, Fits, Switcher, Before
  <2>5. Before' /\ ~Applying' /\ ListGood'
    BY <1>1, <2>3 DEF Before, Applying, switchVars, ListGood
  <2>6. Course(t)'
    BY <1>1, <2>1, <2>3, <2>4 DEF Course, switchVars
  <2>7. Judged(t)'
    <3>1. switch'.gen = 0 /\ switch'.state \notin Reports
      BY <1>1, <2>3 DEF switchVars
    <3> QED BY <2>1, <3>1 DEF Judged
  <2>8. Still(t)' /\ Settling(t)'
    BY <1>1, <2>1, <2>3, <2>5 DEF Still, Settling, switchVars
  <2> QED BY <1>1, <1>4, <2>1, <2>5, <2>6, <2>7, <2>8, SteeredSound DEF Steered, switchVars
<1> QED
  <2>1. job[t].kind \in Operations
    BY <1>0 DEF IInv, Guarded, OperationPcs
  <2> QED BY <1>3, <1>4, <2>1 DEF FirstRead, Operations, Switcher

LEMMA EnableSound ==
    ASSUME IInv, Sound, OneSwitcher, NEW t \in Requests,
           EnableAnswered(t) \/ Record(t) \/ RecordBusy(t)
    PROVE  Sound'
<1> USE DEF SwitchPcs, FirstPcs, LaterPcs, ReadPcs, WatchPcs, StartPcs, NotingPcs, At, Answered, Reports
<1>0. /\ Threads /\ thread[t].pc \in FirstPcs /\ DOMAIN switch = {"state", "target", "gen"}
      /\ UNCHANGED <<job, worker, card, modem>>
  BY DEF IInv, Typed, Sound, EnableAnswered, Record, RecordBusy, NewSwitch, SameOthers, CardFrame, switchVars
<1>1. Switcher(t) /\ Place(t)
  BY <1>0 DEF Sound
<1>2. /\ switch.gen = 0 /\ switch.state \notin Reports /\ job[t].profile # First /\ thread[t].saw.enabled = First
      /\ ~reloading
  BY <1>0, <1>1 DEF Place, Course, Settling
<1>3. UNCHANGED <<Applying, Enabled(t)>>
  BY <1>0 DEF Applying, Enabled
<1>4. CASE EnableAnswered(t)
  <2>1. PICK pc \in {"done", "record_busy", "record"} :
           /\ Go(t, pc)
           /\ pc = "done" => thread[t].ans = "notstarted"
           /\ pc = "record_busy" => thread[t].ans = "busy"
    BY <1>4 DEF EnableAnswered, Go
  <2>2. Moves(t, pc) /\ Same(thread'[t], thread[t])
    BY <1>0, <2>1, GoStep
  <2>3. thread[t].pc = "enable" /\ UNCHANGED switchVars
    BY <1>4 DEF EnableAnswered
  <2>4. (pc # "record" => Before /\ ~Applying) /\ (Before => Before') /\ (ListGood => ListGood')
    BY <1>0, <1>1, <2>1, <2>3 DEF Place, Carried, Still, Unapplied, EnablePcs, Before, ListGood, switchVars
  <2>5. Course(t)'
    BY <1>0, <1>2, <2>2, <2>3 DEF Course, Moves, Same, switchVars
  <2>6. Still(t)'
    BY <1>2, <1>3, <2>2, <2>3, <2>4 DEF Still, Unapplied, Moves, EnablePcs, switchVars
  <2>7. Judged(t)'
    <3>1. switch'.gen = 0 /\ switch'.state \notin Reports
      BY <1>2, <2>3 DEF switchVars
    <3> QED BY <2>2, <3>1 DEF Judged, Moves
  <2>8. Settling(t)'
    BY <1>2, <2>2, <2>3, <2>4 DEF Settling, Before, Moves, switchVars
  <2> QED BY <1>0, <1>1, <2>2, <2>3, <2>4, <2>5, <2>6, <2>7, <2>8, SteeredSound DEF Steered, Moves, switchVars
<1>5. ASSUME NEW state, NEW pc, NEW failure, NewSwitch(t, state, pc, failure), thread[t].ans = "none",
             \/ thread[t].pc = "record" /\ state = "reloading" /\ pc = "settle" /\ failure = "card_unconfirmed"
             \/ thread[t].pc = "record_busy" /\ state = "card_busy" /\ pc = "retry" /\ failure = "not_applied"
      PROVE  Sound'
  <2>1. /\ DOMAIN inv' = {"enabled", "error"} /\ inv'.enabled = First /\ inv'.error = FALSE
        /\ DOMAIN switch' = {"state", "target", "gen"}
        /\ switch'.gen = 1 /\ switch'.target = job[t].profile
    <3>1. inv' = [enabled |-> First, error |-> FALSE]
      BY <1>2, <1>5 DEF NewSwitch, Listed
    <3>2. \/ switch' = [state |-> state, target |-> job[t].profile, gen |-> 1]
          \/ switch' = [state |-> failure, target |-> job[t].profile, gen |-> 1]
      <4>1. \/ switch' = [state |-> state, target |-> job[t].profile, gen |-> switch.gen + 1]
            \/ switch' = [state |-> failure, target |-> job[t].profile, gen |-> switch.gen + 1]
        BY <1>5, Zenon DEF NewSwitch
      <4>2. switch.gen + 1 = 1
        BY <1>2
      <4> QED BY <4>1, <4>2
    <3> QED BY <3>1, <3>2
  <2>2. \/ /\ Moves(t, pc) /\ thread'[t].gen = 1 /\ thread'[t].saw = thread[t].saw
           /\ switch'.state = state /\ (reloading' <=> state = "reloading")
        \/ Moves(t, "done") /\ switch'.state = failure /\ ~reloading'
    <3>1. CASE /\ thread' = [thread EXCEPT ![t].pc = pc, ![t].gen = switch.gen + 1]
               /\ switch' = [state |-> state, target |-> job[t].profile, gen |-> switch.gen + 1]
               /\ reloading' = (state = "reloading" \/ reloading)
      <4>1. Moves(t, pc) /\ thread'[t].gen = switch.gen + 1 /\ thread'[t].saw = thread[t].saw
        BY <1>0, <1>5, <3>1, RecordMoves
      <4>2. switch'.state = state
        BY <3>1
      <4>3. reloading' <=> state = "reloading"
        BY <1>2, <3>1, Zenon
      <4> QED BY <1>2, <4>1, <4>2, <4>3
    <3>2. CASE /\ Go(t, "done") /\ reloading' = (state # "reloading" /\ reloading)
               /\ switch' = [state |-> failure, target |-> job[t].profile, gen |-> switch.gen + 1]
      BY <1>0, <1>2, <3>2, GoStep
    <3> QED BY <1>5, <3>1, <3>2 DEF NewSwitch
  <2>3. (Before => Before') /\ (thread[t].pc = "record_busy" => Before /\ ~Applying /\ ~Enabled(t))
    BY <1>0, <1>1, <1>2, <2>1 DEF Place, Carried, Still, Unapplied, Before, ListGood, Enabled
  <2>4. Course(t)'
    <3>0. switch'.gen = 1 /\ switch'.target = job'[t].profile /\ job'[t].profile # First
      BY <1>0, <1>2, <2>1
    <3>1. CASE Moves(t, "done")
      <4>1. thread'[t].pc = "done"
        BY <3>1 DEF Moves
      <4> QED BY <3>0, <4>1 DEF Course
    <3>2. CASE Moves(t, pc) /\ thread'[t].gen = 1 /\ switch'.state = state
      <4>1. \/ thread'[t].pc = "settle" /\ switch'.state = "reloading"
            \/ thread'[t].pc = "retry" /\ switch'.state = "card_busy"
        BY <1>5, <3>2 DEF Moves
      <4> QED BY <3>0, <3>2, <4>1 DEF Course
    <3> QED BY <2>2, <3>1, <3>2
  <2>5. Still(t)'
    BY <1>3, <1>5, <2>1, <2>2, <2>3 DEF Still, Unapplied, Moves, EnablePcs
  <2>6. Judged(t)'
    BY <1>3, <1>5, <2>1, <2>2, <2>3 DEF Judged, Moves
  <2>7. Settling(t)'
    BY <1>0, <1>5, <2>1, <2>2, <2>3 DEF Settling, Before, ListGood, Moves
  <2> QED BY <1>0, <1>1, <1>5, <2>1, <2>2, <2>3, <2>4, <2>5, <2>6, <2>7, SteeredSound DEF Sound, Steered, Moves
<1> QED BY <1>4, <1>5 DEF Record, RecordBusy


\* The second half: the thread that has the switch goes on, and reports a state.
LEMMA GoesOnSound ==
    ASSUME Sound, OneSwitcher, NEW t \in Requests, thread[t].pc \in LaterPcs,
           NEW pc \in LaterPcs \cup {"after", "after_list", "done"}, NEW state,
           Moves(t, pc), Same(thread'[t], thread[t]), UNCHANGED <<job, worker, modem, card>>,
           DOMAIN switch' = DOMAIN switch, switch'.gen = switch.gen,
           switch'.target = switch.target, switch'.state = state,
           DOMAIN inv' = DOMAIN inv, ListGood => ListGood',
           pc \in {"retry", "retry_enable"} => state = "card_busy" /\ Before /\ ~Applying,
           pc \in ReadPcs \cup {"verdict"} => state = "reloading",
           pc \in {"confirm", "verdict"} => ~Applying /\ thread[t].saw.enabled = card.enabled,
           pc \in WatchPcs => state \in {"reloading", "card_confirmed", "modem_confirmed"} /\ Enabled(t),
           pc \notin {"retry", "retry_enable", "verdict"} \cup ReadPcs =>
               Enabled(t) \/ state \in {"card_unconfirmed", "not_applied"},
           state = "not_applied" => ~Enabled(t) /\ ~Applying,
           reloading' => pc \in ReadPcs,
           ListGood' \/ state = "card_unconfirmed" \/ pc \in {"retry_enable"} \cup ReadPcs
    PROVE  Sound'
<1> USE DEF FirstPcs, LaterPcs, ReadPcs, WatchPcs, StartPcs, NotingPcs, EnablePcs
<1>1. Switcher(t) /\ Place(t)
  BY DEF Sound, SwitchPcs
<1>2. /\ switch.gen = 1 /\ thread[t].gen = 1
      /\ switch.target = job[t].profile /\ job[t].profile # First
  BY <1>1 DEF Place, Course
<1>3. /\ thread'[t].pc = pc /\ thread'[t].ans = "none" /\ thread'[t].gen = 1
      /\ thread'[t].saw = thread[t].saw
  BY <1>2 DEF Moves, Same
<1>4. (Before => Before') /\ (Applying' <=> Applying) /\ (Enabled(t)' <=> Enabled(t))
  BY DEF Before, Applying, Enabled
<1>5. Course(t)'
  BY <1>2, <1>3 DEF Course
<1>6. Still(t)'
  BY <1>2, <1>3, <1>4 DEF Still, Unapplied
<1>7. Judged(t)'
  BY <1>3, <1>4 DEF Judged
<1>8. Settling(t)'
  BY <1>3 DEF Settling
<1> QED BY <1>1, <1>3, <1>4, <1>5, <1>6, <1>7, <1>8, SteeredSound DEF Steered

\* What such a thread knows.
LEMMA Later ==
    ASSUME Sound, NEW t \in Requests, thread[t].pc \in LaterPcs
    PROVE  /\ Switcher(t) /\ Place(t) /\ Looks(t) /\ Current(t) /\ switch.gen = 1
           /\ switch.target = job[t].profile /\ job[t].profile # First
           /\ DOMAIN switch = {"state", "target", "gen"} /\ DOMAIN inv = {"enabled", "error"}
<1>1. Switcher(t) /\ Place(t) /\ Looks(t)
  BY DEF Sound, SwitchPcs
<1>2. /\ switch.gen = 1 /\ thread[t].gen = 1
      /\ switch.target = job[t].profile /\ job[t].profile # First
  BY <1>1 DEF Place, Course
<1> QED BY <1>1, <1>2 DEF Sound, Current

\* The switch's state, as a step leaves it.
LEMMA Reported ==
    ASSUME DOMAIN switch = {"state", "target", "gen"}, NEW state,
           switch' = [switch EXCEPT !.state = state]
    PROVE  /\ DOMAIN switch' = DOMAIN switch /\ switch'.gen = switch.gen
           /\ switch'.target = switch.target /\ switch'.state = state
OBVIOUS

LEMMA RetrySound ==
    ASSUME IInv, Sound, OneSwitcher, NEW t \in Requests,
           RetryAcquires(t) \/ RetryAnswered(t) \/ RetryEnds(t)
    PROVE  Sound'
<1> USE DEF LaterPcs, ReadPcs, WatchPcs, At, Answered
<1>0. /\ Threads /\ thread[t].pc \in {"retry", "retry_enable"}
      /\ UNCHANGED <<job, worker, card, modem, inv>>
  BY DEF IInv, Typed, RetryAcquires, RetryAnswered, RetryEnds, Acquire, SameOthers, CardFrame, switchVars
<1>1. /\ Place(t) /\ Current(t) /\ job[t].profile # First
      /\ DOMAIN switch = {"state", "target", "gen"} /\ switch.state = "card_busy" /\ ~reloading
  BY <1>0, Later DEF Place, Course, Settling
<1>2. \/ thread[t].pc = "retry"
      \/ thread[t].pc = "retry_enable" /\ thread[t].ans \in {"busy", "notstarted"}
      => Before /\ ~Applying /\ ~Enabled(t) /\ ListGood
  BY <1>1 DEF Place, Carried, Still, Unapplied, EnablePcs, Before, Enabled
<1>3. UNCHANGED ListGood
  BY <1>0 DEF ListGood
<1>4. ASSUME NEW pc, Go(t, pc) PROVE Moves(t, pc) /\ Same(thread'[t], thread[t])
  BY <1>0, <1>4, GoStep
<1>5. CASE RetryAcquires(t)
  <2>1. Go(t, "retry_enable") /\ thread[t].pc = "retry" /\ UNCHANGED switchVars
    BY <1>5 DEF RetryAcquires, Acquire
  <2>2. UNCHANGED <<switch, reloading>>
    BY <2>1 DEF switchVars
  <2> QED BY <1>0, <1>1, <1>2, <1>3, <1>4, <2>1, <2>2, GoesOnSound
<1>6. CASE RetryAnswered(t)
  <2>1. CASE thread[t].ans \in {"busy", "notstarted"}
    <3>1. Go(t, "retry") /\ UNCHANGED <<reloading, switch>> /\ thread[t].pc = "retry_enable"
      BY <1>1, <1>6, <2>1 DEF RetryAnswered
    <3> QED BY <1>0, <1>1, <1>2, <1>3, <1>4, <2>1, <3>1, GoesOnSound
  <2>2. CASE thread[t].ans \notin {"busy", "notstarted"}
    <3>1. Go(t, "settle") /\ switch' = [switch EXCEPT !.state = "reloading"]
      BY <1>1, <1>6, <2>2 DEF RetryAnswered
    <3>2. /\ DOMAIN switch' = DOMAIN switch /\ switch'.gen = switch.gen
          /\ switch'.target = switch.target /\ switch'.state = "reloading"
      BY <1>1, <3>1, Reported
    <3> QED BY <1>0, <1>1, <1>3, <1>4, <3>1, <3>2, GoesOnSound
  <2> QED BY <2>1, <2>2
<1>7. CASE RetryEnds(t)
  <2>1. /\ Go(t, "done") /\ switch' = [switch EXCEPT !.state = "not_applied"]
        /\ thread[t].pc = "retry" /\ UNCHANGED reloading
    BY <1>1, <1>7 DEF RetryEnds, Finish
  <2>2. /\ DOMAIN switch' = DOMAIN switch /\ switch'.gen = switch.gen
        /\ switch'.target = switch.target /\ switch'.state = "not_applied"
    BY <1>1, <2>1, Reported
  <2> QED BY <1>0, <1>1, <1>2, <1>3, <1>4, <2>1, <2>2, GoesOnSound
<1> QED BY <1>5, <1>6, <1>7

LEMMA VerifierSound ==
    ASSUME IInv, Sound, OneSwitcher, NEW t \in Requests,
           \/ VerifierLooks(t) \/ VerifierAcquires(t) \/ VerifierAnswered(t)
           \/ VerifierRecords(t) \/ VerifierJudges(t) \/ Unreadable(t)
    PROVE  Sound'
<1> USE DEF LaterPcs, ReadPcs, WatchPcs, At, Answered
<1>0. /\ Threads /\ thread[t].pc \in ReadPcs \cup {"verdict"}
      /\ UNCHANGED <<job, worker, card, modem>>
  BY DEF IInv, Typed, VerifierLooks, VerifierAcquires, VerifierAnswered, VerifierRecords, VerifierJudges,
     Unreadable, Acquire, Go, SameOthers, CardFrame, switchVars
<1>1. /\ Place(t) /\ Looks(t) /\ Current(t) /\ job[t].profile # First /\ switch.state = "reloading"
      /\ DOMAIN switch = {"state", "target", "gen"} /\ DOMAIN inv = {"enabled", "error"}
  BY <1>0, Later DEF Place, Course
<1>2. ASSUME NEW pc, Go(t, pc) PROVE Moves(t, pc) /\ Same(thread'[t], thread[t])
  BY <1>0, <1>2, GoStep
<1>3. /\ thread[t].pc \in {"confirm", "verdict"} => ~Applying /\ thread[t].saw.enabled = card.enabled
      /\ thread[t].pc = "verdict" => ListGood /\ ~reloading
  BY <1>1 DEF Place, Carried, Judged, Settling, EnablePcs
<1>4. CASE VerifierLooks(t) \/ VerifierAcquires(t) \/ VerifierAnswered(t)
  <2>1. UNCHANGED <<switch, reloading, inv>>
    BY <1>4 DEF VerifierLooks, VerifierAcquires, VerifierAnswered, switchVars
  <2>2. PICK pc \in ReadPcs :
           Go(t, pc) /\ (pc = "confirm" => thread[t].pc = "verify" /\ thread[t].ans = "ok")
    BY <1>1, <1>4 DEF VerifierLooks, VerifierAcquires, VerifierAnswered, Acquire
  <2>3. pc = "confirm" => ~Applying /\ thread[t].saw.enabled = card.enabled
    BY <1>1, <2>2 DEF Looks, ListPcs
  <2>4. UNCHANGED ListGood
    BY <1>0, <2>1 DEF ListGood
  <2> QED BY <1>0, <1>1, <1>2, <2>1, <2>2, <2>3, <2>4, GoesOnSound
<1>5. CASE VerifierRecords(t)
  <2>1. /\ Go(t, "verdict") /\ UNCHANGED switch /\ reloading' = FALSE /\ thread[t].pc = "confirm"
        /\ inv' = [enabled |-> thread[t].saw.enabled, error |-> FALSE]
    BY <1>5 DEF VerifierRecords, Listed
  <2>2. DOMAIN inv' = DOMAIN inv /\ ListGood'
    BY <1>0, <1>1, <1>3, <2>1 DEF ListGood
  <2> QED BY <1>0, <1>1, <1>2, <1>3, <2>1, <2>2, GoesOnSound
<1>6. CASE VerifierJudges(t)
  <2>0. thread[t].pc = "verdict" /\ UNCHANGED <<reloading, inv>>
    BY <1>6 DEF VerifierJudges
  <2>1. PICK state \in {"not_applied", "card_confirmed"}, pc \in {"done", "watch"} :
           /\ Go(t, pc) /\ switch' = [switch EXCEPT !.state = state]
           /\ state = "not_applied" => ~Enabled(t) /\ pc = "done"
           /\ state = "card_confirmed" => Enabled(t)
    <3>1. CASE thread[t].saw.enabled # job[t].profile
      BY <1>1, <1>3, <1>6, <2>0, <3>1 DEF VerifierJudges, Finish, Enabled
    <3>2. CASE thread[t].saw.enabled = job[t].profile
      BY <1>1, <1>3, <1>6, <2>0, <3>2 DEF VerifierJudges, Finish, Enabled
    <3> QED BY <3>1, <3>2
  <2>2. /\ DOMAIN switch' = DOMAIN switch /\ switch'.gen = switch.gen
        /\ switch'.target = switch.target /\ switch'.state = state
    BY <1>1, <2>1, Reported
  <2>3. ListGood' /\ ~reloading'
    BY <1>0, <1>3, <2>0 DEF ListGood
  <2> QED BY <1>0, <1>1, <1>2, <1>3, <2>0, <2>1, <2>2, <2>3, GoesOnSound
<1>7. CASE Unreadable(t)
  <2>0. thread[t].pc = "settle" /\ reloading' = FALSE /\ inv' = [inv EXCEPT !.error = TRUE]
    BY <1>7 DEF Unreadable
  <2>1. DOMAIN inv' = DOMAIN inv /\ ListGood'
    BY <1>1, <2>0 DEF ListGood
  <2>2. CASE modem = job[t].profile
    <3>1. Go(t, "watch") /\ UNCHANGED switch
      BY <1>7, <2>2 DEF Unreadable
    <3>2. Enabled(t)
      BY <1>1, <2>2 DEF Place, Carried, Enabled
    <3> QED BY <1>0, <1>1, <1>2, <2>0, <2>1, <3>1, <3>2, GoesOnSound
  <2>3. CASE modem # job[t].profile
    <3>1. Go(t, "after_list") /\ switch' = [switch EXCEPT !.state = "card_unconfirmed"]
      BY <1>1, <1>7, <2>3 DEF Unreadable, Finish
    <3>2. /\ DOMAIN switch' = DOMAIN switch /\ switch'.gen = switch.gen
          /\ switch'.target = switch.target /\ switch'.state = "card_unconfirmed"
      BY <1>1, <3>1, Reported
    <3> QED BY <1>0, <1>1, <1>2, <2>0, <2>1, <3>1, <3>2, GoesOnSound
  <2> QED BY <2>2, <2>3
<1> QED BY <1>4, <1>5, <1>6, <1>7

\* The watch for data.
LEMMA WatchMoves ==
    ASSUME Threads, NEW t \in Requests, At(t, "watch"), NEW pc, NEW loaded,
           thread' = [thread EXCEPT ![t].pc = pc, ![t].loaded = loaded]
    PROVE  Moves(t, pc) /\ Same(thread'[t], thread[t])
<1> DEFINE mid == [thread[t] EXCEPT !.pc = pc]
           new == [mid EXCEPT !.loaded = loaded]
<1>1. thread' = [thread EXCEPT ![t] = new]
  BY Zenon DEF Threads
<1>2. Shaped(mid) /\ mid.pc = pc /\ mid.ans = thread[t].ans /\ Same(mid, thread[t])
  BY SetPc DEF Threads
<1> HIDE DEF mid
<1>3. Shaped(new) /\ new.pc = pc /\ new.ans = "none" /\ Same(new, thread[t])
  BY <1>2, SetLoaded DEF Same, Like, At
<1> HIDE DEF new
<1>4. Moves(t, new.pc) /\ thread'[t] = new
  BY <1>1, <1>3, RecordStep, Zenon
<1> QED BY <1>3, <1>4, Zenon

LEMMA WatchSound ==
    ASSUME IInv, Sound, OneSwitcher, NEW t \in Requests, WatchReads(t) \/ WatchWrites(t)
    PROVE  Sound'
<1> USE DEF LaterPcs, ReadPcs, WatchPcs
<1>0. /\ Threads /\ thread[t].pc \in WatchPcs /\ UNCHANGED <<job, worker, card, modem, inv, reloading>>
  BY DEF IInv, Typed, WatchReads, WatchWrites, At, SameOthers, CardFrame, switchVars
<1>1. /\ Place(t) /\ Current(t) /\ DOMAIN switch = {"state", "target", "gen"} /\ Enabled(t)
      /\ switch.state \in {"reloading", "card_confirmed", "modem_confirmed"} /\ ~reloading
  BY <1>0, Later DEF Place, Course, Carried, Judged, Settling
<1>2. ListGood /\ ListGood'
  BY <1>0, <1>1 DEF Place, Settling, ListGood, EnablePcs
<1>3. CASE WatchReads(t)
  <2>1. thread' = [thread EXCEPT ![t].pc = "watched", ![t].loaded = modem = job[t].profile]
    BY <1>1, <1>3 DEF WatchReads
  <2>2. Moves(t, "watched") /\ Same(thread'[t], thread[t])
    BY <1>0, <1>3, <2>1, WatchMoves DEF WatchReads
  <2>3. UNCHANGED switch
    BY <1>3 DEF WatchReads, switchVars
  <2> QED BY <1>0, <1>1, <1>2, <2>2, <2>3, GoesOnSound
<1>4. CASE WatchWrites(t)
  <2>1. PICK state \in Outcomes(thread[t].loaded) :
           /\ Finish(t, state)
           /\ Go(t, CASE ~Current(t) -> "done"
                      [] state = "connected" -> "after"
                      [] state \in Ended \ {"connected"} -> "after_list"
                      [] OTHER -> "watch")
    BY <1>4, Zenon DEF WatchWrites
  <2>2. switch' = [switch EXCEPT !.state = state]
    BY <1>1, <2>1 DEF Finish
  <2>3. /\ DOMAIN switch' = DOMAIN switch /\ switch'.gen = switch.gen
        /\ switch'.target = switch.target /\ switch'.state = state
    BY <1>1, <2>2, Reported
  <2>4. state \in {"reloading", "card_confirmed", "modem_confirmed", "connected", "no_data", "modem_unconfirmed"}
    BY <1>1, <2>1 DEF Outcomes
  <2>5. {"connected", "no_data", "modem_unconfirmed"} \subseteq Ended
    BY Zenon DEF Ended
  <2>6. PICK pc \in {"after", "after_list", "watch"} :
           Go(t, pc) /\ (pc = "watch" => state \notin Ended)
    BY <1>1, <2>1
  <2>7. Moves(t, pc) /\ Same(thread'[t], thread[t])
    BY <1>0, <2>6, GoStep
  <2> QED BY <1>0, <1>1, <1>2, <2>3, <2>4, <2>5, <2>6, <2>7, GoesOnSound
<1> QED BY <1>3, <1>4

\* The owner, and the modem, which loads what the card has enabled.
LEMMA OutsideSound ==
    ASSUME Sound, OneSwitcher, OwnersSteps \/ ModemReloads \/ Rest \/ UNCHANGED vars
    PROVE  Sound'
<1>1. CASE OwnersSteps \/ Rest \/ UNCHANGED vars
  <2>1. UNCHANGED <<cardVars, switchVars>>
    BY <1>1 DEF OwnersSteps, DownloadConfirm, DownloadCancel, PreviewTimeout, DownloadDismiss, Send, Rest, vars
  <2> QED BY <2>1, AloofSound DEF cardVars, switchVars, Aloof, ListGood
<1>2. CASE ModemReloads
  <2>0. /\ modem # card.enabled /\ modem' = card.enabled
        /\ UNCHANGED <<job, thread, worker, card, reloading, inv, switch>>
    BY <1>2 DEF ModemReloads, cardVars
  <2>1. ~Before /\ UNCHANGED <<Applying, ListGood>>
    BY <2>0 DEF Before, Applying, ListGood
  <2>2. ASSUME NEW u \in Requests PROVE Looks(u)'
    BY <2>0, <2>1 DEF Sound, Looks
  <2>3. Unasked' /\ Seen'
    BY <2>0, <2>1 DEF Sound, Unasked, Seen, Switcher
  <2>4. ASSUME NEW u \in Requests, Switcher(u) PROVE Place(u)'
    <3>0. Place(u)
      BY <2>4 DEF Sound
    <3>1. Course(u)' /\ Settling(u)'
      BY <2>0, <2>1, <3>0 DEF Place, Course, Settling
    <3>2. Still(u)' /\ Asking'
      BY <2>0, <2>1, <3>0 DEF Place, Carried, Still, Unapplied, Asking
    <3>3. Judged(u)'
      BY <2>0, <2>1, <3>0 DEF Place, Carried, Judged, Enabled
    <3> QED BY <2>0, <3>0, <3>1, <3>2, <3>3 DEF Place, Carried
  <2> QED BY <2>0, <2>2, <2>3, <2>4 DEF Sound, Switcher
<1> QED BY <1>1, <1>2

LEMMA JobStays ==
    ASSUME [Next]_vars
    PROVE  job' = job
<1> USE DEF CardFrame, SameOthers, DownloadFrame, cardVars
<1>1. CASE \E t \in Requests : Command(t)
  BY <1>1 DEF Command
<1>2. CASE \E t \in Requests : ReceiptSteps(t) \/ LoopTries(t, reloading)
  BY <1>2 DEF ReceiptSteps, LoopTries, SendListed, SendAnswered, SendRelisted, Ensure, LoopSent,
     LoopChecks, LoopEnds, NoticesListed, SendNow, SentNow
<1>3. CASE \E t \in Requests : SwitchSteps(t)
  BY <1>3 DEF SwitchSteps, Ask, Enter, Query, FirstReceipts, FirstRead, Deleted, DeleteEnds, Renamed,
     EnableAnswered, Record, RecordBusy, NewSwitch, RetryAcquires, RetryAnswered, RetryEnds,
     VerifierLooks, VerifierAcquires, VerifierAnswered, VerifierRecords, VerifierJudges, Unreadable,
     WatchReads, WatchWrites, AfterSwitch, AfterSent
<1>4. CASE \E t \in Requests : DownloadSteps(t)
  BY <1>4 DEF DownloadSteps, DownloadOpens, DownloadChecks, DownloadShows, DownloadHears,
     DownloadLoads, DownloadInstalls, DownloadEnds
<1>5. CASE CardSteps
  BY <1>5 DEF CardSteps, WorkerActs, WorkerEnds, CallerGivesUp, Cli
<1>6. CASE OwnersSteps \/ ModemReloads \/ Rest \/ UNCHANGED vars
  BY <1>6 DEF OwnersSteps, DownloadConfirm, DownloadCancel, PreviewTimeout, DownloadDismiss,
     Send, ModemReloads, Rest, vars
<1> QED BY <1>1, <1>2, <1>3, <1>4, <1>5, <1>6 DEF Next

\* A run with one switch has one switcher.
LEMMA OneAtMost == OneSwitch => OneSwitcher
<1> SUFFICES ASSUME OneSwitch, NEW t \in Requests, NEW u \in Requests, Switcher(t), Switcher(u), t # u
             PROVE  FALSE
  BY DEF OneSwitcher
<1> DEFINE Switchers == {r \in Requests : job[r].kind = "enable"}
<1>1. IsFiniteSet(Requests)
  BY EsimAssumption
<1>2. IsFiniteSet(Switchers) /\ {t, u} \subseteq Switchers
  BY <1>1, FS_Subset DEF Switcher
<1>3. Cardinality({t, u}) <= Cardinality(Switchers)
  BY <1>2, FS_Subset
<1>4. Cardinality({t}) = 1 /\ IsFiniteSet({t})
  BY FS_Singleton
<1>5. Cardinality({t} \cup {u}) = 2
  BY <1>4, FS_AddElement
<1>6. {t} \cup {u} = {t, u}
  OBVIOUS
<1>7. Cardinality(Switchers) \in Nat /\ Cardinality(Switchers) <= 1
  BY <1>2, FS_CardinalityType DEF OneSwitch
<1> QED BY <1>3, <1>5, <1>6, <1>7

LEMMA SoundInit == Init => (OneSwitcher => Sound)
<1> SUFFICES ASSUME Init PROVE Sound
  OBVIOUS
<1> USE DEF SwitchPcs, FirstPcs, LaterPcs, ReadPcs, WatchPcs, StartPcs, NotingPcs, EnablePcs, ListPcs, ReceiptPcs
<1>1. \A t \in Requests : /\ thread[t].pc = "idle" /\ thread[t].ans = "none" /\ thread[t].gen = 0
  BY DEF Init
<1>2. worker.on = FALSE
  BY DEF Init, NoWorker
<1>3. card.enabled = First
  <2>1. ASSUME NEW c, "enabled" \in DOMAIN c PROVE Noted(c, First).enabled = c.enabled
    BY <2>1 DEF Noted
  <2>2. PICK w \in Workloads :
           LET c == [enabled |-> First, profiles |-> Profiles, notifying |-> w[2], receipts |-> {}, last |-> 0]
           IN  card \in {c, Noted(c, First)}
    BY Zenon DEF Init
  <2> DEFINE c == [enabled |-> First, profiles |-> Profiles, notifying |-> w[2], receipts |-> {}, last |-> 0]
  <2>3. c.enabled = First /\ "enabled" \in DOMAIN c
    OBVIOUS
  <2>4. card = c \/ card = Noted(c, First)
    BY <2>2
  <2> HIDE DEF c
  <2> QED BY <2>1, <2>3, <2>4
<1>4. /\ DOMAIN switch = {"state", "target", "gen"} /\ switch.gen = 0 /\ switch.state \notin Reports
  BY Zenon DEF Init, Reports
<1>5. DOMAIN inv = {"enabled", "error"} /\ modem = First /\ ~reloading /\ ListGood
  BY <1>3 DEF Init, ListGood
<1>6. Before /\ ~Applying
  BY <1>2, <1>3, <1>5 DEF Before, Applying
<1>7. ASSUME NEW t \in Requests PROVE Looks(t) /\ Place(t)
  <2>1. Looks(t)
    BY <1>1, <1>7 DEF Looks
  <2>2. Course(t)
    BY <1>1, <1>4, <1>7 DEF Course
  <2>3. Still(t) /\ Asking
    BY <1>2, <1>6 DEF Still, Asking
  <2>4. Judged(t)
    BY <1>1, <1>4, <1>7 DEF Judged, Reports
  <2> QED BY <1>3, <1>5, <2>1, <2>2, <2>3, <2>4 DEF Place, Carried, Settling
<1> QED BY <1>1, <1>2, <1>4, <1>5, <1>6, <1>7 DEF Sound, Unasked, Seen

LEMMA SoundStep == IInv /\ (OneSwitcher => Sound) /\ [Next]_vars => (OneSwitcher => Sound)'
<1> SUFFICES ASSUME IInv, Sound, OneSwitcher, [Next]_vars PROVE Sound'
  BY JobStays DEF OneSwitcher, Switcher
<1>1. CASE \E t \in Requests : Command(t) /\ UNCHANGED <<receiptVars, switchVars, downloadVars>>
  BY <1>1, CommandSound
<1>2. CASE \E t \in Requests : /\ ReceiptSteps(t) \/ LoopTries(t, reloading)
                               /\ UNCHANGED <<switchVars, downloadVars>>
  BY <1>2, OthersSound
<1>3. CASE \E t \in Requests : SwitchSteps(t)
  BY <1>3, OperationsSound, FirstReadSound, EnableSound, RetrySound, VerifierSound, WatchSound DEF SwitchSteps
<1>4. CASE \E t \in Requests : DownloadSteps(t)
  <2>1. UNCHANGED switchVars
    BY <1>4 DEF DownloadSteps, DownloadOpens, DownloadChecks, DownloadShows, DownloadHears,
       DownloadLoads, DownloadInstalls, DownloadEnds, DownloadFrame
  <2> QED BY <1>4, <2>1, OthersSound
<1>5. CASE CardSteps /\ UNCHANGED <<receiptVars, switchVars, downloadVars>>
  BY <1>5, CardSound
<1>6. CASE OwnersSteps \/ ModemReloads \/ Rest \/ UNCHANGED vars
  BY <1>6, OutsideSound
<1> QED BY <1>1, <1>2, <1>3, <1>4, <1>5, <1>6 DEF Next

-----------------------------------------------------------------------------
(* The theorems. *)

LEMMA InitHolds == Init => IInv
<1> SUFFICES ASSUME Init PROVE IInv
  OBVIOUS
<1> USE EsimAssumption
<1>1. Threads /\ \A t \in Requests : thread[t].pc = "idle" /\ thread[t].ans = "none"
  BY DEF Init, Threads, Shaped, ThreadFields, BackPcs
<1>2. job \in [Requests -> Jobs]
  BY WorkloadsAssumption DEF Init
<1>3. DOMAIN worker = WorkerFields /\ worker.on = FALSE
  BY DEF Init, NoWorker, WorkerFields
<1>4. DOMAIN card = CardFields
  BY DEF Init, Noted, CardFields
<1>5. Typed
  BY <1>1, <1>2, <1>3, <1>4 DEF Init, Typed
<1>6. Guarded
  BY <1>1 DEF Guarded, OperationPcs, GuardPcs, SessionPcs, BackPcs, CommandPcs, EnablePcs, ListPcs, ReceiptPcs
<1>7. SessionOwned /\ CliAlone
  BY <1>1, <1>3 DEF Init, SessionOwned, CliAlone, SessionPcs
<1>8. Expected /\ \A t \in Requests : Told(t)
  BY <1>1, <1>3 DEF Expected, Told, BackPcs
<1> QED BY <1>5, <1>6, <1>7, <1>8 DEF IInv

LEMMA StepKeeps == IInv /\ [Next]_vars => IInv'
<1> SUFFICES ASSUME IInv, [Next]_vars PROVE IInv'
  OBVIOUS
<1>1. ASSUME UNCHANGED <<cardVars, receiptVars>> PROVE IInv'
  BY <1>1 DEF cardVars, receiptVars, IInv, Typed, Threads, Guarded, SessionOwned, CliAlone,
     Expected, Told, Quiet
<1>2. CASE \E t \in Requests : Command(t) /\ UNCHANGED <<receiptVars, switchVars, downloadVars>>
  BY <1>2, CommandKeeps DEF receiptVars
<1>3. CASE \E t \in Requests : ReceiptSteps(t) \/ LoopTries(t, reloading)
  BY <1>3, SwitchKeeps
<1>4. CASE \E t \in Requests : SwitchSteps(t) \/ DownloadSteps(t)
  BY <1>4, SwitchKeeps, DownloadKeeps
<1>5. CASE CardSteps /\ UNCHANGED <<receiptVars, switchVars, downloadVars>>
  BY <1>5, WorkerKeeps, CliKeeps DEF CardSteps, receiptVars
<1>6. CASE OwnersSteps \/ ModemReloads \/ Rest \/ UNCHANGED vars
  BY <1>1, <1>6 DEF OwnersSteps, DownloadConfirm, DownloadCancel, PreviewTimeout, DownloadDismiss,
     Send, ModemReloads, Rest, vars
<1> QED BY <1>2, <1>3, <1>4, <1>5, <1>6 DEF Next

\* At no time do two of a card command's worker, a download and a run by hand use the
\* card, whoever gave up waiting for what (acquire, card, download).
THEOREM NoTwoCommands == Spec => []OneCommandAtATime
<1>1. IInv => OneCommandAtATime
  <2> SUFFICES ASSUME IInv PROVE OneCommandAtATime
    OBVIOUS
  <2>1. ~(worker.on /\ session)
    BY DEF IInv, SessionOwned
  <2>2. ~(worker.on /\ cli = "on")
    BY DEF IInv, CliAlone
  <2>3. ~(session /\ cli = "on")
    BY EsimAssumption DEF IInv, SessionOwned, CliAlone
  <2> QED BY <2>1, <2>2, <2>3 DEF OneCommandAtATime
<1> QED BY <1>1, InitHolds, StepKeeps, PTL DEF Spec

\* When sending returns with nothing pending, the card has no receipt left, whatever
\* timed out, failed or was left running before (send_receipts).
THEOREM NotifiedOnlyWhenTrue == Spec => []NotifiedIsTrue
<1>1. IInv => NotifiedIsTrue
  BY DEF IInv, Told, BackPcs, NotifiedIsTrue
<1> QED BY <1>1, InitHolds, StepKeeps, PTL DEF Spec

\* A cancel that was accepted keeps its word: the profile is not installed, and the
\* download does not end as if it were, whatever step it reached and whoever else uses
\* the card (download_cancel_for, steps).
THEOREM CancelKeepsItsWord == Spec => []CancelIsHonoured
<1>1. Init => Honest
  <2> SUFFICES ASSUME Init PROVE Honest
    OBVIOUS
  <2>1. \A t \in Requests : thread[t].pc = "idle"
    BY DEF Init
  <2>2. \A t \in Requests : Begun(t) /\ Over(t)
    BY <2>1 DEF Begun, Over, Ending
  <2> QED BY <2>2 DEF Init, Honest, Heeded, CancelIsHonoured
<1>2. IInv /\ Honest /\ [Next]_vars => Honest'
  <2> SUFFICES ASSUME IInv, Honest, [Next]_vars PROVE Honest'
    OBVIOUS
  <2>1. ASSUME UNCHANGED <<cardVars, downloadVars>> PROVE Honest'
    BY <2>1 DEF cardVars, downloadVars, Honest, Heeded, CancelIsHonoured, Begun, Over, Ending
  <2>2. CASE \E t \in Requests : Command(t) /\ UNCHANGED <<receiptVars, switchVars, downloadVars>>
    BY <2>2, CardHears, CardHonest
  <2>3. CASE \E t \in Requests : /\ ReceiptSteps(t) \/ LoopTries(t, reloading)
                                 /\ UNCHANGED <<switchVars, downloadVars>>
    BY <2>3, ReceiptsGuard, AsideHonest
  <2>4. CASE \E t \in Requests : SwitchSteps(t) \/ DownloadSteps(t)
    BY <2>4, SwitchHonest, DownloadHonest
  <2>5. CASE CardSteps /\ UNCHANGED <<receiptVars, switchVars, downloadVars>>
    BY <2>5, CardHears, CardHonest
  <2>6. CASE OwnersSteps
    BY <2>6, OwnersHonest
  <2>7. CASE ModemReloads \/ Rest \/ UNCHANGED vars
    BY <2>1, <2>7 DEF ModemReloads, Rest, vars
  <2> QED BY <2>2, <2>3, <2>4, <2>5, <2>6, <2>7 DEF Next
<1>3. Honest => CancelIsHonoured
  BY DEF Honest
<1> QED BY <1>1, <1>2, <1>3, InitHolds, StepKeeps, PTL DEF Spec

\* At most one thread is a retry loop, exactly while it is marked so, and a receipt that
\* can be sent has it, or somebody on the way to starting it, but for the ways known
\* (ensure_receipt_retry, drain_receipts).
THEOREM RetriesAreMade == Spec => []RetriesGoOn
<1>1. Init => Tried
  <2> SUFFICES ASSUME Init PROVE Tried
    OBVIOUS
  <2>1. \A t \in Requests : thread[t].pc = "idle"
    BY DEF Init
  <2> QED BY <2>1 DEF Init, Tried, OneLoop, Attended, IsLoop, Looping, CanRetry
<1>2. IInv /\ Tried /\ [Next]_vars => Tried'
  <2> SUFFICES ASSUME IInv, Tried, [Next]_vars PROVE Tried'
    OBVIOUS
  <2>0. Threads
    BY DEF IInv, Typed
  <2>1. CASE \E t \in Requests : Command(t) /\ UNCHANGED <<receiptVars, switchVars, downloadVars>>
    BY <2>1, CardHears, CardAttends
  <2>2. CASE \E t \in Requests : ReceiptSteps(t) \/ LoopTries(t, reloading)
    BY <2>0, <2>2, ReceiptsAttend, AttendsKeeps
  <2>3. CASE \E t \in Requests : SwitchSteps(t) \/ DownloadSteps(t)
    BY <2>0, <2>3, SwitchAttends, DownloadAttends, AttendsKeeps
  <2>4. CASE CardSteps /\ UNCHANGED <<receiptVars, switchVars, downloadVars>>
    BY <2>4, CardHears, CardAttends
  <2>5. CASE OwnersSteps \/ ModemReloads \/ Rest \/ UNCHANGED vars
    <3>1. UNCHANGED <<cardVars, receiptVars>>
      BY <2>5 DEF OwnersSteps, DownloadConfirm, DownloadCancel, PreviewTimeout, DownloadDismiss,
         Send, ModemReloads, Rest, vars
    <3> QED BY <3>1, CardAttends DEF cardVars
  <2> QED BY <2>1, <2>2, <2>3, <2>4, <2>5 DEF Next
<1>3. Tried => RetriesGoOn
  <2> SUFFICES ASSUME Tried PROVE RetriesGoOn
    OBVIOUS
  <2> DEFINE Loops == {t \in Requests : IsLoop(t)}
  <2>1. CASE retrying
    <3>1. PICK l \in Requests : \A t \in Requests : IsLoop(t) <=> t = l
      BY <2>1 DEF Tried, OneLoop
    <3>2. Loops = {l}
      BY <3>1
    <3> QED BY <2>1, <3>2, FS_Singleton DEF RetriesGoOn
  <2>2. CASE ~retrying
    <3>1. Loops = {}
      BY <2>2 DEF Tried, OneLoop
    <3>2. ASSUME CanRetry(pending), ~dropped PROVE \E t \in Requests : ~Resting(t)
      <4>1. PICK t \in Requests : Committed(t)
        BY <2>2, <3>2 DEF Tried, Attended
      <4> QED BY <4>1 DEF Committed, CommittedPcs, SendPcs, Resting, IsLoop, Looping
    <3> QED BY <2>2, <3>1, <3>2, FS_EmptySet DEF RetriesGoOn
  <2> QED BY <2>1, <2>2
<1> QED BY <1>1, <1>2, <1>3, InitHolds, StepKeeps, PTL DEF Spec

\* A verdict is the truth: a switch reported applied is on the card, one reported not
\* applied is not, and no command that timed out is left that could still apply it
\* (verify_switch, retry_enable).
THEOREM VerdictsAreTrue == Spec => []VerdictIsTrue
<1>1. IInv /\ (OneSwitcher => Sound) => VerdictIsTrue
  <2> SUFFICES ASSUME Sound, OneSwitch PROVE VerdictIsTrue
    BY OneAtMost DEF VerdictIsTrue
  <2> DEFINE Applied == {"card_confirmed", "modem_confirmed", "connected", "no_data"}
  <2>1. CASE \A t \in Requests : ~Switcher(t)
    <3>1. switch.state \notin Reports
      BY <2>1 DEF Sound, Unasked
    <3> QED BY <3>1 DEF VerdictIsTrue, Reports
  <2>2. ASSUME NEW t \in Requests, Switcher(t) PROVE VerdictIsTrue
    <3>1. Course(t) /\ Judged(t)
      BY <2>2 DEF Sound, Place, Carried
    <3>2. ASSUME switch.state \in Reports PROVE switch.gen = 1 /\ switch.target = job[t].profile
      BY <3>1, <3>2 DEF Course
    <3>3. ASSUME switch.state \in Applied PROVE Enabled(t)
      <4>1. switch.gen = 1
        BY <3>2, <3>3 DEF Reports
      <4>2. thread[t].pc \notin {"retry", "retry_enable", "verdict"} \cup ReadPcs
        BY <3>1, <3>3 DEF Course, ReadPcs
      <4> QED BY <3>1, <3>3, <4>1, <4>2 DEF Judged
    <3>4. switch.state \in Applied \cup {"not_applied"} => switch.state \in Reports
      BY DEF Reports
    <3> QED BY <3>1, <3>2, <3>3, <3>4 DEF VerdictIsTrue, Judged, Enabled, Applying
  <2> QED BY <2>1, <2>2
<1> QED BY <1>1, InitHolds, StepKeeps, SoundInit, SoundStep, PTL DEF Spec

\* When all threads have ended or wait, nothing is marked as reloading, and the saved list
\* shows the profile the card has, or that it could not be read, whatever failed on the
\* way (verify_switch, profiles).
THEOREM RestSettles == Spec => []RestIsSettled
<1>1. IInv /\ (OneSwitcher => Sound) => RestIsSettled
  <2> SUFFICES ASSUME Sound, OneSwitch, \A t \in Requests : Resting(t)
               PROVE  /\ ~reloading
                      /\ inv.error \/ switch.state = "card_unconfirmed" \/ inv.enabled = card.enabled
    BY OneAtMost DEF RestIsSettled
  <2>1. CASE \A t \in Requests : ~Switcher(t)
    BY <2>1 DEF Sound, Unasked, Before, ListGood
  <2>2. ASSUME NEW t \in Requests, Switcher(t)
        PROVE  ~reloading /\ (ListGood \/ switch.state = "card_unconfirmed")
    <3>1. thread[t].pc \notin EnablePcs \cup {"record"} \cup ReadPcs
      BY DEF Resting, IsLoop, Looping, EnablePcs, ReadPcs
    <3> QED BY <2>2, <3>1 DEF Sound, Place, Settling
  <2> QED BY <2>1, <2>2 DEF ListGood
<1> QED BY <1>1, InitHolds, StepKeeps, SoundInit, SoundStep, PTL DEF Spec

=============================================================================
