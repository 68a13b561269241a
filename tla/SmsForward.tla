------------------------------ MODULE SmsForward ------------------------------
(***************************************************************************)
(* SMS forwarding (sms_forward.rs): one thread takes the firmware's        *)
(* new-message events and sends each message to every rule that matches;   *)
(* a forward whose link is down is held in the log and tried again.  The   *)
(* watermark, the highest message dealt with, and the log are saved        *)
(* together.  The owner's requests run on other threads and share the      *)
(* configuration and the log.                                              *)
(*                                                                         *)
(* A message is its id; the ids a rule's filter takes are given by Matches.*)
(* How long the loop sleeps is left open: it may time out at any moment.   *)
(***************************************************************************)
EXTENDS Integers, Sequences, FiniteSets, SequencesExt

CONSTANTS
    None,
    Messages,    \* ids, in the order of arrival
    Rules,
    Matches,     \* pairs of a message and a rule whose filter takes it
    UsesWan,     \* rules with a destination behind the WAN; the rest send an SMS
    MaxLog,      \* MAX_LOG_ENTRIES
    Handlers,    \* requests that may run at once: SLOW_PERMITS of them
    MaxCrashes,  \* bound on deaths of the agent
    MaxRequests, \* bound on the owner's requests: changes and retries by hand
    MaxEdits,    \* bound on the changes, of the rules and the log, among them
    MaxFailures, \* bound on permanent and transient failures
    Faults       \* what may go wrong: "event" lost, "read" of the modem fails

ASSUME ConstantsAssumption ==
    /\ Messages \subseteq Nat \ {0} /\ IsFiniteSet(Messages)
    /\ Rules \subseteq Nat /\ IsFiniteSet(Rules)
    /\ Matches \subseteq Messages \X Rules /\ UsesWan \subseteq Rules
    /\ MaxLog \in Nat \ {0}
    /\ MaxCrashes \in Nat /\ MaxRequests \in Nat /\ MaxEdits \in Nat /\ MaxFailures \in Nat
    /\ Faults \subseteq {"event", "read"}

VARIABLES
    device,     \* messages stored on the device, and which of them are unread
    news,       \* new-message events waiting for the thread
    config,     \* enabled, and each rule "on", "off" or "gone"; saved at once
    link,       \* wan "down", "settling" or "up", service, as the monitors say
    state,      \* ForwardState: the watermark and the log
    disk,       \* state as it was saved last
    thread,     \* what sms-events is doing
    retry,      \* by handler, the attempt of a manual retry it is making, or None
    left,       \* bounds: deaths, requests and failures still to come
    sent,       \* history: forwards delivered
    twice,      \* history: forwards delivered again
    excused,    \* history: forwards delivered but not on disk when the agent died,
                \*   or retried by hand twice at once
    seen,       \* history: messages of a finished batch
    overlooked, \* history: messages the watermark passed although no batch had them
    waived,     \* history: forwards whose rule was off when the batch began
    forgotten   \* history: messages under way whose unsent entry the log dropped

vars == <<device, news, config, link, state, disk, thread, retry, left,
          sent, twice, excused, seen, overlooked, waived, forgotten>>
history == <<sent, twice, excused, seen, overlooked, waived, forgotten>>

Ids == Messages \cup {0}
Forwards == Messages \X Rules
Entries == [sms : Messages, rule : Rules, is : {"held", "old", "failed", "sent"}]
Attempt == [entry : Entries, ok : BOOLEAN, fresh : BOOLEAN]
ASSUME NoneAssumption == None \notin Attempt

Highest(ids) == CHOOSE i \in ids : \A j \in ids : j <= i
Lowest(ids) == CHOOSE i \in ids : \A j \in ids : i <= j

----------------------------------------------------------------------------
(* The log.                                                                *)

Pending(e) == e.is \in {"held", "old"}
Key(e) == <<e.sms, e.rule>>
HeldIds(log) == {e.sms : e \in {f \in ToSet(log) : Pending(f)}}
KeepEntry(e, held) == Pending(e) \/ (e.is = "failed" /\ e.sms \in held)

\* push_log: the oldest settled entry goes first, then the oldest.
PushLog(log, e) ==
    LET all == Append(log, e)
        free == {i \in DOMAIN all : ~KeepEntry(all[i], HeldIds(all))}
    IN  IF Len(all) <= MaxLog THEN all
        ELSE RemoveAt(all, IF free = {} THEN 1 ELSE Lowest(free))

\* The entries at some positions, in order; the n-th position has n not above it.
Nth(places, n) == CHOOSE i \in places : Cardinality({k \in places : k <= i}) = n
Retain(log, places) == [n \in 1 .. Cardinality(places) |-> log[Nth(places, n)]]

ClearLog(log) == Retain(log, {i \in DOMAIN log : KeepEntry(log[i], HeldIds(log))})

\* Positions of the entries of a forward for which Test holds.
At(log, key, Test(_)) == {i \in DOMAIN log : Key(log[i]) = key /\ Test(log[i])}
Settled(log, places, is) == IF places = {} THEN log ELSE [log EXCEPT ![Lowest(places)].is = is]

UpdatePending(log, key, is) == Settled(log, At(log, key, Pending), is)

\* A slip: the forward's own outcome is taken for the message's.
OwnSent(log, sms) == \E e \in ToSet(log) : e.sms = sms /\ e.is = "sent"

\* settle_pending: is every forward of that message out now?
AllSent(log, sms) == \A e \in ToSet(log) : e.sms = sms => e.is = "sent"

\* A slip: a held entry may be retried by hand.
RetriableHeld(e) == e.is # "sent"

\* retry_target: a held entry is left to the thread.
Retriable(e) == e.is = "failed"

----------------------------------------------------------------------------
(* Links, rules and held forwards.                                         *)

Active(c) == c.enabled /\ \E r \in Rules : c.rules[r] = "on"
Blocked(r) == IF r \in UsesWan THEN link.wan # "up" ELSE ~link.service

\* flush_action: the link is asked before the age.
FlushAction(e, c) ==
    IF ~c.enabled \/ c.rules[e.rule] # "on" THEN "settle"
    ELSE IF ~Blocked(e.rule) THEN "send"
    ELSE IF e.is = "old" THEN "settle" ELSE "wait"

\* held_state
Held ==
    LET pending == {e \in ToSet(state.log) : Pending(e)}
        NeedsWan == \E e \in pending : e.rule \in UsesWan
    IN  IF pending = {} THEN "Nothing"
        ELSE IF (\E e \in pending : FlushAction(e, config) # "wait") \/ (NeedsWan /\ link.wan # "down")
        THEN "Retry"
        ELSE IF NeedsWan THEN "BlockedOnWan" ELSE "Blocked"

----------------------------------------------------------------------------
(* The thread.  at is where it stands, then what comes after the flush,    *)
(* config its copy, after the watermark it started from, and left what is  *)
(* still to do: held entries in order, or a batch's set of forwards; ok:   *)
(* all forwards of the message succeeded so far.                           *)

Idle == [at |-> "Loop", then |-> "Loop", config |-> None, after |-> 0, batch |-> {},
         left |-> <<>>, ok |-> TRUE]
Task == Head(thread.left)
Stands(at) == thread.at = at
Unchanged == <<config, link, retry>>

Save(s) == state' = s /\ disk' = s
Deliver(key) ==
    /\ sent' = sent \cup {key}
    /\ twice' = (IF key \in sent THEN twice \cup {key} ELSE twice)

\* init_watermark: on a first start nothing that is there is forwarded.
InitWatermark ==
    IF state.watermark = 0 /\ device.there # {}
    THEN \/ Save([state EXCEPT !.watermark = Highest(device.there)])
         \/ "read" \in Faults /\ UNCHANGED <<state, disk>>
    ELSE UNCHANGED <<state, disk>>
Passed(old, new) == {m \in device.there : old < m /\ m <= new} \ seen

Start ==
    /\ Stands("Start")
    /\ InitWatermark
    /\ seen' = seen \cup Passed(state.watermark, state'.watermark)
    /\ thread' = Idle
    /\ UNCHANGED <<Unchanged, device, news, left, sent, twice, excused, overlooked, waived, forgotten>>

\* The firmware's event; it is dropped while nothing is to be forwarded.
TakeEvent ==
    /\ Stands("Loop") /\ news > 0
    /\ news' = news - 1
    /\ thread' = IF Active(config) THEN [Idle EXCEPT !.at = "Fetch", !.after = state.watermark]
                 ELSE thread
    /\ UNCHANGED <<Unchanged, device, state, disk, left, history>>

\* recheck_pending, after which the fallback poll may be due.
Timeout(poll) ==
    /\ Stands("Loop") /\ news = 0
    /\ thread' = [Idle EXCEPT !.at = "Flush", !.then = poll, !.config = config,
                              !.left = Retain(state.log, {i \in DOMAIN state.log : Pending(state.log[i])})]
    /\ \/ UNCHANGED link
       \/ Held = "BlockedOnWan" /\ link' = [link EXCEPT !.wan = "settling"]
    /\ UNCHANGED <<config, retry, device, news, state, disk, left, history>>

Recheck == Timeout("Loop")
FallbackPoll == Timeout("Poll")

FlushNext == thread' = [thread EXCEPT !.left = Tail(@), !.at = "Flush"]

\* post_forward: best effort.
PostForward(sms) ==
    device' = [device EXCEPT !.there = @ \ {sms}, !.unread = @ \ {sms}]

\* The outcome of a held forward, saved at once.
SettlePending(e, is) ==
    LET log == UpdatePending(state.log, Key(e), is)
    IN  /\ Save([state EXCEPT !.log = log])
        /\ IF /\ is = "sent" /\ At(state.log, Key(e), Pending) # {} /\ AllSent(log, e.sms)
           THEN PostForward(e.sms) ELSE UNCHANGED device

\* flush_pending, one held entry: wait, settle, or send.
FlushWaits ==
    /\ Stands("Flush") /\ thread.left # <<>>
    /\ FlushAction(Task, thread.config) = "wait"
    /\ FlushNext
    /\ UNCHANGED <<Unchanged, device, news, state, disk, left, history>>
FlushSettles ==
    /\ Stands("Flush") /\ thread.left # <<>>
    /\ FlushAction(Task, thread.config) = "settle"
    /\ SettlePending(Task, "failed")
    /\ FlushNext
    /\ UNCHANGED <<Unchanged, news, left, history>>
FlushSends ==
    /\ Stands("Flush") /\ thread.left # <<>>
    /\ FlushAction(Task, thread.config) = "send"
    /\ \/ /\ Deliver(Key(Task))
          /\ thread' = [thread EXCEPT !.at = "Delivered"]
          /\ UNCHANGED left
       \/ /\ left.failures > 0
          /\ left' = [left EXCEPT !.failures = @ - 1]
          /\ thread' = [thread EXCEPT !.at = "Refused"]
          /\ UNCHANGED <<sent, twice>>
    /\ UNCHANGED <<Unchanged, device, news, state, disk, excused, seen, overlooked, waived, forgotten>>
FlushRecords ==
    /\ \/ Stands("Delivered") /\ SettlePending(Task, "sent")
       \/ Stands("Refused") /\ SettlePending(Task, "failed")
       \/ Stands("Refused") /\ Blocked(Task.rule) /\ SettlePending(Task, Task.is)
    /\ FlushNext
    /\ UNCHANGED <<Unchanged, news, left, history>>
FlushEnds ==
    /\ Stands("Flush") /\ thread.left = <<>>
    /\ thread' = [Idle EXCEPT !.at = thread.then]
    /\ UNCHANGED <<Unchanged, device, news, state, disk, left, history>>

\* poll_once: nothing to do while no message is unread.
Poll ==
    /\ Stands("Poll")
    /\ IF Active(config)
       THEN /\ InitWatermark
            /\ overlooked' = overlooked \cup Passed(state.watermark, state'.watermark)
            /\ thread' = IF device.unread = {} THEN Idle
                         ELSE [Idle EXCEPT !.at = "Fetch", !.after = state'.watermark]
       ELSE thread' = Idle /\ UNCHANGED <<state, disk, overlooked>>
    /\ UNCHANGED <<Unchanged, device, news, left, sent, twice, excused, seen, waived, forgotten>>

\* A slip: the watermark is saved when the batch is known, not when it is done.
FetchAndSave ==
    /\ Stands("Fetch")
    /\ LET batch == {m \in device.there : m > thread.after}
           on == {r \in Rules : config.rules[r] = "on"}
       IN  IF batch = {} \/ on = {}
           THEN thread' = Idle /\ UNCHANGED <<overlooked, state, disk>>
           ELSE /\ thread' = [thread EXCEPT !.at = "Batch", !.config = config, !.batch = batch,
                                 !.left = {f \in Matches : f[1] \in batch /\ f[2] \in on}]
                /\ Save([state EXCEPT !.watermark = Highest(batch)])
                /\ UNCHANGED overlooked
    /\ UNCHANGED <<Unchanged, device, news, left, sent, twice, excused, seen, waived, forgotten>>

\* fetch_new_messages: a store that does not answer counts as empty.
Fetch ==
    /\ Stands("Fetch")
    /\ \E read \in {device.there} \cup (IF "read" \in Faults THEN SUBSET device.there ELSE {}) :
          LET batch == {m \in read : m > thread.after}
              on == {r \in Rules : config.rules[r] = "on"}
          IN  IF batch = {} \/ on = {}
              THEN thread' = Idle /\ UNCHANGED <<overlooked, waived>>
              ELSE /\ thread' = [thread EXCEPT !.at = "Batch", !.config = config, !.batch = batch,
                                    !.left = {f \in Matches : f[1] \in batch /\ f[2] \in on}]
                   /\ waived' = waived \cup {x \in Matches : x[1] \in batch /\ x[2] \notin on}
                   /\ overlooked' = overlooked \cup (Passed(thread.after, Highest(batch)) \ batch)
    /\ UNCHANGED <<Unchanged, device, news, state, disk, left, sent, twice, excused, seen, forgotten>>

\* The message the batch is at, and the first of its rules still to do.
Current == Lowest(thread.batch)
Forward == <<Current, Lowest({r \in Rules : <<Current, r>> \in thread.left})>>

\* Messages with forwards under way of which log, all but some, forgets an unsent entry.
Lost(all, log) ==
    {e.sms : e \in {f \in ToSet(all) \ ToSet(log) : f.is # "sent"}}
        \cap (thread.batch \cup HeldIds(log))

Push(f, is) ==
    LET e == [sms |-> f[1], rule |-> f[2], is |-> is]
        log == PushLog(state.log, e)
    IN  /\ state' = [state EXCEPT !.log = log]
        /\ forgotten' = forgotten \cup Lost(Append(state.log, e), log)

HasForward == Stands("Batch") /\ thread.left # {} /\ \E r \in Rules : <<Current, r>> \in thread.left
Pushed(is) ==
    /\ Push(Forward, is)
    /\ thread' = [thread EXCEPT !.at = "Batch", !.left = @ \ {Forward}, !.ok = @ /\ is = "sent"]

\* process_new_messages, one rule: hold, or send.
HoldForward ==
    /\ HasForward /\ Blocked(Forward[2])
    /\ Pushed("held")
    /\ UNCHANGED <<Unchanged, device, news, disk, left, sent, twice, excused, seen, overlooked, waived>>
SendForward ==
    /\ HasForward /\ ~Blocked(Forward[2])
    /\ \/ /\ Deliver(Forward)
          /\ thread' = [thread EXCEPT !.at = "Delivered2"]
          /\ UNCHANGED left
       \/ /\ left.failures > 0
          /\ left' = [left EXCEPT !.failures = @ - 1]
          /\ thread' = [thread EXCEPT !.at = "Refused2"]
          /\ UNCHANGED <<sent, twice>>
    /\ UNCHANGED <<Unchanged, device, news, state, disk, excused, seen, overlooked, waived, forgotten>>
RecordForward ==
    /\ \/ Stands("Delivered2") /\ Pushed("sent")
       \/ Stands("Refused2") /\ Pushed("failed")
       \/ Stands("Refused2") /\ Blocked(Forward[2]) /\ Pushed("held")
    /\ UNCHANGED <<Unchanged, device, news, disk, left, sent, twice, excused, seen, overlooked, waived>>

\* The message is done; post_forward when none of its forwards failed.
FinishMessage ==
    /\ Stands("Batch") /\ thread.batch # {} /\ ~HasForward
    /\ IF thread.ok THEN PostForward(Current) ELSE UNCHANGED device
    /\ thread' = [thread EXCEPT !.batch = @ \ {Current}, !.after = Current, !.ok = TRUE]
    /\ seen' = seen \cup {Current}
    /\ UNCHANGED <<Unchanged, news, state, disk, left, sent, twice, excused, overlooked, waived, forgotten>>

FinishBatch ==
    /\ Stands("Batch") /\ thread.batch = {}
    /\ Save([state EXCEPT !.watermark = thread.after])
    /\ thread' = Idle
    /\ UNCHANGED <<Unchanged, device, news, left, history>>

----------------------------------------------------------------------------
(* The monitors, the firmware and the owner.                               *)

Elsewhere == <<state, disk, thread>>

\* wan_monitor, and the time it takes the WAN to settle.
WanEvent ==
    /\ link' = [link EXCEPT !.wan = IF @ = "down" THEN "settling" ELSE "down"]
    /\ UNCHANGED <<Elsewhere, device, news, config, retry, left, history>>
WanSettles ==
    /\ link.wan = "settling"
    /\ link' = [link EXCEPT !.wan = "up"]
    /\ UNCHANGED <<Elsewhere, device, news, config, retry, left, history>>
ServiceEvent ==
    /\ link' = [link EXCEPT !.service = ~@]
    /\ UNCHANGED <<Elsewhere, device, news, config, retry, left, history>>

\* A held forward gets older than PENDING_MAX_AGE.
HoldExpires ==
    /\ \E e \in ToSet(state.log) : e.is = "held"
    /\ LET Old(log) == [i \in DOMAIN log |->
                           IF log[i].is = "held" THEN [log[i] EXCEPT !.is = "old"] ELSE log[i]]
       IN  /\ state' = [state EXCEPT !.log = Old(@)]
           /\ disk' = [disk EXCEPT !.log = Old(@)]
           /\ thread' = IF thread.at \in {"Flush", "Delivered", "Refused"} THEN [thread EXCEPT !.left = Old(@)] ELSE thread
    /\ UNCHANGED <<Unchanged, device, news, left, history>>

Arrive ==
    /\ \E m \in Messages \ device.came :
          /\ \A n \in Messages \ device.came : m <= n
          /\ device' = [came |-> device.came \cup {m}, there |-> device.there \cup {m},
                        unread |-> device.unread \cup {m}]
    /\ \/ news' = news + 1
       \/ "event" \in Faults /\ UNCHANGED news
    /\ UNCHANGED <<Elsewhere, Unchanged, left, history>>

Change ==
    /\ left.edits > 0 /\ left.requests > 0
    /\ left' = [left EXCEPT !.edits = @ - 1, !.requests = @ - 1]

\* config_set, rules_toggle and rules_delete
Configure ==
    /\ Change
    /\ \/ config' = [config EXCEPT !.enabled = ~@]
       \/ \E r \in Rules, to \in {"on", "off", "gone"} :
             /\ config.rules[r] # "gone"
             /\ config' = [config EXCEPT !.rules[r] = to]
    /\ UNCHANGED <<Elsewhere, device, news, link, retry, history>>

LogClear ==
    /\ Change
    /\ Save([state EXCEPT !.log = ClearLog(@)])
    /\ forgotten' = forgotten \cup Lost(state.log, ClearLog(state.log))
    /\ UNCHANGED <<Unchanged, device, news, thread, sent, twice, excused, seen, overlooked, waived>>

\* retry_forward: one attempt, outside the lock; fresh: its entry's timestamp is what it was.
Attempts(key) == {h \in Handlers : retry[h] # None /\ Key(retry[h].entry) = key}

RetryForward ==
    /\ left.requests > 0
    /\ \E h \in Handlers, e \in ToSet(state.log), ok \in BOOLEAN :
          /\ ok \/ left.failures > 0
          /\ left' = [left EXCEPT !.requests = @ - 1, !.failures = IF ok THEN @ ELSE @ - 1]
          /\ retry[h] = None /\ Retriable(e) /\ config.rules[e.rule] # "gone"
          /\ retry' = [retry EXCEPT ![h] = [entry |-> e, ok |-> ok, fresh |-> TRUE]]
          /\ IF ok THEN Deliver(Key(e)) ELSE UNCHANGED <<sent, twice>>
          /\ excused' = IF Attempts(Key(e)) = {} THEN excused ELSE excused \cup {Key(e)}
    /\ UNCHANGED <<Elsewhere, device, news, config, link, seen, overlooked, waived, forgotten>>

\* update_retried: an entry that another attempt has stamped meanwhile may not be found.
RetryRecords ==
    /\ \E h \in Handlers :
          /\ retry[h] # None
          /\ LET key == Key(retry[h].entry)
                 found == At(state.log, key, Retriable)
             IN  \E places \in {found} \cup (IF retry[h].fresh THEN {} ELSE {{}}) :
                    /\ Save([state EXCEPT !.log = IF retry[h].ok THEN Settled(@, places, "sent") ELSE @])
                    /\ retry' = [x \in Handlers |->
                          IF x = h THEN None
                          ELSE IF x \in Attempts(key) /\ places # {} THEN [retry[x] EXCEPT !.fresh = FALSE]
                          ELSE retry[x]]
    /\ UNCHANGED <<device, news, config, link, thread, left, history>>

\* The agent dies and starts again: seed_connectivity, the threads.
Restart ==
    /\ left.crashes > 0
    /\ left' = [left EXCEPT !.crashes = @ - 1]
    /\ state' = disk
    /\ thread' = [Idle EXCEPT !.at = "Start"]
    /\ retry' = [h \in Handlers |-> None] /\ news' = 0
    /\ link' \in [wan : {"down", "settling"}, service : BOOLEAN]
    /\ excused' = excused \cup
          {f \in sent : f[1] > disk.watermark \/ \E e \in ToSet(disk.log) : Key(e) = f /\ e.is # "sent"}
          \cup {f \in Forwards : f[1] > disk.watermark /\ \E e \in ToSet(disk.log) : Key(e) = f}
    /\ forgotten' = forgotten \cup {m \in HeldIds(disk.log) : m > disk.watermark}
    /\ UNCHANGED <<device, config, disk, sent, twice, seen, overlooked, waived>>

Init ==
    /\ device = [came |-> {}, there |-> {}, unread |-> {}]
    /\ news = 0 /\ retry = [h \in Handlers |-> None]
    /\ config = [enabled |-> TRUE, rules |-> [r \in Rules |-> "on"]]
    /\ link \in [wan : {"down", "settling"}, service : BOOLEAN]
    /\ state = [watermark |-> 0, log |-> <<>>] /\ disk = state
    /\ thread = [Idle EXCEPT !.at = "Start"]
    /\ left = [crashes |-> MaxCrashes, requests |-> MaxRequests, edits |-> MaxEdits, failures |-> MaxFailures]
    /\ sent = {} /\ twice = {} /\ excused = {} /\ seen = {} /\ overlooked = {} /\ waived = {} /\ forgotten = {}

Run ==
    \/ Start \/ TakeEvent \/ Poll \/ Fetch \/ FlushWaits \/ FlushSettles \/ FlushSends \/ FlushRecords
    \/ FlushEnds \/ HoldForward \/ SendForward \/ RecordForward \/ FinishMessage \/ FinishBatch

Next ==
    \/ Run \/ Recheck \/ FallbackPoll \/ WanEvent \/ WanSettles \/ ServiceEvent \/ HoldExpires
    \/ Arrive \/ Configure \/ LogClear \/ RetryForward \/ RetryRecords \/ Restart

Spec == Init /\ [][Next]_vars

----------------------------------------------------------------------------
(* Properties.                                                             *)

TypeOK ==
    /\ device \in [came : SUBSET Messages, there : SUBSET Messages, unread : SUBSET Messages]
    /\ news \in 0..Cardinality(Messages)
    /\ config \in [enabled : BOOLEAN, rules : [Rules -> {"on", "off", "gone"}]]
    /\ link \in [wan : {"down", "settling", "up"}, service : BOOLEAN]
    /\ state.watermark \in Ids /\ disk.watermark \in Ids
    /\ ToSet(state.log) \cup ToSet(disk.log) \subseteq Entries
    /\ Len(state.log) <= MaxLog /\ Len(disk.log) <= MaxLog
    /\ retry \in [Handlers -> Attempt \cup {None}]
    /\ sent \cup twice \cup excused \subseteq Forwards
    /\ seen \cup overlooked \cup forgotten \subseteq Messages /\ waived \subseteq Forwards

(* A forward is delivered twice only if the agent died before its outcome  *)
(* was on disk, or the owner retried it twice at once: event_loop,         *)
(* flush_pending and one retry_forward never meet on a forward.            *)
TwiceIsExplained == twice \subseteq excused

(* The saved watermark never passes a message no batch dealt with, except  *)
(* the ones known to be overlooked (init_watermark, fetch_new_messages).   *)
NothingSkipped ==
    \A m \in device.there : m <= disk.watermark => m \in seen \cup overlooked

(* A message is deleted only when every rule that takes it has sent it,    *)
(* unless the log lost a failure of it while its batch ran, or was saved   *)
(* in the middle of a batch that died (settle_pending, post_forward).      *)
DeletedOnlyWhenAllSent ==
    \A f \in Matches :
       f[1] \in device.came \ (device.there \cup forgotten) => f \in sent \cup waived

(* A message is deleted once every rule forwarded it: someone has it.      *)
DeletedWasForwarded ==
    \A m \in device.came \ device.there : \E f \in sent : f[1] = m

=============================================================================
