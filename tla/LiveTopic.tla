------------------------------ MODULE LiveTopic ------------------------------
(***************************************************************************)
(* One event-driven topic from the firmware to a subscriber: the shared    *)
(* cache of ubus reads (zte-agent/src/cache.rs), the hub's slot of the     *)
(* topic (events/hub.rs), its sampler thread (events/sampler.rs), page     *)
(* loads that read the same topic and share their read, and one stream.    *)
(*                                                                         *)
(* A change is announced after it happened: the cache entry is dropped,    *)
(* then the topic is touched.  Reads run without the hub's lock, through   *)
(* the cache, one fetch at a time.                                         *)
(*                                                                         *)
(* The names Topic... leave Init, Next and the like to the streams, with   *)
(* which HubProofs reads this module.                                      *)
(*                                                                         *)
(* Values are the numbers of the source's changes.  Instants are kept as   *)
(* what the code compares: whether a read was overtaken by a newer one, or *)
(* by a touch, since it started.  How long a delay lasts (coalescing, the  *)
(* error backoff, the age at which an entry is too old) is left open.      *)
(***************************************************************************)
EXTENDS Integers, Sequences

CONSTANTS
    Notifiers,    \* threads that announce changes: the event thread and handlers that write
    Pages,        \* page loads that read the topic
    Sampler,      \* the sampler thread of the topic's lane
    MaxChanges,   \* bound: changes of the source
    MaxErrors,    \* bound: fetches that fail
    Nothing

Readers == Pages \cup {Sampler}
Values == 0 .. MaxChanges

ASSUME ReaderAssumption == Sampler \notin Pages /\ Nothing \notin Readers
ASSUME BoundAssumption ==
    MaxChanges \in Nat /\ MaxErrors \in Nat /\ Nothing \notin Int

VARIABLES
    source,     \* what the firmware would answer now
    notifier,   \* per thread: the changes to announce, and whether the first reached the cache
    cache,      \* the cached answer, or Nothing
    gate,       \* the fetch in flight (single-flight gate)
    read,       \* the readers
    slot,       \* the hub's slot
    stream,     \* the subscriber
    errors,     \* fetches that failed
    announced   \* history: the last change whose announcement reached the cache

topicVars == <<source, notifier, cache, gate, read, slot, stream, errors, announced>>

NoRead == [pc |-> "idle", got |-> Nothing, failed |-> FALSE, touched |-> FALSE,
           overtaken |-> FALSE, before |-> {}, floor |-> 0]
NoFetch == [by |-> Nothing, valid |-> FALSE, got |-> Nothing]

Larger(a, b) == IF a > b THEN a ELSE b

-----------------------------------------------------------------------------
(* Changes and their announcement *)

\* The firmware's state changes, by itself (an event is queued) or through a handler.
Change(n) ==
    /\ source < MaxChanges
    /\ source' = source + 1
    /\ notifier' = [notifier EXCEPT ![n].queue = Append(@, source + 1)]
    /\ UNCHANGED <<cache, gate, read, slot, stream, errors, announced>>

\* invalidate: the entry goes, and a fetch in flight no longer counts (the generation).
Invalidate(n) ==
    /\ notifier[n].queue # <<>> /\ ~notifier[n].invalidated
    /\ notifier' = [notifier EXCEPT ![n].invalidated = TRUE]
    /\ cache' = Nothing
    /\ gate' = [gate EXCEPT !.valid = FALSE]
    /\ announced' = Larger(announced, Head(notifier[n].queue))
    /\ UNCHANGED <<source, read, slot, stream, errors>>

\* The cache's observer: touch.
TouchTopic(n) ==
    /\ notifier[n].invalidated
    /\ notifier' = [notifier EXCEPT ![n] = [queue |-> Tail(@.queue), invalidated |-> FALSE]]
    /\ slot' = [slot EXCEPT !.stale = TRUE]
    /\ read' = [r \in Readers |-> [read[r] EXCEPT !.touched = read[r].pc # "idle"]]
    /\ UNCHANGED <<source, cache, gate, stream, errors, announced>>

-----------------------------------------------------------------------------
(* Reads *)

InFlight == {r \in Readers : read[r].pc # "idle"}

\* due_time: never read, touched, or failed and to be retried.
Due == ~slot.hasRead \/ slot.stale \/ slot.retry

\* next_job for the sampler, while someone is subscribed; any time for a page load.
Start(r) ==
    /\ read[r].pc = "idle"
    /\ r = Sampler => stream.open /\ Due
    /\ read' = [q \in Readers |->
         IF q = r THEN [NoRead EXCEPT !.pc = "lookup", !.before = InFlight, !.floor = announced]
         ELSE [read[q] EXCEPT !.before = @ \ {r}]]
    /\ UNCHANGED <<source, notifier, cache, gate, slot, stream, errors, announced>>

\* get_or_fetch: an entry young enough for this reader answers, before the gate ...
Hit(r) ==
    /\ read[r].pc = "lookup"
    /\ \/ /\ cache # Nothing
          /\ read' = [read EXCEPT ![r].pc = "done", ![r].got = cache]
       \/ read' = [read EXCEPT ![r].pc = "waiting"]
    /\ UNCHANGED <<source, notifier, cache, gate, slot, stream, errors, announced>>

\* ... and once more behind it; otherwise this reader fetches.
Enter(r) ==
    /\ read[r].pc = "waiting" /\ gate.by = Nothing
    /\ \/ /\ cache # Nothing
          /\ read' = [read EXCEPT ![r].pc = "done", ![r].got = cache]
          /\ UNCHANGED gate
       \/ /\ gate' = [by |-> r, valid |-> TRUE, got |-> Nothing]
          /\ read' = [read EXCEPT ![r].pc = "fetching"]
    /\ UNCHANGED <<source, notifier, cache, slot, stream, errors, announced>>

\* The forked ubus call: it answers with the state of some moment while it runs.
Answer ==
    /\ gate.by # Nothing /\ gate.got = Nothing
    /\ gate' = [gate EXCEPT !.got = source]
    /\ UNCHANGED <<source, notifier, cache, read, slot, stream, errors, announced>>

\* Variant: the answer is cached whatever happened since the fetch started.
ReturnStored ==
    /\ gate.got # Nothing
    /\ cache' = gate.got
    /\ read' = [read EXCEPT ![gate.by].pc = "done", ![gate.by].got = gate.got]
    /\ gate' = NoFetch
    /\ UNCHANGED <<source, notifier, slot, stream, errors, announced>>

\* The fetch returns: cached unless it was invalidated while it ran.
Return ==
    /\ gate.got # Nothing
    /\ cache' = IF gate.valid THEN gate.got ELSE cache
    /\ read' = [read EXCEPT ![gate.by].pc = "done", ![gate.by].got = gate.got]
    /\ gate' = NoFetch
    /\ UNCHANGED <<source, notifier, slot, stream, errors, announced>>

\* The fetch fails: nothing is cached, and the read carries an error.
Fail ==
    /\ gate.by # Nothing /\ errors < MaxErrors
    /\ errors' = errors + 1
    /\ read' = [read EXCEPT ![gate.by].pc = "done", ![gate.by].failed = TRUE]
    /\ gate' = NoFetch
    /\ UNCHANGED <<source, notifier, cache, slot, stream, announced>>

-----------------------------------------------------------------------------
(* The hub *)

\* The other readers after r's read was stored: those that started before it are overtaken.
Stored(r) ==
    [q \in Readers |-> IF q = r THEN NoRead
                       ELSE [read[q] EXCEPT !.before = @ \ {r},
                                            !.overtaken = @ \/ q \in read[r].before]]

\* Variant: a touch during the read is forgotten.
TakenClean(r) ==
    [slot EXCEPT !.hasRead = TRUE, !.stale = FALSE,
                 !.error = read[r].failed, !.retry = read[r].failed,
                 !.value = IF read[r].failed THEN @ ELSE read[r].got,
                 !.floor = IF read[r].failed THEN @ ELSE Larger(@, read[r].floor)]

\* Variant: a failed read is not retried.
TakenAsRead(r) ==
    [slot EXCEPT !.hasRead = TRUE, !.stale = @ /\ read[r].touched,
                 !.error = read[r].failed, !.retry = FALSE,
                 !.value = IF read[r].failed THEN @ ELSE read[r].got,
                 !.floor = IF read[r].failed THEN @ ELSE Larger(@, read[r].floor)]

\* The slot after r's read: a failed read keeps the value and is retried; a touch since
\* the read started keeps the topic stale.
Taken(r) ==
    [slot EXCEPT !.hasRead = TRUE, !.stale = @ /\ read[r].touched,
                 !.error = read[r].failed, !.retry = read[r].failed,
                 !.value = IF read[r].failed THEN @ ELSE read[r].got,
                 !.floor = IF read[r].failed THEN @ ELSE Larger(@, read[r].floor)]

\* Variant: every read is stored, however late it comes.
StoreLate(r) ==
    /\ read[r].pc = "done"
    /\ read' = Stored(r)
    /\ slot' = Taken(r)
    /\ stream' = [stream EXCEPT !.news = @ \/ stream.open]
    /\ UNCHANGED <<source, notifier, cache, gate, errors, announced>>

\* store and offer: a read is dropped if one that started later has landed; a changed
\* value or error is news for the subscriber.
Store(r) ==
    /\ read[r].pc = "done"
    /\ IF read[r].overtaken
       THEN /\ read' = [q \in Readers |-> IF q = r THEN NoRead ELSE [read[q] EXCEPT !.before = @ \ {r}]]
            /\ UNCHANGED <<slot, stream>>
       ELSE /\ read' = Stored(r)
            /\ slot' = Taken(r)
            /\ stream' = [stream EXCEPT !.news = @ \/ (/\ stream.open
                                                      /\ \/ slot'.value # slot.value
                                                         \/ slot'.error # slot.error)]
    /\ UNCHANGED <<source, notifier, cache, gate, errors, announced>>

\* subscribe: an old value (or none) is read again at once.
SubscribeTopic(tooOld) ==
    /\ ~stream.open
    /\ stream' = [open |-> TRUE, news |-> slot.value # Nothing \/ slot.error, shown |-> Nothing]
    /\ slot' = [slot EXCEPT !.stale = @ \/ tooOld \/ ~slot.hasRead]
    /\ UNCHANGED <<source, notifier, cache, gate, read, errors, announced>>

\* The stream wakes and takes the latest value.
Deliver ==
    /\ stream.open /\ stream.news
    /\ stream' = [stream EXCEPT !.news = FALSE, !.shown = slot.value]
    /\ UNCHANGED <<source, notifier, cache, gate, read, slot, errors, announced>>

Unsubscribe ==
    /\ stream.open
    /\ stream' = [open |-> FALSE, news |-> FALSE, shown |-> Nothing]
    /\ UNCHANGED <<source, notifier, cache, gate, read, slot, errors, announced>>

-----------------------------------------------------------------------------
TopicInit ==
    /\ source = 0 /\ errors = 0 /\ announced = 0
    /\ notifier = [n \in Notifiers |-> [queue |-> <<>>, invalidated |-> FALSE]]
    /\ cache = Nothing /\ gate = NoFetch
    /\ read = [r \in Readers |-> NoRead]
    /\ slot = [value |-> Nothing, error |-> FALSE, hasRead |-> FALSE, stale |-> FALSE,
               retry |-> FALSE, floor |-> 0]
    /\ stream = [open |-> FALSE, news |-> FALSE, shown |-> Nothing]

TopicNext ==
    \/ \E n \in Notifiers : Change(n) \/ Invalidate(n) \/ TouchTopic(n)
    \/ \E r \in Readers : Start(r) \/ Hit(r) \/ Enter(r) \/ Store(r)
    \/ Answer \/ Return \/ Fail
    \/ \E tooOld \in BOOLEAN : SubscribeTopic(tooOld)
    \/ Deliver \/ Unsubscribe

\* Threads run on, a forked call ends (ubus gives up after its timeout), announcements
\* arrive, and the lock of the gate does not starve the sampler for ever.  Nothing
\* makes pages load, sources change or subscribers come.
Fairness ==
    /\ \A n \in Notifiers : WF_topicVars(Invalidate(n)) /\ WF_topicVars(TouchTopic(n))
    /\ WF_topicVars(Start(Sampler)) /\ SF_topicVars(Enter(Sampler))
    /\ \A r \in Readers : WF_topicVars(Hit(r)) /\ WF_topicVars(Store(r))
    /\ WF_topicVars(Answer) /\ WF_topicVars(Return) /\ WF_topicVars(Deliver)

TopicSpec == TopicInit /\ [][TopicNext]_topicVars /\ Fairness

-----------------------------------------------------------------------------
(* Properties *)

\* At most one reader fetches (cache.rs, "one fetch in flight per key"), a finished read
\* has a value or failed, and nothing is sent to nobody.
TopicTypeOK ==
    /\ source \in Values /\ announced \in 0 .. source /\ errors \in 0 .. MaxErrors
    /\ cache \in 0 .. source \cup {Nothing}
    /\ \A r \in Readers :
         /\ (read[r].pc = "fetching") <=> gate.by = r
         /\ (read[r].pc = "done") <=> (read[r].got # Nothing \/ read[r].failed)
         /\ read[r].before \subseteq InFlight \ {r}
    /\ gate.got # Nothing => gate.by # Nothing
    /\ slot.value \in 0 .. source \cup {Nothing} /\ (slot.value # Nothing \/ slot.error) <=> slot.hasRead
    /\ ~stream.open => ~stream.news /\ stream.shown = Nothing

\* "A value that predates the trigger cannot outlive it" (cache.rs, invalidate): a read
\* that starts after a change was announced to the cache never answers with the state
\* from before it, whichever fetch or entry it shares.
ReadsAreFresh ==
    \A r \in Readers : read[r].got # Nothing => read[r].got >= read[r].floor

\* Late reads cannot turn the clock back: after a read that began with a change announced
\* was stored, the hub never holds the state from before that change.
NoFallBack == slot.value # Nothing => slot.value >= slot.floor

\* With every change announced and nothing left to read, the hub holds the truth: no
\* order of changes, touches, cached answers and overlapping reads loses the last one.
SettledIsCurrent ==
    (/\ \A n \in Notifiers : notifier[n].queue = <<>>
     /\ ~Due)
        => slot.value = source

\* A subscriber who stays ends up seeing the current state, through failed reads too.
Converges == (<>[]stream.open) => <>[](stream.shown = source)

=============================================================================
