--------------------------- MODULE SmsForwardProofs ---------------------------
(***************************************************************************)
(* Three things, for any messages, rules, log size and handlers, and any   *)
(* number of deaths, requests, retries and failures.                       *)
(*                                                                         *)
(* 1. The saved watermark passes no message that was not dealt with.       *)
(* Messages come in the order of their ids, so none comes below the        *)
(* watermark, which some message that came has had (Device, Saved).  While *)
(* a batch is under way every message up to the last of it is dealt with   *)
(* or still in the batch (Thread); when the batch is empty, that is what   *)
(* saving the watermark needs.                                             *)
(*                                                                         *)
(* 2. A forward is delivered twice only if it is excused.  The watermark   *)
(* parts what the thread may do: a batch takes only forwards above it, and *)
(* everything sent, logged or retried is below it (KnownIsReached,         *)
(* LeftIsNew).  A forward has one entry, whose state parts the others: the *)
(* flush sends what is held, a request what is failed (LeftIsHeld,         *)
(* TriedHasFailed), and a delivered one is unsent only while its outcome   *)
(* is on its way to the log (SentIsKnown).                                 *)
(*                                                                         *)
(* 3. A message is deleted only when all that takes it has sent it.  While *)
(* it is in a batch or held, each of its forwards is sent, still to do, or *)
(* unsent in the log (Accounted), also in the log on disk, which a restart *)
(* goes back to (AccountedOnDisk).                                         *)
(***************************************************************************)
EXTENDS SmsForward, FiniteSetTheorems, SequenceTheorems, WellFoundedInduction, TLAPS

Came == device.came \cup {0}
Batching == thread.at \in {"Batch", "Delivered2", "Refused2"}
Fields == {"at", "then", "config", "after", "batch", "left", "ok"}

Device ==
    /\ DOMAIN device = {"came", "there", "unread"}
    /\ device.came \subseteq Messages /\ device.there \subseteq device.came
    /\ \A m \in device.came, n \in Messages : n <= m => n \in device.came

Saved ==
    /\ DOMAIN state = {"watermark", "log"} /\ DOMAIN disk = {"watermark", "log"}
    /\ state.watermark = disk.watermark /\ disk.watermark \in Came

Thread ==
    /\ DOMAIN thread = Fields
    /\ thread.then \in {"Loop", "Poll"} /\ thread.after \in Came /\ thread.batch \subseteq device.came
    /\ thread.at = "Fetch" => thread.after = state.watermark
    /\ Batching =>
         \A m \in device.there :
            m <= thread.after \/ (\E b \in thread.batch : m <= b)
               => m \in seen \cup overlooked \cup thread.batch

IInv == Device /\ Saved /\ Thread /\ NothingSkipped

-------------------------------------------------------------------------------
(* The least and the greatest of some ids. *)

LEMMA LeastExists ==
    ASSUME NEW S, S \subseteq Nat, S # {}
    PROVE  \E x \in S : \A y \in S : x <= y
<1> DEFINE Less == OpToRel(<, Nat)
<1>1. \A x, y \in Nat : y < x => <<y, x>> \in Less
  BY DEF OpToRel
<1>2. IsWellFoundedOn(Less, Nat)
  BY NatLessThanWellFounded
<1> HIDE DEF Less
<1>3. PICK x \in S : \A y \in S : ~ (<<y, x>> \in Less)
  BY <1>2, WFMin
<1>4. \A y \in S : ~ (y < x) /\ y \in Nat /\ x \in Nat
  BY <1>1, <1>3
<1> QED BY <1>4

\* A smallest set without a greatest element would have a smaller one.
LEMMA GreatestExists ==
    ASSUME NEW S, S \subseteq Nat, IsFiniteSet(S), S # {}
    PROVE  \E x \in S : \A y \in S : y <= x
<1> DEFINE Bad == {T \in SUBSET S : T # {} /\ \A x \in T : \E y \in T : ~(y <= x)}
           Sizes == {Cardinality(T) : T \in Bad}
<1>1. \A T \in SUBSET S : IsFiniteSet(T) /\ Cardinality(T) \in Nat
  BY FS_Subset, FS_CardinalityType
<1>2. ASSUME Bad # {} PROVE FALSE
  <2>1. Sizes \subseteq Nat /\ Sizes # {}
    BY <1>1, <1>2
  <2>2. PICK n \in Sizes : \A k \in Sizes : n <= k
    BY <2>1, LeastExists
  <2>3. PICK T \in Bad : Cardinality(T) = n
    BY <2>2
  <2>4. PICK x \in T : TRUE
    BY <2>3
  <2>5. T \ {x} \in SUBSET S /\ Cardinality(T \ {x}) = n - 1
    BY <1>1, <2>3, <2>4, FS_RemoveElement
  <2>6. T \ {x} \notin Bad
    <3>1. T \ {x} \in Bad => n - 1 \in Sizes
      BY <2>5
    <3>2. n \in Nat /\ ~(n <= n - 1)
      BY <2>1, <2>2
    <3> QED BY <2>2, <3>1, <3>2
  <2>7. PICK z \in T : z # x /\ ~(z <= x)
    BY <2>3, <2>4
  <2>8. PICK y \in T \ {x} : \A w \in T \ {x} : w <= y
    BY <2>5, <2>6, <2>7
  <2>9. x \in Nat /\ y \in Nat /\ z \in Nat
    BY <2>3, <2>4, <2>7, <2>8
  <2> QED BY <2>3, <2>4, <2>7, <2>8, <2>9
<1> QED BY <1>2

LEMMA LowestOf ==
    ASSUME NEW S, S \subseteq Messages, S # {}
    PROVE  Lowest(S) \in S /\ \A m \in S : Lowest(S) <= m
<1>1. \E x \in S : \A y \in S : x <= y
  BY LeastExists, ConstantsAssumption
<1> QED BY <1>1 DEF Lowest

LEMMA HighestOf ==
    ASSUME NEW S, S \subseteq Messages, S # {}
    PROVE  Highest(S) \in S /\ \A m \in S : m <= Highest(S)
<1>1. S \subseteq Nat /\ IsFiniteSet(S)
  BY FS_Subset, ConstantsAssumption
<1>2. \E x \in S : \A y \in S : y <= x
  BY <1>1, GreatestExists
<1> QED BY <1>2 DEF Highest

-------------------------------------------------------------------------------
(* What steps have in common. *)

\* The watermark is where it was and nothing came.
Steady ==
    /\ device'.came = device.came /\ device'.there \subseteq device.there
    /\ DOMAIN device' = DOMAIN device
    /\ DOMAIN state' = DOMAIN state /\ state'.watermark = state.watermark
    /\ DOMAIN disk' = DOMAIN disk /\ disk'.watermark = disk.watermark
    /\ seen \subseteq seen' /\ overlooked \subseteq overlooked'

\* The thread is where it was, but for what is left to do.
Same ==
    /\ DOMAIN thread' = DOMAIN thread
    /\ thread'.then = thread.then /\ thread'.after = thread.after /\ thread'.batch = thread.batch
    /\ thread'.at = "Fetch" => thread.at = "Fetch"
    /\ Batching' => Batching

\* The thread is neither before nor in a batch.
Away ==
    /\ DOMAIN thread' = Fields
    /\ thread'.then \in {"Loop", "Poll"} /\ thread'.after = 0 /\ thread'.batch = {}
    /\ thread'.at # "Fetch" /\ ~Batching'

LEMMA SteadyKeeps == ASSUME IInv, Steady PROVE Device' /\ Saved' /\ NothingSkipped'
BY DEF IInv, Steady, Device, Saved, Came, NothingSkipped

LEMMA SameKeeps == ASSUME IInv, Steady, Same PROVE IInv'
<1>1. Thread'
  BY DEF IInv, Steady, Same, Thread, Came
<1> QED BY <1>1, SteadyKeeps DEF IInv

LEMMA AwayKeeps == ASSUME Device', Saved', NothingSkipped', Away PROVE IInv'
BY DEF IInv, Away, Thread, Came

\* post_forward forgets a message, and no other.
LEMMA PostForwards ==
    ASSUME Device, NEW sms, PostForward(sms)
    PROVE  /\ device'.came = device.came /\ device'.there \subseteq device.there
           /\ DOMAIN device' = DOMAIN device
BY DEF PostForward, Device

\* What init_watermark passes goes to one of the histories.
LEMMA InitWatermarkKeeps ==
    ASSUME IInv, InitWatermark, UNCHANGED device,
           seen \cup overlooked \cup Passed(state.watermark, state'.watermark) \subseteq seen' \cup overlooked'
    PROVE  Device' /\ Saved' /\ NothingSkipped'
<1>1. CASE UNCHANGED <<state, disk>>
  BY <1>1 DEF IInv, Device, Saved, Came, NothingSkipped
<1>2. CASE /\ state.watermark = 0 /\ device.there # {}
           /\ Save([state EXCEPT !.watermark = Highest(device.there)])
  <2>1. Highest(device.there) \in device.there
    BY <1>2, HighestOf DEF IInv, Device
  <2>2. /\ state' = disk' /\ DOMAIN state' = {"watermark", "log"}
        /\ state'.watermark = Highest(device.there)
    BY <1>2 DEF Save, IInv, Saved
  <2>3. Saved'
    BY <2>1, <2>2 DEF Saved, IInv, Device, Came
  <2>4. NothingSkipped'
    <3> SUFFICES ASSUME NEW m \in device.there, m <= state'.watermark
                 PROVE  m \in seen' \cup overlooked'
      BY <2>2 DEF NothingSkipped
    <3>1. m \in Nat \ {0} /\ 0 < m
      <4>1. m \in Messages
        BY DEF IInv, Device
      <4> QED BY <4>1, ConstantsAssumption
    <3> QED BY <1>2, <3>1 DEF Passed
  <2> QED BY <2>3, <2>4 DEF IInv, Device
<1> QED BY <1>1, <1>2 DEF InitWatermark

-------------------------------------------------------------------------------
(* The thread. *)

LEMMA StartKeeps == ASSUME IInv, Start PROVE IInv'
<1>1. Device' /\ Saved' /\ NothingSkipped'
  BY InitWatermarkKeeps DEF Start
<1>2. Away
  BY DEF Start, Idle, Away, Fields, Batching
<1> QED BY <1>1, <1>2, AwayKeeps

LEMMA PollKeeps == ASSUME IInv, Poll PROVE IInv'
<1>1. CASE Active(config)
  <2>1. Device' /\ Saved' /\ NothingSkipped'
    BY <1>1, InitWatermarkKeeps DEF Poll
  <2>2. CASE thread' = Idle
    <3>1. Away
      BY <2>2 DEF Idle, Away, Fields, Batching
    <3> QED BY <2>1, <3>1, AwayKeeps
  <2>3. CASE thread' = [Idle EXCEPT !.at = "Fetch", !.after = state'.watermark]
    <3>1. Thread'
      BY <2>1, <2>3 DEF Idle, Thread, Fields, Batching, Saved, Came
    <3> QED BY <2>1, <3>1 DEF IInv
  <2> QED BY <1>1, <2>2, <2>3 DEF Poll
<1>2. CASE ~Active(config)
  <2>1. Steady
    BY <1>2 DEF Poll, Steady, IInv, Saved, Device
  <2>2. Away
    BY <1>2 DEF Poll, Idle, Away, Fields, Batching
  <2> QED BY <2>1, <2>2, SteadyKeeps, AwayKeeps
<1> QED BY <1>1, <1>2

LEMMA TakeEventKeeps == ASSUME IInv, TakeEvent PROVE IInv'
<1>1. Steady
  BY DEF TakeEvent, Steady, history
<1>2. CASE thread' = thread
  BY <1>1, <1>2, SameKeeps DEF Same, Batching
<1>3. CASE thread' = [Idle EXCEPT !.at = "Fetch", !.after = state.watermark]
  <2>1. Device' /\ Saved' /\ NothingSkipped' /\ state'.watermark = state.watermark
    BY <1>1, SteadyKeeps DEF Steady
  <2>2. Thread'
    BY <1>3, <2>1 DEF Idle, Thread, Fields, Batching, Saved, Came
  <2> QED BY <2>1, <2>2 DEF IInv
<1> QED BY <1>2, <1>3 DEF TakeEvent

LEMMA TimeoutKeeps == ASSUME IInv, NEW poll \in {"Loop", "Poll"}, Timeout(poll) PROVE IInv'
<1>1. Steady
  BY DEF Timeout, Steady, history
<1>2. Away
  BY DEF Timeout, Idle, Away, Fields, Batching
<1> QED BY <1>1, <1>2, SteadyKeeps, AwayKeeps

LEMMA SettlePendingSteady ==
    ASSUME IInv, NEW e, NEW is, SettlePending(e, is), UNCHANGED <<seen, overlooked>>
    PROVE  Steady
<1>1. /\ DOMAIN state' = DOMAIN state /\ state'.watermark = state.watermark
      /\ disk' = state'
  BY DEF SettlePending, Save, IInv, Saved
<1>2. /\ device'.came = device.came /\ device'.there \subseteq device.there
      /\ DOMAIN device' = DOMAIN device
  BY PostForwards DEF SettlePending, IInv
<1> QED BY <1>1, <1>2 DEF Steady, IInv, Saved

LEMMA FlushKeeps ==
    ASSUME IInv, FlushWaits \/ FlushSettles \/ FlushSends \/ FlushRecords
    PROVE  IInv'
<1>1. Steady
  <2>1. CASE FlushWaits
    BY <2>1 DEF FlushWaits, Steady, history
  <2>2. CASE FlushSettles
    BY <2>2, SettlePendingSteady DEF FlushSettles, history
  <2>3. CASE FlushSends
    BY <2>3 DEF FlushSends, Steady
  <2>4. CASE FlushRecords
    BY <2>4, SettlePendingSteady DEF FlushRecords, history
  <2> QED BY <2>1, <2>2, <2>3, <2>4
<1>2. Same
  BY DEF FlushWaits, FlushSettles, FlushSends, FlushRecords, FlushNext, Same, Batching,
         IInv, Thread, Fields
<1> QED BY <1>1, <1>2, SameKeeps

LEMMA FlushEndsKeeps == ASSUME IInv, FlushEnds PROVE IInv'
<1>1. Steady
  BY DEF FlushEnds, Steady, history
<1>2. Away
  BY DEF FlushEnds, Idle, Away, Fields, Batching, IInv, Thread
<1> QED BY <1>1, <1>2, SteadyKeeps, AwayKeeps

-------------------------------------------------------------------------------
(* The batch. *)

\* The messages up to the last of a batch are in it, dealt with, or overlooked now.
LEMMA FetchKeeps == ASSUME IInv, Fetch PROVE IInv'
<1>1. Steady
  BY DEF Fetch, Steady
<1>2. CASE thread' = Idle
  <2>1. Away
    BY <1>2 DEF Idle, Away, Fields, Batching
  <2> QED BY <1>1, <2>1, SteadyKeeps, AwayKeeps
<1>3. ASSUME thread' # Idle PROVE IInv'
  <2>1. PICK batch : /\ batch \in SUBSET device.there /\ batch # {}
                     /\ \A m \in batch : m > thread.after
                     /\ \E c, left1 : thread' = [thread EXCEPT !.at = "Batch", !.config = c,
                                                    !.batch = batch, !.left = left1]
                     /\ overlooked' = overlooked \cup (Passed(thread.after, Highest(batch)) \ batch)
    BY <1>3 DEF Fetch
  <2>2. /\ DOMAIN thread' = Fields /\ thread'.then = thread.then /\ thread'.after = thread.after
        /\ thread'.batch = batch /\ thread'.at = "Batch"
    BY <2>1 DEF IInv, Thread, Fields
  <2>3. batch \subseteq Messages /\ UNCHANGED <<device, disk, state, seen>> /\ thread.after = disk.watermark
    BY <2>1 DEF Fetch, IInv, Device, Saved, Thread, Stands
  <2>4. ASSUME NEW m \in device.there, m <= thread.after \/ \E b \in batch : m <= b
        PROVE  m \in seen \cup overlooked' \cup batch
    <3>1. CASE m <= thread.after
      BY <2>1, <2>3, <3>1 DEF IInv, NothingSkipped
    <3>2. CASE ~(m <= thread.after)
      <4>1. PICK b \in batch : m <= b
        BY <2>4, <3>2
      <4>2. b <= Highest(batch) /\ Highest(batch) \in batch
        BY <2>1, <2>3, HighestOf
      <4>3. m \in Nat /\ b \in Nat /\ Highest(batch) \in Nat /\ thread.after \in Nat
        <5>1. m \in Messages /\ b \in Messages /\ Highest(batch) \in Messages
          BY <2>3, <4>2 DEF IInv, Device
        <5>2. thread.after \in Messages \cup {0}
          BY DEF IInv, Device, Thread, Came
        <5>3. Messages \subseteq Nat /\ 0 \in Nat
          BY ConstantsAssumption
        <5> QED BY <5>1, <5>2, <5>3
      <4>4. m <= Highest(batch) /\ thread.after < m
        BY <3>2, <4>1, <4>2, <4>3
      <4> QED BY <2>1, <4>4 DEF Passed
    <3> QED BY <3>1, <3>2
  <2>5. Thread'
    BY <2>1, <2>2, <2>3, <2>4 DEF IInv, Thread, Device, Came
  <2> QED BY <1>1, <2>5, SteadyKeeps DEF IInv
<1> QED BY <1>2, <1>3

LEMMA ForwardKeeps == ASSUME IInv, HoldForward \/ SendForward \/ RecordForward PROVE IInv'
<1>1. Steady
  <2>1. CASE SendForward
    BY <2>1 DEF SendForward, Steady
  <2>2. CASE HoldForward \/ RecordForward
    BY <2>2 DEF HoldForward, RecordForward, Pushed, Push, Steady, IInv, Saved
  <2> QED BY <2>1, <2>2
<1>2. Same
  BY DEF HoldForward, SendForward, RecordForward, HasForward, Stands, Pushed, Same, Batching,
         IInv, Thread, Fields
<1> QED BY <1>1, <1>2, SameKeeps

\* The lowest message leaves the batch: below it, all were dealt with.
LEMMA FinishMessageKeeps == ASSUME IInv, FinishMessage PROVE IInv'
<1>1. /\ device'.came = device.came /\ device'.there \subseteq device.there
      /\ DOMAIN device' = DOMAIN device
  BY PostForwards DEF FinishMessage, IInv
<1>2. Steady
  BY <1>1 DEF FinishMessage, Steady
<1>3. Current \in thread.batch /\ \A m \in thread.batch : Current <= m
  BY LowestOf DEF FinishMessage, Current, IInv, Thread, Device
<1>4. /\ DOMAIN thread' = Fields /\ thread'.then = thread.then /\ thread'.at = thread.at
      /\ thread'.after = Current /\ thread'.batch = thread.batch \ {Current}
      /\ thread.at = "Batch" /\ seen' = seen \cup {Current} /\ overlooked' = overlooked
  BY DEF FinishMessage, Stands, IInv, Thread, Fields
<1>5. ASSUME NEW m \in device.there, m <= Current \/ \E b \in thread.batch : m <= b
      PROVE  m \in seen' \cup overlooked' \cup thread'.batch
  <2>1. m \in seen \cup overlooked \cup thread.batch
    BY <1>3, <1>4, <1>5 DEF IInv, Thread, Batching
  <2> QED BY <1>4, <2>1
<1>6. Thread'
  BY <1>1, <1>3, <1>4, <1>5 DEF IInv, Thread, Device, Came
<1> QED BY <1>2, <1>6, SteadyKeeps DEF IInv

\* The batch is empty: the watermark it ends at passes nothing.
LEMMA FinishBatchKeeps == ASSUME IInv, FinishBatch PROVE IInv'
<1>1. /\ state' = disk' /\ DOMAIN state' = {"watermark", "log"}
      /\ state'.watermark = thread.after
  BY DEF FinishBatch, Save, IInv, Saved
<1>2. UNCHANGED <<device, seen, overlooked>>
  BY DEF FinishBatch, history
<1>3. Saved'
  BY <1>1, <1>2 DEF Saved, IInv, Thread, Came
<1>4. NothingSkipped'
  BY <1>1, <1>2 DEF FinishBatch, Stands, Batching, NothingSkipped, IInv, Thread
<1>5. Away
  BY DEF FinishBatch, Idle, Away, Fields, Batching
<1>6. Device'
  BY <1>2 DEF IInv, Device
<1> QED BY <1>3, <1>4, <1>5, <1>6, AwayKeeps

-------------------------------------------------------------------------------
(* The monitors, the firmware and the owner. *)

\* A message that comes is above every one that came.
LEMMA ArriveKeeps == ASSUME IInv, Arrive PROVE IInv'
<1>1. PICK m \in Messages \ device.came :
         /\ \A n \in Messages \ device.came : m <= n
         /\ device' = [came |-> device.came \cup {m}, there |-> device.there \cup {m},
                       unread |-> device.unread \cup {m}]
  BY DEF Arrive
<1>2. UNCHANGED <<state, disk, thread, seen, overlooked>>
  BY DEF Arrive, Elsewhere, history
<1>3. Messages \subseteq Nat \ {0}
  BY ConstantsAssumption
<1>4. \A k \in Came : ~(m <= k)
  <2> SUFFICES ASSUME NEW k \in Came, m <= k PROVE FALSE
    OBVIOUS
  <2>1. k # 0
    BY <1>1, <1>3
  <2>2. k \in device.came
    BY <2>1 DEF Came
  <2> QED BY <1>1, <2>2 DEF IInv, Device
<1>5. Device'
  <2>1. ASSUME NEW a \in device'.came, NEW n \in Messages, n <= a PROVE n \in device'.came
    <3>1. CASE a \in device.came
      BY <1>1, <2>1, <3>1 DEF IInv, Device
    <3>2. CASE a = m /\ n \notin device.came
      <4>1. m <= n /\ n <= m /\ m \in Nat /\ n \in Nat
        BY <1>1, <1>3, <2>1, <3>2
      <4>2. m = n
        BY <4>1
      <4> QED BY <1>1, <4>2
    <3> QED BY <1>1, <2>1, <3>1, <3>2
  <2>2. /\ DOMAIN device' = {"came", "there", "unread"}
        /\ device'.came \subseteq Messages /\ device'.there \subseteq device'.came
    BY <1>1 DEF IInv, Device
  <2> QED BY <2>1, <2>2 DEF Device
<1>6. Saved'
  BY <1>1, <1>2 DEF IInv, Saved, Came
<1>7. NothingSkipped'
  <2>1. ~(m <= disk.watermark)
    BY <1>4 DEF IInv, Saved
  <2> QED BY <1>1, <1>2, <2>1 DEF IInv, NothingSkipped
<1>8. Thread'
  <2>1. ~(m <= thread.after) /\ \A b \in thread.batch : ~(m <= b)
    BY <1>4 DEF IInv, Thread, Came
  <2> QED BY <1>1, <1>2, <2>1 DEF IInv, Thread, Batching, Came
<1> QED BY <1>5, <1>6, <1>7, <1>8 DEF IInv

LEMMA OutsideKeeps ==
    ASSUME IInv,
           \/ WanEvent \/ WanSettles \/ ServiceEvent \/ HoldExpires \/ Configure \/ LogClear
           \/ RetryForward \/ RetryRecords
    PROVE  IInv'
<1>1. CASE WanEvent \/ WanSettles \/ ServiceEvent \/ Configure \/ RetryForward
  <2>1. Steady /\ Same
    BY <1>1 DEF WanEvent, WanSettles, ServiceEvent, Configure, RetryForward, Elsewhere, history,
                Steady, Same, Batching
  <2> QED BY <2>1, SameKeeps
<1>2. CASE HoldExpires
  <2>1. Steady
    BY <1>2 DEF HoldExpires, history, Steady, IInv, Saved
  <2>2. Same
    BY <1>2 DEF HoldExpires, Same, Batching, IInv, Thread, Fields
  <2> QED BY <2>1, <2>2, SameKeeps
<1>3. CASE LogClear \/ RetryRecords
  <2>1. Steady /\ Same
    BY <1>3 DEF LogClear, RetryRecords, Save, history, Steady, Same, Batching, IInv, Saved
  <2> QED BY <2>1, SameKeeps
<1> QED BY <1>1, <1>2, <1>3

LEMMA RestartKeeps == ASSUME IInv, Restart PROVE IInv'
<1>1. Device' /\ Saved' /\ NothingSkipped'
  BY DEF Restart, IInv, Device, Saved, Came, NothingSkipped
<1>2. Away
  BY DEF Restart, Idle, Away, Fields, Batching
<1> QED BY <1>1, <1>2, AwayKeeps

LEMMA InitKeeps == Init => IInv
BY DEF Init, IInv, Device, Saved, Thread, NothingSkipped, Idle, Fields, Batching, Came

LEMMA NextKeeps == ASSUME IInv, [Next]_vars PROVE IInv'
<1>1. CASE Run
  BY <1>1, StartKeeps, TakeEventKeeps, PollKeeps, FetchKeeps, FlushKeeps, FlushEndsKeeps,
     ForwardKeeps, FinishMessageKeeps, FinishBatchKeeps DEF Run
<1>2. CASE Recheck \/ FallbackPoll
  BY <1>2, TimeoutKeeps DEF Recheck, FallbackPoll
<1>3. CASE UNCHANGED vars
  BY <1>3, SameKeeps DEF vars, Steady, Same, Batching
<1> QED BY <1>1, <1>2, <1>3, ArriveKeeps, OutsideKeeps, RestartKeeps DEF Next

(* The saved watermark never passes a message that no batch dealt with,       *)
(* except those known to be overlooked: neither a death in the middle of a    *)
(* batch, nor a message that comes during one, nor the first start of the     *)
(* watermark makes it skip one (init_watermark, fetch_new_messages,           *)
(* process_new_messages).                                                     *)
THEOREM WatermarkSkipsNothing == Spec => []NothingSkipped
<1>1. IInv /\ [Next]_vars => IInv'
  BY NextKeeps
<1>2. IInv => NothingSkipped
  BY DEF IInv
<1> QED BY <1>1, <1>2, InitKeeps, PTL DEF Spec

-------------------------------------------------------------------------------
(* The log: what is dropped from it, and what is settled in it. *)

\* The entries of one log are entries of the other, no place taken twice.
Within(new, old) ==
    \E h \in [DOMAIN new -> DOMAIN old] :
        /\ \A n, k \in DOMAIN new : h[n] = h[k] => n = k
        /\ \A n \in DOMAIN new : new[n] = old[h[n]]

LEMMA KeysAreForwards == \A e \in Entries : Key(e) \in Forwards /\ Key(e)[1] = e.sms /\ Key(e)[2] = e.rule
BY DEF Entries, Key, Forwards

\* Each place has a rank of its own, so each rank has its place.
LEMMA NthOf ==
    ASSUME NEW S, S \subseteq Nat, IsFiniteSet(S)
    PROVE  /\ \A n \in 1 .. Cardinality(S) :
                 Nth(S, n) \in S /\ Cardinality({k \in S : k <= Nth(S, n)}) = n
           /\ \A i \in S : \E n \in 1 .. Cardinality(S) : Nth(S, n) = i
<1> DEFINE Below(i) == {k \in S : k <= i}
           rank == [i \in S |-> Cardinality(Below(i))]
<1>1. ASSUME NEW i \in S PROVE IsFiniteSet(Below(i)) /\ Cardinality(Below(i)) \in 1 .. Cardinality(S)
  <2>1. Below(i) \in SUBSET S
    OBVIOUS
  <2>2. IsFiniteSet(Below(i)) /\ Cardinality(Below(i)) <= Cardinality(S)
    BY <2>1, FS_Subset
  <2>3. i \in Below(i)
    OBVIOUS
  <2>4. Cardinality(Below(i)) # 0
    BY <2>2, <2>3, FS_EmptySet
  <2>5. Cardinality(Below(i)) \in Nat /\ Cardinality(S) \in Nat
    BY <2>2, FS_CardinalityType
  <2> QED BY <2>2, <2>4, <2>5
<1>2. ASSUME NEW i \in S, NEW j \in S, Cardinality(Below(i)) = Cardinality(Below(j)), i <= j PROVE i = j
  <2>1. Below(i) \in SUBSET Below(j)
    <3>1. \A k \in S : k \in Nat /\ i \in Nat /\ j \in Nat
      OBVIOUS
    <3>2. \A k \in S : k <= i => k <= j
      BY <1>2, <3>1
    <3> QED BY <3>2
  <2>2. Below(i) = Below(j)
    BY <1>1, <1>2, <2>1, FS_Subset
  <2>3. j <= i
    BY <2>2
  <2> QED BY <1>2, <2>3
<1>3. \A i, j \in S : Cardinality(Below(i)) = Cardinality(Below(j)) => i = j
  <2>1. \A i, j \in S : i <= j \/ j <= i
    OBVIOUS
  <2> QED BY <1>2, <2>1
<1>4. rank \in Injection(S, 1 .. Cardinality(S))
  <2>1. rank \in [S -> 1 .. Cardinality(S)]
    BY <1>1
  <2>2. \A i, j \in S : rank[i] = rank[j] => i = j
    BY <1>3
  <2> QED BY <2>1, <2>2 DEF Injection, IsInjective
<1>5. rank \in Surjection(S, 1 .. Cardinality(S))
  <2>1. Cardinality(S) \in Nat
    BY FS_CardinalityType
  <2>2. IsFiniteSet(1 .. Cardinality(S)) /\ Cardinality(1 .. Cardinality(S)) = Cardinality(S)
    BY <2>1, FS_Interval
  <2> QED BY <1>4, <2>2, FS_Injection
<1>6. \A n \in 1 .. Cardinality(S) : \E i \in S : Cardinality(Below(i)) = n
  BY <1>5 DEF Surjection
<1> HIDE DEF Below, rank
<1>7. ASSUME NEW n \in 1 .. Cardinality(S) PROVE Nth(S, n) \in S /\ Cardinality(Below(Nth(S, n))) = n
  BY <1>6 DEF Nth, Below
<1>8. \A i \in S : Nth(S, Cardinality(Below(i))) = i
  BY <1>1, <1>3, <1>7
<1>9. \A i \in S : \E n \in 1 .. Cardinality(S) : Nth(S, n) = i
  BY <1>1, <1>8
<1> QED BY <1>7, <1>9 DEF Below

LEMMA RetainOf ==
    ASSUME NEW log \in Seq(Entries), NEW places \in SUBSET DOMAIN log
    PROVE  /\ Retain(log, places) \in Seq(Entries)
           /\ Within(Retain(log, places), log)
           /\ \A n \in DOMAIN Retain(log, places) : \E i \in places : Retain(log, places)[n] = log[i]
           /\ \A i \in places : \E n \in DOMAIN Retain(log, places) : Retain(log, places)[n] = log[i]
<1> DEFINE new == Retain(log, places)
           h == [n \in 1 .. Cardinality(places) |-> Nth(places, n)]
<1>1. places \subseteq Nat /\ IsFiniteSet(places) /\ Cardinality(places) \in Nat
  <2>1. DOMAIN log = 1 .. Len(log) /\ Len(log) \in Nat
    OBVIOUS
  <2>2. IsFiniteSet(1 .. Len(log))
    BY <2>1, FS_Interval
  <2>3. IsFiniteSet(places)
    BY <2>1, <2>2, FS_Subset
  <2> QED BY <2>1, <2>3, FS_CardinalityType
<1>2. /\ \A n \in 1 .. Cardinality(places) :
            Nth(places, n) \in places /\ Cardinality({k \in places : k <= Nth(places, n)}) = n
      /\ \A i \in places : \E n \in 1 .. Cardinality(places) : Nth(places, n) = i
  BY <1>1, NthOf
<1>3. DOMAIN new = 1 .. Cardinality(places) /\ \A n \in DOMAIN new : new[n] = log[Nth(places, n)]
  BY DEF Retain
<1>4. \A n \in 1 .. Cardinality(places) : log[Nth(places, n)] \in Entries
  <2>1. \A i \in places : log[i] \in Entries
    OBVIOUS
  <2> QED BY <1>2, <2>1
<1>5. new \in Seq(Entries)
  <2>1. new = [n \in 1 .. Cardinality(places) |-> log[Nth(places, n)]]
    BY DEF Retain
  <2> QED BY <1>1, <1>4, <2>1
<1>6. Within(new, log)
  <2>1. h \in [DOMAIN new -> DOMAIN log]
    BY <1>2, <1>3
  <2>2. ASSUME NEW n \in DOMAIN new, NEW k \in DOMAIN new, h[n] = h[k] PROVE n = k
    <3>1. Nth(places, n) = Nth(places, k) /\ n \in 1 .. Cardinality(places) /\ k \in 1 .. Cardinality(places)
      BY <1>3, <2>2
    <3> HIDE DEF new, h
    <3>2. Cardinality({j \in places : j <= Nth(places, n)}) = n
      BY <1>2, <3>1
    <3>3. Cardinality({j \in places : j <= Nth(places, k)}) = k
      BY <1>2, <3>1
    <3> QED BY <3>1, <3>2, <3>3
  <2>3. \A n \in DOMAIN new : new[n] = log[h[n]]
    BY <1>3
  <2> HIDE DEF h, new
  <2> QED BY <2>1, <2>2, <2>3 DEF Within
<1> HIDE DEF h, new
<1>7. \A n \in DOMAIN new : \E i \in places : new[n] = log[i]
  BY <1>2, <1>3
<1>8. \A i \in places : \E n \in DOMAIN new : new[n] = log[i]
  BY <1>2, <1>3
<1> QED BY <1>5, <1>6, <1>7, <1>8 DEF new

LEMMA WithinItself == ASSUME NEW log PROVE Within(log, log)
<1>1. [n \in DOMAIN log |-> n] \in [DOMAIN log -> DOMAIN log]
  OBVIOUS
<1> QED BY <1>1 DEF Within

LEMMA RemoveOf ==
    ASSUME NEW log \in Seq(Entries), NEW k \in DOMAIN log
    PROVE  RemoveAt(log, k) \in Seq(Entries) /\ Within(RemoveAt(log, k), log)
<1> DEFINE new == RemoveAt(log, k)
           h == [n \in 1 .. Len(log) - 1 |-> IF n < k THEN n ELSE n + 1]
<1>1. Len(log) \in Nat /\ k \in 1 .. Len(log) /\ DOMAIN log = 1 .. Len(log)
  OBVIOUS
<1> DEFINE front == SubSeq(log, 1, k - 1)
           back == SubSeq(log, k + 1, Len(log))
<1>2. /\ front \in Seq(Entries) /\ Len(front) = k - 1
      /\ \A n \in 1 .. k - 1 : front[n] = log[n]
  BY <1>1
<1>3. /\ back \in Seq(Entries) /\ Len(back) = Len(log) - k
      /\ \A n \in 1 .. Len(log) - k : back[n] = log[k + n]
  BY <1>1
<1>4. new = front \o back
  BY DEF RemoveAt
<1> HIDE DEF new, front, back
<1>5. /\ new \in Seq(Entries) /\ Len(new) = Len(log) - 1
      /\ \A n \in 1 .. Len(log) - 1 : new[n] = IF n <= k - 1 THEN front[n] ELSE back[n - (k - 1)]
  <2>1. Len(front) + Len(back) = Len(log) - 1
    BY <1>1, <1>2, <1>3
  <2>2. Len(front) = k - 1 /\ front \in Seq(Entries) /\ back \in Seq(Entries)
    BY <1>2, <1>3
  <2> QED BY <1>4, <2>1, <2>2, ConcatProperties
<1>6. \A n \in 1 .. Len(log) - 1 : new[n] = log[IF n < k THEN n ELSE n + 1]
  <2> TAKE n \in 1 .. Len(log) - 1
  <2>1. CASE n < k
    BY <1>1, <1>2, <1>5, <2>1
  <2>2. CASE ~(n < k)
    <3>1. n - (k - 1) \in 1 .. Len(log) - k /\ k + (n - (k - 1)) = n + 1
      BY <1>1, <2>2
    <3>2. new[n] = back[n - (k - 1)]
      BY <1>1, <1>5, <2>2
    <3> QED BY <1>3, <2>2, <3>1, <3>2
  <2> QED BY <2>1, <2>2
<1>7. DOMAIN new = 1 .. Len(log) - 1
  BY <1>5
<1>8. h \in [DOMAIN new -> DOMAIN log] /\ \A n, m \in DOMAIN new : h[n] = h[m] => n = m
  BY <1>1, <1>7
<1>9. \A n \in DOMAIN new : new[n] = log[h[n]]
  BY <1>6, <1>7
<1> HIDE DEF h
<1> QED BY <1>5, <1>8, <1>9 DEF Within, new

LEMMA PushOf ==
    ASSUME NEW log \in Seq(Entries), NEW e \in Entries
    PROVE  PushLog(log, e) \in Seq(Entries) /\ Within(PushLog(log, e), Append(log, e))
<1> DEFINE all == Append(log, e)
           free == {i \in DOMAIN all : ~KeepEntry(all[i], HeldIds(all))}
           k == IF free = {} THEN 1 ELSE Lowest(free)
<1>1. all \in Seq(Entries) /\ Len(all) \in Nat /\ DOMAIN all = 1 .. Len(all) /\ Len(all) >= 1
  OBVIOUS
<1>2. free \subseteq DOMAIN all
  OBVIOUS
<1> HIDE DEF all, free
<1>3. k \in DOMAIN all
  <2>1. CASE free = {}
    BY <1>1, <2>1
  <2>2. CASE free # {}
    <3>1. \E x \in free : \A y \in free : x <= y
      BY <1>1, <1>2, <2>2, LeastExists
    <3> QED BY <1>2, <2>2, <3>1 DEF Lowest
  <2> QED BY <2>1, <2>2
<1>4. PushLog(log, e) = IF Len(all) <= MaxLog THEN all ELSE RemoveAt(all, k)
  BY DEF PushLog, all, free
<1> HIDE DEF k
<1>5. CASE Len(all) <= MaxLog
  BY <1>1, <1>4, <1>5, WithinItself DEF all
<1>6. CASE ~(Len(all) <= MaxLog)
  BY <1>1, <1>3, <1>4, <1>6, RemoveOf DEF all
<1> QED BY <1>5, <1>6

\* An outcome goes to one of the places, if there is one.
Resolves(new, old, places, is) ==
    /\ new \in Seq(Entries) /\ DOMAIN new = DOMAIN old
    /\ \A i \in DOMAIN old : Key(new[i]) = Key(old[i])
    /\ \/ places = {} /\ new = old
       \/ \E p \in places : new[p].is = is /\ \A i \in DOMAIN old \ {p} : new[i] = old[i]

LEMMA SettledOf ==
    ASSUME NEW log \in Seq(Entries), NEW places \in SUBSET DOMAIN log,
           NEW is \in {"held", "old", "failed", "sent"}
    PROVE  Resolves(Settled(log, places, is), log, places, is)
<1>1. CASE places = {}
  BY <1>1 DEF Settled, Resolves
<1>2. CASE places # {}
  <2> DEFINE p == Lowest(places)
             new == [log EXCEPT ![p].is = is]
  <2>1. DOMAIN log = 1 .. Len(log) /\ Len(log) \in Nat
    OBVIOUS
  <2>2. p \in places
    <3>1. \E x \in places : \A y \in places : x <= y
      BY <1>2, <2>1, LeastExists
    <3> QED BY <3>1 DEF Lowest
  <2> HIDE DEF p
  <2>3. DOMAIN new = DOMAIN log /\ \A i \in DOMAIN log \ {p} : new[i] = log[i]
    OBVIOUS
  <2>4. new[p] = [log[p] EXCEPT !.is = is] /\ log[p] \in Entries
    BY <2>2
  <2>5. new[p] \in Entries /\ Key(new[p]) = Key(log[p]) /\ new[p].is = is
    BY <2>4 DEF Entries, Key
  <2>6. \A i \in DOMAIN log : new[i] \in Entries /\ Key(new[i]) = Key(log[i])
    BY <2>3, <2>5
  <2>7. new = [i \in 1 .. Len(log) |-> new[i]]
    BY <2>1
  <2>8. new \in Seq(Entries)
    <3> HIDE DEF new
    <3> QED BY <2>1, <2>3, <2>6, <2>7
  <2>9. Settled(log, places, is) = new
    BY <1>2 DEF Settled, p
  <2> HIDE DEF new
  <2> QED BY <2>2, <2>3, <2>5, <2>6, <2>8, <2>9 DEF Resolves
<1> QED BY <1>1, <1>2

\* A forward's places in the log.
LEMMA AtOf ==
    ASSUME NEW log \in Seq(Entries), NEW key
    PROVE  /\ At(log, key, Pending) = {i \in DOMAIN log : Key(log[i]) = key /\ Pending(log[i])}
           /\ At(log, key, Retriable) = {i \in DOMAIN log : Key(log[i]) = key /\ Retriable(log[i])}
BY DEF At

-------------------------------------------------------------------------------
(* What the thread and the requests hold. *)

Flushing == thread.at \in {"Flush", "Delivered", "Refused"}

Typed ==
    /\ state.log \in Seq(Entries) /\ disk.log \in Seq(Entries)
    /\ sent \subseteq Forwards /\ twice \subseteq Forwards
    /\ DOMAIN retry = Handlers
    /\ \A h \in Handlers : retry[h] # None =>
          retry[h] \in Attempt /\ (retry[h].ok => Key(retry[h].entry) \in sent)

Batch ==
    /\ ~Batching => thread.batch = {}
    /\ Batching =>
         /\ state.watermark <= thread.after /\ \A m \in thread.batch : thread.after < m
         /\ thread.left \subseteq {f \in Matches : f[1] \in thread.batch}
    /\ thread.at \in {"Delivered2", "Refused2"} => Forward \in thread.left
    /\ thread.at = "Delivered2" => Forward \in sent

Flush ==
    /\ Flushing => thread.left \in Seq(Entries) /\ \A n \in DOMAIN thread.left : Pending(thread.left[n])
    /\ thread.at \in {"Delivered", "Refused"} => thread.left # <<>>
    /\ thread.at = "Delivered" => Key(Task) \in sent

Work == Typed /\ Batch /\ Flush

LEMMA InitWork == Init => Work
BY DEF Init, Work, Typed, Batch, Flush, Idle, Batching, Flushing, Entries

LEMMA Numbers ==
    ASSUME IInv
    PROVE  /\ Messages \subseteq Nat /\ thread.batch \subseteq Messages
           /\ state.watermark \in Nat /\ thread.after \in Nat
<1>1. Messages \subseteq Nat
  BY ConstantsAssumption
<1>2. Came \subseteq Nat /\ thread.batch \subseteq Messages
  <2>1. device.came \subseteq Messages /\ thread.batch \subseteq device.came
    BY DEF IInv, Device, Thread
  <2>2. thread.batch \subseteq Messages
    BY <2>1
  <2>3. device.came \subseteq Nat
    BY <1>1, <2>1
  <2> QED BY <2>2, <2>3 DEF Came
<1>3. state.watermark \in Came /\ thread.after \in Came
  BY DEF IInv, Saved, Thread
<1> QED BY <1>1, <1>2, <1>3

LEMMA CurrentOf ==
    ASSUME IInv, thread.batch # {}
    PROVE  Current \in thread.batch /\ \A m \in thread.batch : Current <= m
BY LowestOf, Numbers DEF Current

LEMMA ForwardOf ==
    ASSUME IInv, Work, HasForward
    PROVE  /\ Forward \in thread.left /\ Forward \in Matches /\ Forward \in Forwards
           /\ Forward[1] = Current /\ Current \in thread.batch
<1> DEFINE rules == {r \in Rules : <<Current, r>> \in thread.left}
<1>1. rules # {} /\ rules \subseteq Nat
  BY ConstantsAssumption DEF HasForward
<1>2. Lowest(rules) \in rules
  BY <1>1, LeastExists DEF Lowest
<1>3. Forward = <<Current, Lowest(rules)>>
  BY DEF Forward
<1>4. Forward \in thread.left /\ Forward[1] = Current
  BY <1>2, <1>3
<1>5. Forward \in Matches /\ Forward[1] \in thread.batch
  BY <1>4 DEF Work, Batch, HasForward, Stands, Batching
<1> QED BY <1>4, <1>5, ConstantsAssumption DEF Forwards

\* The thread has a forward while it is being sent or recorded.
LEMMA ForwardAtHand ==
    ASSUME IInv, Work, HasForward \/ thread.at \in {"Delivered2", "Refused2"}
    PROVE  /\ Forward \in thread.left /\ Forward \in Matches /\ Forward \in Forwards
           /\ Forward[1] = Current /\ Current \in thread.batch
<1>1. CASE thread.at \in {"Delivered2", "Refused2"}
  <2>1. Forward \in thread.left /\ thread.left \subseteq {f \in Matches : f[1] \in thread.batch}
    BY <1>1 DEF Work, Batch, Batching
  <2>2. Forward[1] = Current
    BY DEF Forward
  <2> QED BY <2>1, <2>2, ConstantsAssumption DEF Forwards
<1> QED BY <1>1, ForwardOf

LEMMA TaskOf ==
    ASSUME Work, Flushing, thread.left # <<>>
    PROVE  /\ Task = thread.left[1] /\ 1 \in DOMAIN thread.left /\ Task \in Entries /\ Pending(Task)
           /\ Key(Task) \in Forwards
           /\ Tail(thread.left) \in Seq(Entries)
           /\ \A n \in DOMAIN Tail(thread.left) : /\ n + 1 \in DOMAIN thread.left /\ n \in Nat
                                                  /\ Tail(thread.left)[n] = thread.left[n + 1]
<1>1. thread.left \in Seq(Entries)
  BY DEF Work, Flush
<1>2. /\ Tail(thread.left) \in Seq(Entries)
      /\ Len(Tail(thread.left)) = Len(thread.left) - 1
      /\ \A i \in 1 .. Len(Tail(thread.left)) : Tail(thread.left)[i] = thread.left[i+1]
  BY <1>1, HeadTailProperties
<1>3. Task = thread.left[1] /\ 1 \in DOMAIN thread.left /\ Task \in Entries
  BY <1>1 DEF Task
<1>4. DOMAIN Tail(thread.left) = 1 .. Len(Tail(thread.left)) /\ DOMAIN thread.left = 1 .. Len(thread.left)
      /\ Len(thread.left) \in Nat
  BY <1>1, <1>2
<1>5. \A n \in DOMAIN Tail(thread.left) : n + 1 \in DOMAIN thread.left /\ n \in Nat
  BY <1>2, <1>4
<1>6. Pending(Task) /\ Key(Task) \in Forwards
  BY <1>3, KeysAreForwards DEF Work, Flush
<1> QED BY <1>2, <1>3, <1>4, <1>5, <1>6

LEMMA SettlePendingOf ==
    ASSUME IInv, Work, NEW e \in Entries, NEW is \in {"held", "old", "failed", "sent"}, SettlePending(e, is)
    PROVE  /\ state'.log = Settled(state.log, At(state.log, Key(e), Pending), is)
           /\ disk' = state' /\ state'.watermark = state.watermark
           /\ state'.log \in Seq(Entries)
           /\ DOMAIN state'.log = DOMAIN state.log
           /\ \A i \in DOMAIN state.log : Key(state'.log[i]) = Key(state.log[i])
           /\ \/ state'.log = state.log /\ \A i \in DOMAIN state.log : Key(state.log[i]) = Key(e) => ~Pending(state.log[i])
              \/ \E p \in DOMAIN state.log :
                    /\ Key(state.log[p]) = Key(e) /\ Pending(state.log[p]) /\ state'.log[p].is = is
                    /\ \A i \in DOMAIN state.log \ {p} : state'.log[i] = state.log[i]
<1> DEFINE places == At(state.log, Key(e), Pending)
<1>1. /\ state'.log = Settled(state.log, places, is)
      /\ disk' = state' /\ state'.watermark = state.watermark
  BY DEF SettlePending, Save, UpdatePending, IInv, Saved
<1>2. state.log \in Seq(Entries)
  BY DEF Work, Typed
<1>3. places = {i \in DOMAIN state.log : Key(state.log[i]) = Key(e) /\ Pending(state.log[i])}
  BY <1>2, AtOf
<1> HIDE DEF places
<1>4. places \in SUBSET DOMAIN state.log
  BY <1>3
<1>5. Resolves(state'.log, state.log, places, is)
  BY <1>1, <1>2, <1>4, SettledOf
<1>6. CASE places = {} /\ state'.log = state.log
  BY <1>1, <1>3, <1>5, <1>6 DEF Resolves, places
<1>7. ASSUME NEW p \in places, state'.log[p].is = is,
             \A i \in DOMAIN state.log \ {p} : state'.log[i] = state.log[i]
      PROVE  \E q \in DOMAIN state.log :
                /\ Key(state.log[q]) = Key(e) /\ Pending(state.log[q]) /\ state'.log[q].is = is
                /\ \A i \in DOMAIN state.log \ {q} : state'.log[i] = state.log[i]
  <2>1. p \in DOMAIN state.log /\ Key(state.log[p]) = Key(e) /\ Pending(state.log[p])
    BY <1>3
  <2> QED BY <1>7, <2>1
<1> QED BY <1>1, <1>5, <1>6, <1>7 DEF Resolves, places

LEMMA PushedOf ==
    ASSUME IInv, Work, HasForward \/ thread.at \in {"Delivered2", "Refused2"},
           NEW is \in {"held", "old", "failed", "sent"}, Pushed(is)
    PROVE  LET e == [sms |-> Forward[1], rule |-> Forward[2], is |-> is]
           IN  /\ e \in Entries /\ Key(e) = Forward
               /\ Append(state.log, e) \in Seq(Entries)
               /\ Len(Append(state.log, e)) = Len(state.log) + 1 /\ Append(state.log, e)[Len(state.log) + 1] = e
               /\ \A i \in DOMAIN state.log : Append(state.log, e)[i] = state.log[i]
               /\ state'.log \in Seq(Entries) /\ Within(state'.log, Append(state.log, e))
               /\ state'.watermark = state.watermark
               /\ forgotten' = forgotten \cup Lost(Append(state.log, e), state'.log)
               /\ thread'.left = thread.left \ {Forward} /\ thread'.at = "Batch" /\ thread'.ok = (thread.ok /\ is = "sent")
               /\ thread'.batch = thread.batch /\ thread'.after = thread.after
<1> DEFINE e == [sms |-> Forward[1], rule |-> Forward[2], is |-> is]
<1>1. Forward \in Forwards
  BY ForwardAtHand
<1>2. e \in Entries /\ Key(e) = Forward
  BY <1>1 DEF Entries, Key, Forwards
<1>3. state.log \in Seq(Entries)
  BY DEF Work, Typed
<1>4. /\ state'.log = PushLog(state.log, e) /\ state'.watermark = state.watermark
      /\ forgotten' = forgotten \cup Lost(Append(state.log, e), state'.log)
  BY DEF Pushed, Push, IInv, Saved
<1>5. /\ thread'.left = thread.left \ {Forward} /\ thread'.at = "Batch" /\ thread'.ok = (thread.ok /\ is = "sent")
      /\ thread'.batch = thread.batch /\ thread'.after = thread.after
  BY DEF Pushed, IInv, Thread, Fields
<1> HIDE DEF e
<1>6. state'.log \in Seq(Entries) /\ Within(state'.log, Append(state.log, e))
  BY <1>2, <1>3, <1>4, PushOf
<1>7. /\ Append(state.log, e) \in Seq(Entries)
      /\ Len(Append(state.log, e)) = Len(state.log) + 1 /\ Append(state.log, e)[Len(state.log) + 1] = e
      /\ \A i \in DOMAIN state.log : Append(state.log, e)[i] = state.log[i]
  BY <1>2, <1>3, AppendProperties
<1> QED BY <1>2, <1>4, <1>5, <1>6, <1>7 DEF e

LEMMA RetainedOf ==
    ASSUME IInv, Work, LogClear
    PROVE  /\ state'.log = ClearLog(state.log) /\ state'.log \in Seq(Entries) /\ disk' = state'
           /\ state'.watermark = state.watermark
           /\ Within(state'.log, state.log)
           /\ \A i \in DOMAIN state.log : Pending(state.log[i]) => \E n \in DOMAIN state'.log : state'.log[n] = state.log[i]
<1> DEFINE places == {i \in DOMAIN state.log : KeepEntry(state.log[i], HeldIds(state.log))}
<1>1. state.log \in Seq(Entries) /\ places \in SUBSET DOMAIN state.log
  BY DEF Work, Typed
<1>2. state'.log = Retain(state.log, places) /\ disk' = state' /\ state'.watermark = state.watermark
      /\ state'.log = ClearLog(state.log)
  BY DEF LogClear, Save, ClearLog, IInv, Saved
<1>3. \A i \in DOMAIN state.log : Pending(state.log[i]) => i \in places
  BY DEF KeepEntry
<1> HIDE DEF places
<1>4. /\ Retain(state.log, places) \in Seq(Entries)
      /\ Within(Retain(state.log, places), state.log)
      /\ \A i \in places : \E n \in DOMAIN Retain(state.log, places) : Retain(state.log, places)[n] = state.log[i]
  BY <1>1, RetainOf
<1> QED BY <1>2, <1>3, <1>4

-------------------------------------------------------------------------------
(* Every step keeps that. *)

\* The log and the requests are where they were.
StillLog == UNCHANGED <<state, disk, sent, twice, retry>>

LEMMA StillTyped == ASSUME Work, StillLog PROVE Typed'
BY DEF StillLog, Work, Typed

LEMMA AwayWork ==
    ASSUME Typed', ~Batching', ~Flushing', thread'.batch = {}
    PROVE  Work'
BY DEF Work, Batch, Flush, Batching, Flushing

LEMMA SameWork ==
    ASSUME Work, Typed', UNCHANGED thread, sent \subseteq sent', state'.watermark = state.watermark
    PROVE  Work'
<1>1. Forward' = Forward /\ Task' = Task /\ (Batching' <=> Batching) /\ (Flushing' <=> Flushing)
  BY DEF Forward, Current, Task, Batching, Flushing
<1> QED BY <1>1 DEF Work, Batch, Flush

LEMMA StartWork == ASSUME IInv, Work, Start \/ Poll PROVE Work'
<1>1. Typed'
  <2>1. CASE UNCHANGED <<state, disk>>
    BY <2>1 DEF Start, Poll, Unchanged, Work, Typed
  <2>2. CASE ~UNCHANGED <<state, disk>>
    <3>1. state'.log = state.log /\ disk' = state'
      BY <2>2 DEF Start, Poll, InitWatermark, Save, IInv, Saved
    <3> QED BY <3>1 DEF Start, Poll, Unchanged, Work, Typed
  <2> QED BY <2>1, <2>2
<1>2. ~Batching' /\ ~Flushing' /\ thread'.batch = {}
  <2>1. \/ thread' = Idle
        \/ thread' = [Idle EXCEPT !.at = "Fetch", !.after = state'.watermark]
    BY DEF Start, Poll
  <2>2. thread'.at \in {"Loop", "Fetch"} /\ thread'.batch = {}
    <3>1. CASE thread' = Idle
      BY <3>1 DEF Idle
    <3>2. CASE thread' = [Idle EXCEPT !.at = "Fetch", !.after = state'.watermark]
      BY <3>2 DEF Idle
    <3> QED BY <2>1, <3>1, <3>2
  <2> QED BY <2>2 DEF Batching, Flushing
<1> QED BY <1>1, <1>2, AwayWork

LEMMA TakeEventWork == ASSUME IInv, Work, TakeEvent PROVE Work'
<1>1. Typed'
  BY StillTyped DEF TakeEvent, Unchanged, history, StillLog
<1>2. ~Batching' /\ ~Flushing' /\ thread'.batch = {}
  BY DEF TakeEvent, Stands, Idle, Batching, Flushing, Work, Batch
<1> QED BY <1>1, <1>2, AwayWork

LEMMA TimeoutOf ==
    ASSUME IInv, Work, NEW poll, Timeout(poll)
    PROVE  /\ thread'.at = "Flush" /\ thread'.batch = {} /\ thread'.left \in Seq(Entries)
           /\ Within(thread'.left, state.log)
           /\ \A n \in DOMAIN thread'.left : \E i \in DOMAIN state.log :
                 Pending(state.log[i]) /\ thread'.left[n] = state.log[i]
<1> DEFINE places == {i \in DOMAIN state.log : Pending(state.log[i])}
<1>1. thread'.at = "Flush" /\ thread'.batch = {} /\ thread'.left = Retain(state.log, places)
  BY DEF Timeout, Idle
<1>2. state.log \in Seq(Entries) /\ places \in SUBSET DOMAIN state.log
  BY DEF Work, Typed
<1>3. \A i \in places : i \in DOMAIN state.log /\ Pending(state.log[i])
  OBVIOUS
<1> HIDE DEF places
<1>4. /\ Retain(state.log, places) \in Seq(Entries)
      /\ Within(Retain(state.log, places), state.log)
      /\ \A n \in DOMAIN Retain(state.log, places) : \E i \in places : Retain(state.log, places)[n] = state.log[i]
  BY <1>2, RetainOf
<1> QED BY <1>1, <1>3, <1>4

LEMMA TimeoutWork == ASSUME IInv, Work, NEW poll, Timeout(poll) PROVE Work'
<1>1. Typed'
  BY StillTyped DEF Timeout, history, StillLog
<1>2. thread'.at = "Flush" /\ thread'.batch = {} /\ thread'.left \in Seq(Entries)
      /\ \A n \in DOMAIN thread'.left : Pending(thread'.left[n])
  BY TimeoutOf
<1> QED BY <1>1, <1>2 DEF Work, Batch, Flush, Batching, Flushing

LEMMA FlushNextWork ==
    ASSUME IInv, Work, Typed', Flushing, thread.left # <<>>, FlushNext
    PROVE  Work'
<1>1. thread'.at = "Flush" /\ thread'.left = Tail(thread.left) /\ thread'.batch = thread.batch
  BY DEF FlushNext, IInv, Thread, Fields
<1>2. thread.batch = {}
  BY DEF Work, Batch, Batching, Flushing
<1>3. /\ Tail(thread.left) \in Seq(Entries)
      /\ \A n \in DOMAIN Tail(thread.left) :
            n + 1 \in DOMAIN thread.left /\ Tail(thread.left)[n] = thread.left[n + 1]
  BY TaskOf
<1>4. \A n \in DOMAIN thread'.left : Pending(thread'.left[n])
  BY <1>1, <1>3 DEF Work, Flush
<1> QED BY <1>1, <1>2, <1>3, <1>4 DEF Work, Batch, Flush, Batching, Flushing

LEMMA SettleTyped ==
    ASSUME IInv, Work, NEW e \in Entries, NEW is \in {"held", "old", "failed", "sent"}, SettlePending(e, is),
           UNCHANGED <<sent, twice, retry>>
    PROVE  Typed'
<1>1. state'.log \in Seq(Entries) /\ disk' = state'
  BY SettlePendingOf
<1> QED BY <1>1 DEF Work, Typed

LEMMA FlushWork ==
    ASSUME IInv, Work, FlushWaits \/ FlushSettles \/ FlushRecords
    PROVE  Work'
<1>1. Flushing /\ thread.left # <<>> /\ FlushNext
  BY DEF FlushWaits, FlushSettles, FlushRecords, Stands, Flushing, Work, Flush
<1>2. Task \in Entries /\ Pending(Task)
  BY <1>1, TaskOf
<1>3. Task.is \in {"held", "old", "failed", "sent"}
  BY <1>2 DEF Entries
<1>4. Typed'
  <2>1. CASE FlushWaits
    BY <2>1, StillTyped DEF FlushWaits, Unchanged, history, StillLog
  <2>2. CASE FlushSettles \/ FlushRecords
    <3>1. PICK is \in {"held", "old", "failed", "sent"} : SettlePending(Task, is)
      BY <1>3, <2>2 DEF FlushSettles, FlushRecords
    <3>2. UNCHANGED <<sent, twice, retry>>
      BY <2>2 DEF FlushSettles, FlushRecords, Unchanged, history
    <3> QED BY <1>2, <3>1, <3>2, SettleTyped
  <2> QED BY <2>1, <2>2
<1> QED BY <1>1, <1>4, FlushNextWork

LEMMA DeliverTyped ==
    ASSUME Work, UNCHANGED <<state, disk, retry>>, NEW key \in Forwards,
           Deliver(key) \/ UNCHANGED <<sent, twice>>
    PROVE  Typed' /\ sent \subseteq sent'
BY DEF Deliver, Work, Typed

LEMMA FlushSendsWork == ASSUME IInv, Work, FlushSends PROVE Work'
<1>1. Flushing /\ thread.left # <<>> /\ thread.at = "Flush"
  BY DEF FlushSends, Stands, Flushing
<1>2. Key(Task) \in Forwards
  BY <1>1, TaskOf
<1>3. UNCHANGED <<state, disk, retry>> /\ (Deliver(Key(Task)) \/ UNCHANGED <<sent, twice>>)
  BY DEF FlushSends, Unchanged
<1>4. Typed'
  BY <1>2, <1>3, DeliverTyped
<1>5. thread'.left = thread.left /\ thread'.batch = thread.batch
  BY DEF FlushSends, IInv, Thread, Fields
<1>6. \/ thread'.at = "Delivered" /\ sent' = sent \cup {Key(Task)}
      \/ thread'.at = "Refused"
  BY DEF FlushSends, Deliver, IInv, Thread, Fields
<1>7. Task' = Task
  BY <1>5 DEF Task
<1> QED BY <1>1, <1>4, <1>5, <1>6, <1>7 DEF Work, Batch, Flush, Batching, Flushing

LEMMA FlushEndsWork == ASSUME IInv, Work, FlushEnds PROVE Work'
<1>1. Typed'
  BY StillTyped DEF FlushEnds, Unchanged, history, StillLog
<1>2. ~Batching' /\ ~Flushing' /\ thread'.batch = {}
  BY DEF FlushEnds, Idle, Batching, Flushing, IInv, Thread
<1> QED BY <1>1, <1>2, AwayWork

LEMMA FetchOf ==
    ASSUME IInv, Work, Fetch
    PROVE  \/ thread' = Idle /\ UNCHANGED waived
           \/ /\ thread'.at = "Batch" /\ thread'.after = thread.after /\ thread.after = state.watermark
              /\ \A m \in thread'.batch : m \in Messages /\ thread.after < m
              /\ thread'.left \subseteq {f \in Matches : f[1] \in thread'.batch}
              /\ thread'.ok = thread.ok
              /\ \A f \in Matches : f[1] \in thread'.batch => f \in thread'.left \cup waived'
<1>1. thread.after \in Nat /\ Messages \subseteq Nat
  BY Numbers
<1>2. PICK read \in SUBSET device.there :
         LET batch == {m \in read : m > thread.after}
             on == {r \in Rules : config.rules[r] = "on"}
         IN  IF batch = {} \/ on = {}
             THEN thread' = Idle /\ UNCHANGED <<overlooked, waived>>
             ELSE /\ thread' = [thread EXCEPT !.at = "Batch", !.config = config, !.batch = batch,
                                   !.left = {f \in Matches : f[1] \in batch /\ f[2] \in on}]
                  /\ waived' = waived \cup {x \in Matches : x[1] \in batch /\ x[2] \notin on}
  BY DEF Fetch
<1> DEFINE batch == {m \in read : m > thread.after}
           on == {r \in Rules : config.rules[r] = "on"}
<1>3. CASE batch = {} \/ on = {}
  BY <1>2, <1>3
<1>4. CASE ~(batch = {} \/ on = {})
  <2>1. /\ thread' = [thread EXCEPT !.at = "Batch", !.config = config, !.batch = batch,
                         !.left = {f \in Matches : f[1] \in batch /\ f[2] \in on}]
        /\ waived' = waived \cup {x \in Matches : x[1] \in batch /\ x[2] \notin on}
    BY <1>2, <1>4
  <2>2. /\ thread'.at = "Batch" /\ thread'.after = thread.after /\ thread'.batch = batch /\ thread'.ok = thread.ok
        /\ thread'.left = {f \in Matches : f[1] \in batch /\ f[2] \in on}
    BY <2>1 DEF IInv, Thread, Fields
  <2>3. thread.after = state.watermark
    BY DEF Fetch, Stands, IInv, Thread
  <2>4. \A m \in batch : m \in Messages /\ thread.after < m
    <3>1. batch \subseteq Messages
      BY DEF IInv, Device
    <3> QED BY <1>1, <3>1
  <2> HIDE DEF batch, on
  <2> QED BY <2>1, <2>2, <2>3, <2>4
<1> QED BY <1>3, <1>4

LEMMA FetchWork == ASSUME IInv, Work, Fetch PROVE Work'
<1>1. Typed'
  BY StillTyped DEF Fetch, Unchanged, StillLog
<1>2. CASE thread' = Idle
  <2>1. ~Batching' /\ ~Flushing' /\ thread'.batch = {}
    BY <1>2 DEF Idle, Batching, Flushing
  <2> QED BY <1>1, <2>1, AwayWork
<1>3. CASE /\ thread'.at = "Batch" /\ thread'.after = thread.after /\ thread.after = state.watermark
           /\ \A m \in thread'.batch : m \in Messages /\ thread.after < m
           /\ thread'.left \subseteq {f \in Matches : f[1] \in thread'.batch}
  <2>1. state' = state /\ state.watermark \in Nat
    BY Numbers DEF Fetch
  <2> QED BY <1>1, <1>3, <2>1 DEF Work, Batch, Flush, Batching, Flushing
<1> QED BY <1>2, <1>3, FetchOf

LEMMA PushedWork ==
    ASSUME IInv, Work, HasForward \/ thread.at \in {"Delivered2", "Refused2"},
           NEW is \in {"held", "old", "failed", "sent"}, Pushed(is), UNCHANGED <<disk, sent, twice, retry>>
    PROVE  Work'
<1>1. /\ state'.log \in Seq(Entries) /\ state'.watermark = state.watermark
      /\ thread'.left = thread.left \ {Forward} /\ thread'.at = "Batch"
      /\ thread'.batch = thread.batch /\ thread'.after = thread.after
  BY PushedOf
<1>2. Typed'
  BY <1>1 DEF Work, Typed
<1>3. Batching
  BY DEF HasForward, Stands, Batching
<1> QED BY <1>1, <1>2, <1>3 DEF Work, Batch, Flush, Batching, Flushing

LEMMA SendForwardWork == ASSUME IInv, Work, SendForward PROVE Work'
<1>1. HasForward
  BY DEF SendForward
<1>2. Forward \in Forwards /\ Forward \in thread.left
  BY <1>1, ForwardOf
<1>3. UNCHANGED <<state, disk, retry>> /\ (Deliver(Forward) \/ UNCHANGED <<sent, twice>>)
  BY DEF SendForward, Unchanged
<1>4. Typed'
  BY <1>2, <1>3, DeliverTyped
<1>5. thread'.left = thread.left /\ thread'.batch = thread.batch /\ thread'.after = thread.after
  BY DEF SendForward, IInv, Thread, Fields
<1>6. \/ thread'.at = "Delivered2" /\ sent' = sent \cup {Forward}
      \/ thread'.at = "Refused2"
  BY DEF SendForward, Deliver, IInv, Thread, Fields
<1>7. Forward' = Forward
  BY <1>5 DEF Forward, Current
<1>8. Batching
  BY <1>1 DEF HasForward, Stands, Batching
<1> QED BY <1>2, <1>3, <1>4, <1>5, <1>6, <1>7, <1>8 DEF Work, Batch, Flush, Batching, Flushing

LEMMA ForwardWork == ASSUME IInv, Work, HoldForward \/ SendForward \/ RecordForward PROVE Work'
<1>1. CASE HoldForward \/ RecordForward
  <2>1. HasForward \/ thread.at \in {"Delivered2", "Refused2"}
    BY <1>1 DEF HoldForward, RecordForward, Stands
  <2>2. \E is \in {"held", "old", "failed", "sent"} : Pushed(is)
    BY <1>1 DEF HoldForward, RecordForward
  <2>3. UNCHANGED <<disk, sent, twice, retry>>
    BY <1>1 DEF HoldForward, RecordForward, Unchanged
  <2> QED BY <2>1, <2>2, <2>3, PushedWork
<1> QED BY <1>1, SendForwardWork

LEMMA FinishMessageOf ==
    ASSUME IInv, Work, FinishMessage
    PROVE  /\ Current \in thread.batch /\ Current \in Nat /\ \A m \in thread.batch : m \in Nat /\ Current <= m
           /\ thread'.batch = thread.batch \ {Current} /\ thread'.after = Current /\ thread'.ok = TRUE
           /\ thread'.left = thread.left /\ thread'.at = "Batch" /\ thread.at = "Batch"
           /\ \A f \in thread.left : f \in Matches /\ f[1] \in thread.batch \ {Current}
           /\ \A f \in Matches : f[1] = Current => f \notin thread.left
<1>1. Current \in thread.batch /\ \A m \in thread.batch : Current <= m
  BY CurrentOf DEF FinishMessage
<1>2. /\ thread'.batch = thread.batch \ {Current} /\ thread'.after = Current /\ thread'.ok = TRUE
      /\ thread'.left = thread.left /\ thread'.at = "Batch" /\ thread.at = "Batch"
  BY DEF FinishMessage, Stands, IInv, Thread, Fields
<1>3. ASSUME NEW f \in Matches, f[1] = Current, f \in thread.left PROVE FALSE
  <2>1. f = <<Current, f[2]>> /\ f[2] \in Rules
    BY <1>3, ConstantsAssumption
  <2> QED BY <1>2, <1>3, <2>1 DEF FinishMessage, HasForward, Stands
<1>4. \A f \in thread.left : f \in Matches /\ f[1] \in thread.batch
  BY <1>2 DEF Work, Batch, Batching
<1>5. thread.batch \subseteq Nat
  BY Numbers
<1> QED BY <1>1, <1>2, <1>3, <1>4, <1>5

LEMMA FinishMessageWork == ASSUME IInv, Work, FinishMessage PROVE Work'
<1>1. Typed'
  BY StillTyped DEF FinishMessage, Unchanged, StillLog
<1>2. /\ Current \in thread.batch /\ Current \in Nat /\ \A m \in thread.batch : m \in Nat /\ Current <= m
      /\ thread'.batch = thread.batch \ {Current} /\ thread'.after = Current
      /\ thread'.left = thread.left /\ thread'.at = "Batch" /\ thread.at = "Batch"
      /\ \A f \in thread.left : f \in Matches /\ f[1] \in thread.batch \ {Current}
  BY FinishMessageOf
<1>3. state' = state /\ state.watermark \in Nat /\ thread.after \in Nat
  BY Numbers DEF FinishMessage
<1>4. state.watermark <= thread.after /\ thread.after < Current
  BY <1>2 DEF Work, Batch, Batching
<1>5. state'.watermark <= thread'.after /\ \A m \in thread'.batch : thread'.after < m
  BY <1>2, <1>3, <1>4
<1> QED BY <1>1, <1>2, <1>5 DEF Work, Batch, Flush, Batching, Flushing

LEMMA FinishBatchWork == ASSUME IInv, Work, FinishBatch PROVE Work'
<1>1. state'.log = state.log /\ disk' = state'
  BY DEF FinishBatch, Save, IInv, Saved
<1>2. Typed'
  BY <1>1 DEF FinishBatch, Unchanged, history, Work, Typed
<1>3. ~Batching' /\ ~Flushing' /\ thread'.batch = {}
  BY DEF FinishBatch, Idle, Batching, Flushing
<1> QED BY <1>2, <1>3, AwayWork

LEMMA OutsideWork ==
    ASSUME IInv, Work, WanEvent \/ WanSettles \/ ServiceEvent \/ Arrive \/ Configure \/ UNCHANGED vars
    PROVE  Work'
<1>1. StillLog /\ UNCHANGED thread
  BY DEF WanEvent, WanSettles, ServiceEvent, Arrive, Configure, vars, Elsewhere, Unchanged, history, StillLog
<1> QED BY <1>1, StillTyped, SameWork DEF StillLog

\* What growing old does to a log.
Aged(log) == [i \in DOMAIN log |-> IF log[i].is = "held" THEN [log[i] EXCEPT !.is = "old"] ELSE log[i]]

LEMMA AgedOf ==
    ASSUME NEW log \in Seq(Entries)
    PROVE  /\ Aged(log) \in Seq(Entries) /\ DOMAIN Aged(log) = DOMAIN log
           /\ \A i \in DOMAIN log :
                 /\ Key(Aged(log)[i]) = Key(log[i]) /\ (Pending(Aged(log)[i]) <=> Pending(log[i]))
                 /\ Aged(log)[i].sms = log[i].sms
                 /\ (Aged(log)[i].is = "sent" <=> log[i].is = "sent")
                 /\ (Aged(log)[i].is = "failed" <=> log[i].is = "failed")
<1>1. DOMAIN log = 1 .. Len(log) /\ Len(log) \in Nat
  OBVIOUS
<1>2. DOMAIN Aged(log) = DOMAIN log
  BY DEF Aged
<1>3. ASSUME NEW i \in DOMAIN log
      PROVE  /\ Aged(log)[i] \in Entries
             /\ Key(Aged(log)[i]) = Key(log[i]) /\ (Pending(Aged(log)[i]) <=> Pending(log[i]))
             /\ Aged(log)[i].sms = log[i].sms
             /\ (Aged(log)[i].is = "sent" <=> log[i].is = "sent")
             /\ (Aged(log)[i].is = "failed" <=> log[i].is = "failed")
  <2>1. log[i] \in Entries
    OBVIOUS
  <2>2. Aged(log)[i] = IF log[i].is = "held" THEN [log[i] EXCEPT !.is = "old"] ELSE log[i]
    BY DEF Aged
  <2> QED BY <2>1, <2>2 DEF Entries, Key, Pending
<1>4. Aged(log) = [i \in 1 .. Len(log) |-> Aged(log)[i]]
  BY <1>1 DEF Aged
<1>5. Aged(log) \in Seq(Entries)
  BY <1>1, <1>3, <1>4
<1> QED BY <1>2, <1>3, <1>5

LEMMA HoldExpiresOf ==
    ASSUME IInv, Work, HoldExpires
    PROVE  /\ state'.log = Aged(state.log) /\ disk'.log = Aged(disk.log)
           /\ state'.watermark = state.watermark /\ disk'.watermark = disk.watermark
           /\ UNCHANGED <<sent, twice, retry, excused, waived, forgotten, device>>
           /\ thread'.at = thread.at /\ thread'.batch = thread.batch /\ thread'.after = thread.after /\ thread'.ok = thread.ok
           /\ thread'.left = IF Flushing THEN Aged(thread.left) ELSE thread.left
BY DEF HoldExpires, Aged, Unchanged, history, IInv, Saved, Thread, Fields, Flushing

LEMMA HoldExpiresWork == ASSUME IInv, Work, HoldExpires PROVE Work'
<1>1. /\ state'.log = Aged(state.log) /\ disk'.log = Aged(disk.log)
      /\ state'.watermark = state.watermark /\ UNCHANGED <<sent, twice, retry>>
      /\ thread'.at = thread.at /\ thread'.batch = thread.batch /\ thread'.after = thread.after
      /\ thread'.left = IF Flushing THEN Aged(thread.left) ELSE thread.left
  BY HoldExpiresOf
<1>2. Typed'
  <2>1. state'.log \in Seq(Entries) /\ disk'.log \in Seq(Entries)
    BY <1>1, AgedOf DEF Work, Typed
  <2> QED BY <1>1, <2>1 DEF Work, Typed
<1>3. (Batching' <=> Batching) /\ (Flushing' <=> Flushing)
  BY <1>1 DEF Batching, Flushing
<1>4. CASE Flushing
  <2>1. thread.left \in Seq(Entries) /\ \A n \in DOMAIN thread.left : Pending(thread.left[n])
    BY <1>4 DEF Work, Flush
  <2>2. /\ Aged(thread.left) \in Seq(Entries) /\ DOMAIN Aged(thread.left) = DOMAIN thread.left
        /\ \A i \in DOMAIN thread.left : /\ Key(Aged(thread.left)[i]) = Key(thread.left[i])
                                         /\ (Pending(Aged(thread.left)[i]) <=> Pending(thread.left[i]))
    BY <2>1, AgedOf
  <2>3. \A n \in DOMAIN thread'.left : Pending(thread'.left[n])
    BY <1>1, <1>4, <2>1, <2>2
  <2>4. ASSUME thread.left # <<>>
        PROVE  thread'.left # <<>> /\ Key(Task') = Key(Task)
    <3>1. 1 \in DOMAIN thread.left /\ Task = thread.left[1]
      BY <1>4, <2>4, TaskOf
    <3>2. Task' = Aged(thread.left)[1] /\ thread'.left # <<>>
      BY <1>1, <1>4, <2>2, <3>1 DEF Task
    <3> QED BY <2>2, <3>1, <3>2
  <2>5. ~Batching
    BY <1>4 DEF Batching, Flushing
  <2> QED BY <1>1, <1>2, <1>3, <1>4, <2>2, <2>3, <2>4, <2>5 DEF Work, Batch, Flush, Batching, Flushing
<1>5. CASE ~Flushing
  <2>1. Forward' = Forward
    BY <1>1, <1>5 DEF Forward, Current
  <2> QED BY <1>1, <1>2, <1>3, <1>5, <2>1 DEF Work, Batch, Flush, Flushing
<1> QED BY <1>4, <1>5

LEMMA LogClearWork == ASSUME IInv, Work, LogClear PROVE Work'
<1>1. state'.log \in Seq(Entries) /\ disk' = state' /\ state'.watermark = state.watermark
  BY RetainedOf
<1>2. UNCHANGED <<thread, sent, twice, retry>>
  BY DEF LogClear, Unchanged
<1>3. Typed'
  BY <1>1, <1>2 DEF Work, Typed
<1> QED BY <1>1, <1>2, <1>3, SameWork

LEMMA RestartWork == ASSUME IInv, Work, Restart PROVE Work'
<1>1. state' = disk /\ disk' = disk /\ sent' = sent /\ twice' = twice /\ retry' = [h \in Handlers |-> None]
  BY DEF Restart
<1>2. Typed'
  BY <1>1 DEF Work, Typed
<1>3. ~Batching' /\ ~Flushing' /\ thread'.batch = {}
  BY DEF Restart, Idle, Batching, Flushing
<1> QED BY <1>2, <1>3, AwayWork

\* A manual retry picks a failed entry.
LEMMA RetryForwardOf ==
    ASSUME IInv, Work, RetryForward
    PROVE  \E h \in Handlers, i \in DOMAIN state.log, ok \in BOOLEAN :
              /\ retry[h] = None /\ state.log[i] \in Entries /\ state.log[i].is = "failed"
              /\ [entry |-> state.log[i], ok |-> ok, fresh |-> TRUE] \in Attempt
              /\ DOMAIN retry' = Handlers /\ \A x \in Handlers \ {h} : retry'[x] = retry[x]
              /\ retry'[h] = [entry |-> state.log[i], ok |-> ok, fresh |-> TRUE] /\ retry'[h] # None
              /\ IF ok THEN Deliver(Key(state.log[i])) ELSE UNCHANGED <<sent, twice>>
              /\ excused' = IF Attempts(Key(state.log[i])) = {} THEN excused ELSE excused \cup {Key(state.log[i])}
<1>1. PICK h \in Handlers, e \in ToSet(state.log), ok \in BOOLEAN :
          /\ retry[h] = None /\ Retriable(e)
          /\ retry' = [retry EXCEPT ![h] = [entry |-> e, ok |-> ok, fresh |-> TRUE]]
          /\ IF ok THEN Deliver(Key(e)) ELSE UNCHANGED <<sent, twice>>
          /\ excused' = IF Attempts(Key(e)) = {} THEN excused ELSE excused \cup {Key(e)}
  BY DEF RetryForward
<1>2. PICK i \in DOMAIN state.log : e = state.log[i]
  BY DEF ToSet
<1>3. e \in Entries /\ e.is = "failed"
  BY <1>1, <1>2 DEF Work, Typed, Retriable
<1>4. [entry |-> e, ok |-> ok, fresh |-> TRUE] \in Attempt
  BY <1>3 DEF Attempt
<1>5. DOMAIN retry' = Handlers /\ (\A x \in Handlers \ {h} : retry'[x] = retry[x])
      /\ retry'[h] = [entry |-> e, ok |-> ok, fresh |-> TRUE]
  BY <1>1 DEF Work, Typed
<1>6. retry'[h] # None
  BY <1>4, <1>5, NoneAssumption
<1> QED BY <1>1, <1>2, <1>3, <1>4, <1>5, <1>6

LEMMA RetryForwardWork == ASSUME IInv, Work, RetryForward PROVE Work'
<1>1. PICK h \in Handlers, i \in DOMAIN state.log, ok \in BOOLEAN :
          /\ state.log[i] \in Entries
          /\ [entry |-> state.log[i], ok |-> ok, fresh |-> TRUE] \in Attempt
          /\ DOMAIN retry' = Handlers /\ \A x \in Handlers \ {h} : retry'[x] = retry[x]
          /\ retry'[h] = [entry |-> state.log[i], ok |-> ok, fresh |-> TRUE]
          /\ IF ok THEN Deliver(Key(state.log[i])) ELSE UNCHANGED <<sent, twice>>
  BY RetryForwardOf
<1>2. Key(state.log[i]) \in Forwards
  BY <1>1, KeysAreForwards
<1>3. sent' \subseteq Forwards /\ twice' \subseteq Forwards /\ sent \subseteq sent' /\ (ok => Key(state.log[i]) \in sent')
  BY <1>1, <1>2 DEF Deliver, Work, Typed
<1>4. UNCHANGED <<state, disk, thread>>
  BY DEF RetryForward, Elsewhere
<1>5. \A x \in Handlers : retry'[x] # None =>
         retry'[x] \in Attempt /\ (retry'[x].ok => Key(retry'[x].entry) \in sent')
  <2> TAKE x \in Handlers
  <2>1. CASE x = h
    <3>1. retry'[h] \in Attempt
      BY <1>1
    <3>2. retry'[h].ok = ok /\ retry'[h].entry = state.log[i]
      BY <1>1
    <3> QED BY <1>3, <2>1, <3>1, <3>2
  <2>2. CASE x # h
    BY <1>1, <1>3, <2>2 DEF Work, Typed
  <2> QED BY <2>1, <2>2
<1>6. Typed'
  BY <1>1, <1>3, <1>4, <1>5 DEF Work, Typed
<1> QED BY <1>3, <1>4, <1>6, SameWork

\* It records the outcome in the log, if it finds the entry.
LEMMA RetryRecordsOf ==
    ASSUME IInv, Work, RetryRecords
    PROVE  \E h \in Handlers :
              /\ retry[h] # None /\ retry[h] \in Attempt /\ Key(retry[h].entry) \in Forwards
              /\ disk' = state' /\ state'.watermark = state.watermark /\ state'.log \in Seq(Entries)
              /\ DOMAIN state'.log = DOMAIN state.log
              /\ \A i \in DOMAIN state.log : Key(state'.log[i]) = Key(state.log[i])
              /\ \/ /\ state'.log = state.log
                    /\ \/ ~retry[h].ok \/ ~retry[h].fresh
                       \/ \A i \in DOMAIN state.log :
                             Key(state.log[i]) = Key(retry[h].entry) => state.log[i].is # "failed"
                 \/ /\ retry[h].ok
                    /\ \E p \in DOMAIN state.log :
                          /\ Key(state.log[p]) = Key(retry[h].entry) /\ state.log[p].is = "failed"
                          /\ state'.log[p].is = "sent"
                          /\ \A i \in DOMAIN state.log \ {p} : state'.log[i] = state.log[i]
              /\ DOMAIN retry' = Handlers /\ retry'[h] = None
              /\ \A x \in Handlers \ {h} :
                    \/ retry'[x] = retry[x]
                    \/ x \in Attempts(Key(retry[h].entry)) /\ retry'[x] = [retry[x] EXCEPT !.fresh = FALSE]
<1>1. PICK h \in Handlers :
          /\ retry[h] # None
          /\ LET key == Key(retry[h].entry)
                 found == At(state.log, key, Retriable)
             IN  \E places \in {found} \cup (IF retry[h].fresh THEN {} ELSE {{}}) :
                    /\ Save([state EXCEPT !.log = IF retry[h].ok THEN Settled(@, places, "sent") ELSE @])
                    /\ retry' = [x \in Handlers |->
                          IF x = h THEN None
                          ELSE IF x \in Attempts(key) /\ places # {} THEN [retry[x] EXCEPT !.fresh = FALSE]
                          ELSE retry[x]]
  BY DEF RetryRecords
<1> DEFINE key == Key(retry[h].entry)
           found == {i \in DOMAIN state.log : Key(state.log[i]) = key /\ Retriable(state.log[i])}
<1>2. state.log \in Seq(Entries) /\ retry[h] \in Attempt
  BY <1>1 DEF Work, Typed
<1>3. At(state.log, key, Retriable) = found
  BY <1>2, AtOf
<1>4. PICK places \in {found} \cup (IF retry[h].fresh THEN {} ELSE {{}}) :
         /\ Save([state EXCEPT !.log = IF retry[h].ok THEN Settled(@, places, "sent") ELSE @])
         /\ retry' = [x \in Handlers |->
                          IF x = h THEN None
                          ELSE IF x \in Attempts(key) /\ places # {} THEN [retry[x] EXCEPT !.fresh = FALSE]
                          ELSE retry[x]]
  BY <1>1, <1>3
<1>5. key \in Forwards
  BY <1>2, KeysAreForwards DEF Attempt
<1>6. /\ state'.log = IF retry[h].ok THEN Settled(state.log, places, "sent") ELSE state.log
      /\ disk' = state' /\ state'.watermark = state.watermark
  BY <1>4 DEF Save, IInv, Saved
<1>7. /\ places \in SUBSET DOMAIN state.log
      /\ \A p \in places : Key(state.log[p]) = key /\ state.log[p].is = "failed"
  BY DEF Retriable
<1>8. places = {} => \/ ~retry[h].fresh
                     \/ \A i \in DOMAIN state.log : Key(state.log[i]) = key => state.log[i].is # "failed"
  BY DEF Retriable
<1>9. /\ DOMAIN retry' = Handlers /\ retry'[h] = None
      /\ \A x \in Handlers \ {h} :
            \/ retry'[x] = retry[x]
            \/ x \in Attempts(key) /\ retry'[x] = [retry[x] EXCEPT !.fresh = FALSE]
  BY <1>4
<1> HIDE DEF key, found
<1>10. CASE ~retry[h].ok
  BY <1>1, <1>2, <1>5, <1>6, <1>9, <1>10 DEF key
<1>11. CASE retry[h].ok
  <2>1. Resolves(state'.log, state.log, places, "sent")
    BY <1>2, <1>6, <1>7, <1>11, SettledOf
  <2>2. /\ state'.log \in Seq(Entries) /\ DOMAIN state'.log = DOMAIN state.log
        /\ \A i \in DOMAIN state.log : Key(state'.log[i]) = Key(state.log[i])
    BY <2>1 DEF Resolves
  <2>3. CASE places = {} /\ state'.log = state.log
    BY <1>1, <1>2, <1>5, <1>6, <1>8, <1>9, <2>2, <2>3 DEF key
  <2>4. CASE \E p \in places :
                /\ state'.log[p].is = "sent" /\ \A i \in DOMAIN state.log \ {p} : state'.log[i] = state.log[i]
    <3>1. \E p \in DOMAIN state.log :
             /\ Key(state.log[p]) = key /\ state.log[p].is = "failed" /\ state'.log[p].is = "sent"
             /\ \A i \in DOMAIN state.log \ {p} : state'.log[i] = state.log[i]
      BY <1>7, <2>4
    <3> QED BY <1>1, <1>2, <1>5, <1>6, <1>9, <1>11, <2>2, <3>1 DEF key
  <2> QED BY <2>1, <2>3, <2>4 DEF Resolves
<1> QED BY <1>10, <1>11

LEMMA RetryRecordsWork == ASSUME IInv, Work, RetryRecords PROVE Work'
<1>1. PICK h \in Handlers :
         /\ disk' = state' /\ state'.watermark = state.watermark /\ state'.log \in Seq(Entries)
         /\ DOMAIN retry' = Handlers /\ retry'[h] = None
         /\ \A x \in Handlers \ {h} :
               \/ retry'[x] = retry[x]
               \/ x \in Attempts(Key(retry[h].entry)) /\ retry'[x] = [retry[x] EXCEPT !.fresh = FALSE]
  BY RetryRecordsOf
<1>2. UNCHANGED <<thread, sent, twice>>
  BY DEF RetryRecords, history
<1>3. ASSUME NEW x \in Handlers, retry'[x] # None
      PROVE  retry'[x] \in Attempt /\ (retry'[x].ok => Key(retry'[x].entry) \in sent)
  <2>1. x # h
    BY <1>1, <1>3
  <2>2. CASE retry'[x] = retry[x]
    BY <1>3, <2>2 DEF Work, Typed
  <2>3. CASE x \in Attempts(Key(retry[h].entry)) /\ retry'[x] = [retry[x] EXCEPT !.fresh = FALSE]
    <3>1. retry[x] \in Attempt /\ (retry[x].ok => Key(retry[x].entry) \in sent)
      BY <2>3 DEF Attempts, Work, Typed
    <3> QED BY <2>3, <3>1 DEF Attempt
  <2> QED BY <1>1, <2>1, <2>2, <2>3
<1>4. Typed'
  BY <1>1, <1>2, <1>3 DEF Work, Typed
<1> QED BY <1>1, <1>2, <1>4, SameWork

LEMMA NextWork == ASSUME IInv, Work, [Next]_vars PROVE Work'
<1>1. CASE Run
  <2>1. CASE FlushSettles \/ FlushRecords \/ FlushWaits
    BY <2>1, FlushWork
  <2>2. CASE HoldForward \/ SendForward \/ RecordForward
    BY <2>2, ForwardWork
  <2> QED BY <1>1, <2>1, <2>2, StartWork, TakeEventWork, FetchWork, FlushSendsWork, FlushEndsWork,
             FinishMessageWork, FinishBatchWork DEF Run
<1>2. CASE Recheck \/ FallbackPoll
  BY <1>2, TimeoutWork DEF Recheck, FallbackPoll
<1> QED BY <1>1, <1>2, OutsideWork, HoldExpiresWork, LogClearWork, RetryForwardWork, RetryRecordsWork,
           RestartWork DEF Next

-------------------------------------------------------------------------------
(* A forward is delivered once: what must be so of a forward that is not   *)
(* excused.                                                                *)

Has(log, f) == \E i \in DOMAIN log : Key(log[i]) = f
OnceIn(log, f) == \A i, j \in DOMAIN log : Key(log[i]) = f /\ Key(log[j]) = f => i = j
Reached(f) == f[1] <= state.watermark \/ (Batching /\ (f[1] <= thread.after \/ f[1] \in thread.batch))
InFlight(f) ==
    \/ thread.at = "Delivered" /\ Key(Task) = f
    \/ \E h \in Attempts(f) : retry[h].ok

\* It has one entry, which is unsent after a delivery only while the outcome is on its way.
Once(f) == OnceIn(state.log, f) /\ OnceIn(disk.log, f)
SentIsKnown(f) ==
    \A i \in DOMAIN state.log : Key(state.log[i]) = f /\ state.log[i].is # "sent" /\ f \in sent => InFlight(f)

\* What is sent, logged or tried belongs to a message that is done or in the batch.
KnownIsReached(f) == f \in sent \/ Has(state.log, f) \/ Attempts(f) # {} => Reached(f)

\* What the thread has still to do: in a batch it is new, in a flush it is held.
LeftIsNew(f) ==
    Batching /\ f \in thread.left =>
        /\ ~Has(state.log, f) /\ Attempts(f) = {}
        /\ f \in sent => thread.at = "Delivered2" /\ f = Forward
LeftIsHeld(f) ==
    Flushing =>
        /\ OnceIn(thread.left, f)
        /\ Has(thread.left, f) => \E i \in DOMAIN state.log : Key(state.log[i]) = f /\ Pending(state.log[i])

\* What is retried by hand is retried once, and is failed meanwhile.
TriedHasFailed(f) ==
    \A h \in Attempts(f) :
        /\ retry[h].fresh /\ Attempts(f) = {h}
        /\ \A i \in DOMAIN state.log : Key(state.log[i]) = f => state.log[i].is = "failed"

Orderly(f) ==
    /\ Once(f) /\ SentIsKnown(f) /\ KnownIsReached(f) /\ LeftIsNew(f) /\ LeftIsHeld(f) /\ TriedHasFailed(f)
    /\ f \notin twice

AllOrderly == \A f \in Forwards \ excused : Orderly(f)

LEMMA WithinFor ==
    ASSUME NEW new, NEW old, Within(new, old), NEW f
    PROVE  /\ OnceIn(old, f) => OnceIn(new, f)
           /\ \A n \in DOMAIN new : \E i \in DOMAIN old : new[n] = old[i]
           /\ Has(new, f) => Has(old, f)
<1>1. PICK h \in [DOMAIN new -> DOMAIN old] :
          /\ \A n, k \in DOMAIN new : h[n] = h[k] => n = k
          /\ \A n \in DOMAIN new : new[n] = old[h[n]]
  BY DEF Within
<1>2. \A n \in DOMAIN new : h[n] \in DOMAIN old
  OBVIOUS
<1>3. OnceIn(old, f) => OnceIn(new, f)
  BY <1>1, <1>2 DEF OnceIn
<1> QED BY <1>1, <1>2, <1>3 DEF Has

LEMMA AwayOrderly ==
    ASSUME NEW f \in Forwards, Orderly(f), state'.log = state.log, disk'.log \in {disk.log, state.log},
           UNCHANGED <<sent, twice, retry>>, ~Batching', ~Flushing', thread.at # "Delivered",
           Reached(f) => f[1] <= state'.watermark
    PROVE  Orderly(f)'
<1>1. Attempts(f)' = Attempts(f)
  BY DEF Attempts
<1>2. Once(f)'
  BY DEF Orderly, Once
<1>3. SentIsKnown(f)'
  BY <1>1 DEF Orderly, SentIsKnown, InFlight
<1>4. KnownIsReached(f)'
  BY <1>1 DEF Orderly, KnownIsReached, Reached
<1>5. LeftIsNew(f)' /\ LeftIsHeld(f)'
  BY DEF LeftIsNew, LeftIsHeld
<1>6. TriedHasFailed(f)'
  BY <1>1 DEF Orderly, TriedHasFailed
<1> QED BY <1>2, <1>3, <1>4, <1>5, <1>6 DEF Orderly

LEMMA SameOrderly ==
    ASSUME NEW f, Orderly(f), UNCHANGED <<state, disk, sent, twice, retry, thread>>
    PROVE  Orderly(f)'
BY DEF Orderly, Once, SentIsKnown, KnownIsReached, LeftIsNew, LeftIsHeld, TriedHasFailed, Attempts,
       InFlight, Reached, Batching, Flushing, Task, Forward, Current

LEMMA ForwardsAre == ASSUME NEW f \in Forwards PROVE f[1] \in Messages /\ f[1] \in Nat
BY ConstantsAssumption DEF Forwards

LEMMA StartOrderly ==
    ASSUME IInv, Work, Start \/ Poll, NEW f \in Forwards, Orderly(f)
    PROVE  Orderly(f)'
<1>1. ~Batching /\ thread.at # "Delivered"
  BY DEF Start, Poll, Stands, Batching
<1>2. ~Batching' /\ ~Flushing'
  <2>1. \/ thread' = Idle
        \/ thread' = [Idle EXCEPT !.at = "Fetch", !.after = state'.watermark]
    BY DEF Start, Poll
  <2>2. thread'.at \in {"Loop", "Fetch"}
    <3>1. CASE thread' = Idle
      BY <3>1 DEF Idle
    <3>2. CASE thread' = [Idle EXCEPT !.at = "Fetch", !.after = state'.watermark]
      BY <3>2 DEF Idle
    <3> QED BY <2>1, <3>1, <3>2
  <2> QED BY <2>2 DEF Batching, Flushing
<1>3. /\ state'.log = state.log /\ disk'.log \in {disk.log, state.log}
      /\ state'.watermark = state.watermark
         \/ (state.watermark = 0 /\ device.there # {} /\ state'.watermark = Highest(device.there))
  <2>1. CASE UNCHANGED <<state, disk>>
    BY <2>1
  <2>2. CASE ~UNCHANGED <<state, disk>>
    BY <2>2 DEF Start, Poll, InitWatermark, Save, IInv, Saved
  <2> QED BY <2>1, <2>2
<1>4. state.watermark <= state'.watermark /\ state'.watermark \in Nat /\ state.watermark \in Nat
  <2>1. device.there \subseteq Messages
    BY DEF IInv, Device
  <2>2. device.there # {} => Highest(device.there) \in Nat
    BY <2>1, HighestOf, ConstantsAssumption
  <2> QED BY <1>3, <2>2, Numbers
<1>5. Reached(f) => f[1] <= state'.watermark
  BY <1>1, <1>4, ForwardsAre DEF Reached
<1>6. UNCHANGED <<sent, twice, retry>>
  BY DEF Start, Poll, Unchanged
<1> QED BY <1>1, <1>2, <1>3, <1>5, <1>6, AwayOrderly

LEMMA TakeEventOrderly ==
    ASSUME IInv, Work, TakeEvent \/ FlushEnds, NEW f \in Forwards, Orderly(f)
    PROVE  Orderly(f)'
<1>1. ~Batching /\ thread.at # "Delivered"
  BY DEF TakeEvent, FlushEnds, Stands, Batching
<1>2. UNCHANGED <<state, disk, sent, twice, retry>>
  BY DEF TakeEvent, FlushEnds, Unchanged, history
<1>3. ~Batching' /\ ~Flushing'
  BY <1>1 DEF TakeEvent, FlushEnds, Stands, Idle, Batching, Flushing, IInv, Thread
<1> QED BY <1>1, <1>2, <1>3, AwayOrderly DEF Reached

LEMMA FetchOrderly ==
    ASSUME IInv, Work, Fetch, NEW f \in Forwards, Orderly(f)
    PROVE  Orderly(f)'
<1>1. ~Batching /\ ~Flushing /\ thread.at # "Delivered"
  BY DEF Fetch, Stands, Batching, Flushing
<1>2. UNCHANGED <<state, disk, sent, twice, retry>>
  BY DEF Fetch, Unchanged
<1>3. CASE thread' = Idle
  <2>1. ~Batching' /\ ~Flushing'
    BY <1>3 DEF Idle, Batching, Flushing
  <2> QED BY <1>1, <1>2, <2>1, AwayOrderly DEF Reached
<1>4. CASE /\ thread'.at = "Batch" /\ thread'.after = thread.after /\ thread.after = state.watermark
           /\ \A m \in thread'.batch : m \in Messages /\ thread.after < m
           /\ thread'.left \subseteq {g \in Matches : g[1] \in thread'.batch}
  <2>1. Attempts(f)' = Attempts(f)
    BY <1>2 DEF Attempts
  <2>2. Once(f)' /\ TriedHasFailed(f)'
    BY <1>2, <2>1 DEF Orderly, Once, TriedHasFailed
  <2>3. SentIsKnown(f)'
    BY <1>1, <1>2, <2>1 DEF Orderly, SentIsKnown, InFlight
  <2>4. KnownIsReached(f)'
    BY <1>1, <1>2, <2>1 DEF Orderly, KnownIsReached, Reached
  <2>5. LeftIsNew(f)'
    <3> SUFFICES ASSUME f \in thread'.left PROVE f \notin sent /\ ~Has(state.log, f) /\ Attempts(f) = {}
      BY <1>2, <2>1 DEF LeftIsNew
    <3>1. f[1] \in thread'.batch
      BY <1>4
    <3>2. state.watermark < f[1] /\ state.watermark \in Nat /\ f[1] \in Nat
      BY <1>4, <3>1, Numbers, ForwardsAre
    <3>3. ~Reached(f)
      BY <1>1, <3>2 DEF Reached
    <3> QED BY <3>3 DEF Orderly, KnownIsReached
  <2>6. LeftIsHeld(f)'
    BY <1>4 DEF LeftIsHeld, Flushing
  <2> QED BY <1>2, <2>2, <2>3, <2>4, <2>5, <2>6 DEF Orderly
<1> QED BY <1>3, <1>4, FetchOf

LEMMA FinishBatchOrderly ==
    ASSUME IInv, Work, FinishBatch, NEW f \in Forwards, Orderly(f)
    PROVE  Orderly(f)'
<1>1. Batching /\ thread.batch = {} /\ thread.at # "Delivered"
  BY DEF FinishBatch, Stands, Batching
<1>2. state'.log = state.log /\ disk'.log = state.log /\ state'.watermark = thread.after
  BY DEF FinishBatch, Save, IInv, Saved
<1>3. UNCHANGED <<sent, twice, retry>> /\ ~Batching' /\ ~Flushing'
  BY DEF FinishBatch, Unchanged, history, Idle, Batching, Flushing
<1>4. state.watermark <= thread.after /\ state.watermark \in Nat /\ thread.after \in Nat /\ f[1] \in Nat
  BY <1>1, Numbers, ForwardsAre DEF Work, Batch
<1>5. Reached(f) => f[1] <= state'.watermark
  BY <1>1, <1>2, <1>4 DEF Reached
<1> QED BY <1>1, <1>2, <1>3, <1>5, AwayOrderly

\* Where the agent starts again, what was sent and not saved is excused.
LEMMA RestartOrderly ==
    ASSUME IInv, Work, Restart, NEW f \in Forwards \ excused', Orderly(f)
    PROVE  Orderly(f)'
<1>1. state' = disk /\ disk' = disk /\ sent' = sent /\ twice' = twice /\ retry' = [h \in Handlers |-> None]
  BY DEF Restart
<1>2. /\ f \in sent => f[1] <= disk.watermark /\ ~ \E e \in ToSet(disk.log) : Key(e) = f /\ e.is # "sent"
      /\ (\E e \in ToSet(disk.log) : Key(e) = f) => f[1] <= disk.watermark
  <2>1. f[1] \in Nat /\ disk.watermark \in Nat
    BY ForwardsAre, Numbers DEF IInv, Saved
  <2>2. /\ f \in sent => ~(f[1] > disk.watermark) /\ ~ \E e \in ToSet(disk.log) : Key(e) = f /\ e.is # "sent"
        /\ (\E e \in ToSet(disk.log) : Key(e) = f) => ~(f[1] > disk.watermark)
    BY DEF Restart
  <2> QED BY <2>1, <2>2
<1>3. \A i \in DOMAIN disk.log : disk.log[i] \in ToSet(disk.log)
  BY DEF ToSet
<1>4. ~Batching' /\ ~Flushing' /\ thread'.at # "Delivered"
  BY DEF Restart, Idle, Batching, Flushing
<1>5. Attempts(f)' = {}
  BY <1>1 DEF Attempts
<1>6. Once(f)' /\ TriedHasFailed(f)' /\ f \notin twice'
  BY <1>1, <1>5 DEF Orderly, Once, TriedHasFailed
<1>7. SentIsKnown(f)'
  BY <1>1, <1>2, <1>3 DEF SentIsKnown
<1>8. KnownIsReached(f)'
  BY <1>1, <1>2, <1>3, <1>5 DEF KnownIsReached, Reached, Has
<1>9. LeftIsNew(f)' /\ LeftIsHeld(f)'
  BY <1>4 DEF LeftIsNew, LeftIsHeld
<1> QED BY <1>6, <1>7, <1>8, <1>9 DEF Orderly

LEMMA TimeoutOrderly ==
    ASSUME IInv, Work, NEW poll, Timeout(poll), NEW f \in Forwards, Orderly(f)
    PROVE  Orderly(f)'
<1>1. ~Batching /\ ~Flushing /\ thread.at # "Delivered"
  BY DEF Timeout, Stands, Batching, Flushing
<1>2. UNCHANGED <<state, disk, sent, twice, retry>>
  BY DEF Timeout, history
<1>3. /\ thread'.at = "Flush" /\ Within(thread'.left, state.log)
      /\ \A n \in DOMAIN thread'.left : \E i \in DOMAIN state.log :
            Pending(state.log[i]) /\ thread'.left[n] = state.log[i]
  BY TimeoutOf
<1>4. Attempts(f)' = Attempts(f)
  BY <1>2 DEF Attempts
<1>5. Once(f)' /\ TriedHasFailed(f)'
  BY <1>2, <1>4 DEF Orderly, Once, TriedHasFailed
<1>6. SentIsKnown(f)'
  BY <1>1, <1>2, <1>4 DEF Orderly, SentIsKnown, InFlight
<1>7. KnownIsReached(f)'
  BY <1>1, <1>2, <1>4 DEF Orderly, KnownIsReached, Reached
<1>8. LeftIsNew(f)'
  BY <1>3 DEF LeftIsNew, Batching
<1>9. LeftIsHeld(f)'
  <2>1. OnceIn(thread'.left, f)
    BY <1>3, WithinFor DEF Orderly, Once
  <2>2. Has(thread'.left, f) => \E i \in DOMAIN state.log : Key(state.log[i]) = f /\ Pending(state.log[i])
    BY <1>3 DEF Has
  <2> QED BY <1>2, <2>1, <2>2 DEF LeftIsHeld
<1> QED BY <1>2, <1>5, <1>6, <1>7, <1>8, <1>9 DEF Orderly

-------------------------------------------------------------------------------
(* The flush. *)

\* The head of what is left is held: it was not delivered, and nobody retries it.
LEMMA TaskIsHeld ==
    ASSUME Work, Flushing, thread.left # <<>>, NEW f \in Forwards, Orderly(f), f = Key(Task)
    PROVE  /\ \E i \in DOMAIN state.log : Key(state.log[i]) = f /\ Pending(state.log[i])
           /\ \A i \in DOMAIN state.log : Key(state.log[i]) = f => Pending(state.log[i])
           /\ Attempts(f) = {} /\ (thread.at # "Delivered" => f \notin sent)
           /\ ~Has(Tail(thread.left), f)
<1>1. /\ Task = thread.left[1] /\ 1 \in DOMAIN thread.left
      /\ \A n \in DOMAIN Tail(thread.left) : /\ n + 1 \in DOMAIN thread.left /\ n \in Nat
                                             /\ Tail(thread.left)[n] = thread.left[n + 1]
  BY TaskOf
<1>2. PICK i \in DOMAIN state.log : Key(state.log[i]) = f /\ Pending(state.log[i])
  BY <1>1 DEF Orderly, LeftIsHeld, Has
<1>3. \A j \in DOMAIN state.log : Key(state.log[j]) = f => j = i
  BY <1>2 DEF Orderly, Once, OnceIn
<1>4. Attempts(f) = {}
  BY <1>2 DEF Orderly, TriedHasFailed, Pending
<1>5. thread.at # "Delivered" => f \notin sent
  <2>1. state.log[i].is # "sent"
    BY <1>2 DEF Pending
  <2> QED BY <1>2, <1>4, <2>1 DEF Orderly, SentIsKnown, InFlight
<1>6. ASSUME NEW n \in DOMAIN Tail(thread.left), Key(Tail(thread.left)[n]) = f PROVE FALSE
  <2>1. n + 1 = 1
    BY <1>1, <1>6 DEF Orderly, LeftIsHeld, OnceIn
  <2> QED BY <1>1, <1>6, <2>1
<1> QED BY <1>2, <1>3, <1>4, <1>5, <1>6 DEF Has

LEMMA TailHas ==
    ASSUME Work, Flushing, thread.left # <<>>, NEW f, Orderly(f)
    PROVE  OnceIn(Tail(thread.left), f) /\ (Has(Tail(thread.left), f) => Has(thread.left, f))
<1>1. \A n \in DOMAIN Tail(thread.left) : /\ n + 1 \in DOMAIN thread.left /\ n \in Nat
                                          /\ Tail(thread.left)[n] = thread.left[n + 1]
  BY TaskOf
<1>2. ASSUME NEW n \in DOMAIN Tail(thread.left), NEW k \in DOMAIN Tail(thread.left),
             Key(Tail(thread.left)[n]) = f, Key(Tail(thread.left)[k]) = f
      PROVE  n = k
  <2>1. n + 1 = k + 1
    BY <1>1, <1>2 DEF Orderly, LeftIsHeld, OnceIn
  <2> QED BY <1>1, <2>1
<1> QED BY <1>1, <1>2 DEF OnceIn, Has

\* The outcome of the head is recorded: no other forward is disturbed.
LEMMA SettleOrderly ==
    ASSUME IInv, Work, Flushing, thread.left # <<>>, FlushNext, UNCHANGED <<sent, twice, retry>>,
           NEW is \in {"held", "old", "failed", "sent"}, SettlePending(Task, is),
           thread.at = "Delivered" => is = "sent",
           NEW f \in Forwards, Orderly(f)
    PROVE  Orderly(f)'
<1>1. thread'.at = "Flush" /\ thread'.left = Tail(thread.left) /\ thread'.batch = thread.batch
      /\ thread'.after = thread.after
  BY DEF FlushNext, IInv, Thread, Fields
<1>2. Task \in Entries
  BY TaskOf
<1>3. /\ disk' = state' /\ state'.watermark = state.watermark
      /\ DOMAIN state'.log = DOMAIN state.log
      /\ \A i \in DOMAIN state.log : Key(state'.log[i]) = Key(state.log[i])
  BY <1>2, SettlePendingOf
<1>4. \/ state'.log = state.log /\ \A i \in DOMAIN state.log : Key(state.log[i]) = Key(Task) => ~Pending(state.log[i])
      \/ \E p \in DOMAIN state.log :
            /\ Key(state.log[p]) = Key(Task) /\ Pending(state.log[p]) /\ state'.log[p].is = is
            /\ \A i \in DOMAIN state.log \ {p} : state'.log[i] = state.log[i]
  BY <1>2, SettlePendingOf
<1>5. Attempts(f)' = Attempts(f)
  BY DEF Attempts
<1>6. Once(f)'
  BY <1>3 DEF Orderly, Once, OnceIn
<1>7. ~Batching /\ ~Batching' /\ Flushing'
  BY <1>1 DEF Batching, Flushing
<1>8. KnownIsReached(f)'
  BY <1>3, <1>5, <1>7 DEF Orderly, KnownIsReached, Reached, Has
<1>9. LeftIsNew(f)'
  BY <1>7 DEF LeftIsNew
<1>10. CASE f # Key(Task)
  <2>1. \A i \in DOMAIN state.log : Key(state.log[i]) = f => state'.log[i] = state.log[i]
    BY <1>4, <1>10
  <2>2. InFlight(f) => InFlight(f)'
    BY <1>5, <1>10 DEF InFlight
  <2>3. SentIsKnown(f)'
    BY <1>3, <2>1, <2>2 DEF Orderly, SentIsKnown
  <2>4. TriedHasFailed(f)'
    BY <1>3, <1>5, <2>1 DEF Orderly, TriedHasFailed
  <2>5. LeftIsHeld(f)'
    BY <1>1, <1>3, <2>1, TailHas DEF Orderly, LeftIsHeld
  <2> QED BY <1>6, <1>8, <1>9, <2>3, <2>4, <2>5 DEF Orderly
<1>11. CASE f = Key(Task)
  <2>1. /\ \E i \in DOMAIN state.log : Key(state.log[i]) = f /\ Pending(state.log[i])
        /\ Attempts(f) = {} /\ (thread.at # "Delivered" => f \notin sent)
        /\ ~Has(Tail(thread.left), f)
    BY <1>11, TaskIsHeld
  <2>2. TriedHasFailed(f)'
    BY <1>5, <2>1 DEF TriedHasFailed
  <2>3. LeftIsHeld(f)'
    BY <1>1, <2>1, TailHas DEF LeftIsHeld
  <2>4. SentIsKnown(f)'
    <3>1. PICK p \in DOMAIN state.log : Key(state.log[p]) = f /\ state'.log[p].is = is
      BY <1>4, <1>11, <2>1
    <3>2. \A i \in DOMAIN state.log : Key(state.log[i]) = f => i = p
      BY <3>1 DEF Orderly, Once, OnceIn
    <3>3. f \in sent => is = "sent"
      BY <2>1
    <3> QED BY <1>3, <3>1, <3>2, <3>3 DEF SentIsKnown
  <2> QED BY <1>6, <1>8, <1>9, <2>2, <2>3, <2>4 DEF Orderly
<1> QED BY <1>10, <1>11

LEMMA FlushWaitsOrderly ==
    ASSUME IInv, Work, FlushWaits, NEW f \in Forwards, Orderly(f)
    PROVE  Orderly(f)'
<1>1. Flushing /\ ~Batching /\ thread.left # <<>> /\ FlushNext /\ thread.at = "Flush"
      /\ UNCHANGED <<state, disk, sent, twice, retry>>
  BY DEF FlushWaits, Stands, Flushing, Batching, Unchanged, history
<1>2. thread'.at = "Flush" /\ thread'.left = Tail(thread.left)
  BY <1>1 DEF FlushNext, IInv, Thread, Fields
<1>3. Attempts(f)' = Attempts(f) /\ ~Batching'
  BY <1>1, <1>2 DEF Attempts, Batching
<1>4. Once(f)' /\ TriedHasFailed(f)' /\ LeftIsNew(f)'
  BY <1>1, <1>3 DEF Orderly, Once, TriedHasFailed, LeftIsNew
<1>5. SentIsKnown(f)'
  BY <1>1, <1>3 DEF Orderly, SentIsKnown, InFlight
<1>6. KnownIsReached(f)'
  BY <1>1, <1>3 DEF Orderly, KnownIsReached, Reached
<1>7. LeftIsHeld(f)'
  BY <1>1, <1>2, TailHas DEF Orderly, LeftIsHeld
<1> QED BY <1>1, <1>4, <1>5, <1>6, <1>7 DEF Orderly

LEMMA FlushRecordsOrderly ==
    ASSUME IInv, Work, FlushSettles \/ FlushRecords, NEW f \in Forwards, Orderly(f)
    PROVE  Orderly(f)'
<1>1. Flushing /\ thread.left # <<>> /\ FlushNext /\ UNCHANGED <<sent, twice, retry>>
  BY DEF FlushSettles, FlushRecords, Stands, Flushing, Work, Flush, Unchanged, history
<1>2. Task.is \in {"held", "old", "failed", "sent"}
  BY <1>1, TaskOf DEF Entries
<1>3. PICK is \in {"held", "old", "failed", "sent"} :
         SettlePending(Task, is) /\ (thread.at = "Delivered" => is = "sent")
  BY <1>2 DEF FlushSettles, FlushRecords, Stands
<1> QED BY <1>1, <1>3, SettleOrderly

LEMMA FlushSendsOrderly ==
    ASSUME IInv, Work, FlushSends, NEW f \in Forwards, Orderly(f)
    PROVE  Orderly(f)'
<1>1. Flushing /\ ~Batching /\ thread.left # <<>> /\ thread.at = "Flush"
      /\ UNCHANGED <<state, disk, retry>>
  BY DEF FlushSends, Stands, Flushing, Batching, Unchanged
<1>2. thread'.left = thread.left /\ thread'.at \in {"Delivered", "Refused"}
  BY DEF FlushSends, IInv, Thread, Fields
<1>3. \/ thread'.at = "Delivered" /\ Deliver(Key(Task))
      \/ thread'.at = "Refused" /\ UNCHANGED <<sent, twice>>
  BY DEF FlushSends, IInv, Thread, Fields
<1>4. Attempts(f)' = Attempts(f) /\ ~Batching' /\ Flushing' /\ Task' = Task
  BY <1>1, <1>2 DEF Attempts, Batching, Flushing, Task
<1>5. Once(f)' /\ TriedHasFailed(f)' /\ LeftIsNew(f)' /\ LeftIsHeld(f)'
  BY <1>1, <1>2, <1>4 DEF Orderly, Once, TriedHasFailed, LeftIsNew, LeftIsHeld
<1>6. InFlight(f) => InFlight(f)'
  BY <1>1, <1>4 DEF InFlight
<1>7. CASE f \notin sent' \/ f \in sent
  <2>1. f \notin twice'
    <3>1. CASE f = Key(Task)
      BY <1>1, <1>3, <3>1, TaskIsHeld DEF Deliver, Orderly
    <3>2. CASE f # Key(Task)
      BY <1>3, <3>2 DEF Deliver, Orderly
    <3> QED BY <3>1, <3>2
  <2>2. SentIsKnown(f)'
    BY <1>1, <1>6, <1>7 DEF Orderly, SentIsKnown
  <2>3. KnownIsReached(f)'
    BY <1>1, <1>4, <1>7 DEF Orderly, KnownIsReached, Reached
  <2> QED BY <1>5, <2>1, <2>2, <2>3 DEF Orderly
<1>8. CASE f \in sent' /\ f \notin sent
  <2>1. f = Key(Task) /\ thread'.at = "Delivered" /\ f \notin twice'
    BY <1>3, <1>8 DEF Deliver, Orderly
  <2>2. InFlight(f)'
    BY <1>4, <2>1 DEF InFlight
  <2>3. Has(state.log, f)
    BY <1>1, <2>1, TaskIsHeld DEF Has
  <2>4. KnownIsReached(f)'
    BY <1>1, <1>4, <2>3 DEF Orderly, KnownIsReached, Reached
  <2> QED BY <1>5, <2>1, <2>2, <2>4 DEF Orderly, SentIsKnown
<1> QED BY <1>7, <1>8

-------------------------------------------------------------------------------
(* The batch. *)

LEMMA PushedOrderly ==
    ASSUME IInv, Work, HasForward \/ thread.at \in {"Delivered2", "Refused2"},
           NEW is \in {"held", "old", "failed", "sent"}, Pushed(is), thread.at = "Delivered2" => is = "sent",
           UNCHANGED <<disk, sent, twice, retry>>, NEW f \in Forwards, Orderly(f)
    PROVE  Orderly(f)'
<1> DEFINE e == [sms |-> Forward[1], rule |-> Forward[2], is |-> is]
           all == Append(state.log, e)
<1>1. /\ Key(e) = Forward /\ all \in Seq(Entries)
      /\ Len(all) = Len(state.log) + 1 /\ all[Len(state.log) + 1] = e
      /\ \A i \in DOMAIN state.log : all[i] = state.log[i]
      /\ Within(state'.log, all)
      /\ state'.watermark = state.watermark
      /\ thread'.left = thread.left \ {Forward} /\ thread'.at = "Batch"
      /\ thread'.batch = thread.batch /\ thread'.after = thread.after
  BY PushedOf
<1>2. Batching /\ Batching' /\ ~Flushing' /\ Forward \in thread.left /\ thread.at # "Delivered"
  BY <1>1, ForwardAtHand DEF HasForward, Stands, Batching, Flushing
<1>3. e.is = is
  OBVIOUS
<1> HIDE DEF e, all
<1>4. state.log \in Seq(Entries)
  BY DEF Work, Typed
<1>5. \A i \in DOMAIN all : i \in DOMAIN state.log \/ i = Len(state.log) + 1
  BY <1>1, <1>4
<1>6. Attempts(f)' = Attempts(f) /\ (InFlight(f) => InFlight(f)')
  BY <1>2 DEF Attempts, InFlight
<1>7. \A n \in DOMAIN state'.log : \E i \in DOMAIN all : state'.log[n] = all[i]
  BY <1>1, WithinFor
<1>8. LeftIsHeld(f)'
  BY <1>2 DEF LeftIsHeld
<1>9. CASE f # Forward
  <2>1. \A i \in DOMAIN all : Key(all[i]) = f => i \in DOMAIN state.log /\ all[i] = state.log[i]
    BY <1>1, <1>5, <1>9
  <2>2. \A n \in DOMAIN state'.log : Key(state'.log[n]) = f =>
           \E i \in DOMAIN state.log : state'.log[n] = state.log[i]
    BY <1>7, <2>1
  <2>3. OnceIn(all, f)
    BY <2>1 DEF Orderly, Once, OnceIn
  <2>4. Once(f)'
    BY <1>1, <2>3, WithinFor DEF Orderly, Once
  <2>5. SentIsKnown(f)'
    BY <1>6, <2>2 DEF Orderly, SentIsKnown
  <2>6. Has(state'.log, f) => Has(state.log, f)
    BY <2>2 DEF Has
  <2>7. KnownIsReached(f)'
    BY <1>1, <1>2, <1>6, <2>6 DEF Orderly, KnownIsReached, Reached
  <2>8. LeftIsNew(f)'
    BY <1>1, <1>2, <1>6, <1>9, <2>6 DEF Orderly, LeftIsNew
  <2>9. TriedHasFailed(f)'
    BY <1>6, <2>2 DEF Orderly, TriedHasFailed
  <2> QED BY <1>8, <2>4, <2>5, <2>7, <2>8, <2>9 DEF Orderly
<1>10. CASE f = Forward
  <2>1. ~Has(state.log, f) /\ Attempts(f) = {} /\ (f \in sent => thread.at = "Delivered2")
    BY <1>2, <1>10 DEF Orderly, LeftIsNew
  <2>2. \A i \in DOMAIN all : Key(all[i]) = f => i = Len(state.log) + 1
    BY <1>1, <1>5, <2>1 DEF Has
  <2>3. OnceIn(all, f)
    BY <2>2 DEF OnceIn
  <2>4. Once(f)'
    BY <1>1, <2>3, WithinFor DEF Orderly, Once
  <2>5. SentIsKnown(f)'
    BY <1>1, <1>3, <1>7, <2>1, <2>2 DEF SentIsKnown
  <2>6. f[1] \in thread.batch
    BY <1>10, ForwardAtHand
  <2>7. KnownIsReached(f)'
    BY <1>1, <1>2, <2>6 DEF KnownIsReached, Reached
  <2>8. LeftIsNew(f)' /\ TriedHasFailed(f)'
    BY <1>1, <1>6, <1>10, <2>1 DEF LeftIsNew, TriedHasFailed
  <2> QED BY <1>8, <2>4, <2>5, <2>7, <2>8 DEF Orderly
<1> QED BY <1>9, <1>10

LEMMA SendForwardOrderly ==
    ASSUME IInv, Work, SendForward, NEW f \in Forwards, Orderly(f)
    PROVE  Orderly(f)'
<1>1. HasForward /\ Batching /\ thread.at = "Batch" /\ UNCHANGED <<state, disk, retry>>
  BY DEF SendForward, HasForward, Stands, Batching, Unchanged
<1>2. Forward \in thread.left /\ Forward[1] \in thread.batch
  BY <1>1, ForwardOf
<1>3. thread'.left = thread.left /\ thread'.batch = thread.batch /\ thread'.after = thread.after
      /\ thread'.at \in {"Delivered2", "Refused2"}
  BY DEF SendForward, IInv, Thread, Fields
<1>4. \/ thread'.at = "Delivered2" /\ Deliver(Forward)
      \/ thread'.at = "Refused2" /\ UNCHANGED <<sent, twice>>
  BY DEF SendForward, IInv, Thread, Fields
<1>5. Forward' = Forward /\ Batching' /\ ~Flushing' /\ Attempts(f)' = Attempts(f)
  BY <1>1, <1>3 DEF Forward, Current, Batching, Flushing, Attempts
<1>6. InFlight(f) => InFlight(f)'
  BY <1>1, <1>5 DEF InFlight
<1>7. Once(f)' /\ TriedHasFailed(f)' /\ LeftIsHeld(f)'
  BY <1>1, <1>5 DEF Orderly, Once, TriedHasFailed, LeftIsHeld
<1>8. f \in thread.left => f \notin sent
  BY <1>1 DEF Orderly, LeftIsNew
<1>9. /\ f \notin twice' /\ (f \in sent' => f \in sent \/ (f = Forward /\ thread'.at = "Delivered2"))
  BY <1>2, <1>4, <1>8 DEF Deliver, Orderly
<1>10. LeftIsNew(f)'
  BY <1>1, <1>3, <1>5, <1>8, <1>9 DEF Orderly, LeftIsNew
<1>11. SentIsKnown(f)'
  <2>1. CASE f = Forward
    BY <1>1, <1>2, <2>1 DEF Orderly, LeftIsNew, Has, SentIsKnown
  <2>2. CASE f # Forward
    BY <1>1, <1>6, <1>9, <2>2 DEF Orderly, SentIsKnown
  <2> QED BY <2>1, <2>2
<1>12. KnownIsReached(f)'
  <2>1. CASE f = Forward
    BY <1>2, <1>3, <1>5, <2>1 DEF KnownIsReached, Reached
  <2>2. CASE f # Forward
    BY <1>1, <1>3, <1>5, <1>9, <2>2 DEF Orderly, KnownIsReached, Reached
  <2> QED BY <2>1, <2>2
<1> QED BY <1>7, <1>9, <1>10, <1>11, <1>12 DEF Orderly

LEMMA ForwardOrderly ==
    ASSUME IInv, Work, HoldForward \/ SendForward \/ RecordForward, NEW f \in Forwards, Orderly(f)
    PROVE  Orderly(f)'
<1>1. CASE HoldForward \/ RecordForward
  <2>1. HasForward \/ thread.at \in {"Delivered2", "Refused2"}
    BY <1>1 DEF HoldForward, RecordForward, Stands
  <2>2. PICK is \in {"held", "old", "failed", "sent"} : Pushed(is) /\ (thread.at = "Delivered2" => is = "sent")
    BY <1>1 DEF HoldForward, RecordForward, HasForward, Stands
  <2>3. UNCHANGED <<disk, sent, twice, retry>>
    BY <1>1 DEF HoldForward, RecordForward, Unchanged
  <2> QED BY <2>1, <2>2, <2>3, PushedOrderly
<1> QED BY <1>1, SendForwardOrderly

LEMMA FinishMessageOrderly ==
    ASSUME IInv, Work, FinishMessage, NEW f \in Forwards, Orderly(f)
    PROVE  Orderly(f)'
<1>1. /\ Current \in thread.batch /\ Current \in Nat /\ \A m \in thread.batch : m \in Nat /\ Current <= m
      /\ thread'.batch = thread.batch \ {Current} /\ thread'.after = Current
      /\ thread'.left = thread.left /\ thread'.at = "Batch" /\ thread.at = "Batch"
  BY FinishMessageOf
<1>2. UNCHANGED <<state, disk, sent, twice, retry>>
  BY DEF FinishMessage, Unchanged
<1>3. Batching /\ Batching' /\ ~Flushing' /\ Attempts(f)' = Attempts(f)
  BY <1>1, <1>2 DEF Batching, Flushing, Attempts
<1>4. Reached(f) => Reached(f)'
  <2>1. thread.after < Current /\ thread.after \in Nat /\ f[1] \in Nat
    BY <1>1, <1>3, Numbers, ForwardsAre DEF Work, Batch
  <2> QED BY <1>1, <1>2, <1>3, <2>1 DEF Reached
<1>5. Once(f)' /\ TriedHasFailed(f)' /\ LeftIsHeld(f)'
  BY <1>2, <1>3 DEF Orderly, Once, TriedHasFailed, LeftIsHeld
<1>6. SentIsKnown(f)'
  BY <1>1, <1>2, <1>3 DEF Orderly, SentIsKnown, InFlight
<1>7. KnownIsReached(f)'
  BY <1>2, <1>3, <1>4 DEF Orderly, KnownIsReached
<1>8. LeftIsNew(f)'
  BY <1>1, <1>2, <1>3 DEF Orderly, LeftIsNew
<1> QED BY <1>2, <1>5, <1>6, <1>7, <1>8 DEF Orderly

-------------------------------------------------------------------------------
(* The firmware and the owner. *)

LEMMA AgedHas ==
    ASSUME NEW log \in Seq(Entries), NEW f
    PROVE  (OnceIn(log, f) => OnceIn(Aged(log), f)) /\ (Has(Aged(log), f) <=> Has(log, f))
BY AgedOf DEF OnceIn, Has

LEMMA HoldExpiresOrderly ==
    ASSUME IInv, Work, HoldExpires, NEW f \in Forwards, Orderly(f)
    PROVE  Orderly(f)'
<1>1. /\ state'.log = Aged(state.log) /\ disk'.log = Aged(disk.log)
      /\ state'.watermark = state.watermark
      /\ UNCHANGED <<sent, twice, retry>>
      /\ thread'.at = thread.at /\ thread'.batch = thread.batch /\ thread'.after = thread.after
      /\ thread'.left = IF Flushing THEN Aged(thread.left) ELSE thread.left
  BY HoldExpiresOf
<1>2. state.log \in Seq(Entries) /\ disk.log \in Seq(Entries) /\ (Flushing => thread.left \in Seq(Entries))
  BY DEF Work, Typed, Flush
<1>3. /\ DOMAIN state'.log = DOMAIN state.log
      /\ \A i \in DOMAIN state.log :
            /\ Key(state'.log[i]) = Key(state.log[i]) /\ (Pending(state'.log[i]) <=> Pending(state.log[i]))
            /\ (state'.log[i].is = "sent" <=> state.log[i].is = "sent")
            /\ (state'.log[i].is = "failed" <=> state.log[i].is = "failed")
  BY <1>1, <1>2, AgedOf
<1>4. (Batching' <=> Batching) /\ (Flushing' <=> Flushing) /\ Attempts(f)' = Attempts(f) /\ ~(Batching /\ Flushing)
  BY <1>1 DEF Batching, Flushing, Attempts
<1>5. InFlight(f) => InFlight(f)'
  <2>1. CASE thread.at = "Delivered"
    <3>1. Flushing /\ thread.left # <<>>
      BY <2>1 DEF Work, Flush, Flushing
    <3>2. 1 \in DOMAIN thread.left /\ Task = thread.left[1]
      BY <3>1, TaskOf
    <3>3. Aged(thread.left) \in Seq(Entries) /\ Key(Aged(thread.left)[1]) = Key(thread.left[1])
      BY <1>2, <3>1, <3>2, AgedOf
    <3>4. Key(Task') = Key(Task)
      BY <1>1, <3>1, <3>2, <3>3 DEF Task
    <3> QED BY <1>1, <1>4, <3>4 DEF InFlight
  <2>2. CASE thread.at # "Delivered"
    BY <1>1, <1>4, <2>2 DEF InFlight
  <2> QED BY <2>1, <2>2
<1>6. Once(f)' /\ (Has(state'.log, f) <=> Has(state.log, f))
  BY <1>1, <1>2, AgedHas DEF Orderly, Once
<1>7. SentIsKnown(f)'
  BY <1>1, <1>3, <1>5 DEF Orderly, SentIsKnown
<1>8. KnownIsReached(f)'
  BY <1>1, <1>4, <1>6 DEF Orderly, KnownIsReached, Reached
<1>9. LeftIsNew(f)'
  <2>1. ASSUME Batching PROVE Forward' = Forward /\ thread'.left = thread.left
    BY <1>1, <1>4, <2>1 DEF Forward, Current
  <2> QED BY <1>1, <1>4, <1>6, <2>1 DEF Orderly, LeftIsNew
<1>10. LeftIsHeld(f)'
  <2> SUFFICES ASSUME Flushing PROVE LeftIsHeld(f)'
    BY <1>4 DEF LeftIsHeld
  <2>1. OnceIn(thread'.left, f) /\ (Has(thread'.left, f) => Has(thread.left, f))
    BY <1>1, <1>2, AgedHas DEF Orderly, LeftIsHeld
  <2> QED BY <1>3, <2>1 DEF Orderly, LeftIsHeld
<1>11. TriedHasFailed(f)'
  BY <1>1, <1>3, <1>4 DEF Orderly, TriedHasFailed
<1> QED BY <1>1, <1>6, <1>7, <1>8, <1>9, <1>10, <1>11 DEF Orderly

\* Clearing the log keeps what is held.
LEMMA LogClearOrderly ==
    ASSUME IInv, Work, LogClear, NEW f \in Forwards, Orderly(f)
    PROVE  Orderly(f)'
<1>1. /\ disk' = state' /\ state'.watermark = state.watermark /\ Within(state'.log, state.log)
      /\ \A i \in DOMAIN state.log : Pending(state.log[i]) => \E n \in DOMAIN state'.log : state'.log[n] = state.log[i]
  BY RetainedOf
<1>2. UNCHANGED <<sent, twice, retry, thread>>
  BY DEF LogClear, Unchanged
<1>3. /\ OnceIn(state.log, f) => OnceIn(state'.log, f)
      /\ \A n \in DOMAIN state'.log : \E i \in DOMAIN state.log : state'.log[n] = state.log[i]
      /\ Has(state'.log, f) => Has(state.log, f)
  BY <1>1, WithinFor
<1>4. Attempts(f)' = Attempts(f) /\ (InFlight(f)' <=> InFlight(f)) /\ Forward' = Forward
      /\ (Batching' <=> Batching) /\ (Flushing' <=> Flushing)
  BY <1>2 DEF Attempts, InFlight, Task, Forward, Current, Batching, Flushing
<1>5. Once(f)'
  BY <1>1, <1>3 DEF Orderly, Once
<1>6. SentIsKnown(f)'
  BY <1>2, <1>3, <1>4 DEF Orderly, SentIsKnown
<1>7. KnownIsReached(f)'
  BY <1>1, <1>2, <1>3, <1>4 DEF Orderly, KnownIsReached, Reached
<1>8. LeftIsNew(f)'
  BY <1>2, <1>3, <1>4 DEF Orderly, LeftIsNew
<1>9. LeftIsHeld(f)'
  BY <1>1, <1>2, <1>4 DEF Orderly, LeftIsHeld
<1>10. TriedHasFailed(f)'
  BY <1>2, <1>3, <1>4 DEF Orderly, TriedHasFailed
<1> QED BY <1>2, <1>5, <1>6, <1>7, <1>8, <1>9, <1>10 DEF Orderly

\* A retry by hand of a failed entry delivers what was not delivered.
LEMMA RetryForwardOrderly ==
    ASSUME IInv, Work, RetryForward, NEW f \in Forwards \ excused', Orderly(f)
    PROVE  Orderly(f)'
<1>1. PICK h \in Handlers, i \in DOMAIN state.log, ok \in BOOLEAN :
          /\ retry[h] = None /\ state.log[i] \in Entries /\ state.log[i].is = "failed"
          /\ DOMAIN retry' = Handlers /\ \A x \in Handlers \ {h} : retry'[x] = retry[x]
          /\ retry'[h] = [entry |-> state.log[i], ok |-> ok, fresh |-> TRUE] /\ retry'[h] # None
          /\ IF ok THEN Deliver(Key(state.log[i])) ELSE UNCHANGED <<sent, twice>>
          /\ excused' = IF Attempts(Key(state.log[i])) = {} THEN excused ELSE excused \cup {Key(state.log[i])}
  BY RetryForwardOf
<1>2. UNCHANGED <<state, disk, thread>>
  BY DEF RetryForward, Elsewhere
<1>3. (Batching' <=> Batching) /\ (Flushing' <=> Flushing) /\ Forward' = Forward /\ Task' = Task
  BY <1>2 DEF Batching, Flushing, Forward, Current, Task
<1>4. retry'[h].entry = state.log[i] /\ retry'[h].ok = ok /\ retry'[h].fresh = TRUE
  BY <1>1
<1>5. Once(f)' /\ LeftIsHeld(f)'
  BY <1>2, <1>3 DEF Orderly, Once, LeftIsHeld
<1>6. CASE f # Key(state.log[i])
  <2>1. Attempts(f)' = Attempts(f) /\ \A x \in Attempts(f) : retry'[x] = retry[x]
    <3>1. h \notin Attempts(f) /\ h \notin Attempts(f)'
      BY <1>1, <1>4, <1>6 DEF Attempts
    <3> QED BY <1>1, <3>1 DEF Attempts
  <2>2. (f \in sent' <=> f \in sent) /\ (f \in twice' <=> f \in twice)
    BY <1>1, <1>6 DEF Deliver
  <2>3. InFlight(f)' <=> InFlight(f)
    BY <1>2, <1>3, <2>1 DEF InFlight
  <2>4. SentIsKnown(f)'
    BY <1>2, <2>2, <2>3 DEF Orderly, SentIsKnown
  <2>5. KnownIsReached(f)'
    BY <1>2, <1>3, <2>1, <2>2 DEF Orderly, KnownIsReached, Reached
  <2>6. LeftIsNew(f)'
    BY <1>2, <1>3, <2>1, <2>2 DEF Orderly, LeftIsNew
  <2>7. TriedHasFailed(f)'
    BY <1>2, <2>1 DEF Orderly, TriedHasFailed
  <2> QED BY <1>5, <2>2, <2>4, <2>5, <2>6, <2>7 DEF Orderly
<1>7. CASE f = Key(state.log[i])
  <2>1. Attempts(f) = {}
    BY <1>1, <1>7
  <2>2. Attempts(f)' = {h}
    <3>1. h \in Attempts(f)'
      BY <1>1, <1>4, <1>7 DEF Attempts
    <3>2. \A x \in Handlers \ {h} : x \notin Attempts(f)'
      BY <1>1, <2>1 DEF Attempts
    <3>3. Attempts(f)' \subseteq Handlers
      BY DEF Attempts
    <3> QED BY <3>1, <3>2, <3>3
  <2>3. \A j \in DOMAIN state.log : Key(state.log[j]) = f => j = i
    BY <1>7 DEF Orderly, Once, OnceIn
  <2>4. \A j \in DOMAIN state.log : Key(state.log[j]) = f => state.log[j].is = "failed"
    BY <1>1, <2>3
  <2>5. f \notin sent
    <3> SUFFICES ASSUME f \in sent PROVE FALSE
      OBVIOUS
    <3>1. InFlight(f)
      BY <1>1, <1>7 DEF Orderly, SentIsKnown
    <3>2. thread.at = "Delivered" /\ Key(Task) = f
      BY <2>1, <3>1 DEF InFlight
    <3>3. Flushing /\ thread.left # <<>>
      BY <3>2 DEF Flushing, Work, Flush
    <3>4. Pending(state.log[i])
      BY <1>7, <3>2, <3>3, TaskIsHeld
    <3> QED BY <1>1, <3>4 DEF Pending
  <2>6. f \notin twice' /\ (f \in sent' => ok)
    BY <1>1, <1>7, <2>5 DEF Deliver, Orderly
  <2>7. SentIsKnown(f)'
    <3>1. ok => InFlight(f)'
      BY <1>4, <2>2 DEF InFlight
    <3> QED BY <2>6, <3>1 DEF SentIsKnown
  <2>8. Has(state.log, f)
    BY <1>7 DEF Has
  <2>9. KnownIsReached(f)'
    BY <1>2, <1>3, <2>8 DEF Orderly, KnownIsReached, Reached
  <2>10. LeftIsNew(f)'
    BY <1>2, <1>3, <2>8 DEF Orderly, LeftIsNew
  <2>11. TriedHasFailed(f)'
    BY <1>2, <1>4, <2>2, <2>4 DEF TriedHasFailed
  <2> QED BY <1>5, <2>6, <2>7, <2>9, <2>10, <2>11 DEF Orderly
<1> QED BY <1>6, <1>7

LEMMA RetryRecordsOrderly ==
    ASSUME IInv, Work, RetryRecords, NEW f \in Forwards, Orderly(f)
    PROVE  Orderly(f)'
<1>1. PICK h \in Handlers :
         /\ retry[h] # None
         /\ disk' = state' /\ state'.watermark = state.watermark
         /\ DOMAIN state'.log = DOMAIN state.log
         /\ \A i \in DOMAIN state.log : Key(state'.log[i]) = Key(state.log[i])
         /\ \/ /\ state'.log = state.log
               /\ \/ ~retry[h].ok \/ ~retry[h].fresh
                  \/ \A i \in DOMAIN state.log :
                        Key(state.log[i]) = Key(retry[h].entry) => state.log[i].is # "failed"
            \/ /\ retry[h].ok
               /\ \E p \in DOMAIN state.log :
                     /\ Key(state.log[p]) = Key(retry[h].entry) /\ state.log[p].is = "failed"
                     /\ state'.log[p].is = "sent"
                     /\ \A i \in DOMAIN state.log \ {p} : state'.log[i] = state.log[i]
         /\ DOMAIN retry' = Handlers /\ retry'[h] = None
         /\ \A x \in Handlers \ {h} :
               \/ retry'[x] = retry[x]
               \/ x \in Attempts(Key(retry[h].entry)) /\ retry'[x] = [retry[x] EXCEPT !.fresh = FALSE]
  BY RetryRecordsOf
<1>2. UNCHANGED <<sent, twice, thread>>
  BY DEF RetryRecords, history
<1>3. (Batching' <=> Batching) /\ (Flushing' <=> Flushing) /\ Forward' = Forward /\ Task' = Task
  BY <1>2 DEF Batching, Flushing, Forward, Current, Task
<1>4. Once(f)' /\ (Has(state'.log, f) <=> Has(state.log, f))
  BY <1>1 DEF Orderly, Once, OnceIn, Has
<1>5. LeftIsHeld(f)'
  <2>1. \A i \in DOMAIN state.log : Pending(state.log[i]) => state'.log[i] = state.log[i]
    BY <1>1 DEF Pending
  <2> QED BY <1>1, <1>2, <1>3, <2>1 DEF Orderly, LeftIsHeld
<1>6. CASE f # Key(retry[h].entry)
  <2>1. \A x \in Attempts(f) : x # h /\ retry'[x] = retry[x]
    BY <1>1, <1>6 DEF Attempts
  <2>2. Attempts(f)' = Attempts(f)
    <3>1. \A x \in Attempts(f) : x \in Attempts(f)'
      BY <2>1 DEF Attempts
    <3>2. ASSUME NEW x \in Attempts(f)' PROVE x \in Attempts(f)
      <4>1. x \in Handlers \ {h} /\ retry'[x] # None /\ Key(retry'[x].entry) = f
        BY <1>1, <3>2 DEF Attempts
      <4>2. CASE retry'[x] = retry[x]
        BY <4>1, <4>2 DEF Attempts
      <4>3. CASE x \in Attempts(Key(retry[h].entry)) /\ retry'[x] = [retry[x] EXCEPT !.fresh = FALSE]
        <5>1. Key(retry[x].entry) = Key(retry[h].entry) /\ retry[x] \in Attempt
          BY <4>3 DEF Attempts, Work, Typed
        <5>2. retry'[x].entry = retry[x].entry
          BY <4>3, <5>1 DEF Attempt
        <5> QED BY <1>6, <4>1, <5>1, <5>2
      <4> QED BY <1>1, <4>1, <4>2, <4>3
    <3> QED BY <3>1, <3>2
  <2>3. \A i \in DOMAIN state.log : Key(state.log[i]) = f => state'.log[i] = state.log[i]
    BY <1>1, <1>6
  <2>4. InFlight(f) => InFlight(f)'
    BY <1>2, <1>3, <2>1, <2>2 DEF InFlight
  <2>5. SentIsKnown(f)'
    BY <1>1, <1>2, <2>3, <2>4 DEF Orderly, SentIsKnown
  <2>6. KnownIsReached(f)'
    BY <1>1, <1>2, <1>3, <1>4, <2>2 DEF Orderly, KnownIsReached, Reached
  <2>7. LeftIsNew(f)'
    BY <1>2, <1>3, <1>4, <2>2 DEF Orderly, LeftIsNew
  <2>8. TriedHasFailed(f)'
    BY <1>1, <2>1, <2>2, <2>3 DEF Orderly, TriedHasFailed
  <2> QED BY <1>2, <1>4, <1>5, <2>5, <2>6, <2>7, <2>8 DEF Orderly
<1>7. CASE f = Key(retry[h].entry)
  <2>1. h \in Attempts(f)
    BY <1>1, <1>7 DEF Attempts
  <2>2. retry[h].fresh /\ Attempts(f) = {h}
        /\ \A i \in DOMAIN state.log : Key(state.log[i]) = f => state.log[i].is = "failed"
    BY <2>1 DEF Orderly, TriedHasFailed
  <2>3. \A x \in Handlers \ {h} : retry'[x] = retry[x]
    BY <1>1, <1>7, <2>2
  <2>4. Attempts(f)' = {}
    <3>1. ASSUME NEW x \in Attempts(f)' PROVE FALSE
      <4>1. x \in Handlers /\ x # h /\ retry'[x] # None /\ Key(retry'[x].entry) = f
        BY <1>1, <3>1 DEF Attempts
      <4>2. x \in Attempts(f)
        BY <2>3, <4>1 DEF Attempts
      <4> QED BY <2>2, <4>1, <4>2
    <3> QED BY <3>1
  <2>5. SentIsKnown(f)'
    <3>1. CASE retry[h].ok
      <4>1. \/ ~Has(state.log, f)
            \/ \E p \in DOMAIN state.log : Key(state.log[p]) = f /\ state'.log[p].is = "sent"
        BY <1>1, <1>7, <2>2, <3>1 DEF Has
      <4>2. \A i \in DOMAIN state'.log : Key(state'.log[i]) = f => state'.log[i].is = "sent"
        BY <1>1, <4>1 DEF Has, Orderly, Once, OnceIn
      <4> QED BY <4>2 DEF SentIsKnown
    <3>2. CASE ~retry[h].ok
      <4>1. state'.log = state.log
        BY <1>1, <3>2
      <4>2. InFlight(f) => InFlight(f)'
        BY <1>2, <1>3, <2>2, <3>2 DEF InFlight
      <4> QED BY <1>2, <4>1, <4>2 DEF Orderly, SentIsKnown
    <3> QED BY <3>1, <3>2
  <2>6. KnownIsReached(f)'
    BY <1>1, <1>2, <1>3, <1>4, <2>4 DEF Orderly, KnownIsReached, Reached
  <2>7. LeftIsNew(f)'
    BY <1>2, <1>3, <1>4, <2>4 DEF Orderly, LeftIsNew
  <2>8. TriedHasFailed(f)'
    BY <2>4 DEF TriedHasFailed
  <2> QED BY <1>2, <1>4, <1>5, <2>5, <2>6, <2>7, <2>8 DEF Orderly
<1> QED BY <1>6, <1>7

LEMMA NextOrderly ==
    ASSUME IInv, Work, [Next]_vars, NEW f \in Forwards \ excused', Orderly(f)
    PROVE  Orderly(f)'
<1>1. CASE Run
  <2>1. CASE FlushSettles \/ FlushRecords
    BY <2>1, FlushRecordsOrderly
  <2>2. CASE HoldForward \/ SendForward \/ RecordForward
    BY <2>2, ForwardOrderly
  <2>3. CASE Start \/ Poll
    BY <2>3, StartOrderly
  <2>4. CASE TakeEvent \/ FlushEnds
    BY <2>4, TakeEventOrderly
  <2> QED BY <1>1, <2>1, <2>2, <2>3, <2>4, FetchOrderly, FlushWaitsOrderly, FlushSendsOrderly,
             FinishMessageOrderly, FinishBatchOrderly DEF Run
<1>2. CASE Recheck \/ FallbackPoll
  BY <1>2, TimeoutOrderly DEF Recheck, FallbackPoll
<1>3. CASE WanEvent \/ WanSettles \/ ServiceEvent \/ Arrive \/ Configure \/ UNCHANGED vars
  <2>1. UNCHANGED <<state, disk, sent, twice, retry, thread>>
    BY <1>3 DEF WanEvent, WanSettles, ServiceEvent, Arrive, Configure, vars, Elsewhere, Unchanged, history
  <2> QED BY <2>1, SameOrderly
<1> QED BY <1>1, <1>2, <1>3, HoldExpiresOrderly, LogClearOrderly, RetryForwardOrderly, RetryRecordsOrderly,
           RestartOrderly DEF Next

LEMMA ExcusedGrows == ASSUME [Next]_vars PROVE excused \subseteq excused'
<1>1. CASE Run
  BY <1>1 DEF Run, Start, TakeEvent, Poll, Fetch, FlushWaits, FlushSettles, FlushSends, FlushRecords, FlushEnds,
       HoldForward, SendForward, RecordForward, FinishMessage, FinishBatch, history
<1>2. CASE Recheck \/ FallbackPoll \/ UNCHANGED vars
  BY <1>2 DEF Recheck, FallbackPoll, Timeout, history, vars
<1>3. CASE WanEvent \/ WanSettles \/ ServiceEvent \/ HoldExpires \/ Arrive \/ Configure \/ LogClear \/ RetryRecords
  BY <1>3 DEF WanEvent, WanSettles, ServiceEvent, HoldExpires, Arrive, Configure, LogClear, RetryRecords, history
<1>4. CASE RetryForward
  BY <1>4 DEF RetryForward
<1>5. CASE Restart
  BY <1>5 DEF Restart
<1> QED BY <1>1, <1>2, <1>3, <1>4, <1>5 DEF Next

LEMMA AllOrderlyKept == ASSUME IInv, Work, AllOrderly, [Next]_vars PROVE AllOrderly'
<1> SUFFICES ASSUME NEW f \in Forwards \ excused' PROVE Orderly(f)'
  BY DEF AllOrderly
<1>1. Orderly(f)
  BY ExcusedGrows DEF AllOrderly
<1> QED BY <1>1, NextOrderly

(* A forward is delivered twice only if the agent died before its outcome was *)
(* on disk, or the owner retried it twice at once: the batches, the flushes   *)
(* and one retry_forward never meet on a forward, for any number of handlers, *)
(* retries, deaths, requests and failures.                                    *)
THEOREM TwiceHasAReason == Spec => []TwiceIsExplained
<1>1. Init => AllOrderly
  BY DEF Init, AllOrderly, Orderly, Once, OnceIn, SentIsKnown, KnownIsReached, LeftIsNew, LeftIsHeld, TriedHasFailed,
         Has, Attempts, Idle, Batching, Flushing
<1>2. IInv /\ Work /\ AllOrderly /\ [Next]_vars => (IInv /\ Work /\ AllOrderly)'
  BY NextKeeps, NextWork, AllOrderlyKept
<1>3. IInv /\ Work /\ AllOrderly => TwiceIsExplained
  BY DEF Work, Typed, AllOrderly, Orderly, TwiceIsExplained
<1> QED BY <1>1, <1>2, <1>3, InitKeeps, InitWork, PTL DEF Spec

-------------------------------------------------------------------------------
(* A message is deleted when all that takes it has sent it: what must be   *)
(* so of a message and a rule that takes it.                               *)

Told(f) == f \in sent \cup waived
Unsent(log, f) == \E i \in DOMAIN log : Key(log[i]) = f /\ log[i].is # "sent"

\* While its message is in a batch or held, it is sent, still to do, or in the log.
Accounted(f) ==
    f[1] \in (thread.batch \cup HeldIds(state.log)) \ forgotten =>
        Told(f) \/ (Batching /\ f \in thread.left) \/ Unsent(state.log, f)
AccountedOnDisk(f) ==
    f[1] \in HeldIds(disk.log) \ forgotten /\ f[1] <= disk.watermark => Told(f) \/ Unsent(disk.log, f)

\* ok: nothing of the message the batch is at went wrong.
OkMeansSent(f) ==
    Batching /\ f[1] \in thread.batch =>
        f \in thread.left \/ Told(f) \/ (f[1] = Current /\ ~thread.ok)
DeletedIsSent(f) == f[1] \in device.came \ (device.there \cup forgotten) => Told(f)

Complete(f) == Accounted(f) /\ AccountedOnDisk(f) /\ OkMeansSent(f) /\ DeletedIsSent(f)
AllComplete == \A f \in Matches : Complete(f)

Grows == sent \subseteq sent' /\ waived \subseteq waived' /\ forgotten \subseteq forgotten'

LEMMA HeldIdsOf ==
    ASSUME NEW log, NEW m
    PROVE  m \in HeldIds(log) <=> \E i \in DOMAIN log : log[i].sms = m /\ Pending(log[i])
BY DEF HeldIds, ToSet

\* What a log drops is lost, or nobody asks for it.
LEMMA LostOf ==
    ASSUME NEW all, NEW log, NEW i \in DOMAIN all, all[i].is # "sent",
           all[i].sms \in thread.batch \cup HeldIds(log), all[i].sms \notin Lost(all, log)
    PROVE  \E n \in DOMAIN log : log[n] = all[i]
<1>1. all[i] \in ToSet(all)
  BY DEF ToSet
<1>2. all[i] \in ToSet(log)
  <2> SUFFICES ASSUME all[i] \notin ToSet(log) PROVE FALSE
    OBVIOUS
  <2>1. all[i] \in {f \in ToSet(all) \ ToSet(log) : f.is # "sent"}
    BY <1>1
  <2>2. all[i].sms \in {e.sms : e \in {f \in ToSet(all) \ ToSet(log) : f.is # "sent"}}
    BY <2>1
  <2> QED BY <2>2 DEF Lost
<1> QED BY <1>2 DEF ToSet

LEMMA MatchesAre == ASSUME NEW f \in Matches PROVE f \in Forwards /\ f[1] \in Messages /\ f[1] \in Nat
BY ConstantsAssumption DEF Forwards

\* What is left of a batch is above the watermark.
LEMMA LeftIsAhead ==
    ASSUME IInv, Work, NEW f \in Matches, Batching, f \in thread.left
    PROVE  ~(f[1] <= state.watermark)
<1>1. f[1] \in thread.batch /\ state.watermark <= thread.after /\ thread.after < f[1]
  BY DEF Work, Batch
<1> QED BY <1>1, Numbers, MatchesAre

LEMMA AwayComplete ==
    ASSUME NEW f \in Matches, Complete(f), Grows, ~(Batching /\ f \in thread.left), state'.log = state.log,
           disk' = disk \/ disk'.log = state.log,
           thread'.batch = {}, ~Batching', UNCHANGED device
    PROVE  Complete(f)'
<1>1. Told(f) => Told(f)'
  BY DEF Grows, Told
<1>2. Accounted(f)'
  BY <1>1 DEF Complete, Accounted, Grows
<1>3. AccountedOnDisk(f)'
  BY <1>1 DEF Complete, Accounted, AccountedOnDisk, Grows
<1>4. OkMeansSent(f)'
  BY DEF OkMeansSent
<1>5. DeletedIsSent(f)'
  BY <1>1 DEF Complete, DeletedIsSent, Grows
<1> QED BY <1>2, <1>3, <1>4, <1>5 DEF Complete

LEMMA SameComplete ==
    ASSUME NEW f \in Matches, Complete(f), Grows, UNCHANGED <<state, disk>>,
           Batching' <=> Batching, thread'.batch = thread.batch, thread'.left = thread.left \/ ~Batching,
           thread'.ok = thread.ok, device'.came \ device'.there \subseteq device.came \ device.there
    PROVE  Complete(f)'
<1>1. (Told(f) => Told(f)') /\ Current' = Current
  BY DEF Grows, Told, Current
<1>2. Accounted(f)'
  BY <1>1 DEF Complete, Accounted, Grows
<1>3. AccountedOnDisk(f)'
  BY <1>1 DEF Complete, AccountedOnDisk, Grows
<1>4. OkMeansSent(f)'
  BY <1>1 DEF Complete, OkMeansSent
<1>5. DeletedIsSent(f)'
  BY <1>1 DEF Complete, DeletedIsSent, Grows
<1> QED BY <1>2, <1>3, <1>4, <1>5 DEF Complete

\* Steps between batches.
LEMMA AwayStepsComplete ==
    ASSUME IInv, Work,
           Start \/ TakeEvent \/ Poll \/ FlushEnds \/ FinishBatch,
           NEW f \in Matches, Complete(f)
    PROVE  Complete(f)'
<1>1. ~(Batching /\ f \in thread.left)
  <2>1. CASE FinishBatch
    BY <2>1 DEF FinishBatch, Work, Batch
  <2>2. CASE ~FinishBatch
    BY <2>2 DEF Start, TakeEvent, Poll, FlushEnds, Stands, Batching
  <2> QED BY <2>1, <2>2
<1>2. state'.log = state.log /\ (disk' = disk \/ disk'.log = state.log)
  <2>1. CASE UNCHANGED <<state, disk>>
    BY <2>1
  <2>2. CASE ~UNCHANGED <<state, disk>>
    BY <2>2 DEF Start, TakeEvent, Poll, FlushEnds, FinishBatch, InitWatermark, Save, IInv, Saved
  <2> QED BY <2>1, <2>2
<1>3. Grows /\ UNCHANGED device
  BY DEF Start, TakeEvent, Poll, FlushEnds, FinishBatch, history, Grows
<1>4. thread'.batch = {} /\ ~Batching'
  <2>1. CASE Start \/ Poll
    <3>1. \/ thread' = Idle
          \/ thread' = [Idle EXCEPT !.at = "Fetch", !.after = state'.watermark]
      BY <2>1 DEF Start, Poll
    <3>2. thread'.batch = {} /\ thread'.at \in {"Loop", "Fetch"}
      <4>1. CASE thread' = Idle
        BY <4>1 DEF Idle
      <4>2. CASE thread' = [Idle EXCEPT !.at = "Fetch", !.after = state'.watermark]
        BY <4>2 DEF Idle
      <4> QED BY <3>1, <4>1, <4>2
    <3> QED BY <3>2 DEF Batching
  <2>2. CASE TakeEvent
    BY <2>2 DEF TakeEvent, Stands, Idle, Batching, Work, Batch
  <2>3. CASE FlushEnds \/ FinishBatch
    BY <2>3 DEF FlushEnds, FinishBatch, Idle, Batching, IInv, Thread
  <2> QED BY <2>1, <2>2, <2>3
<1> QED BY <1>1, <1>2, <1>3, <1>4, AwayComplete

LEMMA TimeoutComplete ==
    ASSUME IInv, Work, NEW poll, Timeout(poll), NEW f \in Matches, Complete(f)
    PROVE  Complete(f)'
<1>1. ~Batching /\ UNCHANGED <<state, disk, device>> /\ Grows
  BY DEF Timeout, Stands, Batching, history, Grows
<1>2. thread'.batch = {} /\ ~Batching'
  BY TimeoutOf DEF Batching
<1> QED BY <1>1, <1>2, AwayComplete

LEMMA FlushComplete ==
    ASSUME IInv, Work, FlushWaits \/ FlushSends, NEW f \in Matches, Complete(f)
    PROVE  Complete(f)'
<1>1. Flushing /\ ~Batching /\ UNCHANGED <<state, disk, device>> /\ Grows
  BY DEF FlushWaits, FlushSends, Stands, Flushing, Batching, Unchanged, history, Grows, Deliver
<1>2. thread'.batch = thread.batch /\ ~Batching'
  BY DEF FlushWaits, FlushSends, FlushNext, IInv, Thread, Fields, Batching
<1>3. thread.batch = {}
  BY <1>1 DEF Work, Batch
<1> QED BY <1>1, <1>2, <1>3, AwayComplete

LEMMA FetchComplete ==
    ASSUME IInv, Work, Fetch, NEW f \in Matches, Complete(f)
    PROVE  Complete(f)'
<1>1. ~Batching /\ UNCHANGED <<state, disk, device, sent, forgotten>>
  BY DEF Fetch, Stands, Batching
<1>2. waived \subseteq waived'
  BY DEF Fetch
<1>3. Grows
  BY <1>1, <1>2 DEF Grows
<1>4. CASE thread' = Idle
  BY <1>1, <1>3, <1>4, AwayComplete DEF Idle, Batching
<1>5. CASE /\ thread'.at = "Batch"
           /\ \A g \in Matches : g[1] \in thread'.batch => g \in thread'.left \cup waived'
  <2>1. (Told(f) => Told(f)') /\ Batching'
    BY <1>3, <1>5 DEF Grows, Told, Batching
  <2>2. f[1] \in thread'.batch => f \in thread'.left \/ Told(f)'
    BY <1>5 DEF Told
  <2>3. Accounted(f)'
    BY <1>1, <2>1, <2>2 DEF Complete, Accounted
  <2>4. AccountedOnDisk(f)' /\ DeletedIsSent(f)'
    BY <1>1, <2>1 DEF Complete, AccountedOnDisk, DeletedIsSent
  <2>5. OkMeansSent(f)'
    BY <2>2 DEF OkMeansSent
  <2> QED BY <2>3, <2>4, <2>5 DEF Complete
<1> QED BY <1>4, <1>5, FetchOf

\* post_forward after a flush: every entry of the message is sent.
LEMMA SettleDeletes ==
    ASSUME IInv, Work, NEW e \in Entries, NEW is \in {"held", "old", "failed", "sent"}, SettlePending(e, is)
    PROVE  \/ UNCHANGED device
           \/ /\ is = "sent" /\ device'.came = device.came /\ device'.there = device.there \ {e.sms}
              /\ \E i \in DOMAIN state.log : Key(state.log[i]) = Key(e) /\ Pending(state.log[i])
              /\ \A i \in DOMAIN state'.log : state'.log[i].sms = e.sms => state'.log[i].is = "sent"
<1> DEFINE log == UpdatePending(state.log, Key(e), is)
           places == At(state.log, Key(e), Pending)
<1>1. state'.log = log
  BY DEF SettlePending, Save, IInv, Saved
<1>2. \/ UNCHANGED device
      \/ is = "sent" /\ places # {} /\ AllSent(log, e.sms) /\ PostForward(e.sms)
  BY DEF SettlePending
<1>3. places = {i \in DOMAIN state.log : Key(state.log[i]) = Key(e) /\ Pending(state.log[i])}
  BY AtOf DEF Work, Typed
<1> HIDE DEF log, places
<1>4. CASE is = "sent" /\ places # {} /\ AllSent(log, e.sms) /\ PostForward(e.sms)
  <2>1. device'.came = device.came /\ device'.there = device.there \ {e.sms}
    BY <1>4 DEF PostForward, IInv, Device
  <2>2. \A i \in DOMAIN state'.log : state'.log[i].sms = e.sms => state'.log[i].is = "sent"
    BY <1>1, <1>4 DEF AllSent, ToSet
  <2>3. \E i \in DOMAIN state.log : Key(state.log[i]) = Key(e) /\ Pending(state.log[i])
    BY <1>3, <1>4
  <2> QED BY <1>4, <2>1, <2>2, <2>3
<1> QED BY <1>2, <1>4

LEMMA SettleComplete ==
    ASSUME IInv, Work, Flushing, thread.left # <<>>, FlushNext, UNCHANGED <<sent, waived, forgotten>>,
           NEW is \in {"held", "old", "failed", "sent"}, SettlePending(Task, is),
           is = "sent" => Key(Task) \in sent,
           NEW f \in Matches, Complete(f)
    PROVE  Complete(f)'
<1>1. thread'.at = "Flush" /\ thread'.batch = thread.batch
  BY DEF FlushNext, IInv, Thread, Fields
<1>2. ~Batching /\ ~Batching' /\ thread.batch = {}
  BY <1>1 DEF Batching, Flushing, Work, Batch
<1>3. Task \in Entries
  BY TaskOf
<1>4. /\ disk' = state' /\ DOMAIN state'.log = DOMAIN state.log
      /\ \A i \in DOMAIN state.log : Key(state'.log[i]) = Key(state.log[i])
      /\ \/ state'.log = state.log
         \/ \E p \in DOMAIN state.log :
               /\ Key(state.log[p]) = Key(Task) /\ Pending(state.log[p]) /\ state'.log[p].is = is
               /\ \A i \in DOMAIN state.log \ {p} : state'.log[i] = state.log[i]
  BY <1>3, SettlePendingOf
<1>5. \A i \in DOMAIN state.log : state'.log[i].sms = state.log[i].sms
  BY <1>4 DEF Key
<1>6. \A i \in DOMAIN state.log : Pending(state'.log[i]) => Pending(state.log[i])
  BY <1>4
<1>7. f[1] \in HeldIds(state'.log) => f[1] \in HeldIds(state.log)
  BY <1>4, <1>5, <1>6, HeldIdsOf
<1>8. \A i \in DOMAIN state.log : Key(state.log[i]) = f /\ state.log[i].is # "sent" =>
         f \in sent \/ state'.log[i].is # "sent"
  BY <1>4
<1>9. Unsent(state.log, f) => f \in sent \/ Unsent(state'.log, f)
  BY <1>4, <1>8 DEF Unsent
<1>10. Accounted(f)'
  BY <1>2, <1>1, <1>7, <1>9 DEF Complete, Accounted, Told
<1>11. AccountedOnDisk(f)'
  BY <1>4, <1>2, <1>10 DEF Accounted, AccountedOnDisk
<1>12. DeletedIsSent(f)'
  <2>1. CASE UNCHANGED device
    BY <2>1 DEF Complete, DeletedIsSent, Told
  <2>2. CASE /\ is = "sent" /\ device'.came = device.came /\ device'.there = device.there \ {Task.sms}
             /\ \E i \in DOMAIN state.log : Key(state.log[i]) = Key(Task) /\ Pending(state.log[i])
             /\ \A i \in DOMAIN state'.log : state'.log[i].sms = Task.sms => state'.log[i].is = "sent"
    <3>1. CASE f[1] # Task.sms
      BY <2>2, <3>1 DEF Complete, DeletedIsSent, Told
    <3>2. CASE f[1] = Task.sms
      <4>1. PICK i \in DOMAIN state.log : Key(state.log[i]) = Key(Task) /\ Pending(state.log[i])
        BY <2>2
      <4>2. f[1] \in HeldIds(state.log)
        BY <3>2, <4>1, HeldIdsOf DEF Key
      <4>3. ~Unsent(state'.log, f)
        BY <2>2, <3>2 DEF Unsent, Key
      <4>4. f[1] \notin forgotten => Told(f)
        BY <1>2, <1>9, <4>2, <4>3 DEF Complete, Accounted, Told
      <4> QED BY <4>4 DEF DeletedIsSent, Told
    <3> QED BY <3>1, <3>2
  <2> QED BY <1>3, <2>1, <2>2, SettleDeletes
<1> QED BY <1>2, <1>10, <1>11, <1>12 DEF Complete, OkMeansSent

LEMMA FlushRecordsComplete ==
    ASSUME IInv, Work, FlushSettles \/ FlushRecords, NEW f \in Matches, Complete(f)
    PROVE  Complete(f)'
<1>1. Flushing /\ thread.left # <<>> /\ FlushNext /\ UNCHANGED <<sent, waived, forgotten>>
  BY DEF FlushSettles, FlushRecords, Stands, Flushing, Work, Flush, Unchanged, history
<1>2. Task.is \in {"held", "old", "failed", "sent"} /\ Task.is # "sent"
  BY <1>1, TaskOf DEF Entries, Pending
<1>3. PICK is \in {"held", "old", "failed", "sent"} :
         SettlePending(Task, is) /\ (is = "sent" => thread.at = "Delivered")
  BY <1>2 DEF FlushSettles, FlushRecords, Stands
<1>4. is = "sent" => Key(Task) \in sent
  BY <1>3 DEF Work, Flush
<1> QED BY <1>1, <1>3, <1>4, SettleComplete

-------------------------------------------------------------------------------
(* The batch, the firmware and the owner. *)

LEMMA PushedComplete ==
    ASSUME IInv, Work, HasForward \/ thread.at \in {"Delivered2", "Refused2"},
           NEW is \in {"held", "old", "failed", "sent"}, Pushed(is), is = "sent" => Forward \in sent,
           UNCHANGED <<disk, sent, waived, device>>, NEW f \in Matches, Complete(f)
    PROVE  Complete(f)'
<1> DEFINE e == [sms |-> Forward[1], rule |-> Forward[2], is |-> is]
           all == Append(state.log, e)
<1>1. /\ Key(e) = Forward /\ all \in Seq(Entries)
      /\ Len(all) = Len(state.log) + 1 /\ all[Len(state.log) + 1] = e
      /\ \A i \in DOMAIN state.log : all[i] = state.log[i]
      /\ Within(state'.log, all)
      /\ forgotten' = forgotten \cup Lost(all, state'.log)
      /\ thread'.left = thread.left \ {Forward} /\ thread'.at = "Batch" /\ thread'.ok = (thread.ok /\ is = "sent")
      /\ thread'.batch = thread.batch /\ thread'.after = thread.after
  BY PushedOf
<1>2. Batching /\ Batching' /\ Forward[1] = Current /\ Current \in thread.batch /\ Current' = Current
  BY <1>1, ForwardAtHand DEF HasForward, Stands, Batching, Current
<1>3. e.is = is /\ e.sms = Forward[1]
  OBVIOUS
<1> HIDE DEF e, all
<1>4. state.log \in Seq(Entries)
  BY DEF Work, Typed
<1>5. /\ \A i \in DOMAIN all : i \in DOMAIN state.log \/ i = Len(state.log) + 1
      /\ Len(state.log) + 1 \in DOMAIN all /\ DOMAIN state.log \subseteq DOMAIN all
  BY <1>1, <1>4
<1>6. \A n \in DOMAIN state'.log : \E i \in DOMAIN all : state'.log[n] = all[i]
  BY <1>1, WithinFor
<1>7. f[1] \in HeldIds(state'.log) => f[1] \in thread.batch \cup HeldIds(state.log)
  <2> SUFFICES ASSUME f[1] \in HeldIds(state'.log) PROVE f[1] \in thread.batch \cup HeldIds(state.log)
    OBVIOUS
  <2>1. PICK n \in DOMAIN state'.log : state'.log[n].sms = f[1] /\ Pending(state'.log[n])
    BY HeldIdsOf
  <2>2. PICK i \in DOMAIN all : state'.log[n] = all[i]
    BY <1>6
  <2>3. CASE i \in DOMAIN state.log
    BY <1>1, <2>1, <2>2, <2>3, HeldIdsOf
  <2>4. CASE i = Len(state.log) + 1
    BY <1>1, <1>2, <1>3, <2>1, <2>2, <2>4
  <2> QED BY <1>5, <2>3, <2>4
<1>8. ASSUME NEW i \in DOMAIN all, Key(all[i]) = f, all[i].is # "sent",
             f[1] \in thread.batch \cup HeldIds(state'.log), f[1] \notin forgotten'
      PROVE  Unsent(state'.log, f)
  <2>1. all[i].sms = f[1]
    BY <1>8 DEF Key
  <2>2. f[1] \notin Lost(all, state'.log)
    BY <1>1, <1>8
  <2>3. PICK n \in DOMAIN state'.log : state'.log[n] = all[i]
    BY <1>8, <2>1, <2>2, LostOf
  <2> QED BY <1>8, <2>3 DEF Unsent
<1>9. Told(f) => Told(f)'
  BY DEF Told
<1>10. Accounted(f)'
  <2> SUFFICES ASSUME f[1] \in thread.batch \cup HeldIds(state'.log), f[1] \notin forgotten'
               PROVE  Told(f) \/ f \in thread.left \ {Forward} \/ Unsent(state'.log, f)
    BY <1>1, <1>2, <1>9 DEF Accounted
  <2>1. CASE f = Forward
    <3>1. CASE is = "sent"
      BY <2>1, <3>1 DEF Told
    <3>2. CASE is # "sent"
      BY <1>1, <1>3, <1>5, <1>8, <2>1, <3>2
    <3> QED BY <3>1, <3>2
  <2>2. CASE f # Forward
    <3>1. Told(f) \/ f \in thread.left \/ Unsent(state.log, f)
      BY <1>1, <1>7 DEF Complete, Accounted
    <3>2. CASE Unsent(state.log, f)
      <4>1. PICK i \in DOMAIN state.log : Key(state.log[i]) = f /\ state.log[i].is # "sent"
        BY <3>2 DEF Unsent
      <4>2. i \in DOMAIN all /\ all[i] = state.log[i]
        BY <1>1, <1>5
      <4> QED BY <1>8, <4>1, <4>2
    <3> QED BY <2>2, <3>1, <3>2
  <2> QED BY <2>1, <2>2
<1>11. AccountedOnDisk(f)' /\ DeletedIsSent(f)'
  BY <1>1, <1>9 DEF Complete, AccountedOnDisk, DeletedIsSent
<1>12. OkMeansSent(f)'
  <2> SUFFICES ASSUME f[1] \in thread.batch
               PROVE  f \in thread.left \ {Forward} \/ Told(f) \/ (f[1] = Current /\ ~(thread.ok /\ is = "sent"))
    BY <1>1, <1>2, <1>9 DEF OkMeansSent
  <2>1. CASE f = Forward
    BY <1>2, <2>1 DEF Told
  <2>2. CASE f # Forward
    BY <1>2, <2>2 DEF Complete, OkMeansSent
  <2> QED BY <2>1, <2>2
<1> QED BY <1>10, <1>11, <1>12 DEF Complete

LEMMA ForwardComplete ==
    ASSUME IInv, Work, HoldForward \/ SendForward \/ RecordForward, NEW f \in Matches, Complete(f)
    PROVE  Complete(f)'
<1>1. CASE HoldForward \/ RecordForward
  <2>1. HasForward \/ thread.at \in {"Delivered2", "Refused2"}
    BY <1>1 DEF HoldForward, RecordForward, Stands
  <2>2. PICK is \in {"held", "old", "failed", "sent"} : Pushed(is) /\ (is = "sent" => thread.at = "Delivered2")
    BY <1>1 DEF HoldForward, RecordForward, Stands
  <2>3. UNCHANGED <<disk, sent, waived, device>>
    BY <1>1 DEF HoldForward, RecordForward
  <2>4. is = "sent" => Forward \in sent
    BY <2>2 DEF Work, Batch
  <2> QED BY <2>1, <2>2, <2>3, <2>4, PushedComplete
<1>2. CASE SendForward
  <2>1. UNCHANGED <<state, disk, device>> /\ Grows /\ Batching
    BY <1>2 DEF SendForward, HasForward, Stands, Batching, Deliver, Grows
  <2>2. thread'.left = thread.left /\ thread'.batch = thread.batch /\ thread'.ok = thread.ok /\ Batching'
    BY <1>2 DEF SendForward, IInv, Thread, Fields, Batching
  <2> QED BY <2>1, <2>2, SameComplete
<1> QED BY <1>1, <1>2

LEMMA FinishMessageComplete ==
    ASSUME IInv, Work, FinishMessage, NEW f \in Matches, Complete(f)
    PROVE  Complete(f)'
<1>1. /\ thread'.batch = thread.batch \ {Current}
      /\ thread'.left = thread.left /\ thread'.at = "Batch" /\ thread.at = "Batch"
      /\ (f[1] = Current => f \notin thread.left) /\ Current \in thread.batch
  BY FinishMessageOf
<1>2. UNCHANGED <<state, disk, sent, waived, forgotten>>
  BY DEF FinishMessage
<1>3. Batching /\ Batching'
  BY <1>1 DEF Batching
<1>4. Accounted(f)' /\ AccountedOnDisk(f)'
  BY <1>1, <1>2, <1>3 DEF Complete, Accounted, AccountedOnDisk, Told
<1>5. OkMeansSent(f)'
  BY <1>1, <1>2, <1>3 DEF Complete, OkMeansSent, Told
<1>6. DeletedIsSent(f)'
  <2>1. CASE UNCHANGED device
    BY <1>2, <2>1 DEF Complete, DeletedIsSent, Told
  <2>2. CASE thread.ok /\ PostForward(Current)
    <3>1. device'.came = device.came /\ device'.there = device.there \ {Current}
      BY <2>2 DEF PostForward, IInv, Device
    <3>2. f[1] = Current => Told(f)
      BY <1>1, <1>3, <2>2 DEF Complete, OkMeansSent
    <3> QED BY <1>2, <3>1, <3>2 DEF Complete, DeletedIsSent, Told
  <2> QED BY <2>1, <2>2 DEF FinishMessage
<1> QED BY <1>4, <1>5, <1>6 DEF Complete

LEMMA HoldExpiresComplete ==
    ASSUME IInv, Work, HoldExpires, NEW f \in Matches, Complete(f)
    PROVE  Complete(f)'
<1>1. /\ state'.log = Aged(state.log) /\ disk'.log = Aged(disk.log) /\ disk'.watermark = disk.watermark
      /\ UNCHANGED <<sent, waived, forgotten, device>>
      /\ thread'.at = thread.at /\ thread'.batch = thread.batch /\ thread'.ok = thread.ok
      /\ thread'.left = IF Flushing THEN Aged(thread.left) ELSE thread.left
  BY HoldExpiresOf
<1>2. ASSUME NEW log \in Seq(Entries)
      PROVE  (f[1] \in HeldIds(Aged(log)) <=> f[1] \in HeldIds(log)) /\ (Unsent(Aged(log), f) <=> Unsent(log, f))
  BY AgedOf, HeldIdsOf DEF Unsent
<1>3. state.log \in Seq(Entries) /\ disk.log \in Seq(Entries)
  BY DEF Work, Typed
<1>4. (Batching' <=> Batching) /\ Current' = Current /\ (Batching => thread'.left = thread.left)
  BY <1>1 DEF Batching, Flushing, Current
<1>5. Accounted(f)'
  BY <1>1, <1>2, <1>3, <1>4 DEF Complete, Accounted, Told
<1>6. AccountedOnDisk(f)'
  BY <1>1, <1>2, <1>3 DEF Complete, AccountedOnDisk, Told
<1>7. OkMeansSent(f)' /\ DeletedIsSent(f)'
  BY <1>1, <1>4 DEF Complete, OkMeansSent, DeletedIsSent, Told
<1> QED BY <1>5, <1>6, <1>7 DEF Complete

\* The log is saved while a batch is under way: what is still to do is above the watermark.
LEMMA SavedComplete ==
    ASSUME IInv, Work, NEW f \in Matches, Complete(f), Accounted(f)',
           disk' = state', state'.watermark = state.watermark, UNCHANGED <<thread, device>>, Grows
    PROVE  Complete(f)'
<1>1. (Told(f) => Told(f)') /\ (Batching' <=> Batching) /\ Current' = Current
  BY DEF Grows, Told, Batching, Current
<1>2. AccountedOnDisk(f)'
  BY <1>1, LeftIsAhead DEF Accounted, AccountedOnDisk
<1>3. OkMeansSent(f)' /\ DeletedIsSent(f)'
  BY <1>1 DEF Complete, OkMeansSent, DeletedIsSent, Grows
<1> QED BY <1>2, <1>3 DEF Complete

LEMMA LogClearComplete ==
    ASSUME IInv, Work, LogClear, NEW f \in Matches, Complete(f)
    PROVE  Complete(f)'
<1>1. /\ state'.log = ClearLog(state.log) /\ disk' = state' /\ state'.watermark = state.watermark
      /\ Within(state'.log, state.log)
  BY RetainedOf
<1>2. UNCHANGED <<thread, device, sent, waived>> /\ forgotten' = forgotten \cup Lost(state.log, state'.log)
  BY <1>1 DEF LogClear, Unchanged
<1>3. Grows /\ (Batching' <=> Batching)
  BY <1>2 DEF Grows, Batching
<1>4. f[1] \in HeldIds(state'.log) => f[1] \in HeldIds(state.log)
  <2>1. \A n \in DOMAIN state'.log : \E i \in DOMAIN state.log : state'.log[n] = state.log[i]
    BY <1>1, WithinFor
  <2> QED BY <2>1, HeldIdsOf
<1>5. ASSUME Unsent(state.log, f), f[1] \in thread.batch \cup HeldIds(state'.log), f[1] \notin forgotten'
      PROVE  Unsent(state'.log, f)
  <2>1. PICK i \in DOMAIN state.log : Key(state.log[i]) = f /\ state.log[i].is # "sent"
    BY <1>5 DEF Unsent
  <2>2. state.log[i].sms = f[1]
    BY <2>1 DEF Key
  <2>3. f[1] \notin Lost(state.log, state'.log)
    BY <1>2, <1>5
  <2>4. PICK n \in DOMAIN state'.log : state'.log[n] = state.log[i]
    BY <1>5, <2>1, <2>2, <2>3, LostOf
  <2> QED BY <2>1, <2>4 DEF Unsent
<1>6. Accounted(f)'
  BY <1>2, <1>3, <1>4, <1>5 DEF Complete, Accounted, Told
<1> QED BY <1>1, <1>2, <1>3, <1>6, SavedComplete

LEMMA RetryRecordsComplete ==
    ASSUME IInv, Work, RetryRecords, NEW f \in Matches, Complete(f)
    PROVE  Complete(f)'
<1>1. PICK h \in Handlers :
         /\ retry[h] # None
         /\ disk' = state' /\ state'.watermark = state.watermark
         /\ DOMAIN state'.log = DOMAIN state.log
         /\ \A i \in DOMAIN state.log : Key(state'.log[i]) = Key(state.log[i])
         /\ \/ state'.log = state.log
            \/ /\ retry[h].ok
               /\ \E p \in DOMAIN state.log :
                     /\ Key(state.log[p]) = Key(retry[h].entry) /\ state'.log[p].is = "sent"
                     /\ \A i \in DOMAIN state.log \ {p} : state'.log[i] = state.log[i]
  BY RetryRecordsOf
<1>2. UNCHANGED <<thread, device, sent, waived, forgotten>>
  BY DEF RetryRecords, history
<1>3. Grows /\ (Batching' <=> Batching)
  BY <1>2 DEF Grows, Batching
<1>4. \A i \in DOMAIN state.log : /\ state'.log[i].sms = state.log[i].sms
                                  /\ Pending(state'.log[i]) => Pending(state.log[i])
  BY <1>1 DEF Key, Pending
<1>5. f[1] \in HeldIds(state'.log) => f[1] \in HeldIds(state.log)
  BY <1>1, <1>4, HeldIdsOf
<1>6. Unsent(state.log, f) => f \in sent \/ Unsent(state'.log, f)
  <2>1. retry[h].ok => Key(retry[h].entry) \in sent
    BY <1>1 DEF Work, Typed
  <2> QED BY <1>1, <2>1 DEF Unsent
<1>7. Accounted(f)'
  BY <1>2, <1>3, <1>5, <1>6 DEF Complete, Accounted, Told
<1> QED BY <1>1, <1>2, <1>3, <1>7, SavedComplete

\* Where the agent starts again, the messages of the batch that died are forgotten or untouched.
LEMMA RestartComplete ==
    ASSUME IInv, Work, Restart, NEW f \in Matches, Complete(f)
    PROVE  Complete(f)'
<1>1. /\ state' = disk /\ UNCHANGED <<disk, device, sent, waived>>
      /\ forgotten' = forgotten \cup {m \in HeldIds(disk.log) : m > disk.watermark}
  BY DEF Restart
<1>2. thread'.batch = {} /\ ~Batching'
  BY DEF Restart, Idle, Batching
<1>3. f[1] \in Nat /\ disk.watermark \in Nat
  BY MatchesAre, Numbers DEF IInv, Saved
<1>4. Accounted(f)'
  BY <1>1, <1>2, <1>3 DEF Complete, Accounted, AccountedOnDisk, Told
<1>5. AccountedOnDisk(f)' /\ DeletedIsSent(f)'
  BY <1>1 DEF Complete, AccountedOnDisk, DeletedIsSent, Told
<1>6. OkMeansSent(f)'
  BY <1>2 DEF OkMeansSent
<1> QED BY <1>4, <1>5, <1>6 DEF Complete

LEMMA OutsideComplete ==
    ASSUME IInv, Work,
           WanEvent \/ WanSettles \/ ServiceEvent \/ Arrive \/ Configure \/ RetryForward \/ UNCHANGED vars,
           NEW f \in Matches, Complete(f)
    PROVE  Complete(f)'
<1>1. UNCHANGED <<state, disk, thread, waived, forgotten>>
  BY DEF WanEvent, WanSettles, ServiceEvent, Arrive, Configure, RetryForward, vars, Elsewhere, Unchanged, history
<1>2. sent \subseteq sent'
  <2>1. CASE RetryForward
    BY <2>1 DEF RetryForward, Deliver
  <2>2. CASE ~RetryForward
    BY <2>2 DEF WanEvent, WanSettles, ServiceEvent, Arrive, Configure, vars, history
  <2> QED BY <2>1, <2>2
<1>3. device'.came \ device'.there \subseteq device.came \ device.there
  <2>1. CASE Arrive
    BY <2>1 DEF Arrive
  <2>2. CASE ~Arrive
    BY <2>2 DEF WanEvent, WanSettles, ServiceEvent, Configure, RetryForward, vars, Elsewhere
  <2> QED BY <2>1, <2>2
<1>4. Batching' <=> Batching
  BY <1>1 DEF Batching
<1> QED BY <1>1, <1>2, <1>3, <1>4, SameComplete DEF Grows

LEMMA NextComplete ==
    ASSUME IInv, Work, [Next]_vars, NEW f \in Matches, Complete(f)
    PROVE  Complete(f)'
<1>1. CASE Run
  <2>1. CASE Start \/ TakeEvent \/ Poll \/ FlushEnds \/ FinishBatch
    BY <2>1, AwayStepsComplete
  <2>2. CASE FlushWaits \/ FlushSends
    BY <2>2, FlushComplete
  <2>3. CASE FlushSettles \/ FlushRecords
    BY <2>3, FlushRecordsComplete
  <2>4. CASE HoldForward \/ SendForward \/ RecordForward
    BY <2>4, ForwardComplete
  <2> QED BY <1>1, <2>1, <2>2, <2>3, <2>4, FetchComplete, FinishMessageComplete DEF Run
<1>2. CASE Recheck \/ FallbackPoll
  BY <1>2, TimeoutComplete DEF Recheck, FallbackPoll
<1>3. CASE WanEvent \/ WanSettles \/ ServiceEvent \/ Arrive \/ Configure \/ RetryForward \/ UNCHANGED vars
  BY <1>3, OutsideComplete
<1> QED BY <1>1, <1>2, <1>3, HoldExpiresComplete, LogClearComplete, RetryRecordsComplete, RestartComplete DEF Next

(* A message is deleted only when every rule that takes it has sent it or was *)
(* off when its batch began, unless the log dropped an unsent entry of it     *)
(* while it was under way: for any number of rules, handlers, deaths,         *)
(* requests and failures (settle_pending, process_new_messages, clear_log).   *)
THEOREM DeletedIsForwarded == Spec => []DeletedOnlyWhenAllSent
<1>1. Init => AllComplete
  BY DEF Init, AllComplete, Complete, Accounted, AccountedOnDisk, OkMeansSent, DeletedIsSent, HeldIds, ToSet,
         Idle, Batching
<1>2. IInv /\ Work /\ AllComplete /\ [Next]_vars => (IInv /\ Work /\ AllComplete)'
  BY NextKeeps, NextWork, NextComplete DEF AllComplete
<1>3. AllComplete => DeletedOnlyWhenAllSent
  BY DEF AllComplete, Complete, DeletedIsSent, Told, DeletedOnlyWhenAllSent
<1> QED BY <1>1, <1>2, <1>3, InitKeeps, InitWork, PTL DEF Spec

=============================================================================
