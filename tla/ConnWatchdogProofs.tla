-------------------------- MODULE ConnWatchdogProofs --------------------------
(***************************************************************************)
(* The ladder of remedies, for any durations, cooldowns and caps, any      *)
(* faults and any settings: a remedy is never given within its cooldown or *)
(* beyond its cap, fast boot switched off is not forgotten, and no remedy  *)
(* meets a session that came up after a drop it does not know.             *)
(*                                                                         *)
(* The argument for the first: a remedy is in the history in memory before *)
(* it is given and on disk before its command, and a restart reads that    *)
(* history back before it decides anything (Recorded).  Of a rung without  *)
(* a cap the history knows the last use only, which is what the cooldown   *)
(* asks for (Covers).                                                      *)
(***************************************************************************)
EXTENDS ConnWatchdog, FiniteSetTheorems, WellFoundedInduction, TLAPS

Todos == {<<>>, <<"RetryFastBoot">>, <<"RestoreState", "ReadWan">>, <<"ReadWan">>,
          <<"Record", "Act">>, <<"Act">>,
          <<"FastBootOff", "RecordReboot", "Reboot">>, <<"RecordReboot", "Reboot">>, <<"Reboot">>,
          <<"UndoFastBoot">>}

Typed ==
    /\ TypeOK
    /\ thread \in [event : Events \cup {None}, todo : Todos]
    /\ machine.state # "Idle" => machine.rung \in Rungs
    /\ Doing("Record") \/ Doing("Act") => machine.rung \in Rungs

\* The switch is off only with a flag that tells, or where the thread will still set one.
FlagTells ==
    ~fastBoot => disk.flag \/ Doing("RecordReboot") \/ Doing("UndoFastBoot") \/ "unflagged" \in mishap

\* The history h blocks at least what the remedies d would: of a rung without a cap only
\* the last use is known.
Covers(h, d) ==
    \A r \in Rungs : IF Cap[r] < Day THEN d[r] \subseteq h[r]
                     ELSE \A a \in d[r] : \E b \in h[r] : b <= a

Allowed(r) == (\A a \in done[r] : a >= Cooldown[r]) /\ Cardinality(done[r]) < Cap[r]

\* What was given is known in memory and on disk, and what is about to be given is known
\* there before it is given.
Recorded ==
    /\ Covers(disk.actions, done)
    /\ ~Doing("RestoreState") => Covers(machine.history, done)
    /\ Doing("Record") \/ Doing("Act") => Allowed(machine.rung) /\ 0 \in machine.history[machine.rung]
    /\ Doing("Act") => 0 \in disk.actions[machine.rung]
    /\ Doing("FastBootOff") \/ Doing("RecordReboot") \/ Doing("Reboot") => Allowed(4)
    /\ Doing("Reboot") => 0 \in disk.actions[4]

\* A session that a drop outlived is still known to be gone.
Outlived == outlived => machine.state = "Waiting" /\ machine.clock >= Window /\ machine.wan # TRUE

IInv == Typed /\ FlagTells /\ ("unsaved" \in mishap \/ Recorded) /\ Outlived

-----------------------------------------------------------------------------
(* Ages.                                                                   *)

LEMMA LeastExists ==
    ASSUME NEW S, S \subseteq Nat, S # {}
    PROVE  \E x \in S : \A y \in S : x <= y
<1> DEFINE Less == OpToRel(<, Nat)
<1>1. \A x, y \in Nat : y < x => <<y, x>> \in Less
  BY DEF OpToRel
<1>2. IsWellFoundedOn(Less, Nat)
  BY NatLessThanWellFounded
<1> HIDE DEF Less
<1>3. PICK x \in S : \A y \in S : ~ (<<y, x>> \in Less)
  BY <1>2, WFMin
<1>4. \A y \in S : ~ (y < x) /\ y \in Nat /\ x \in Nat
  BY <1>1, <1>3
<1> QED BY <1>4

LEMMA AgesFinite ==
    ASSUME NEW ages \in Ages
    PROVE  ages \subseteq Nat /\ IsFiniteSet(ages) /\ Cardinality(ages) \in Nat
<1>1. Day \in Nat \ {0} /\ ages \subseteq 0..(Day - 1)
  BY ConstantsAssumption DEF Ages
<1>2. IsFiniteSet(0..(Day - 1)) /\ 0..(Day - 1) \subseteq Nat
  BY <1>1, FS_Interval
<1>3. IsFiniteSet(ages)
  BY <1>1, <1>2, FS_Subset
<1> QED BY <1>1, <1>2, <1>3, FS_CardinalityType

\* No cooldown is left exactly when every use is old enough.
LEMMA LeftOfAges ==
    ASSUME NEW ages \in Ages, NEW span \in 1..Day
    PROVE  /\ LeftOf(ages, span) \in 0..Day
           /\ LeftOf(ages, span) = 0 => \A a \in ages : a >= span
<1>1. Day \in Nat \ {0} /\ ages \subseteq Nat
  BY ConstantsAssumption, AgesFinite
<1>2. CASE ages = {}
  BY <1>1, <1>2 DEF LeftOf
<1>3. CASE ages # {}
  <2> DEFINE youngest == CHOOSE a \in ages : \A b \in ages : a <= b
  <2>1. youngest \in ages /\ \A b \in ages : youngest <= b
    BY <1>1, <1>3, LeastExists
  <2>2. LeftOf(ages, span) = Greater(0, span - youngest)
    BY <1>3 DEF LeftOf
  <2> HIDE DEF youngest
  <2> QED BY <1>1, <2>1, <2>2 DEF Greater
<1> QED BY <1>2, <1>3

\* The youngest ages, as many as the cap, have an oldest.
LEMMA NthAge ==
    ASSUME NEW ages \in Ages, NEW n \in Nat \ {0}, Cardinality(ages) >= n
    PROVE  \E a \in ages : Cardinality({b \in ages : b <= a}) = n
<1> DEFINE Upto(a) == {b \in ages : b <= a}
           Enough == {a \in Nat : Cardinality(Upto(a)) >= n}
<1>1. Day \in Nat \ {0} /\ ages \subseteq 0..(Day - 1) /\ ages \subseteq Nat
  BY ConstantsAssumption DEF Ages
<1>2. IsFiniteSet(ages) /\ \A a : IsFiniteSet(Upto(a)) /\ Cardinality(Upto(a)) \in Nat
  BY AgesFinite, FS_Subset, FS_CardinalityType
<1>3. Upto(Day - 1) = ages /\ Day - 1 \in Nat
  <2>1. Day - 1 \in Nat /\ \A b \in ages : b <= Day - 1
    BY <1>1
  <2> QED BY <2>1, Zenon
<1>4. Enough # {} /\ Enough \subseteq Nat
  BY <1>3
<1>5. PICK a \in Enough : \A b \in Enough : a <= b
  BY <1>4, LeastExists
<1>6. a \in Nat /\ Cardinality(Upto(a)) >= n
  OBVIOUS
<1>7. Cardinality(Upto(a - 1)) < n
  <2>1. CASE a = 0
    <3>1. Upto(a - 1) = {}
      <4>1. \A b \in ages : ~(b <= a - 1)
        BY <1>1, <2>1
      <4> QED BY <4>1, Zenon
    <3> QED BY <3>1, FS_EmptySet
  <2>2. CASE a # 0
    <3>1. a - 1 \in Nat /\ ~(a <= a - 1)
      BY <1>6, <2>2
    <3>2. a - 1 \notin Enough
      BY <1>5, <3>1
    <3>3. Cardinality(Upto(a - 1)) \in Nat
      BY <1>2
    <3> HIDE DEF Upto
    <3> QED BY <3>1, <3>2, <3>3
  <2> QED BY <2>1, <2>2
<1>8. Upto(a) = IF a \in ages THEN Upto(a - 1) \cup {a} ELSE Upto(a - 1)
  <2>1. \A b \in ages : b <= a <=> b <= a - 1 \/ b = a
    BY <1>1, <1>6
  <2>2. \A b : b \in Upto(a) <=> b \in ages /\ (b <= a - 1 \/ b = a)
    BY <2>1, Zenon
  <2>3. \A b : b \in Upto(a - 1) <=> b \in ages /\ b <= a - 1
    BY Zenon
  <2>4. a <= a
    BY <1>6
  <2> HIDE DEF Upto
  <2> QED BY <2>2, <2>3, <2>4
<1>9. a \notin Upto(a - 1)
  BY <1>6
<1> HIDE DEF Upto, Enough
<1>10. a \in ages
  BY <1>2, <1>6, <1>7, <1>8
<1>11. Cardinality(Upto(a)) = Cardinality(Upto(a - 1)) + 1
  BY <1>2, <1>8, <1>9, <1>10, FS_AddElement
<1>12. Cardinality(Upto(a)) = n
  BY <1>2, <1>6, <1>7, <1>11
<1> QED BY <1>10, <1>12 DEF Upto

\* The cap leaves no wait exactly when there is room under it.
LEMMA CapLeftAges ==
    ASSUME NEW r \in Rungs, NEW ages \in Ages
    PROVE  /\ CapLeft(r, ages) \in 0..Day
           /\ CapLeft(r, ages) = 0 => Cardinality(ages) < Cap[r]
<1>1. Day \in Nat \ {0} /\ Cap[r] \in Nat \ {0} /\ ages \subseteq 0..(Day - 1)
  BY ConstantsAssumption DEF Ages
<1>2. Cardinality(ages) \in Nat
  BY AgesFinite
<1>3. CASE Cardinality(ages) < Cap[r]
  BY <1>1, <1>3 DEF CapLeft
<1>4. CASE ~(Cardinality(ages) < Cap[r])
  <2> DEFINE nth == CHOOSE a \in ages : Cardinality({b \in ages : b <= a}) = Cap[r]
  <2>1. nth \in ages
    <3>1. \E a \in ages : Cardinality({b \in ages : b <= a}) = Cap[r]
      BY <1>1, <1>2, <1>4, NthAge
    <3> QED BY <3>1, Zenon
  <2>2. CapLeft(r, ages) = Day - nth
    BY <1>4 DEF CapLeft
  <2> HIDE DEF nth
  <2> QED BY <1>1, <2>1, <2>2
<1> QED BY <1>3, <1>4

LEMMA BlockedIs ==
    ASSUME Typed, NEW m, m.history \in [Rungs -> Ages], NEW r \in Rungs, NEW busy \in BOOLEAN
    PROVE  /\ Blocked(m, r, busy) \in 0..Day
           /\ Blocked(m, r, busy) = 0 =>
                /\ \A a \in m.history[r] : a >= Cooldown[r]
                /\ Cardinality(m.history[r]) < Cap[r]
<1> DEFINE left == LeftOf(m.history[r], Cooldown[r])
           cap == CapLeft(r, m.history[r])
<1>1. Day \in Nat \ {0} /\ Guard \in 1..Day /\ Cooldown[r] \in 1..Day
  BY ConstantsAssumption
<1>2. guard \in 0..Guard
  BY DEF Typed, TypeOK
<1>3. left \in 0..Day /\ (left = 0 => \A a \in m.history[r] : a >= Cooldown[r])
  BY <1>1, LeftOfAges
<1>4. cap \in 0..Day /\ (cap = 0 => Cardinality(m.history[r]) < Cap[r])
  BY CapLeftAges
<1>5. Blocked(m, r, busy) = Greater(Greater(IF busy THEN 1 ELSE 0, guard), Greater(left, cap))
  BY DEF Blocked
<1> HIDE DEF left, cap
<1>6. Blocked(m, r, busy) \in 0..Day /\ (Blocked(m, r, busy) = 0 => left = 0 /\ cap = 0)
  BY <1>1, <1>2, <1>3, <1>4, <1>5 DEF Greater
<1> QED BY <1>3, <1>4, <1>6

\* What joins a history.
LEMMA WithRungIs ==
    ASSUME NEW h \in [Rungs -> Ages], NEW r \in Rungs
    PROVE  /\ WithRung(h, r) \in [Rungs -> Ages]
           /\ 0 \in WithRung(h, r)[r]
           /\ Cap[r] < Day => WithRung(h, r)[r] = h[r] \cup {0}
           /\ ~(Cap[r] < Day) => WithRung(h, r)[r] = {0}
           /\ \A s \in Rungs : s # r => WithRung(h, r)[s] = h[s]
<1>1. Day \in Nat \ {0} /\ h[r] \subseteq 0..(Day - 1) /\ 0 \in 0..(Day - 1)
  BY ConstantsAssumption DEF Ages
<1>2. /\ WithRung(h, r)[r] = Kept(r, h[r] \cup {0})
      /\ \A s \in Rungs : s # r => WithRung(h, r)[s] = h[s]
  BY DEF WithRung
<1>3. Kept(r, h[r] \cup {0}) = IF Cap[r] < Day THEN h[r] \cup {0} ELSE {0}
  BY <1>1 DEF Kept
<1>4. Kept(r, h[r] \cup {0}) \in Ages
  BY <1>1, <1>3 DEF Ages
<1>5. WithRung(h, r) \in [Rungs -> Ages]
  BY <1>4 DEF WithRung
<1> QED BY <1>2, <1>3, <1>5

\* A use that is known to one history and joins it.
LEMMA CoversMore ==
    ASSUME NEW h \in [Rungs -> Ages], NEW d \in [Rungs -> Ages], NEW r \in Rungs, Covers(h, d)
    PROVE  /\ Covers(WithRung(h, r), d)
           /\ 0 \in h[r] => Covers(h, WithRung(d, r))
<1>1. \A s \in Rungs : h[s] \subseteq Nat /\ d[s] \subseteq Nat
  BY AgesFinite
<1>2. Covers(WithRung(h, r), d)
  BY <1>1, WithRungIs DEF Covers
<1>3. ASSUME 0 \in h[r] PROVE Covers(h, WithRung(d, r))
  BY <1>1, <1>3, WithRungIs DEF Covers
<1> QED BY <1>2, <1>3

\* Nothing given is known to any history.
LEMMA NothingCovered ==
    /\ NoRungs \in [Rungs -> Ages]
    /\ \A h : Covers(h, NoRungs)
BY DEF Covers, NoRungs, Ages

\* A unit of time.
LEMMA AgedIs ==
    ASSUME NEW h \in [Rungs -> Ages]
    PROVE  /\ Aged(h) \in [Rungs -> Ages]
           /\ \A r \in Rungs : 0 \notin Aged(h)[r]
<1>1. Day \in Nat \ {0} /\ \A r \in Rungs : h[r] \subseteq Nat
  BY ConstantsAssumption, AgesFinite
<1>2. \A r \in Rungs : Older(h[r]) \in Ages /\ 0 \notin Older(h[r])
  BY <1>1 DEF Older, Ages
<1> QED BY <1>2 DEF Aged

LEMMA CoversAged ==
    ASSUME NEW h \in [Rungs -> Ages], NEW d \in [Rungs -> Ages], Covers(h, d)
    PROVE  Covers(Aged(h), Aged(d))
<1> SUFFICES ASSUME NEW r \in Rungs
             PROVE  IF Cap[r] < Day THEN Older(d[r]) \subseteq Older(h[r])
                    ELSE \A a \in Older(d[r]) : \E b \in Older(h[r]) : b <= a
  BY DEF Covers, Aged
<1>1. Day \in Nat \ {0} /\ h[r] \subseteq 0..(Day - 1) /\ d[r] \subseteq 0..(Day - 1)
  BY ConstantsAssumption DEF Ages
<1>2. CASE Cap[r] < Day
  BY <1>2 DEF Covers, Older
<1>3. CASE ~(Cap[r] < Day)
  <2> SUFFICES ASSUME NEW a \in Older(d[r]) PROVE \E b \in Older(h[r]) : b <= a
    BY <1>3
  <2>1. PICK x \in d[r] : a = x + 1 /\ a \in 0..(Day - 1)
    BY DEF Older
  <2>2. PICK y \in h[r] : y <= x
    BY <1>3 DEF Covers
  <2>3. y + 1 \in Older(h[r]) /\ y + 1 <= a
    BY <1>1, <2>1, <2>2 DEF Older
  <2> QED BY <2>3
<1> QED BY <1>2, <1>3

\* A history that allows a rung allows it for what it covers.
LEMMA CoveredAllowed ==
    ASSUME NEW h \in [Rungs -> Ages], done \in [Rungs -> Ages], Covers(h, done), NEW r \in Rungs,
           \A a \in h[r] : a >= Cooldown[r], Cardinality(h[r]) < Cap[r]
    PROVE  Allowed(r)
<1>1. /\ Day \in Nat \ {0} /\ Cap[r] \in 1..Day /\ Cooldown[r] \in 1..Day
      /\ h[r] \subseteq Nat /\ done[r] \subseteq 0..(Day - 1) /\ done[r] \subseteq Nat
  BY ConstantsAssumption, AgesFinite DEF Ages
<1>2. /\ IsFiniteSet(h[r]) /\ Cardinality(h[r]) \in Nat
      /\ IsFiniteSet(done[r]) /\ Cardinality(done[r]) \in Nat
  BY AgesFinite
<1>3. CASE Cap[r] < Day
  <2>1. done[r] \subseteq h[r]
    BY <1>3 DEF Covers
  <2>2. Cardinality(done[r]) <= Cardinality(h[r])
    BY <1>2, <2>1, FS_Subset
  <2> QED BY <1>1, <1>2, <2>1, <2>2 DEF Allowed
<1>4. CASE ~(Cap[r] < Day)
  <2>1. \A a \in done[r] : \E b \in h[r] : b <= a
    BY <1>4 DEF Covers
  <2>2. \A a \in done[r] : a >= Cooldown[r]
    BY <1>1, <2>1
  <2>3. done[r] \subseteq 1..(Day - 1)
    BY <1>1, <2>2
  <2>4. IsFiniteSet(1..(Day - 1)) /\ Cardinality(1..(Day - 1)) = Day - 1
    BY <1>1, FS_Interval
  <2>5. Cardinality(done[r]) <= Day - 1
    BY <2>3, <2>4, FS_Subset
  <2> QED BY <1>1, <1>2, <1>4, <2>2, <2>5 DEF Allowed
<1> QED BY <1>3, <1>4

-----------------------------------------------------------------------------
(* The machine.                                                            *)

Machines ==
    [config : Configs, state : {"Idle", "Waiting", "Cooling"},
     rung : Rungs \cup {None}, clock : 0..Day, armed : BOOLEAN, fails : BOOLEAN,
     wan : BOOLEAN \cup {None}, failures : 0..TriggerFailures,
     first : (0..Day) \cup {None}, history : [Rungs -> Ages]]

OnALadder(m) == m \in Machines /\ (m.state # "Idle" => m.rung \in Rungs)

\* What a step of the machine m may answer: no remedy, or one that its history allows and
\* now knows.
Sound(m, s) ==
    /\ OnALadder(s.m)
    /\ \/ s.act = None /\ s.m.history = m.history
       \/ /\ s.act \in Rungs /\ s.m.rung = s.act
          /\ s.m.history = WithRung(m.history, s.act)
          /\ \A a \in m.history[s.act] : a >= Cooldown[s.act]
          /\ Cardinality(m.history[s.act]) < Cap[s.act]

LEMMA Numbers ==
    /\ Day \in Nat \ {0} /\ Window \in 1..Day /\ 0 \in 0..Day /\ 0 \in 0..TriggerFailures
    /\ TriggerFailures \in Nat \ {0} /\ TriggerAge \in 0..Day /\ None \notin Rungs
    /\ Guard \in 1..Day
BY ConstantsAssumption

LEMMA CalmAndReset ==
    ASSUME NEW m \in Machines
    PROVE  /\ Calm(m) \in Machines /\ Calm(m).state = "Idle" /\ Calm(m).history = m.history
           /\ OnALadder(Reset(m)) /\ Reset(m).state = "Idle" /\ Reset(m).rung = None
           /\ Reset(m).history = m.history
<1>1. Calm(m) \in Machines /\ Calm(m).state = "Idle" /\ Calm(m).history = m.history /\ Calm(m).rung = None
  BY Numbers DEF Calm, Machines
<1> QED BY <1>1, Numbers DEF Reset, Machines, OnALadder

LEMMA TryActSound ==
    ASSUME Typed, NEW m \in Machines, NEW r \in Rungs, NEW busy \in BOOLEAN
    PROVE  Sound(m, TryAct(m, r, busy))
<1> DEFINE left == Blocked(m, r, busy)
<1>1. m.history \in [Rungs -> Ages]
  BY DEF Machines
<1>2. /\ left \in 0..Day
      /\ left = 0 => /\ \A a \in m.history[r] : a >= Cooldown[r]
                     /\ Cardinality(m.history[r]) < Cap[r]
  BY <1>1, BlockedIs
<1>3. Calm(m) \in Machines /\ Calm(m).history = m.history
  BY CalmAndReset
<1>4. CASE left > 0
  <2> DEFINE cooling == [Calm(m) EXCEPT !.state = "Cooling", !.rung = r, !.clock = left, !.armed = TRUE]
  <2>1. TryAct(m, r, busy) = [m |-> cooling, act |-> None]
    BY <1>4 DEF TryAct, Result
  <2> HIDE DEF left
  <2>2. cooling \in Machines /\ cooling.rung = r /\ cooling.history = m.history
    BY <1>2, <1>3 DEF Machines
  <2> HIDE DEF cooling
  <2> QED BY <2>1, <2>2 DEF Sound, OnALadder
<1>5. CASE ~(left > 0)
  <2> DEFINE waiting == [Calm(m) EXCEPT !.state = "Waiting", !.rung = r, !.armed = TRUE,
                                        !.history = WithRung(@, r)]
  <2>1. TryAct(m, r, busy) = [m |-> waiting, act |-> r]
    BY <1>5 DEF TryAct, Result
  <2>2. left = 0
    BY <1>2, <1>5
  <2>3. WithRung(m.history, r) \in [Rungs -> Ages]
    BY <1>1, WithRungIs
  <2>4. waiting \in Machines /\ waiting.rung = r /\ waiting.history = WithRung(m.history, r)
    BY <1>3, <2>3 DEF Machines
  <2> HIDE DEF waiting, left
  <2> QED BY <1>2, <2>1, <2>2, <2>4 DEF Sound, OnALadder
<1> QED BY <1>4, <1>5

LEMMA ResetSound ==
    ASSUME NEW m \in Machines
    PROVE  Sound(m, Result(Reset(m), None))
BY CalmAndReset DEF Sound, Result

LEMMA EscalateSound ==
    ASSUME Typed, NEW m \in Machines, m.rung \in Rungs, NEW busy \in BOOLEAN
    PROVE  Sound(m, Escalate(m, busy))
<1>1. CASE m.rung < 3 \/ (m.rung = 3 /\ m.config.reboot)
  <2>1. m.rung + 1 \in Rungs
    BY <1>1 DEF Rungs
  <2> QED BY <1>1, <2>1, TryActSound DEF Escalate
<1>2. CASE ~(m.rung < 3 \/ (m.rung = 3 /\ m.config.reboot))
  BY <1>2, ResetSound DEF Escalate
<1> QED BY <1>1, <1>2

LEMMA OnWanSound ==
    ASSUME NEW m, OnALadder(m), NEW on \in BOOLEAN
    PROVE  Sound(m, Result(OnWan(m, on), None))
<1> DEFINE known == [m EXCEPT !.wan = on]
           lost == [known EXCEPT !.failures = 0, !.first = None]
<1>1. OnALadder(known) /\ known.history = m.history
  BY DEF OnALadder, Machines
<1>2. OnALadder(lost) /\ lost.history = m.history
  BY <1>1, Numbers DEF OnALadder, Machines
<1>3. OnALadder(Reset(known)) /\ Reset(known).history = m.history
  BY <1>1, CalmAndReset DEF OnALadder
<1>4. OnWan(m, on) \in {known, lost, Reset(known)}
  BY DEF OnWan
<1> HIDE DEF known, lost
<1> QED BY <1>1, <1>2, <1>3, <1>4 DEF Sound, Result

LEMMA OnConfigSound ==
    ASSUME NEW m, OnALadder(m), NEW config \in Configs
    PROVE  Sound(m, Result(OnConfig(m, config), None))
<1> DEFINE set == [m EXCEPT !.config = config]
<1>1. OnALadder(set) /\ set.history = m.history
  BY DEF OnALadder, Machines
<1>2. OnALadder(Reset(set)) /\ Reset(set).history = m.history
  BY <1>1, CalmAndReset DEF OnALadder
<1>3. OnConfig(m, config) \in {set, Reset(set)}
  BY DEF OnConfig
<1> HIDE DEF set
<1> QED BY <1>1, <1>2, <1>3 DEF Sound, Result

LEMMA SameSound ==
    ASSUME NEW m, OnALadder(m), NEW x, OnALadder(x), x.history = m.history
    PROVE  Sound(m, Result(x, None))
BY DEF Sound, Result

LEMMA OnProbeSound ==
    ASSUME Typed, NEW m, OnALadder(m), NEW ok \in BOOLEAN, NEW busy \in BOOLEAN
    PROVE  Sound(m, OnProbe(m, ok, busy))
<1>0. m \in Machines
  BY DEF OnALadder
<1>1. CASE ok
  BY <1>0, <1>1, ResetSound DEF OnProbe
<1>2. CASE ~ok /\ (~m.config.enabled \/ m.wan # TRUE)
  BY <1>2, SameSound DEF OnProbe
<1>3. CASE ~ok /\ ~(~m.config.enabled \/ m.wan # TRUE) /\ m.state = "Idle"
  <2> DEFINE n == AtMost(m.failures + 1, TriggerFailures)
             counted == [m EXCEPT !.failures = n, !.first = IF @ = None THEN 0 ELSE @]
  <2>1. n \in 0..TriggerFailures
    BY <1>0, Numbers DEF Machines, AtMost
  <2>2. counted \in Machines /\ counted.history = m.history /\ counted.state = "Idle"
    <3> HIDE DEF n
    <3> QED BY <1>0, <1>3, <2>1, Numbers DEF Machines
  <2>3. OnProbe(m, ok, busy) = IF n >= TriggerFailures /\ counted.first >= TriggerAge
                               THEN TryAct(counted, 1, busy) ELSE Result(counted, None)
    BY <1>3, Zenon DEF OnProbe
  <2> HIDE DEF counted, n
  <2>4. Sound(counted, TryAct(counted, 1, busy)) /\ Sound(counted, Result(counted, None))
    BY <2>2, TryActSound, SameSound DEF OnALadder, Rungs
  <2> QED BY <2>2, <2>3, <2>4 DEF Sound
<1>4. CASE ~ok /\ ~(~m.config.enabled \/ m.wan # TRUE) /\ m.state = "Waiting"
  <2> DEFINE failing == [m EXCEPT !.fails = TRUE]
  <2>1. OnALadder(failing) /\ failing.history = m.history
    BY DEF OnALadder, Machines
  <2>2. m.rung \in Rungs
    BY <1>4 DEF OnALadder
  <2>3. OnProbe(m, ok, busy) = IF m.clock < Settle THEN Result(m, None)
                               ELSE IF m.clock >= Window THEN Escalate(m, busy)
                               ELSE Result(failing, None)
    BY <1>4 DEF OnProbe
  <2> HIDE DEF failing
  <2> QED BY <1>0, <2>1, <2>2, <2>3, SameSound, EscalateSound
<1>5. CASE ~ok /\ ~(~m.config.enabled \/ m.wan # TRUE) /\ m.state = "Cooling"
  <2>1. OnProbe(m, ok, busy) = Result(m, None)
    BY <1>5 DEF OnProbe
  <2> QED BY <2>1, SameSound
<1> QED BY <1>0, <1>1, <1>2, <1>3, <1>4, <1>5 DEF Machines

LEMMA OnTimerSound ==
    ASSUME Typed, NEW m, OnALadder(m), NEW busy \in BOOLEAN
    PROVE  Sound(m, OnTimer(m, busy))
<1> DEFINE stopped == [m EXCEPT !.armed = FALSE]
<1>0. m \in Machines /\ (m.state # "Idle" => m.rung \in Rungs)
  BY DEF OnALadder
<1>1. OnALadder(stopped) /\ stopped.history = m.history
  BY DEF OnALadder, Machines
<1>2. Sound(m, Result(m, None)) /\ Sound(m, Result(stopped, None)) /\ Sound(m, Result(Reset(m), None))
  BY <1>0, <1>1, SameSound, ResetSound
<1>3. m.state # "Idle" => Sound(m, Escalate(m, busy)) /\ Sound(m, TryAct(m, m.rung, busy))
  BY <1>0, EscalateSound, TryActSound
<1>4. OnTimer(m, busy) = IF ~m.armed THEN Result(m, None)
                         ELSE IF m.state = "Waiting" /\ m.clock >= Window
                         THEN IF m.wan # TRUE THEN Result(Reset(m), None)
                              ELSE IF m.fails THEN Escalate(m, busy)
                              ELSE Result(stopped, None)
                         ELSE IF m.state = "Cooling" /\ m.clock = 0 THEN TryAct(m, m.rung, busy)
                         ELSE Result(m, None)
  BY DEF OnTimer
<1> HIDE DEF stopped
<1> QED BY <1>2, <1>3, <1>4

LEMMA StepSound ==
    ASSUME Typed, NEW m, OnALadder(m), NEW e \in Events, NEW busy \in BOOLEAN
    PROVE  Sound(m, Step(m, e, busy))
<1>1. CASE e.kind = "Wan" /\ e.on \in BOOLEAN
  BY <1>1, OnWanSound DEF Step
<1>2. CASE e.kind = "Probe" /\ e.on \in BOOLEAN
  BY <1>2, OnProbeSound DEF Step
<1>3. CASE e.kind = "Timer"
  BY <1>3, OnTimerSound DEF Step
<1>4. CASE e.kind = "Config" /\ e.to \in Configs
  BY <1>4, OnConfigSound DEF Step
<1> QED BY <1>1, <1>2, <1>3, <1>4 DEF Events

\* A session that was lost in the window's time is not met with a remedy: the machine
\* stands still or starts afresh.
LEMMA LostStep ==
    ASSUME NEW m, OnALadder(m), NEW e \in Events, NEW busy \in BOOLEAN,
           m.state = "Waiting", m.clock >= Window, m.wan # TRUE
    PROVE  LET x == Step(m, e, busy).m
           IN  \/ x.rung = None /\ x.state = "Idle"
               \/ x.rung = m.rung /\ x.clock = m.clock /\ x.wan # TRUE
<1>0. m \in Machines
  BY DEF OnALadder
<1>1. CASE e.kind = "Wan"
  <2> DEFINE known == [m EXCEPT !.wan = e.on]
             lost == [known EXCEPT !.failures = 0, !.first = None]
  <2>0. e.on \in BOOLEAN
    BY <1>1 DEF Events
  <2>1. /\ known.rung = m.rung /\ known.clock = m.clock /\ known.wan = e.on
        /\ lost.rung = m.rung /\ lost.clock = m.clock /\ lost.wan = e.on
        /\ known \in Machines
    BY <1>0, <2>0 DEF Machines
  <2>2. Reset(known).rung = None /\ Reset(known).state = "Idle"
    BY <2>1, CalmAndReset
  <2>3. IF e.on THEN OnWan(m, e.on) = Reset(known) ELSE OnWan(m, e.on) \in {known, lost}
    BY <2>0 DEF OnWan
  <2>4. Step(m, e, busy).m = OnWan(m, e.on)
    BY <1>1 DEF Step, Result
  <2> HIDE DEF known, lost
  <2> QED BY <2>0, <2>1, <2>2, <2>3, <2>4
<1>2. CASE e.kind = "Probe"
  <2>1. Step(m, e, busy).m \in {m, Reset(m)}
    BY <1>2 DEF Step, OnProbe, Result
  <2> QED BY <1>0, <2>1, CalmAndReset
<1>3. CASE e.kind = "Timer"
  <2>1. Step(m, e, busy).m \in {m, Reset(m)}
    BY <1>3 DEF Step, OnTimer, Result
  <2> QED BY <1>0, <2>1, CalmAndReset
<1>4. CASE e.kind = "Config"
  <2> DEFINE set == [m EXCEPT !.config = e.to]
  <2>0. e.to \in Configs
    BY <1>4 DEF Events
  <2>1. set.rung = m.rung /\ set.clock = m.clock /\ set.wan = m.wan /\ set \in Machines
    BY <1>0, <2>0 DEF Machines
  <2>2. OnConfig(m, e.to) \in {set, Reset(set)}
    BY DEF OnConfig
  <2>3. Step(m, e, busy).m = OnConfig(m, e.to)
    BY <1>4 DEF Step, Result
  <2>4. Reset(set).rung = None /\ Reset(set).state = "Idle"
    BY <2>1, CalmAndReset
  <2> HIDE DEF set
  <2> QED BY <2>1, <2>2, <2>3, <2>4
<1> QED BY <1>1, <1>2, <1>3, <1>4 DEF Events

-----------------------------------------------------------------------------
(* The steps of the thread.                                                *)

LEMMA DoingWhat ==
    ASSUME Typed
    PROVE  /\ Doing("Record") => thread.todo = <<"Record", "Act">>
           /\ Doing("Act") => thread.todo = <<"Act">>
           /\ Doing("FastBootOff") => thread.todo = <<"FastBootOff", "RecordReboot", "Reboot">>
           /\ Doing("RecordReboot") => thread.todo = <<"RecordReboot", "Reboot">>
           /\ Doing("Reboot") => thread.todo = <<"Reboot">>
           /\ Doing("UndoFastBoot") => thread.todo = <<"UndoFastBoot">>
           /\ Doing("RestoreState") => thread.todo = <<"RestoreState", "ReadWan">>
           /\ Doing("ReadWan") => thread.todo = <<"ReadWan">>
           /\ Doing("RetryFastBoot") => thread.todo = <<"RetryFastBoot">>
<1>1. thread.todo \in Todos
  BY DEF Typed
<1> QED BY <1>1 DEF Doing, Todos

\* At a step of the list the thread does no other.
LEMMA DoingOne ==
    ASSUME NEW one, NEW other, Doing(one), Doing(other)
    PROVE  one = other
BY DEF Doing

\* Where the thread is neither about to give a remedy nor about to read the history.
Plain(todo) == todo \in {<<>>, <<"RetryFastBoot">>, <<"ReadWan">>, <<"UndoFastBoot">>}

LEMMA PlainDoes ==
    ASSUME Plain(thread.todo)
    PROVE  /\ ~Doing("RestoreState") /\ ~Doing("Record") /\ ~Doing("Act")
           /\ ~Doing("FastBootOff") /\ ~Doing("RecordReboot") /\ ~Doing("Reboot")
           /\ thread.todo # <<"UndoFastBoot">> => ~Doing("UndoFastBoot")
           /\ thread.todo \in Todos
BY DEF Plain, Doing, Todos

LEMMA TypeParts ==
    ASSUME Typed
    PROVE  /\ OnALadder(machine) /\ machine.history \in [Rungs -> Ages]
           /\ disk \in [config : Configs, flag : BOOLEAN, actions : [Rungs -> Ages]]
           /\ disk.config \in Configs /\ disk.flag \in BOOLEAN /\ disk.actions \in [Rungs -> Ages]
           /\ done \in [Rungs -> Ages] /\ mishap \subseteq {"unsaved", "unflagged"}
           /\ fastBoot \in BOOLEAN /\ pending \in BOOLEAN /\ outlived \in BOOLEAN /\ guard \in 0..Guard
           /\ DOMAIN thread = {"event", "todo"} /\ thread.event \in Events \cup {None}
           /\ thread.todo \in Todos
BY DEF Typed, TypeOK, OnALadder, Machines

\* Types after a step, from their parts.
LEMMA TypedAgain ==
    ASSUME OnALadder(machine)', thread' \in [event : Events \cup {None}, todo : Todos],
           pending' \in BOOLEAN, guard' \in 0..Guard, fastBoot' \in BOOLEAN,
           disk' \in [config : Configs, flag : BOOLEAN, actions : [Rungs -> Ages]],
           done' \in [Rungs -> Ages], outlived' \in BOOLEAN, mishap' \subseteq {"unsaved", "unflagged"},
           Doing("Record")' \/ Doing("Act")' => machine'.rung \in Rungs
    PROVE  Typed'
BY DEF Typed, TypeOK, OnALadder, Machines

\* The history on disk and in memory stays, and so does what was given.
LEMMA RecordedOn ==
    ASSUME Recorded, ~Doing("RestoreState"), disk'.actions = disk.actions,
           machine'.history = machine.history, done' = done, Plain(thread'.todo)
    PROVE  Recorded'
<1>1. Plain(thread.todo)'
  BY DEF Plain
<1>2. Covers(disk'.actions, done') /\ Covers(machine'.history, done')
  BY DEF Recorded
<1> QED BY <1>1, <1>2, PlainDoes DEF Recorded, Plain, Doing

LEMMA ReceiveKeeps ==
    ASSUME IInv, NEW e \in Events, Receive(e), UNCHANGED <<machine, pending, guard, fastBoot, history>>,
           disk' \in [config : Configs, flag : BOOLEAN, actions : [Rungs -> Ages]],
           disk'.flag = disk.flag, disk'.actions = disk.actions
    PROVE  IInv'
<1>1. /\ UNCHANGED <<machine, pending, guard, fastBoot, done, outlived, mishap>>
      /\ thread.todo = <<>> /\ thread'.todo \in {<<>>, <<"RetryFastBoot">>}
      /\ thread' = [event |-> e, todo |-> thread'.todo]
  BY DEF Receive, Waits, history
<1>2. Plain(thread.todo) /\ Plain(thread'.todo)
  BY <1>1 DEF Plain
<1>3. Typed'
  BY <1>1, <1>2, TypeParts, TypedAgain DEF IInv, Plain, Todos, Doing, OnALadder, Machines
<1>4. FlagTells'
  BY <1>1, PlainDoes, <1>2 DEF IInv, FlagTells
<1>5. "unsaved" \in mishap' \/ Recorded'
  BY <1>1, <1>2, PlainDoes, RecordedOn DEF IInv
<1> QED BY <1>1, <1>3, <1>4, <1>5 DEF IInv, Outlived

LEMMA WakeKeeps ==
    ASSUME IInv, Wake \/ WanEvent \/ ProbeResult \/ Configure
    PROVE  IInv'
<1>0. /\ disk \in [config : Configs, flag : BOOLEAN, actions : [Rungs -> Ages]]
      /\ Timer \in Events
  BY TypeParts DEF IInv, Timer, Events
<1>1. CASE Wake
  BY <1>0, <1>1, ReceiveKeeps DEF Wake
<1>2. CASE WanEvent
  <2>1. PICK on \in BOOLEAN : Receive([kind |-> "Wan", on |-> on])
    BY <1>2 DEF WanEvent
  <2>2. [kind |-> "Wan", on |-> on] \in Events
    BY DEF Events
  <2>3. UNCHANGED <<machine, pending, guard, disk, fastBoot, history>>
    BY <1>2 DEF WanEvent, Elsewhere
  <2> QED BY <1>0, <2>1, <2>2, <2>3, ReceiveKeeps
<1>3. CASE ProbeResult
  <2>1. PICK ok \in BOOLEAN : Receive([kind |-> "Probe", on |-> ok])
    BY <1>3 DEF ProbeResult
  <2>2. [kind |-> "Probe", on |-> ok] \in Events
    BY DEF Events
  <2>3. UNCHANGED <<machine, pending, guard, disk, fastBoot, history>>
    BY <1>3 DEF ProbeResult, Elsewhere
  <2> QED BY <1>0, <2>1, <2>2, <2>3, ReceiveKeeps
<1>4. CASE Configure
  <2>1. PICK config \in Configs : /\ disk' = [disk EXCEPT !.config = config]
                                  /\ Receive([kind |-> "Config", to |-> config])
                                  /\ UNCHANGED <<Elsewhere, guard>>
    BY <1>4 DEF Configure
  <2>2. [kind |-> "Config", to |-> config] \in Events
    BY DEF Events
  <2>3. /\ disk' \in [config : Configs, flag : BOOLEAN, actions : [Rungs -> Ages]]
        /\ disk'.flag = disk.flag /\ disk'.actions = disk.actions
        /\ UNCHANGED <<machine, pending, guard, fastBoot, history>>
    BY <1>0, <2>1 DEF Elsewhere
  <2> QED BY <2>1, <2>2, <2>3, ReceiveKeeps
<1> QED BY <1>1, <1>2, <1>3, <1>4

\* What a rung does is what the history allows and knows.
LEMMA DecideKeeps ==
    ASSUME IInv, Decide
    PROVE  IInv'
<1>1. PICK busy \in BOOLEAN :
        LET r == Step(machine, thread.event, busy)
        IN  /\ machine' = r.m
            /\ thread' = [event |-> None, todo |-> RungSteps(r.act)]
            /\ outlived' = (/\ r.m.state = "Waiting" /\ r.m.rung = machine.rung
                            /\ outlived \/ (r.m.clock >= Window /\ r.m.wan # TRUE))
  BY DEF Decide
<1> DEFINE r == Step(machine, thread.event, busy)
<1>2. /\ thread.event \in Events /\ thread.todo = <<>>
      /\ UNCHANGED <<pending, guard, disk, fastBoot, done, mishap>>
  BY TypeParts DEF IInv, Decide
<1>3. OnALadder(machine) /\ machine.history \in [Rungs -> Ages] /\ done \in [Rungs -> Ages]
  BY TypeParts DEF IInv
<1>4. Sound(machine, r)
  BY <1>2, <1>3, StepSound DEF IInv
<1>5. machine' = r.m /\ thread' = [event |-> None, todo |-> RungSteps(r.act)] /\ outlived' \in BOOLEAN
  BY <1>1, Zenon
<1>6. outlived' => /\ machine'.state = "Waiting" /\ machine'.rung = machine.rung
                   /\ outlived \/ (machine'.clock >= Window /\ machine'.wan # TRUE)
  BY <1>1, Zenon
<1>7. Plain(thread.todo)
  BY <1>2 DEF Plain
<1>8. Outlived'
  <2> SUFFICES ASSUME outlived', outlived
               PROVE  machine'.clock >= Window /\ machine'.wan # TRUE
    BY <1>6 DEF Outlived
  <2>1. machine.state = "Waiting" /\ machine.clock >= Window /\ machine.wan # TRUE
    BY DEF IInv, Outlived
  <2>2. machine'.state = "Waiting"
    BY <1>6
  <2> QED BY <1>2, <1>3, <1>5, <2>1, <2>2, LostStep
<1> HIDE DEF r
<1>9. CASE r.act = None
  <2>1. thread'.todo = <<>> /\ machine'.history = machine.history
    BY <1>4, <1>5, <1>9, Numbers DEF Sound, RungSteps, Rungs
  <2>2. Plain(thread'.todo)
    BY <2>1 DEF Plain
  <2>3. Typed'
    BY <1>2, <1>4, <1>5, <2>1, TypeParts, TypedAgain DEF IInv, Sound, Todos, Doing, OnALadder, Machines
  <2>4. FlagTells'
    BY <1>2, <1>7, PlainDoes DEF IInv, FlagTells
  <2>5. "unsaved" \in mishap' \/ Recorded'
    BY <1>2, <1>7, <2>1, <2>2, PlainDoes, RecordedOn DEF IInv
  <2> QED BY <1>8, <2>3, <2>4, <2>5 DEF IInv
<1>10. ASSUME NEW act \in Rungs, r.act = act
       PROVE  IInv'
  <2>0. act # None
    BY <1>10, Numbers
  <2>1. /\ OnALadder(r.m) /\ r.m.rung = act /\ r.m.history = WithRung(machine.history, act)
        /\ \A a \in machine.history[act] : a >= Cooldown[act]
        /\ Cardinality(machine.history[act]) < Cap[act]
    BY <1>4, <1>10, <2>0 DEF Sound
  <2>2. thread'.todo = IF act = 4 THEN <<"FastBootOff", "RecordReboot", "Reboot">> ELSE <<"Record", "Act">>
    BY <1>5, <1>10, <2>0 DEF RungSteps
  <2>3. Typed'
    <3>1. thread' \in [event : Events \cup {None}, todo : Todos]
      BY <1>5, <2>2 DEF Todos
    <3>2. OnALadder(machine)' /\ machine'.rung \in Rungs
      BY <1>5, <1>10, <2>1 DEF OnALadder, Machines
    <3> QED BY <1>2, <1>5, <3>1, <3>2, TypeParts, TypedAgain DEF IInv
  <2>4. FlagTells'
    BY <1>2, <1>7, PlainDoes DEF IInv, FlagTells
  <2>5. ASSUME "unsaved" \notin mishap' PROVE Recorded'
    <3>1. Covers(disk.actions, done) /\ Covers(machine.history, done)
      BY <1>2, <1>7, <2>5, PlainDoes DEF IInv, Recorded
    <3>2. Covers(machine'.history, done') /\ 0 \in machine'.history[act]
      <4>1. Covers(WithRung(machine.history, act), done) /\ 0 \in WithRung(machine.history, act)[act]
        BY <1>3, <3>1, CoversMore, WithRungIs
      <4> QED BY <1>2, <1>5, <2>1, <4>1
    <3>3. Allowed(act)
      BY <1>3, <1>10, <2>1, <3>1, CoveredAllowed
    <3>4. Allowed(act)'
      BY <1>2, <3>3 DEF Allowed
    <3>5. /\ ~Doing("Act")' /\ ~Doing("Reboot")' /\ ~Doing("RecordReboot")'
          /\ Doing("Record")' => machine'.rung = act
          /\ Doing("FastBootOff")' => act = 4
      BY <1>5, <2>1, <2>2 DEF Doing
    <3> QED BY <1>2, <3>1, <3>2, <3>4, <3>5 DEF Recorded
  <2> QED BY <1>8, <2>3, <2>4, <2>5 DEF IInv
<1> QED BY <1>4, <1>9, <1>10 DEF Sound

\* A step that leaves the machine, the last remedies and what was given alone, and ends
\* where no remedy is about to be given.
LEMMA PlainKeeps ==
    ASSUME IInv, ~Doing("RestoreState"), Plain(thread'.todo),
           thread' \in [event : Events \cup {None}, todo : Todos],
           UNCHANGED <<machine, guard, done, outlived>>,
           pending' \in BOOLEAN, fastBoot' \in BOOLEAN,
           disk' \in [config : Configs, flag : BOOLEAN, actions : [Rungs -> Ages]],
           disk'.actions = disk.actions, mishap \subseteq mishap',
           mishap' \subseteq {"unsaved", "unflagged"}, FlagTells'
    PROVE  IInv'
<1>1. Typed'
  <2>1. ~Doing("Record")' /\ ~Doing("Act")'
    BY DEF Plain, Doing
  <2> QED BY <2>1, TypeParts, TypedAgain DEF IInv, OnALadder, Machines
<1>2. "unsaved" \in mishap' \/ Recorded'
  BY RecordedOn DEF IInv
<1> QED BY <1>1, <1>2 DEF IInv, Outlived

\* A step of the thread but its first: the list is one of those, without its head.
LEMMA PopIs ==
    ASSUME Typed, Pop
    PROVE  thread' = [event |-> thread.event, todo |-> Tail(thread.todo)]
BY TypeParts DEF Pop, Then, Typed

LEMMA ThenIs ==
    ASSUME Typed, NEW steps, Then(steps)
    PROVE  thread' = [event |-> thread.event, todo |-> steps]
BY DEF Then, Typed

LEMMA RecordKeeps ==
    ASSUME IInv, Record
    PROVE  IInv'
<1>1. /\ Doing("Record") /\ Pop /\ UNCHANGED <<machine, pending, guard, fastBoot, done, outlived>>
      /\ \/ /\ disk' = [disk EXCEPT !.actions = WithRung(@, machine.rung), !.flag = FALSE]
            /\ mishap' = mishap \cup (IF disk.flag THEN {"unflagged"} ELSE {})
         \/ mishap' = mishap \cup {"unsaved"} /\ disk' = disk
  BY DEF Record
<1>2. thread.todo = <<"Record", "Act">> /\ Typed /\ machine.rung \in Rungs
  BY <1>1, DoingWhat DEF IInv, Typed
<1>3. thread' = [event |-> thread.event, todo |-> <<"Act">>]
  BY <1>1, <1>2, PopIs
<1>4. /\ WithRung(disk.actions, machine.rung) \in [Rungs -> Ages]
      /\ 0 \in WithRung(disk.actions, machine.rung)[machine.rung]
  BY <1>2, TypeParts, WithRungIs
<1>5. Typed'
  <2>1. thread' \in [event : Events \cup {None}, todo : Todos]
    BY <1>2, <1>3, TypeParts DEF Todos
  <2>2. disk' \in [config : Configs, flag : BOOLEAN, actions : [Rungs -> Ages]]
    BY <1>1, <1>2, <1>4, TypeParts
  <2>3. mishap' \subseteq {"unsaved", "unflagged"}
    BY <1>1, <1>2, TypeParts
  <2>4. OnALadder(machine)'
    BY <1>1, <1>2, TypeParts DEF OnALadder, Machines
  <2> QED BY <1>1, <1>2, <2>1, <2>2, <2>3, <2>4, TypeParts, TypedAgain
<1>6. FlagTells'
  <2>1. ~Doing("RecordReboot") /\ ~Doing("UndoFastBoot")
    BY <1>2 DEF Doing
  <2>2. ~fastBoot => disk.flag \/ "unflagged" \in mishap
    BY <2>1 DEF IInv, FlagTells
  <2>3. ~fastBoot' => disk'.flag \/ "unflagged" \in mishap'
    BY <1>1, <2>2
  <2> QED BY <2>3 DEF FlagTells
<1>7. ASSUME "unsaved" \notin mishap' PROVE Recorded'
  <2>1. disk' = [disk EXCEPT !.actions = WithRung(@, machine.rung), !.flag = FALSE] /\ "unsaved" \notin mishap
    BY <1>1, <1>7
  <2>2. disk'.actions = WithRung(disk.actions, machine.rung)
    BY <1>2, <2>1, TypeParts
  <2>3. Recorded /\ ~Doing("RestoreState")
    BY <1>2, <2>1 DEF IInv, Doing
  <2>4. Covers(disk'.actions, done) /\ Covers(machine.history, done)
    BY <1>2, <2>2, <2>3, TypeParts, CoversMore DEF Recorded
  <2>5. Allowed(machine.rung) /\ 0 \in machine.history[machine.rung]
    BY <1>1, <2>3 DEF Recorded
  <2>6. Allowed(machine.rung)'
    BY <1>1, <2>5 DEF Allowed
  <2>7. ~Doing("FastBootOff")' /\ ~Doing("RecordReboot")' /\ ~Doing("Reboot")'
    BY <1>3 DEF Doing
  <2> QED BY <1>1, <1>4, <2>2, <2>4, <2>5, <2>6, <2>7 DEF Recorded
<1> QED BY <1>1, <1>5, <1>6, <1>7 DEF IInv, Outlived

\* What is given is known before.
LEMMA GivenIs ==
    ASSUME Typed, NEW r \in Rungs, done' = Given(r)
    PROVE  /\ done' \in [Rungs -> Ages]
           /\ \A h \in [Rungs -> Ages] :
                "unsaved" \notin mishap /\ Covers(h, done) /\ 0 \in h[r] => Covers(h, done')
<1>1. done \in [Rungs -> Ages]
  BY TypeParts
<1>2. done' \in [Rungs -> Ages]
  BY <1>1, WithRungIs, NothingCovered DEF Given
<1>3. "unsaved" \notin mishap => done' = WithRung(done, r)
  BY DEF Given
<1> QED BY <1>1, <1>2, <1>3, CoversMore

LEMMA ActKeeps ==
    ASSUME IInv, Act
    PROVE  IInv'
<1>1. /\ Doing("Act") /\ Pop /\ done' = Given(machine.rung)
      /\ UNCHANGED <<machine, pending, guard, disk, fastBoot, outlived, mishap>>
  BY DEF Act
<1>2. thread.todo = <<"Act">> /\ Typed /\ machine.rung \in Rungs
  BY <1>1, DoingWhat DEF IInv, Typed
<1>3. thread' = [event |-> thread.event, todo |-> <<>>]
  BY <1>1, <1>2, PopIs
<1>4. Plain(thread.todo)'
  BY <1>3 DEF Plain
<1>5. done' \in [Rungs -> Ages]
  BY <1>1, <1>2, GivenIs
<1>6. Typed'
  <2>1. thread' \in [event : Events \cup {None}, todo : Todos]
    BY <1>2, <1>3, TypeParts DEF Todos
  <2>2. OnALadder(machine)'
    BY <1>1, <1>2, TypeParts DEF OnALadder, Machines
  <2> QED BY <1>1, <1>2, <1>5, <2>1, <2>2, TypeParts, TypedAgain
<1>7. FlagTells'
  BY <1>1, <1>2 DEF IInv, FlagTells, Doing
<1>8. ASSUME "unsaved" \notin mishap' PROVE Recorded'
  <2>1. "unsaved" \notin mishap /\ Recorded /\ ~Doing("RestoreState")
    BY <1>1, <1>2, <1>8 DEF IInv, Doing
  <2>2. Covers(disk.actions, done') /\ Covers(machine.history, done')
    BY <1>1, <1>2, <2>1, GivenIs, TypeParts DEF Recorded
  <2>3. (Covers(disk.actions, done) /\ Covers(machine.history, done))'
    BY <1>1, <2>2
  <2> QED BY <1>4, <2>3, PlainDoes DEF Recorded, Plain, Doing
<1> QED BY <1>1, <1>6, <1>7, <1>8 DEF IInv, Outlived

LEMMA FastBootOffKeeps ==
    ASSUME IInv, FastBootOff
    PROVE  IInv'
<1>1. /\ Doing("FastBootOff") /\ UNCHANGED <<machine, pending, guard, disk, done, outlived, mishap>>
      /\ \/ fastBoot' = FALSE /\ Pop
         \/ Then(<<>>) /\ fastBoot' = fastBoot
  BY DEF FastBootOff, history
<1>2. thread.todo = <<"FastBootOff", "RecordReboot", "Reboot">> /\ Typed
  BY <1>1, DoingWhat DEF IInv
<1>3. CASE Then(<<>>) /\ fastBoot' = fastBoot
  <2>1. thread' = [event |-> thread.event, todo |-> <<>>]
    BY <1>2, <1>3, ThenIs
  <2>2. FlagTells' /\ ~Doing("RestoreState") /\ Plain(thread'.todo)
    BY <1>1, <1>2, <1>3, <2>1 DEF IInv, FlagTells, Doing, Plain
  <2> QED BY <1>1, <1>2, <1>3, <2>1, <2>2, TypeParts, PlainKeeps DEF Todos
<1>4. CASE fastBoot' = FALSE /\ Pop
  <2>1. thread' = [event |-> thread.event, todo |-> <<"RecordReboot", "Reboot">>]
    BY <1>2, <1>4, PopIs
  <2>2. Doing("RecordReboot")' /\ ~Doing("Record")' /\ ~Doing("Act")' /\ ~Doing("Reboot")'
    BY <2>1 DEF Doing
  <2>3. Typed'
    <3>1. thread' \in [event : Events \cup {None}, todo : Todos]
      BY <1>2, <2>1, TypeParts DEF Todos
    <3>2. OnALadder(machine)'
      BY <1>1, <1>2, TypeParts DEF OnALadder, Machines
    <3> QED BY <1>1, <1>2, <1>4, <2>2, <3>1, <3>2, TypeParts, TypedAgain
  <2>4. ASSUME "unsaved" \notin mishap' PROVE Recorded'
    <3>1. Recorded /\ ~Doing("RestoreState")
      BY <1>1, <1>2, <2>4 DEF IInv, Doing
    <3>2. Allowed(4)'
      BY <1>1, <3>1 DEF Recorded, Allowed
    <3> QED BY <1>1, <2>2, <3>1, <3>2 DEF Recorded
  <2> QED BY <1>1, <2>2, <2>3, <2>4 DEF IInv, Outlived, FlagTells
<1> QED BY <1>1, <1>3, <1>4

LEMMA RecordRebootKeeps ==
    ASSUME IInv, RecordReboot
    PROVE  IInv'
<1>1. /\ Doing("RecordReboot") /\ UNCHANGED <<machine, pending, guard, fastBoot, done, outlived, mishap>>
      /\ \/ disk' = [disk EXCEPT !.actions = WithRung(@, 4), !.flag = TRUE] /\ Pop
         \/ Then(<<"UndoFastBoot">>) /\ disk' = disk
  BY DEF RecordReboot, history
<1>2. thread.todo = <<"RecordReboot", "Reboot">> /\ Typed
  BY <1>1, DoingWhat DEF IInv
<1>3. CASE Then(<<"UndoFastBoot">>) /\ disk' = disk
  <2>1. thread' = [event |-> thread.event, todo |-> <<"UndoFastBoot">>]
    BY <1>2, <1>3, ThenIs
  <2>2. FlagTells' /\ ~Doing("RestoreState") /\ Plain(thread'.todo)
    BY <1>2, <2>1 DEF FlagTells, Doing, Plain
  <2> QED BY <1>1, <1>2, <1>3, <2>1, <2>2, TypeParts, PlainKeeps DEF Todos
<1>4. CASE disk' = [disk EXCEPT !.actions = WithRung(@, 4), !.flag = TRUE] /\ Pop
  <2>1. thread' = [event |-> thread.event, todo |-> <<"Reboot">>]
    BY <1>2, <1>4, PopIs
  <2>2. ~Doing("RecordReboot")' /\ ~Doing("Record")' /\ ~Doing("Act")' /\ ~Doing("FastBootOff")'
    BY <2>1 DEF Doing
  <2>3. /\ 4 \in Rungs /\ WithRung(disk.actions, 4) \in [Rungs -> Ages]
        /\ 0 \in WithRung(disk.actions, 4)[4]
    BY <1>2, TypeParts, WithRungIs DEF Rungs
  <2>4. /\ disk' \in [config : Configs, flag : BOOLEAN, actions : [Rungs -> Ages]]
        /\ disk'.flag /\ disk'.actions = WithRung(disk.actions, 4)
    BY <1>2, <1>4, <2>3, TypeParts
  <2>5. Typed'
    <3>1. thread' \in [event : Events \cup {None}, todo : Todos]
      BY <1>2, <2>1, TypeParts DEF Todos
    <3>2. OnALadder(machine)'
      BY <1>1, <1>2, TypeParts DEF OnALadder, Machines
    <3> QED BY <1>1, <1>2, <2>2, <2>4, <3>1, <3>2, TypeParts, TypedAgain
  <2>6. ASSUME "unsaved" \notin mishap' PROVE Recorded'
    <3>1. Recorded /\ ~Doing("RestoreState")
      BY <1>1, <1>2, <2>6 DEF IInv, Doing
    <3>2. Allowed(4)'
      BY <1>1, <3>1 DEF Recorded, Allowed
    <3>3. Covers(disk'.actions, done)
      BY <1>2, <2>3, <2>4, <3>1, TypeParts, CoversMore DEF Recorded
    <3> QED BY <1>1, <2>2, <2>3, <2>4, <3>1, <3>2, <3>3 DEF Recorded
  <2> QED BY <1>1, <2>4, <2>5, <2>6 DEF IInv, Outlived, FlagTells
<1> QED BY <1>1, <1>3, <1>4

LEMMA UndoKeeps ==
    ASSUME IInv, UndoFastBoot
    PROVE  IInv'
<1>1. /\ Doing("UndoFastBoot") /\ Pop /\ UNCHANGED <<machine, pending, guard, done, outlived>>
      /\ \/ /\ fastBoot' = TRUE /\ mishap' = mishap
            /\ disk' = [disk EXCEPT !.flag = FALSE] \/ disk' = disk
         \/ disk' = [disk EXCEPT !.flag = TRUE] /\ fastBoot' = fastBoot /\ mishap' = mishap
         \/ /\ mishap' = mishap \cup (IF disk.flag THEN {} ELSE {"unflagged"})
            /\ fastBoot' = fastBoot /\ disk' = disk
  BY DEF UndoFastBoot
<1>2. thread.todo = <<"UndoFastBoot">> /\ Typed
  BY <1>1, DoingWhat DEF IInv
<1>3. thread' = [event |-> thread.event, todo |-> <<>>]
  BY <1>1, <1>2, PopIs
<1>4. /\ disk' \in [config : Configs, flag : BOOLEAN, actions : [Rungs -> Ages]]
      /\ disk'.actions = disk.actions /\ fastBoot' \in BOOLEAN
      /\ mishap \subseteq mishap' /\ mishap' \subseteq {"unsaved", "unflagged"}
      /\ fastBoot' \/ disk'.flag \/ "unflagged" \in mishap'
  BY <1>1, <1>2, TypeParts
<1>5. FlagTells' /\ ~Doing("RestoreState") /\ Plain(thread'.todo)
  BY <1>2, <1>3, <1>4 DEF FlagTells, Doing, Plain
<1>6. thread' \in [event : Events \cup {None}, todo : Todos]
  BY <1>2, <1>3, TypeParts DEF Todos
<1> QED BY <1>1, <1>2, <1>4, <1>5, <1>6, TypeParts, PlainKeeps

\* A start: the last remedies are yet to be read.
LEMMA StartsKeeps ==
    ASSUME IInv, Starts, done' \in [Rungs -> Ages], UNCHANGED fastBoot,
           mishap \subseteq mishap', mishap' \subseteq {"unsaved", "unflagged"},
           ~fastBoot => disk.flag \/ "unflagged" \in mishap',
           "unsaved" \notin mishap' => Covers(disk.actions, done')
    PROVE  IInv'
<1>1. /\ machine' = Fresh(disk.config) /\ thread' = Starting
      /\ pending' = FALSE /\ guard' = 0 /\ outlived' = FALSE /\ UNCHANGED disk
  BY DEF Starts
<1>2. Typed /\ disk.config \in Configs
  BY TypeParts DEF IInv
<1>3. OnALadder(machine)'
  BY <1>1, <1>2, Numbers, NothingCovered DEF OnALadder, Machines, Fresh
<1>4. thread' \in [event : Events \cup {None}, todo : Todos]
  BY <1>1 DEF Starting, Todos
<1>5. /\ Doing("RestoreState")' /\ ~Doing("Record")' /\ ~Doing("Act")'
      /\ ~Doing("FastBootOff")' /\ ~Doing("RecordReboot")' /\ ~Doing("Reboot")'
  BY <1>1 DEF Doing, Starting
<1>6. Typed'
  <2>1. /\ disk' \in [config : Configs, flag : BOOLEAN, actions : [Rungs -> Ages]]
        /\ fastBoot' \in BOOLEAN /\ pending' \in BOOLEAN /\ outlived' \in BOOLEAN
    BY <1>1, <1>2, TypeParts
  <2>2. guard' \in 0..Guard
    BY <1>1, Numbers
  <2> QED BY <1>3, <1>4, <1>5, <2>1, <2>2, TypedAgain
<1>7. "unsaved" \in mishap' \/ Recorded'
  BY <1>1, <1>5 DEF Recorded
<1> QED BY <1>1, <1>6, <1>7 DEF IInv, Outlived, FlagTells

LEMMA RebootKeeps ==
    ASSUME IInv, Reboot
    PROVE  IInv'
<1>1. /\ Doing("Reboot") /\ UNCHANGED <<fastBoot, mishap>>
      /\ \/ done' = Given(4) /\ Starts
         \/ /\ Then(<<"UndoFastBoot">>)
            /\ UNCHANGED <<machine, pending, guard, disk, outlived, done>>
  BY DEF Reboot
<1>2. thread.todo = <<"Reboot">> /\ Typed
  BY <1>1, DoingWhat DEF IInv
<1>3. ~fastBoot => disk.flag \/ "unflagged" \in mishap
  BY <1>2 DEF IInv, FlagTells, Doing
<1>4. CASE done' = Given(4) /\ Starts
  <2>1. /\ done' \in [Rungs -> Ages]
        /\ \A h \in [Rungs -> Ages] :
             "unsaved" \notin mishap /\ Covers(h, done) /\ 0 \in h[4] => Covers(h, done')
    <3>1. 4 \in Rungs
      BY DEF Rungs
    <3> QED BY <1>2, <1>4, <3>1, GivenIs
  <2>2. "unsaved" \notin mishap' => Covers(disk.actions, done')
    BY <1>1, <1>2, <2>1, TypeParts DEF IInv, Recorded
  <2> QED BY <1>1, <1>2, <1>3, <1>4, <2>1, <2>2, TypeParts, StartsKeeps
<1>5. CASE /\ Then(<<"UndoFastBoot">>)
           /\ UNCHANGED <<machine, pending, guard, disk, outlived, done>>
  <2>1. thread' = [event |-> thread.event, todo |-> <<"UndoFastBoot">>]
    BY <1>2, <1>5, ThenIs
  <2>2. FlagTells' /\ ~Doing("RestoreState") /\ Plain(thread'.todo)
    BY <1>2, <2>1 DEF FlagTells, Doing, Plain
  <2> QED BY <1>1, <1>2, <1>5, <2>1, <2>2, TypeParts, PlainKeeps DEF Todos
<1> QED BY <1>1, <1>4, <1>5

LEMMA RestartKeeps ==
    ASSUME IInv, Restart
    PROVE  IInv'
<1>1. /\ Starts /\ UNCHANGED <<fastBoot, done>>
      /\ mishap' = mishap \cup
          (IF (Doing("RecordReboot") \/ Doing("UndoFastBoot")) /\ ~disk.flag THEN {"unflagged"} ELSE {})
  BY DEF Restart
<1>2. /\ done' \in [Rungs -> Ages] /\ mishap \subseteq mishap' /\ mishap' \subseteq {"unsaved", "unflagged"}
  BY <1>1, TypeParts DEF IInv
<1>3. ~fastBoot => disk.flag \/ "unflagged" \in mishap'
  BY <1>1 DEF IInv, FlagTells
<1>4. "unsaved" \notin mishap' => Covers(disk.actions, done')
  BY <1>1, <1>2 DEF IInv, Recorded
<1> QED BY <1>1, <1>2, <1>3, <1>4, StartsKeeps

\* The last remedies are read back.
LEMMA RestoreStateKeeps ==
    ASSUME IInv, RestoreState
    PROVE  IInv'
<1>1. /\ Doing("RestoreState") /\ Pop /\ machine' = [machine EXCEPT !.history = disk.actions]
      /\ UNCHANGED <<guard, done, outlived, mishap>>
      /\ \/ ~disk.flag /\ UNCHANGED <<disk, fastBoot, pending>>
         \/ /\ disk.flag /\ fastBoot' = TRUE /\ pending' = pending
            /\ disk' = [disk EXCEPT !.flag = FALSE] \/ disk' = disk
         \/ disk.flag /\ pending' = TRUE /\ UNCHANGED <<disk, fastBoot>>
  BY DEF RestoreState, history
<1>2. thread.todo = <<"RestoreState", "ReadWan">> /\ Typed
  BY <1>1, DoingWhat DEF IInv
<1>3. thread' = [event |-> thread.event, todo |-> <<"ReadWan">>]
  BY <1>1, <1>2, PopIs
<1>4. /\ disk' \in [config : Configs, flag : BOOLEAN, actions : [Rungs -> Ages]]
      /\ disk'.actions = disk.actions /\ fastBoot' \in BOOLEAN /\ pending' \in BOOLEAN
      /\ fastBoot' \/ (disk'.flag = disk.flag /\ fastBoot' = fastBoot)
  BY <1>1, <1>2, TypeParts
<1>5. OnALadder(machine)' /\ machine'.history = disk.actions
  BY <1>1, <1>2, TypeParts DEF OnALadder, Machines
<1>6. Plain(thread.todo)' /\ ~Doing("UndoFastBoot")
  BY <1>2, <1>3 DEF Plain, Doing
<1>7. Typed'
  <2>1. thread' \in [event : Events \cup {None}, todo : Todos]
    BY <1>2, <1>3, TypeParts DEF Todos
  <2>2. ~Doing("Record")' /\ ~Doing("Act")'
    BY <1>3 DEF Doing
  <2> QED BY <1>1, <1>2, <1>4, <1>5, <2>1, <2>2, TypeParts, TypedAgain
<1>8. FlagTells'
  <2>1. ~fastBoot => disk.flag \/ "unflagged" \in mishap
    BY <1>2 DEF IInv, FlagTells, Doing
  <2> QED BY <1>1, <1>4, <2>1 DEF FlagTells
<1>9. ASSUME "unsaved" \notin mishap' PROVE Recorded'
  <2>1. Covers(disk.actions, done)
    BY <1>1, <1>9 DEF IInv, Recorded
  <2>2. (Covers(disk.actions, done) /\ Covers(machine.history, done))'
    BY <1>1, <1>4, <1>5, <2>1
  <2>3. /\ ~Doing("Record")' /\ ~Doing("Act")'
        /\ ~Doing("FastBootOff")' /\ ~Doing("RecordReboot")' /\ ~Doing("Reboot")'
    BY <1>3 DEF Doing
  <2> QED BY <2>2, <2>3 DEF Recorded
<1>10. machine'.state = machine.state /\ machine'.clock = machine.clock /\ machine'.wan = machine.wan
  BY <1>1, <1>2, TypeParts DEF OnALadder, Machines
<1> QED BY <1>1, <1>7, <1>8, <1>9, <1>10 DEF IInv, Outlived

LEMMA RetryKeeps ==
    ASSUME IInv, RetryFastBoot
    PROVE  IInv'
<1>1. /\ Doing("RetryFastBoot") /\ Pop /\ UNCHANGED <<machine, guard, done, outlived, mishap>>
      /\ \/ /\ fastBoot' = TRUE /\ pending' = FALSE
            /\ disk' = [disk EXCEPT !.flag = FALSE] \/ disk' = disk
         \/ UNCHANGED <<fastBoot, pending, disk>>
  BY DEF RetryFastBoot, history
<1>2. thread.todo = <<"RetryFastBoot">> /\ Typed
  BY <1>1, DoingWhat DEF IInv
<1>3. thread' = [event |-> thread.event, todo |-> <<>>]
  BY <1>1, <1>2, PopIs
<1>4. /\ disk' \in [config : Configs, flag : BOOLEAN, actions : [Rungs -> Ages]]
      /\ disk'.actions = disk.actions /\ fastBoot' \in BOOLEAN /\ pending' \in BOOLEAN
      /\ fastBoot' \/ (disk'.flag = disk.flag /\ fastBoot' = fastBoot)
  BY <1>1, <1>2, TypeParts
<1>5. ~fastBoot => disk.flag \/ "unflagged" \in mishap
  BY <1>2 DEF IInv, FlagTells, Doing
<1>6. FlagTells' /\ ~Doing("RestoreState") /\ Plain(thread'.todo)
  BY <1>1, <1>2, <1>3, <1>4, <1>5 DEF FlagTells, Doing, Plain
<1>7. thread' \in [event : Events \cup {None}, todo : Todos]
  BY <1>2, <1>3, TypeParts DEF Todos
<1> QED BY <1>1, <1>2, <1>4, <1>6, <1>7, TypeParts, PlainKeeps

LEMMA ReadWanKeeps ==
    ASSUME IInv, ReadWan
    PROVE  IInv'
<1>1. PICK on \in BOOLEAN \cup {None} :
        thread' = [event |-> IF on = None THEN None ELSE [kind |-> "Wan", on |-> on], todo |-> <<>>]
  BY DEF ReadWan
<1>2. Doing("ReadWan") /\ UNCHANGED <<machine, pending, guard, disk, fastBoot, done, outlived, mishap>>
  BY DEF ReadWan, history
<1>3. thread.todo = <<"ReadWan">> /\ Typed
  BY <1>2, DoingWhat DEF IInv
<1>4. FlagTells' /\ ~Doing("RestoreState") /\ Plain(thread'.todo)
  BY <1>1, <1>2, <1>3 DEF IInv, FlagTells, Doing, Plain
<1>5. thread' \in [event : Events \cup {None}, todo : Todos]
  BY <1>1 DEF Todos, Events
<1> QED BY <1>2, <1>3, <1>4, <1>5, TypeParts, PlainKeeps

LEMMA UserChangeKeeps ==
    ASSUME IInv, UserChange
    PROVE  IInv'
<1>1. guard' \in 0..Guard /\ UNCHANGED <<machine, pending, fastBoot, thread, disk, done, outlived, mishap>>
  BY Numbers DEF UserChange, Elsewhere, history
<1>2. Typed'
  BY <1>1 DEF IInv, Typed, TypeOK, Doing
<1>3. (FlagTells /\ ("unsaved" \in mishap \/ Recorded) /\ Outlived)'
  BY <1>1 DEF IInv, FlagTells, Recorded, Outlived, Allowed, Doing
<1> QED BY <1>2, <1>3 DEF IInv

LEMMA TickKeeps ==
    ASSUME IInv, Tick
    PROVE  IInv'
<1> DEFINE clock == CASE machine.state = "Waiting" -> AtMost(machine.clock + 1, Window)
                      [] machine.state = "Cooling" -> Greater(machine.clock - 1, 0)
                      [] OTHER -> 0
           first == IF machine.first = None THEN None ELSE AtMost(machine.first + 1, TriggerAge)
<1>1. /\ machine' = [machine EXCEPT !.clock = clock, !.first = first, !.history = Aged(@)]
      /\ thread.todo = <<>> /\ UNCHANGED <<thread, pending, fastBoot, mishap>>
      /\ disk' = [disk EXCEPT !.actions = Aged(@)] /\ done' = Aged(done)
      /\ guard' = Greater(guard - 1, 0)
      /\ outlived' = (outlived \/ (/\ machine.state = "Waiting" /\ machine.wan # TRUE
                                   /\ machine.clock + 1 >= Window))
  BY DEF Tick, Waits
<1>2. /\ Typed /\ OnALadder(machine) /\ machine \in Machines /\ Plain(thread.todo)
      /\ machine.history \in [Rungs -> Ages] /\ disk.actions \in [Rungs -> Ages] /\ done \in [Rungs -> Ages]
  BY <1>1, TypeParts DEF IInv, OnALadder, Plain
<1>3. /\ Aged(machine.history) \in [Rungs -> Ages] /\ Aged(disk.actions) \in [Rungs -> Ages]
      /\ Aged(done) \in [Rungs -> Ages]
  BY <1>2, AgedIs
<1>4. clock \in 0..Day /\ (machine.state = "Waiting" /\ machine.clock + 1 >= Window => clock >= Window)
  <2>1. /\ machine.clock \in 0..Day /\ machine.state \in {"Idle", "Waiting", "Cooling"}
    BY <1>2 DEF Machines
  <2> QED BY <2>1, Numbers DEF AtMost, Greater
<1>5. first \in (0..Day) \cup {None}
  <2>1. machine.first \in (0..Day) \cup {None}
    BY <1>2 DEF Machines
  <2> QED BY <2>1, Numbers DEF AtMost
<1>6. /\ OnALadder(machine)' /\ machine'.history = Aged(machine.history)
      /\ machine'.state = machine.state /\ machine'.wan = machine.wan /\ machine'.clock = clock
  <2> HIDE DEF clock, first
  <2> QED BY <1>1, <1>2, <1>3, <1>4, <1>5 DEF OnALadder, Machines
<1>7. /\ disk' \in [config : Configs, flag : BOOLEAN, actions : [Rungs -> Ages]]
      /\ disk'.actions = Aged(disk.actions) /\ disk'.flag = disk.flag
  BY <1>1, <1>2, <1>3, TypeParts
<1>8. guard' \in 0..Guard /\ outlived' \in BOOLEAN
  BY <1>1, <1>2, Numbers, TypeParts DEF Greater
<1>9. Typed'
  <2>1. ~Doing("Record")' /\ ~Doing("Act")'
    BY <1>1 DEF Doing
  <2>2. thread' \in [event : Events \cup {None}, todo : Todos]
    BY <1>1, <1>2 DEF Typed
  <2> QED BY <1>1, <1>2, <1>3, <1>6, <1>7, <1>8, <2>1, <2>2, TypeParts, TypedAgain
<1>10. FlagTells'
  BY <1>1, <1>2, <1>7 DEF IInv, FlagTells, Doing
<1>11. ASSUME "unsaved" \notin mishap' PROVE Recorded'
  <2>1. Covers(disk.actions, done) /\ Covers(machine.history, done)
    BY <1>1, <1>2, <1>11, PlainDoes DEF IInv, Recorded
  <2>2. (Covers(disk.actions, done) /\ Covers(machine.history, done))'
    BY <1>1, <1>2, <1>6, <1>7, <2>1, CoversAged
  <2>3. /\ ~Doing("Record")' /\ ~Doing("Act")'
        /\ ~Doing("FastBootOff")' /\ ~Doing("RecordReboot")' /\ ~Doing("Reboot")'
    BY <1>1 DEF Doing
  <2> QED BY <2>2, <2>3 DEF Recorded
<1>12. Outlived'
  <2> HIDE DEF clock
  <2>1. outlived' <=> \/ outlived
                      \/ machine.state = "Waiting" /\ machine.wan # TRUE /\ machine.clock + 1 >= Window
    BY <1>1, Zenon
  <2>2. machine.clock \in 0..Day /\ Window \in 1..Day /\ Day \in Nat
    BY <1>2, Numbers DEF Machines
  <2>3. outlived => machine.state = "Waiting" /\ machine.clock >= Window /\ machine.wan # TRUE
    BY DEF IInv, Outlived
  <2>4. outlived => machine.clock + 1 >= Window
    BY <2>2, <2>3
  <2> QED BY <1>4, <1>6, <2>1, <2>3, <2>4 DEF Outlived
<1> QED BY <1>9, <1>10, <1>11, <1>12 DEF IInv

-----------------------------------------------------------------------------
(* The invariant.                                                          *)

LEMMA InitInvariant == Init => IInv
<1> SUFFICES ASSUME Init PROVE IInv
  OBVIOUS
<1>1. /\ disk \in [config : Configs, flag : {FALSE}, actions : {NoRungs}]
      /\ machine = Fresh(disk.config) /\ thread = Starting
      /\ pending = FALSE /\ guard = 0 /\ fastBoot = TRUE
      /\ done = NoRungs /\ outlived = FALSE /\ mishap = {}
  BY DEF Init
<1>2. disk.config \in Configs /\ disk.actions = NoRungs
  BY <1>1
<1>3. OnALadder(machine)
  BY <1>1, <1>2, Numbers, NothingCovered DEF OnALadder, Machines, Fresh
<1>4. /\ Doing("RestoreState") /\ ~Doing("Record") /\ ~Doing("Act")
      /\ ~Doing("FastBootOff") /\ ~Doing("RecordReboot") /\ ~Doing("Reboot")
  BY <1>1 DEF Doing, Starting
<1>5. Typed
  <2>1. thread \in [event : Events \cup {None}, todo : Todos]
    BY <1>1 DEF Starting, Todos
  <2>2. disk \in [config : Configs, flag : BOOLEAN, actions : [Rungs -> Ages]]
    BY <1>1, NothingCovered
  <2>3. guard \in 0..Guard /\ done \in [Rungs -> Ages]
    BY <1>1, Numbers, NothingCovered
  <2> QED BY <1>1, <1>3, <1>4, <2>1, <2>2, <2>3 DEF Typed, TypeOK, OnALadder, Machines
<1>6. Recorded
  BY <1>1, <1>2, <1>4, NothingCovered DEF Recorded
<1> QED BY <1>1, <1>5, <1>6 DEF IInv, FlagTells, Outlived

LEMMA StepInvariant == IInv /\ [Next]_vars => IInv'
<1> SUFFICES ASSUME IInv, [Next]_vars PROVE IInv'
  OBVIOUS
<1>1. CASE Run
  BY <1>1, WakeKeeps, DecideKeeps, RecordKeeps, ActKeeps, FastBootOffKeeps, RecordRebootKeeps,
     UndoKeeps, RebootKeeps, RestoreStateKeeps, RetryKeeps, ReadWanKeeps DEF Run
<1>2. CASE Restart \/ WanEvent \/ ProbeResult \/ UserChange \/ Configure \/ Tick
  BY <1>2, RestartKeeps, WakeKeeps, UserChangeKeeps, TickKeeps
<1>3. CASE UNCHANGED vars
  <2>1. UNCHANGED <<machine, thread, pending, guard, disk, fastBoot, done, outlived, mishap>>
    BY <1>3 DEF vars
  <2>2. Typed'
    BY <2>1 DEF IInv, Typed, TypeOK, Doing
  <2>3. (FlagTells /\ ("unsaved" \in mishap \/ Recorded) /\ Outlived)'
    BY <2>1 DEF IInv, FlagTells, Recorded, Outlived, Allowed, Doing
  <2> QED BY <2>2, <2>3 DEF IInv
<1> QED BY <1>1, <1>2, <1>3 DEF Next

LEMMA Invariant == Spec => []IInv
BY InitInvariant, StepInvariant, PTL DEF Spec

(* The variables keep their types, whatever the settings, the faults and the events: no   *)
(* wait outgrows a day, no rung leaves the ladder (Machine and its handlers).             *)
THEOREM TypeCorrect == Spec => []TypeOK
<1>1. IInv => TypeOK
  BY DEF IInv, Typed
<1> QED BY Invariant, <1>1, PTL

(* Fast boot switched off is not forgotten: with the thread at rest the flag on disk      *)
(* tells, unless a known gap took it (set_fast_boot, record, restore_state).              *)
THEOREM FastBootReturns == Spec => []FastBootNotForgotten
<1>1. IInv => FastBootNotForgotten
  <2> SUFFICES ASSUME IInv, Waits PROVE ~fastBoot => disk.flag \/ "unflagged" \in mishap
    BY DEF FastBootNotForgotten
  <2>1. ~Doing("RecordReboot") /\ ~Doing("UndoFastBoot")
    BY DEF Waits, Doing
  <2> QED BY <2>1 DEF IInv, FlagTells
<1> QED BY Invariant, <1>1, PTL

\* Only a command is a new use, and its rung was allowed.
LEMMA UseIsAllowed ==
    ASSUME IInv, [Next]_vars, NEW r \in Rungs, 0 \in done'[r] \ done[r]
    PROVE  "unsaved" \in mishap \/ Allowed(r)
<1>0. Typed /\ done \in [Rungs -> Ages]
  BY TypeParts DEF IInv
<1>1. ASSUME NEW given \in Rungs, done' = Given(given), "unsaved" \notin mishap
      PROVE  r = given
  <2>1. done' = WithRung(done, given)
    BY <1>1 DEF Given
  <2> QED BY <1>0, <2>1, WithRungIs
<1>2. CASE Act
  <2>1. Doing("Act") /\ done' = Given(machine.rung) /\ machine.rung \in Rungs
    BY <1>0, <1>2 DEF Act, Typed
  <2> QED BY <1>1, <2>1 DEF IInv, Recorded
<1>3. CASE Reboot
  <2>1. Doing("Reboot") /\ (done' = Given(4) \/ done' = done) /\ 4 \in Rungs
    BY <1>3 DEF Reboot, Rungs
  <2> QED BY <1>1, <2>1 DEF IInv, Recorded
<1>4. CASE Tick
  BY <1>0, <1>4, AgedIs DEF Tick
<1>5. CASE done' = done
  BY <1>5
<1>6. Act \/ Reboot \/ Tick \/ done' = done
  BY DEF Next, Run, Wake, Decide, Record, FastBootOff, RecordReboot, UndoFastBoot, RestoreState,
     RetryFastBoot, ReadWan, Restart, WanEvent, ProbeResult, UserChange, Configure, Elsewhere, history, vars
<1> QED BY <1>2, <1>3, <1>4, <1>5, <1>6

(* A remedy is never given within its cooldown nor beyond its daily cap, over restarts    *)
(* and reboots, unless a record was lost (blocked_until, record, restore_state).          *)
THEOREM RareByTheBooks == Spec => RemediesStayRare
<1>1. IInv /\ [Next]_vars =>
        [\A r \in Rungs :
           0 \in done'[r] \ done[r] =>
              \/ "unsaved" \in mishap
              \/ /\ \A a \in done[r] : a >= Cooldown[r]
                 /\ Cardinality(done[r]) < Cap[r]]_vars
  BY UseIsAllowed DEF Allowed
<1> QED BY Invariant, <1>1, PTL DEF Spec, RemediesStayRare

\* A machine that was outlived stands still or starts afresh.
LEMMA LostIsNotMet ==
    ASSUME IInv, [Next]_vars, outlived
    PROVE  machine'.rung = machine.rung \/ machine'.rung = None
<1>1. /\ machine.state = "Waiting" /\ machine.clock >= Window /\ machine.wan # TRUE
      /\ OnALadder(machine) /\ machine \in Machines
  BY TypeParts DEF IInv, Outlived, OnALadder
<1>2. CASE Decide
  <2>1. PICK busy \in BOOLEAN : machine' = Step(machine, thread.event, busy).m
    BY <1>2 DEF Decide
  <2>2. thread.event \in Events
    BY <1>2, TypeParts DEF IInv, Decide
  <2> QED BY <1>1, <2>1, <2>2, LostStep
<1>3. CASE Starts
  BY <1>3 DEF Starts, Fresh
<1>4. CASE RestoreState \/ Tick
  <2>1. CASE RestoreState
    BY <1>1, <2>1 DEF RestoreState, Machines
  <2>2. CASE Tick
    BY <1>1, <2>2 DEF Tick, Machines
  <2> QED BY <1>4, <2>1, <2>2
<1>5. CASE machine' = machine
  BY <1>5
<1>6. Decide \/ Starts \/ RestoreState \/ Tick \/ machine' = machine
  BY DEF Next, Run, Wake, Record, Act, FastBootOff, RecordReboot, UndoFastBoot, Reboot,
     RetryFastBoot, ReadWan, Restart, WanEvent, ProbeResult, UserChange, Configure, Elsewhere, vars
<1> QED BY <1>2, <1>3, <1>4, <1>5, <1>6

(* The ladder never goes on against a session that came up after a drop which outlived    *)
(* the window of its last rung (on_wan, on_timer, on_probe).                              *)
THEOREM LostSessionsAreLeft == Spec => NoRemedyForALostSession
<1>1. IInv /\ [Next]_vars =>
        [outlived /\ machine'.rung # machine.rung => machine'.rung = None]_vars
  BY LostIsNotMet
<1> QED BY Invariant, <1>1, PTL DEF Spec, NoRemedyForALostSession
==============================================================================
