-------------------------- MODULE StandbyGuardProofs --------------------------
(***************************************************************************)
(* What the standby guard promises, for any number of power changes,       *)
(* wakes, mishaps and turn-offs under way at once.                         *)
(*                                                                         *)
(* Nothing is left staged (Owned): while something is, a switch thread     *)
(* stands at one of the places from which only a commit or a revert leads  *)
(* on. The threads need not be told apart: a commit or a revert of one     *)
(* takes what another staged with it, and nothing is staged then.          *)
(*                                                                         *)
(* What the guard knows (Sane): the last power action on its way to it, or *)
(* fed to it, is the firmware's last, and so is the last Wi-Fi report.     *)
(* From that follow the two promises about the radio. In standby a Wi-Fi   *)
(* that is on has a report still to be read or a turn-off to be confirmed  *)
(* (Dark). After a power-on a Wi-Fi that is off is still to be started, by *)
(* the firmware or by the restore the guard owes (Back), and at most one   *)
(* switch thread runs while that is so.                                    *)
(***************************************************************************)
EXTENDS StandbyGuard, SequenceTheorems, FiniteSetTheorems, FunctionTheorems, TLAPS

Places == {"start", "set", "was set", "commit", "revert", "committed", "reload"}
Switches == [on : BOOLEAN, at : Places, seen : Nat]

Typed == fed \in [Class -> Nat] /\ switches \in Seq(Switches)

Holding(s) == s.at \in {"was set", "commit", "revert"}
Owned ==
    staged # None /\ harmed \cap {"crash", "revert"} = {}
        => \E i \in DOMAIN switches : Holding(switches[i])

IInv == Typed /\ Owned

-------------------------------------------------------------------------------
(* How a step changes the threads. *)

LEMMA StartsOne ==
    ASSUME IInv, NEW on \in BOOLEAN, switches' = Append(switches, NewSwitch(on)),
           UNCHANGED <<fed, staged>>, harmed \subseteq harmed'
    PROVE  IInv'
<1>1. NewSwitch(on) \in Switches
  BY DEF NewSwitch, IInv, Typed, Class, Switches, Places
<1>2. Typed'
  BY <1>1 DEF IInv, Typed
<1>3. \A i \in DOMAIN switches : i \in DOMAIN switches' /\ switches'[i] = switches[i]
  BY <1>1 DEF IInv, Typed
<1> QED BY <1>2, <1>3 DEF IInv, Owned

\* A thread takes its next step; the others stay where they are.
LEMMA MovesOne ==
    ASSUME IInv, NEW i \in DOMAIN switches, NEW at \in Places, Moves(i, at),
           UNCHANGED fed, harmed \subseteq harmed',
           \/ at \in {"was set", "commit", "revert"}
           \/ staged' = None
           \/ UNCHANGED staged /\ ~Holding(switches[i])
    PROVE  IInv'
<1>0. switches \in Seq(Switches) /\ switches[i] \in Switches
  <2>1. switches \in Seq(Switches)
    BY DEF IInv, Typed
  <2>2. i \in 1..Len(switches)
    BY <2>1, LenProperties
  <2> QED BY <2>1, <2>2, ElementOfSeq
<1>1. /\ switches' \in Seq(Switches) /\ DOMAIN switches' = DOMAIN switches
      /\ switches'[i].at = at
      /\ \A k \in DOMAIN switches : k # i => switches'[k] = switches[k]
  <2> DEFINE s == [switches[i] EXCEPT !.at = at]
  <2>1. s \in Switches /\ s.at = at
    BY <1>0 DEF Switches
  <2>2. switches' = [switches EXCEPT ![i] = s]
    BY DEF Moves
  <2>3. i \in 1..Len(switches) /\ DOMAIN switches = 1..Len(switches)
    BY <1>0, LenProperties
  <2> HIDE DEF s
  <2>4. switches' \in Seq(Switches) /\ DOMAIN switches' = 1..Len(switches)
    BY <1>0, <2>1, <2>2, <2>3, ExceptSeq, LenProperties
  <2>5. \A k \in 1..Len(switches) : switches'[k] = IF k = i THEN s ELSE switches[k]
    BY <2>2, <2>3
  <2> QED BY <2>1, <2>3, <2>4, <2>5
<1>2. Typed'
  BY <1>1 DEF IInv, Typed
<1>3. Owned'
  BY <1>1 DEF IInv, Owned, Holding
<1> QED BY <1>2, <1>3 DEF IInv

\* What a sequence keeps when one of its elements goes.
LEMMA RemoveAtKeeps ==
    ASSUME NEW S, NEW s \in Seq(S), NEW i \in DOMAIN s
    PROVE  /\ RemoveAt(s, i) \in Seq(S)
           /\ \A k \in DOMAIN s \ {i} : \E j \in DOMAIN RemoveAt(s, i) : RemoveAt(s, i)[j] = s[k]
<1> DEFINE a == SubSeq(s, 1, i - 1)
           b == SubSeq(s, i + 1, Len(s))
<1>0. Len(s) \in Nat /\ i \in 1..Len(s)
  BY LenProperties
<1>1. /\ a \in Seq(S) /\ Len(a) = i - 1 /\ \A k \in 1..i - 1 : a[k] = s[k]
  OBVIOUS
<1>2. /\ b \in Seq(S) /\ Len(b) = Len(s) - i /\ \A k \in 1..Len(s) - i : b[k] = s[k + i]
  OBVIOUS
<1>3. /\ a \o b \in Seq(S) /\ DOMAIN (a \o b) = 1..Len(s) - 1
      /\ \A k \in 1..i - 1 : (a \o b)[k] = s[k]
      /\ \A k \in i..Len(s) - 1 : (a \o b)[k] = s[k + 1]
  <2> HIDE DEF a, b
  <2>1. /\ a \o b \in Seq(S) /\ Len(a \o b) = Len(s) - 1
        /\ \A k \in 1..Len(s) - 1 : (a \o b)[k] = IF k <= i - 1 THEN a[k] ELSE b[k - (i - 1)]
    <3>1. i \in Nat /\ Len(s) \in Nat
      BY <1>0
    <3>2. Len(a) + Len(b) = Len(s) - 1
      BY <1>1, <1>2, <3>1
    <3>3. /\ a \o b \in Seq(S) /\ Len(a \o b) = Len(a) + Len(b)
          /\ \A k \in 1..Len(a) + Len(b) :
                (a \o b)[k] = IF k <= Len(a) THEN a[k] ELSE b[k - Len(a)]
      BY <1>1, <1>2, ConcatProperties
    <3> QED BY <1>1, <3>2, <3>3
  <2>2. ASSUME NEW k \in i..Len(s) - 1 PROVE (a \o b)[k] = s[k + 1]
    <3>1. k - (i - 1) \in 1..Len(s) - i /\ (k - (i - 1)) + i = k + 1
      OBVIOUS
    <3> QED BY <1>2, <2>1, <3>1
  <2>3. ASSUME NEW k \in 1..i - 1 PROVE (a \o b)[k] = s[k]
    BY <1>1, <2>1
  <2> QED BY <2>1, <2>2, <2>3
<1> HIDE DEF a, b
<1>4. ASSUME NEW k \in DOMAIN s \ {i} PROVE \E j \in DOMAIN (a \o b) : (a \o b)[j] = s[k]
  <2>1. CASE k < i
    <3>1. k \in 1..i - 1 /\ k \in 1..Len(s) - 1
      BY <2>1
    <3> QED BY <1>3, <3>1
  <2>2. CASE k > i
    <3>1. k - 1 \in i..Len(s) - 1 /\ k - 1 \in 1..Len(s) - 1 /\ (k - 1) + 1 = k
      BY <2>2
    <3> QED BY <1>3, <3>1
  <2> QED BY <2>1, <2>2
<1> QED BY <1>3, <1>4 DEF RemoveAt, a, b

LEMMA EndsOne ==
    ASSUME IInv, NEW i \in DOMAIN switches, Ends(i), UNCHANGED fed, harmed \subseteq harmed',
           \/ "revert" \in harmed'
           \/ staged' = None
           \/ UNCHANGED staged /\ ~Holding(switches[i])
    PROVE  IInv'
<1>1. /\ switches' \in Seq(Switches)
      /\ \A k \in DOMAIN switches \ {i} : \E j \in DOMAIN switches' : switches'[j] = switches[k]
  BY RemoveAtKeeps DEF IInv, Typed, Ends
<1>2. Owned'
  <2> SUFFICES ASSUME staged' # None, harmed' \cap {"crash", "revert"} = {}
               PROVE  \E j \in DOMAIN switches' : Holding(switches'[j])
    BY DEF Owned
  <2>1. PICK k \in DOMAIN switches : Holding(switches[k])
    BY DEF IInv, Owned
  <2> QED BY <1>1, <2>1
<1> QED BY <1>1, <1>2 DEF IInv, Typed

-------------------------------------------------------------------------------
(* The steps. *)

LEMMA MishapsStay == ASSUME NEW what, Mishap(what) PROVE harmed \subseteq harmed' /\ what \in harmed'
BY DEF Mishap

\* Steps that touch no thread.
LEMMA ElsewhereKeeps ==
    ASSUME IInv, UNCHANGED <<switches, staged>>, harmed \subseteq harmed', fed' \in [Class -> Nat]
    PROVE  IInv'
BY DEF IInv, Typed, Owned

LEMMA FirmwareKeeps == ASSUME IInv, Firmware PROVE IInv'
<1>1. CASE GoesToStandby
  BY <1>1 DEF GoesToStandby, PowerChange, IInv, Typed, Owned
<1>2. CASE EntersStandby \/ SetsWifi \/ OtherCommit
  BY <1>2 DEF EntersStandby, SetsWifi, OtherCommit, feed, IInv, Typed, Owned
<1>3. CASE PowersOn
  BY <1>3, ElsewhereKeeps DEF PowersOn, PowerChange, IInv, Typed
<1>4. CASE StartsWifi
  BY <1>4, ElsewhereKeeps DEF StartsWifi, NoMishap, IInv, Typed
<1>5. CASE Wakes
  BY <1>5 DEF Wakes, IInv, Typed, Owned
<1> QED BY <1>1, <1>2, <1>3, <1>4, <1>5 DEF Firmware

LEMMA OnKeyLogKeeps ==
    ASSUME IInv, NEW g, NEW wasOff, NEW again, OnKeyLog(g, wasOff, again), UNCHANGED <<fed, staged>>
    PROVE  IInv'
<1>1. CASE UNCHANGED switches /\ harmed \subseteq harmed'
  BY <1>1, ElsewhereKeeps DEF IInv, Typed
<1>2. CASE switches' = Append(switches, NewSwitch(FALSE)) /\ harmed \subseteq harmed'
  BY <1>2, StartsOne
<1> QED BY <1>1, <1>2, MishapsStay DEF OnKeyLog, NoMishap, GivesUp

LEMMA GuardKeeps == ASSUME IInv, Forward \/ GuardThread PROVE IInv'
<1>1. CASE Forward
  <2>1. harmed \subseteq harmed'
    BY <1>1, MishapsStay DEF Forward, NoMishap
  <2> QED BY <1>1, <2>1, ElsewhereKeeps DEF Forward, world, IInv, Typed
<1>2. CASE FeedPower
  <2>1. fed' \in [Class -> Nat]
    <3> DEFINE c == Head(queue)
    <3>1. fed \in [Class -> Nat] /\ fed' = [fed EXCEPT ![c] = fed[c] + 1]
      BY <1>2 DEF FeedPower, IInv, Typed
    <3> HIDE DEF c
    <3>2. fed' = [x \in Class |-> IF x = c THEN fed[x] + 1 ELSE fed[x]]
      BY <3>1
    <3>3. \A x \in Class : (IF x = c THEN fed[x] + 1 ELSE fed[x]) \in Nat
      BY <3>1
    <3> QED BY <3>2, <3>3
  <2> QED BY <1>2, <2>1, ElsewhereKeeps DEF FeedPower, world, NoMishap
<1>3. CASE ReadLine
  <2>1. CASE UNCHANGED switches /\ NoMishap
    BY <1>3, <2>1, ElsewhereKeeps DEF ReadLine, world, NoMishap, IInv, Typed
  <2>2. CASE \E g, wasOff : OnKeyLog(g, wasOff, FALSE)
    BY <1>3, <2>2, OnKeyLogKeeps DEF ReadLine, world
  <2> QED BY <1>3, <2>1, <2>2 DEF ReadLine
<1>4. CASE ConfirmExpires
  <2>1. CASE UNCHANGED switches /\ GivesUp
    BY <1>4, <2>1, ElsewhereKeeps DEF ConfirmExpires, GivesUp, world, feed, IInv, Typed
  <2>2. CASE \E g : OnKeyLog(g, TRUE, TRUE)
    BY <1>4, <2>2, OnKeyLogKeeps DEF ConfirmExpires, world, feed
  <2> QED BY <1>4, <2>1, <2>2 DEF ConfirmExpires
<1>5. CASE RestoreExpires
  <2>1. CASE UNCHANGED switches
    BY <1>5, <2>1, ElsewhereKeeps DEF RestoreExpires, world, feed, NoMishap, IInv, Typed
  <2>2. CASE switches' = Append(switches, NewSwitch(TRUE))
    BY <1>5, <2>2, StartsOne DEF RestoreExpires, world, feed, NoMishap
  <2> QED BY <1>5, <2>1, <2>2 DEF RestoreExpires
<1> QED BY <1>1, <1>2, <1>3, <1>4, <1>5 DEF GuardThread

LEMMA SwitchKeeps ==
    ASSUME IInv, NEW i \in DOMAIN switches, Look(i) \/ Step(i) \/ StepFails(i)
    PROVE  IInv'
<1>1. CASE Look(i)
  BY <1>1, MovesOne, EndsOne DEF Look, world, feed, NoMishap, Holding, Places
<1>2. CASE Step(i)
  BY <1>2, MovesOne, EndsOne DEF Step, Steps, NoMishap, Holding, Places
<1>3. CASE StepFails(i)
  BY <1>3, MovesOne, EndsOne, MishapsStay DEF StepFails, world, feed, Holding, Places
<1> QED BY <1>1, <1>2, <1>3

LEMMA NextKeeps == ASSUME IInv, [Next]_vars PROVE IInv'
<1>1. CASE Crash
  <2>1. "crash" \in harmed' /\ switches' = <<>> /\ fed' \in [Class -> Nat]
    BY <1>1, MishapsStay DEF Crash
  <2> QED BY <2>1 DEF IInv, Typed, Owned
<1>2. CASE UNCHANGED vars
  BY <1>2 DEF vars, world, feed, IInv, Typed, Owned
<1>3. CASE SwitchThreads
  BY <1>3, SwitchKeeps DEF SwitchThreads
<1> QED BY <1>1, <1>2, <1>3, FirmwareKeeps, GuardKeeps DEF Next

(* A turn-off given up leaves nothing for another's commit to write, whichever *)
(* of its steps a power change cut short or failed, with any number of         *)
(* turn-offs under way at once (switch_wifi_with).                             *)
THEOREM NothingLeftStaged == Spec => []NothingStaged
<1>1. Init => IInv
  BY DEF Init, IInv, Typed, Owned
<1>2. IInv /\ [Next]_vars => IInv'
  BY NextKeeps
<1>3. IInv => NothingStaged
  BY DEF IInv, Owned, NothingStaged
<1> QED BY <1>1, <1>2, <1>3, PTL DEF Spec
-------------------------------------------------------------------------------
(* How many power actions of a class a queue holds. *)

Spots(q, c) == {i \in 1..Len(q) : q[i] = c}
HowMany(q, c) == Cardinality(Spots(q, c))

LEMMA CountType == ASSUME NEW q \in Seq(Class), NEW c PROVE IsFiniteSet(Spots(q, c)) /\ HowMany(q, c) \in Nat
<1>1. IsFiniteSet(1..Len(q))
  BY FS_Interval, LenProperties
<1>2. IsFiniteSet(Spots(q, c))
  BY <1>1, FS_Subset DEF Spots
<1> QED BY <1>2, FS_CardinalityType DEF HowMany

LEMMA CountNone == ASSUME NEW c PROVE HowMany(<<>>, c) = 0
<1>1. Spots(<<>>, c) = {}
  BY DEF Spots
<1> QED BY <1>1, FS_EmptySet DEF HowMany

LEMMA CountAppend ==
    ASSUME NEW q \in Seq(Class), NEW d \in Class, NEW c
    PROVE  HowMany(Append(q, d), c) = HowMany(q, c) + IF d = c THEN 1 ELSE 0
<1> DEFINE n == Len(q)
           r == Append(q, d)
<1>1. /\ n \in Nat /\ Len(r) = n + 1 /\ r[n + 1] = d
      /\ \A i \in 1..n : r[i] = q[i]
  BY AppendProperties, LenProperties
<1>2. IsFiniteSet(Spots(q, c)) /\ n + 1 \notin Spots(q, c)
  <2>1. Spots(q, c) \subseteq 1..n /\ n + 1 \notin 1..n
    BY <1>1 DEF Spots
  <2> QED BY <2>1, CountType
<1>3. Spots(r, c) = Spots(q, c) \cup (IF d = c THEN {n + 1} ELSE {})
  <2> HIDE DEF r, n
  <2>1. \A i : i \in 1..n + 1 <=> i \in 1..n \/ i = n + 1
    BY <1>1
  <2>2. Spots(q, c) = {i \in 1..n : q[i] = c}
    BY DEF Spots, n
  <2> QED BY <1>1, <2>1, <2>2 DEF Spots
<1>4. CASE d = c
  BY <1>2, <1>3, <1>4, FS_AddElement, CountType DEF HowMany
<1>5. CASE d # c
  BY <1>3, <1>5, CountType DEF HowMany
<1> QED BY <1>4, <1>5

LEMMA CountTail ==
    ASSUME NEW q \in Seq(Class), q # <<>>, NEW c
    PROVE  HowMany(q, c) = HowMany(Tail(q), c) + IF Head(q) = c THEN 1 ELSE 0
<1> DEFINE n == Len(q)
           r == Tail(q)
           S == Spots(r, c)
           T == Spots(q, c) \ {1}
           f == [i \in S |-> i + 1]
<1>1. /\ n \in Nat \ {0} /\ r \in Seq(Class) /\ Len(r) = n - 1 /\ Head(q) = q[1]
      /\ \A i \in 1..n - 1 : r[i] = q[i + 1]
  BY HeadTailProperties, LenProperties, EmptySeq
<1>2. f \in Bijection(S, T)
  <2> HIDE DEF r, n
  <2>1. S = {i \in 1..n - 1 : q[i + 1] = c} /\ T = {i \in 2..n : q[i] = c}
    BY <1>1 DEF Spots, n
  <2>2. f \in [S -> T]
    <3>1. ASSUME NEW i \in S PROVE i + 1 \in T
      <4>1. i \in 1..n - 1 /\ q[i + 1] = c
        BY <2>1
      <4>2. i + 1 \in 2..n
        BY <1>1, <4>1
      <4> QED BY <2>1, <4>1, <4>2
    <3> QED BY <3>1
  <2>3. \A a, b \in S : f[a] = f[b] => a = b
    BY <1>1, <2>1
  <2>4. \A b \in T : \E a \in S : f[a] = b
    <3> SUFFICES ASSUME NEW b \in T PROVE \E a \in S : f[a] = b
      OBVIOUS
    <3>1. b - 1 \in S /\ f[b - 1] = b
      BY <1>1, <2>1
    <3> QED BY <3>1
  <2> HIDE DEF f, S, T
  <2> QED BY <2>2, <2>3, <2>4, Fun_IsBij
<1>3. IsFiniteSet(S) /\ IsFiniteSet(Spots(q, c))
  BY <1>1, CountType
<1>4. Cardinality(T) = Cardinality(S) /\ IsFiniteSet(T)
  BY <1>2, <1>3, FS_Bijection, Fun_ExistsBij
<1>5. CASE q[1] = c
  <2>1. 1 \in Spots(q, c) /\ 1 \notin T /\ Spots(q, c) = T \cup {1}
    BY <1>1, <1>5 DEF Spots
  <2>2. Cardinality(T \cup {1}) = Cardinality(T) + 1
    BY <1>4, <2>1, FS_AddElement
  <2>3. HowMany(q, c) = Cardinality(T \cup {1}) /\ HowMany(r, c) = Cardinality(S)
    BY <2>1 DEF HowMany
  <2> HIDE DEF r, S, T
  <2> QED BY <1>1, <1>4, <1>5, <2>2, <2>3 DEF r
<1>6. CASE q[1] # c
  <2>1. Spots(q, c) = T
    BY <1>6 DEF Spots
  <2>2. Cardinality(S) \in Nat
    BY <1>3, FS_CardinalityType
  <2>3. HowMany(q, c) = Cardinality(T) /\ HowMany(r, c) = Cardinality(S)
    BY <2>1 DEF HowMany
  <2> HIDE DEF r, S, T
  <2> QED BY <1>1, <1>4, <1>6, <2>2, <2>3 DEF r
<1> QED BY <1>5, <1>6

-------------------------------------------------------------------------------
(* What the guard knows of the power, of Wi-Fi and of what is still to come. *)

GuardState == [power : {"unknown", "on", "standby"}, acted : Nat,
               waiting : {"no", "first", "again"}, wifi : {"on", "off"}, restore : BOOLEAN]

Kinds ==
    /\ mode \in {"on", "entering", "standby"} /\ starting \in {"set", "start", "no"}
    /\ radio \in BOOLEAN /\ conf \in BOOLEAN /\ userOn \in BOOLEAN /\ staged \in BOOLEAN \cup {None}
    /\ air \in Seq(Class) /\ queue \in Seq(Class) /\ lines \in Seq({"on", "off"})
    /\ received \in [Class -> Nat] /\ guard \in GuardState

\* The last the guard will have heard of the power, once it is fed what is on its way.
Hears(class) ==
    IF air # <<>> THEN Last(air) = class
    ELSE IF queue # <<>> THEN Last(queue) = class
    ELSE guard.power = class

Aware == mode # "on" /\ harmed \cap {"lost", "crash"} = {} => Hears("standby")

Reported ==
    /\ newest = IF radio THEN "on" ELSE "off"
    /\ IF lines = <<>> THEN guard.wifi = newest ELSE Last(lines) = newest
    /\ guard.waiting # "no" => guard.wifi = "on"

Announced ==
    /\ mode = "standby" \/ (mode = "on" /\ starting = "no") => air = <<>>
    /\ starting # "no" => mode = "on"
    /\ guard.restore => guard.power = "on"
    /\ \A c \in Class : received[c] = fed[c] + HowMany(queue, c)

Sane == Kinds /\ Aware /\ Reported /\ Announced

LEMMA LastOfAppend ==
    ASSUME NEW S, NEW s \in Seq(S), NEW e \in S
    PROVE  Append(s, e) \in Seq(S) /\ Append(s, e) # <<>> /\ Last(Append(s, e)) = e
<1>1. /\ Append(s, e) \in Seq(S) /\ Len(Append(s, e)) = Len(s) + 1
      /\ Append(s, e)[Len(s) + 1] = e /\ Append(s, e) # <<>>
  BY AppendProperties
<1> QED BY <1>1 DEF Last

LEMMA LastOfTail ==
    ASSUME NEW S, NEW s \in Seq(S), s # <<>>
    PROVE  /\ Tail(s) \in Seq(S) /\ Head(s) \in S
           /\ Tail(s) = <<>> => Last(s) = Head(s)
           /\ Tail(s) # <<>> => Last(Tail(s)) = Last(s)
<1> DEFINE t == Tail(s)
<1>1. /\ t \in Seq(S) /\ Head(s) \in S /\ Len(t) = Len(s) - 1 /\ Head(s) = s[1]
      /\ Len(s) \in Nat \ {0} /\ \A i \in 1..Len(s) - 1 : t[i] = s[i + 1]
  BY HeadTailProperties, LenProperties, EmptySeq
<1> HIDE DEF t
<1>2. t = <<>> <=> Len(s) = 1
  BY <1>1, EmptySeq
<1>3. t # <<>> => t[Len(s) - 1] = s[Len(s)]
  BY <1>1, <1>2
<1>4. t = <<>> => Last(s) = Head(s)
  BY <1>1, <1>2 DEF Last
<1>5. t # <<>> => Last(t) = Last(s)
  BY <1>1, <1>3 DEF Last
<1> QED BY <1>1, <1>4, <1>5 DEF t

LEMMA RadioReports ==
    ASSUME Sane, NEW on \in BOOLEAN, Radio(on)
    PROVE  /\ radio' = on /\ radio' \in BOOLEAN /\ lines' \in Seq({"on", "off"})
           /\ newest' = IF radio' THEN "on" ELSE "off"
           /\ IF lines' = <<>> THEN guard.wifi = newest' ELSE Last(lines') = newest'
           /\ on = radio => UNCHANGED <<lines, newest>>
           /\ on # radio => lines' = Append(lines, newest') /\ lines' # <<>>
<1>1. CASE on = radio
  BY <1>1 DEF Radio, Sane, Kinds, Reported
<1>2. CASE on # radio
  <2>1. newest' = (IF on THEN "on" ELSE "off") /\ newest' \in {"on", "off"} /\ lines' = Append(lines, newest')
    BY <1>2 DEF Radio
  <2>2. lines' \in Seq({"on", "off"}) /\ lines' # <<>> /\ Last(lines') = newest'
    BY <2>1, LastOfAppend DEF Sane, Kinds
  <2> QED BY <1>2, <2>1, <2>2 DEF Radio
<1> QED BY <1>1, <1>2

LEMMA FirmwareSane == ASSUME Sane, Firmware PROVE Sane'
<1>1. CASE GoesToStandby
  <2>1. air' \in Seq(Class) /\ air' # <<>> /\ Last(air') = "standby"
    BY <1>1, LastOfAppend DEF GoesToStandby, PowerChange, Announce, Sane, Kinds, Class
  <2>2. Kinds'
    BY <1>1, <2>1 DEF GoesToStandby, PowerChange, Sane, Kinds
  <2>3. Aware' /\ Reported' /\ Announced'
    BY <1>1, <2>1 DEF GoesToStandby, PowerChange, Sane, Aware, Hears, Reported, Announced
  <2> QED BY <2>2, <2>3 DEF Sane
<1>2. CASE EntersStandby
  <2>1. /\ radio' \in BOOLEAN /\ lines' \in Seq({"on", "off"})
        /\ newest' = IF radio' THEN "on" ELSE "off"
        /\ IF lines' = <<>> THEN guard.wifi = newest' ELSE Last(lines') = newest'
    BY <1>2, RadioReports DEF EntersStandby
  <2>2. harmed \subseteq harmed'
    BY <1>2 DEF EntersStandby
  <2> QED BY <1>2, <2>1, <2>2 DEF EntersStandby, Sane, Kinds, Aware, Hears, Reported, Announced
<1>3. CASE PowersOn
  <2>1. air' \in Seq(Class)
    BY <1>3, LastOfAppend DEF PowersOn, PowerChange, Announce, Sane, Kinds, Class
  <2> QED BY <1>3, <2>1 DEF PowersOn, PowerChange, Sane, Kinds, Aware, Reported, Announced
<1>4. CASE SetsWifi
  BY <1>4 DEF SetsWifi, feed, NoMishap, Sane, Kinds, Aware, Hears, Reported, Announced
<1>5. CASE StartsWifi
  <2>1. /\ radio' \in BOOLEAN /\ lines' \in Seq({"on", "off"})
        /\ newest' = IF radio' THEN "on" ELSE "off"
        /\ IF lines' = <<>> THEN guard.wifi = newest' ELSE Last(lines') = newest'
    BY <1>5, RadioReports DEF StartsWifi, Sane, Kinds, Reported
  <2> QED BY <1>5, <2>1 DEF StartsWifi, NoMishap, Sane, Kinds, Aware, Hears, Reported, Announced
<1>6. CASE Wakes
  <2>1. /\ radio' \in BOOLEAN /\ lines' \in Seq({"on", "off"})
        /\ newest' = IF radio' THEN "on" ELSE "off"
        /\ IF lines' = <<>> THEN guard.wifi = newest' ELSE Last(lines') = newest'
    BY <1>6, RadioReports DEF Wakes
  <2> QED BY <1>6, <2>1 DEF Wakes, Sane, Kinds, Aware, Hears, Reported, Announced
<1>7. CASE OtherCommit
  <2>1. harmed \subseteq harmed'
    BY <1>7, MishapsStay DEF OtherCommit
  <2> QED BY <1>7, <2>1 DEF OtherCommit, feed, Sane, Kinds, Aware, Hears, Reported, Announced
<1> QED BY <1>1, <1>2, <1>3, <1>4, <1>5, <1>6, <1>7 DEF Firmware

LEMMA ForwardSane == ASSUME Sane, Typed, Forward PROVE Sane'
<1> DEFINE c == Head(air)
<1>0. /\ air # <<>> /\ air' = Tail(air) /\ air' \in Seq(Class) /\ c \in Class
      /\ air' = <<>> => Last(air) = c
      /\ air' # <<>> => Last(air') = Last(air)
  BY LastOfTail DEF Forward, Sane, Kinds
<1> HIDE DEF c
<1>1. CASE received' = [received EXCEPT ![c] = @ + 1] /\ queue' = Append(queue, c) /\ NoMishap
  <2>1. queue' \in Seq(Class) /\ queue' # <<>> /\ Last(queue') = c
    <3>1. queue \in Seq(Class)
      BY DEF Sane, Kinds
    <3> QED BY <1>0, <1>1, <3>1, LastOfAppend
  <2>2. received' \in [Class -> Nat] /\ \A x \in Class : received'[x] = received[x] + IF c = x THEN 1 ELSE 0
    BY <1>0, <1>1 DEF Sane, Kinds
  <2>3. \A x \in Class : HowMany(queue', x) = HowMany(queue, x) + IF c = x THEN 1 ELSE 0
    BY <1>0, <1>1, CountAppend DEF Sane, Kinds
  <2>4. \A x \in Class : received'[x] = fed'[x] + HowMany(queue', x)
    <3> SUFFICES ASSUME NEW x \in Class PROVE received'[x] = fed'[x] + HowMany(queue', x)
      OBVIOUS
    <3>1. received[x] = fed[x] + HowMany(queue, x) /\ HowMany(queue, x) \in Nat /\ fed[x] \in Nat
      BY CountType DEF Sane, Kinds, Announced, Typed
    <3>2. fed' = fed
      BY DEF Forward
    <3> QED BY <2>2, <2>3, <3>1, <3>2
  <2>5. Kinds'
    BY <1>0, <1>1, <2>1, <2>2 DEF Forward, world, Sane, Kinds
  <2>6. Aware'
    BY <1>0, <1>1, <2>1 DEF Forward, world, NoMishap, Sane, Aware, Hears
  <2>7. Reported' /\ Announced'
    BY <1>0, <2>4 DEF Forward, world, Sane, Reported, Announced
  <2> QED BY <2>5, <2>6, <2>7 DEF Sane
<1>2. CASE Mishap("lost") /\ UNCHANGED <<received, queue>>
  <2>1. "lost" \in harmed'
    BY <1>2, MishapsStay
  <2> QED BY <1>0, <1>2, <2>1 DEF Forward, world, Sane, Kinds, Aware, Reported, Announced
<1> QED BY <1>1, <1>2 DEF Forward, c

LEMMA OnPowerIs ==
    ASSUME NEW g \in GuardState, NEW class \in Class, NEW h, h = OnPower(g, class)
    PROVE  /\ h \in GuardState /\ h.power = class /\ h.wifi = g.wifi
           /\ g.power = class => h = g
           /\ g.power # class /\ class = "standby" => h.acted = g.acted /\ h.waiting = g.waiting /\ ~h.restore
           /\ g.power # class /\ class = "on" => h.acted = 0 /\ h.waiting = "no" /\ (h.restore <=> g.acted > 0)
<1>1. CASE g.power = class
  BY <1>1 DEF OnPower
<1>2. CASE g.power # class /\ class = "on"
  <2>1. PICK owes \in BOOLEAN : owes <=> g.acted > 0
    OBVIOUS
  <2>2. h = [g EXCEPT !.power = "on", !.waiting = "no", !.restore = owes, !.acted = 0]
    <3>1. h = [g EXCEPT !.power = "on", !.waiting = "no", !.restore = g.acted > 0, !.acted = 0]
      BY <1>2 DEF OnPower
    <3>2. owes = (g.acted > 0)
      BY <2>1
    <3> QED BY ONLY <3>1, <3>2
  <2>3. h \in GuardState
    <3>1. g \in GuardState /\ owes \in BOOLEAN
      BY <2>1
    <3> QED BY ONLY <2>2, <3>1 DEF GuardState
  <2>5. h.power = "on" /\ h.wifi = g.wifi /\ h.acted = 0 /\ h.waiting = "no"
    BY <2>2 DEF GuardState
  <2>4. h.restore = owes
    BY <2>2 DEF GuardState
  <2> QED BY <1>2, <2>1, <2>3, <2>4, <2>5
<1>3. CASE g.power # class /\ class = "standby"
  <2>1. h = [g EXCEPT !.power = "standby", !.restore = FALSE]
    BY <1>3 DEF OnPower
  <2> QED BY <1>3, <2>1 DEF GuardState
<1> QED BY <1>1, <1>2, <1>3 DEF Class

LEMMA OnKeyLogDoes ==
    ASSUME NEW g \in GuardState, NEW wasOff \in BOOLEAN, NEW again \in BOOLEAN, OnKeyLog(g, wasOff, again)
    PROVE  /\ harmed \subseteq harmed' /\ guard' \in GuardState /\ guard'.wifi = g.wifi
           /\ \/ /\ guard' = g /\ UNCHANGED switches
                 /\ \/ mode = "entering"
                    \/ mode = "standby" /\ g.power = "unknown" /\ ~wasOff
                    \/ harmed' \cap {"given up", "writing"} # {}
              \/ /\ mode = "standby" /\ (g.power = "standby" \/ wasOff) /\ NoMishap
                 /\ guard'.power = "standby" /\ guard'.acted = g.acted + 1 /\ guard'.waiting # "no"
                 /\ guard'.restore = g.restore
                 /\ switches' = Append(switches, NewSwitch(FALSE))
              \/ /\ mode = "on" /\ guard'.power = "on" /\ UNCHANGED switches /\ NoMishap
                 /\ g.power = "standby" => guard'.waiting = "no" /\ ~guard'.restore
                 /\ g.power # "standby" => guard'.waiting = g.waiting /\ guard'.restore = g.restore
<1>1. CASE mode = "entering" /\ guard' = g /\ UNCHANGED switches /\ NoMishap
  BY <1>1 DEF NoMishap
<1>2. CASE mode = "standby" /\ g.power = "unknown" /\ ~wasOff /\ guard' = g /\ UNCHANGED switches /\ NoMishap
  BY <1>2 DEF NoMishap
<1>3. CASE mode = "standby" /\ guard' = g /\ UNCHANGED switches /\ GivesUp
  BY <1>3 DEF GivesUp
<1>4. CASE /\ mode = "standby" /\ (g.power = "standby" \/ wasOff)
           /\ guard' = Act(g, again) /\ switches' = Append(switches, NewSwitch(FALSE)) /\ NoMishap
  <2>1. /\ guard' \in GuardState /\ guard'.wifi = g.wifi /\ guard'.restore = g.restore
        /\ guard'.power = "standby" /\ guard'.acted = g.acted + 1 /\ guard'.waiting # "no"
    <3> DEFINE w == IF again THEN "again" ELSE "first"
               n == g.acted + 1
    <3>1. w \in {"no", "first", "again"} /\ w # "no" /\ n \in Nat /\ n = g.acted + 1
      BY DEF GuardState
    <3>2. guard' = [g EXCEPT !.power = "standby", !.acted = n, !.waiting = w]
      BY <1>4 DEF Act
    <3> HIDE DEF w, n
    <3> QED BY <3>1, <3>2 DEF GuardState
  <2> QED BY <1>4, <2>1 DEF NoMishap
<1>5. CASE /\ mode = "on"
           /\ guard' = (IF g.power = "standby"
                          THEN [g EXCEPT !.power = "on", !.acted = 0, !.waiting = "no", !.restore = FALSE]
                          ELSE [g EXCEPT !.power = "on"])
           /\ UNCHANGED switches /\ NoMishap
  <2>1. /\ guard' \in GuardState /\ guard'.wifi = g.wifi /\ guard'.power = "on"
        /\ g.power = "standby" => guard'.waiting = "no" /\ ~guard'.restore
        /\ g.power # "standby" => guard'.waiting = g.waiting /\ guard'.restore = g.restore
    BY <1>5 DEF GuardState
  <2> QED BY <1>5, <2>1 DEF NoMishap
<1>6. CASE Mishap("writing") /\ guard' = g /\ UNCHANGED switches
  BY <1>6, MishapsStay
<1> QED BY <1>1, <1>2, <1>3, <1>4, <1>5, <1>6 DEF OnKeyLog

\* The guard has dealt with a report or a timer.
LEMMA GuardStepSane ==
    ASSUME Sane, UNCHANGED <<world, air, queue, received, fed>>, harmed \subseteq harmed',
           lines' \in Seq({"on", "off"}), guard' \in GuardState,
           mode # "on" /\ guard.power = "standby" => guard'.power = "standby",
           guard'.restore => guard'.power = "on",
           IF lines' = <<>> THEN guard'.wifi = newest ELSE Last(lines') = newest,
           guard'.waiting # "no" => guard'.wifi = "on"
    PROVE  Sane'
<1>1. Kinds' /\ Aware'
  BY DEF world, Sane, Kinds, Aware, Hears
<1>2. Reported' /\ Announced'
  BY DEF world, Sane, Reported, Announced
<1> QED BY <1>1, <1>2 DEF Sane

LEMMA FeedSane == ASSUME Sane, Typed, FeedPower PROVE Sane'
<1> DEFINE c == Head(queue)
<1>0. /\ queue # <<>> /\ queue' = Tail(queue) /\ queue' \in Seq(Class) /\ c \in Class
      /\ queue' = <<>> => Last(queue) = c
      /\ queue' # <<>> => Last(queue') = Last(queue)
      /\ queue \in Seq(Class)
  BY LastOfTail DEF FeedPower, Sane, Kinds
<1>1. \A x \in Class : fed'[x] = fed[x] + IF c = x THEN 1 ELSE 0
  BY <1>0 DEF FeedPower, Typed
<1>2. \A x \in Class : HowMany(queue, x) = HowMany(queue', x) + IF c = x THEN 1 ELSE 0
  BY <1>0, CountTail
<1>3. /\ guard' \in GuardState /\ guard'.power = c /\ guard'.wifi = guard.wifi
      /\ guard'.waiting # "no" => guard.waiting # "no"
      /\ guard'.restore => guard'.power = "on"
  <2>1. guard \in GuardState /\ guard' = OnPower(guard, c) /\ (guard.restore => guard.power = "on")
    BY DEF FeedPower, Sane, Kinds, Announced
  <2> HIDE DEF c
  <2> QED BY <1>0, <2>1, OnPowerIs DEF Class
<1> HIDE DEF c
<1>4. \A x \in Class : received'[x] = fed'[x] + HowMany(queue', x)
  <2> SUFFICES ASSUME NEW x \in Class PROVE received'[x] = fed'[x] + HowMany(queue', x)
    OBVIOUS
  <2>1. received[x] = fed[x] + HowMany(queue, x) /\ HowMany(queue', x) \in Nat /\ fed[x] \in Nat
    BY <1>0, CountType DEF Sane, Announced, Typed
  <2>2. received' = received
    BY DEF FeedPower
  <2> QED BY <1>1, <1>2, <2>1, <2>2
<1>5. UNCHANGED <<mode, starting, radio, conf, staged, userOn, newest, air, received, lines, switches, harmed>>
  BY DEF FeedPower, world, NoMishap
<1>6. Kinds'
  BY <1>0, <1>3, <1>5 DEF Sane, Kinds
<1>7. Aware'
  BY <1>0, <1>3, <1>5 DEF Sane, Aware, Hears
<1>8. Reported' /\ Announced'
  BY <1>3, <1>4, <1>5 DEF Sane, Reported, Announced
<1> QED BY <1>6, <1>7, <1>8 DEF Sane


LEMMA ReadSane == ASSUME Sane, ReadLine PROVE Sane'
<1> DEFINE seen == [guard EXCEPT !.wifi = Head(lines)]
<1>0. /\ lines # <<>> /\ lines' = Tail(lines) /\ lines' \in Seq({"on", "off"}) /\ Head(lines) \in {"on", "off"}
      /\ lines' = <<>> => newest = Head(lines)
      /\ lines' # <<>> => Last(lines') = newest
      /\ UNCHANGED <<world, air, queue, received, fed>>
  BY LastOfTail DEF ReadLine, Sane, Kinds, Reported
<1>1. CASE Head(lines) = "off"
  <2>1. guard' = [guard EXCEPT !.wifi = "off", !.waiting = "no"] /\ NoMishap
    BY <1>1 DEF ReadLine
  <2>2. /\ guard' \in GuardState /\ guard'.wifi = "off" /\ guard'.waiting = "no"
        /\ guard'.power = guard.power /\ guard'.restore = guard.restore
    BY <2>1 DEF Sane, Kinds, GuardState
  <2> QED BY <1>0, <1>1, <2>1, <2>2, GuardStepSane DEF NoMishap, Sane, Announced
<1>2. CASE Head(lines) = "on"
  <2> DEFINE g == [seen EXCEPT !.restore = FALSE]
  <2>1. /\ g \in GuardState /\ g.power = guard.power /\ g.wifi = "on" /\ ~g.restore
        /\ g.waiting = guard.waiting
    BY <1>2 DEF Sane, Kinds, GuardState
  <2>2. \/ guard' = g /\ NoMishap
        \/ OnKeyLog(g, guard.wifi = "off", FALSE)
    BY <1>2 DEF ReadLine
  <2>3. /\ harmed \subseteq harmed' /\ guard' \in GuardState /\ guard'.wifi = "on" /\ ~guard'.restore
        /\ mode # "on" /\ guard.power = "standby" => guard'.power = "standby"
    <3> HIDE DEF g
    <3>1. CASE guard' = g /\ NoMishap
      BY <2>1, <3>1 DEF NoMishap
    <3>2. CASE OnKeyLog(g, guard.wifi = "off", FALSE)
      <4>1. (guard.wifi = "off") \in BOOLEAN
        OBVIOUS
      <4> QED BY <2>1, <3>2, <4>1, OnKeyLogDoes
    <3> QED BY <2>2, <3>1, <3>2
  <2> QED BY <1>0, <1>2, <2>3, GuardStepSane
<1> QED BY <1>0, <1>1, <1>2

LEMMA ConfirmSane == ASSUME Sane, ConfirmExpires PROVE Sane'
<1> DEFINE g == [guard EXCEPT !.waiting = "no"]
<1>0. /\ UNCHANGED <<world, air, queue, lines, received, fed>> /\ lines = <<>>
      /\ guard.wifi = "on" /\ newest = "on"
  BY DEF ConfirmExpires, TimerTurn, feed, Sane, Reported
<1>1. /\ g \in GuardState /\ g.power = guard.power /\ g.wifi = "on" /\ g.waiting = "no"
      /\ g.restore = guard.restore
  BY <1>0 DEF Sane, Kinds, GuardState
<1>2. \/ guard' = g /\ GivesUp
      \/ OnKeyLog(g, TRUE, TRUE) /\ g.power = "standby"
  BY DEF ConfirmExpires
<1> HIDE DEF g
<1>3. /\ harmed \subseteq harmed' /\ guard' \in GuardState /\ guard'.wifi = "on"
      /\ mode # "on" /\ guard.power = "standby" => guard'.power = "standby"
      /\ guard'.restore => guard'.power = "on"
  <2>1. guard.restore => guard.power = "on"
    BY DEF Sane, Announced
  <2>2. CASE guard' = g /\ GivesUp
    BY <1>1, <2>1, <2>2 DEF GivesUp
  <2>3. CASE OnKeyLog(g, TRUE, TRUE) /\ g.power = "standby"
    BY <1>1, <2>1, <2>3, OnKeyLogDoes
  <2> QED BY <1>2, <2>2, <2>3
<1> QED BY <1>0, <1>3, GuardStepSane DEF Sane, Kinds, Reported

LEMMA RestoreSane == ASSUME Sane, RestoreExpires PROVE Sane'
<1>1. /\ guard' \in GuardState /\ guard'.power = guard.power /\ guard'.wifi = guard.wifi
      /\ guard'.waiting = guard.waiting /\ ~guard'.restore
  BY DEF RestoreExpires, Sane, Kinds, GuardState
<1>2. UNCHANGED <<world, air, queue, lines, received, fed, harmed>>
  BY DEF RestoreExpires, feed, NoMishap
<1> QED BY <1>1, <1>2, GuardStepSane DEF Sane, Kinds, Reported

LEMMA SwitchSane ==
    ASSUME Sane, Typed, NEW i \in DOMAIN switches, Look(i) \/ Step(i) \/ StepFails(i)
    PROVE  Sane'
<1>1. CASE Look(i) \/ StepFails(i)
  <2>1. harmed \subseteq harmed' /\ UNCHANGED <<world, feed, guard>>
    BY <1>1, MishapsStay DEF Look, StepFails, NoMishap
  <2> QED BY <2>1 DEF world, feed, Sane, Kinds, Aware, Hears, Reported, Announced
<1>2. CASE Step(i)
  <2>1. UNCHANGED <<mode, starting, userOn, air, queue, received, fed, guard, harmed>>
    BY <1>2 DEF Step, NoMishap
  <2>2. /\ radio' \in BOOLEAN /\ lines' \in Seq({"on", "off"})
        /\ newest' = IF radio' THEN "on" ELSE "off"
        /\ IF lines' = <<>> THEN guard.wifi = newest' ELSE Last(lines') = newest'
    <3>1. CASE UNCHANGED <<radio, lines, newest>>
      BY <3>1 DEF Sane, Kinds, Reported
    <3>2. CASE Radio(conf)
      BY <3>2, RadioReports DEF Sane, Kinds
    <3> QED BY <1>2, <3>1, <3>2 DEF Step, Steps
  <2>3. conf' \in BOOLEAN /\ staged' \in BOOLEAN \cup {None}
    <3>1. switches[i].on \in BOOLEAN
      <4>1. switches \in Seq(Switches) /\ i \in 1..Len(switches)
        BY LenProperties DEF Typed
      <4>2. switches[i] \in Switches
        BY <4>1, ElementOfSeq
      <4> QED BY <4>2 DEF Switches
    <3> QED BY <1>2, <3>1 DEF Step, Steps, Sane, Kinds
  <2> QED BY <2>1, <2>2, <2>3 DEF Sane, Kinds, Aware, Hears, Reported, Announced
<1> QED BY <1>1, <1>2

LEMMA CrashSane == ASSUME Sane, Crash PROVE Sane'
<1>1. "crash" \in harmed' /\ UNCHANGED world
  BY MishapsStay DEF Crash
<1>2. /\ guard' \in GuardState /\ guard'.power = "unknown" /\ guard'.wifi = newest /\ guard'.waiting = "no"
      /\ ~guard'.restore
  BY DEF Crash, Fresh, GuardState, Sane, Reported
<1>3. /\ air' = <<>> /\ queue' = <<>> /\ lines' = <<>>
      /\ received' = [c \in Class |-> 0] /\ fed' = received'
  BY DEF Crash
<1>4. \A c \in Class : received'[c] = fed'[c] + HowMany(queue', c)
  BY <1>3, CountNone
<1>5. Kinds'
  BY <1>1, <1>2, <1>3 DEF world, Sane, Kinds
<1>6. Aware' /\ Reported'
  BY <1>1, <1>2, <1>3 DEF world, Sane, Aware, Reported
<1>7. Announced'
  BY <1>1, <1>2, <1>3, <1>4 DEF world, Sane, Announced
<1> QED BY <1>5, <1>6, <1>7 DEF Sane

LEMMA NextSane == ASSUME Sane, Typed, [Next]_vars PROVE Sane'
<1>1. CASE UNCHANGED vars
  BY <1>1 DEF vars, world, feed, Sane, Kinds, Aware, Hears, Reported, Announced
<1>2. CASE SwitchThreads
  BY <1>2, SwitchSane DEF SwitchThreads
<1> QED BY <1>1, <1>2, FirmwareSane, ForwardSane, FeedSane, ReadSane, ConfirmSane, RestoreSane, CrashSane
        DEF Next, GuardThread

LEMMA InitSane == Init => Sane
<1> SUFFICES ASSUME Init PROVE Sane
  OBVIOUS
<1>1. Kinds
  BY DEF Init, Kinds, Fresh, GuardState
<1>2. Announced
  BY CountNone DEF Init, Announced, Fresh
<1> QED BY <1>1, <1>2 DEF Init, Sane, Aware, Reported, Fresh


-------------------------------------------------------------------------------
(* Standby: a Wi-Fi that is on is one the guard has yet to read of, or has a *)
(* turn-off to confirm for.                                                  *)

Dark ==
    mode = "standby" /\ radio /\ harmed \subseteq {"step", "revert", "commit", "late"}
        => lines # <<>> \/ (queue = <<>> /\ guard.waiting # "no")

LEMMA FirmwareDark == ASSUME Sane, Dark, Firmware PROVE Dark'
<1>1. CASE GoesToStandby \/ PowersOn
  BY <1>1 DEF GoesToStandby, PowersOn, PowerChange, Dark
<1>2. CASE EntersStandby
  BY <1>2, RadioReports DEF EntersStandby, Dark
<1>3. CASE SetsWifi \/ StartsWifi
  BY <1>3 DEF SetsWifi, StartsWifi, Sane, Announced, Dark
<1>4. CASE Wakes
  BY <1>4, RadioReports DEF Wakes, Sane, Kinds, Dark
<1>5. CASE OtherCommit
  <2>1. harmed \subseteq harmed'
    BY <1>5, MishapsStay DEF OtherCommit
  <2> QED BY <1>5, <2>1 DEF OtherCommit, feed, Dark
<1> QED BY <1>1, <1>2, <1>3, <1>4, <1>5 DEF Firmware

\* In standby the guard, fed, knows of it.
LEMMA KnowsStandby ==
    ASSUME Sane, mode = "standby", harmed \cap {"lost", "crash"} = {}, queue = <<>>
    PROVE  guard.power = "standby"
BY DEF Sane, Aware, Hears, Announced

LEMMA ReadDark == ASSUME Sane, Dark, ReadLine PROVE Dark'
<1> SUFFICES ASSUME mode = "standby", radio, harmed' \subseteq {"step", "revert", "commit", "late"}, lines' = <<>>
             PROVE  guard'.waiting # "no"
  BY DEF ReadLine, world, Dark
<1>1. Head(lines) = "on"
  BY LastOfTail DEF ReadLine, Sane, Kinds, Reported
<1> DEFINE g == [[guard EXCEPT !.wifi = Head(lines)] EXCEPT !.restore = FALSE]
<1>2. g \in GuardState /\ g.power = guard.power /\ g.waiting = guard.waiting
  BY <1>1 DEF Sane, Kinds, GuardState
<1>3. \/ guard' = g /\ NoMishap /\ (g.power = "on" \/ g.waiting # "no")
      \/ OnKeyLog(g, guard.wifi = "off", FALSE)
  BY <1>1 DEF ReadLine
<1> HIDE DEF g
<1>4. harmed \subseteq harmed'
  <2>1. (guard.wifi = "off") \in BOOLEAN
    OBVIOUS
  <2> QED BY <1>2, <1>3, <2>1, OnKeyLogDoes DEF NoMishap
<1>5. guard.power = "standby"
  BY <1>4, KnowsStandby DEF ReadLine
<1>6. CASE guard' = g /\ (g.power = "on" \/ g.waiting # "no")
  BY <1>2, <1>5, <1>6
<1>7. CASE OnKeyLog(g, guard.wifi = "off", FALSE)
  <2>1. (guard.wifi = "off") \in BOOLEAN
    OBVIOUS
  <2> QED BY <1>2, <1>5, <1>7, <2>1, OnKeyLogDoes
<1> QED BY <1>3, <1>6, <1>7

LEMMA ConfirmDark == ASSUME Sane, Dark, ConfirmExpires PROVE Dark'
<1> SUFFICES ASSUME mode = "standby", radio, harmed' \subseteq {"step", "revert", "commit", "late"}
             PROVE  queue = <<>> /\ guard'.waiting # "no"
  BY DEF ConfirmExpires, world, feed, Dark
<1> DEFINE g == [guard EXCEPT !.waiting = "no"]
<1>1. g \in GuardState /\ g.power = guard.power
  BY DEF Sane, Kinds, GuardState
<1>2. \/ guard' = g /\ GivesUp
      \/ OnKeyLog(g, TRUE, TRUE) /\ g.power = "standby"
  BY DEF ConfirmExpires
<1> HIDE DEF g
<1>3. ~GivesUp
  <2>1. "given up" \notin harmed'
    OBVIOUS
  <2> QED BY <2>1 DEF GivesUp
<1> QED BY <1>1, <1>2, <1>3, OnKeyLogDoes DEF ConfirmExpires, TimerTurn

LEMMA SwitchDark ==
    ASSUME Sane, Dark, NEW i \in DOMAIN switches, Look(i) \/ Step(i) \/ StepFails(i)
    PROVE  Dark'
<1>1. CASE Look(i) \/ StepFails(i)
  <2>1. harmed \subseteq harmed' /\ UNCHANGED <<world, feed, guard>>
    BY <1>1, MishapsStay DEF Look, StepFails, NoMishap
  <2> QED BY <2>1 DEF world, feed, Dark
<1>2. CASE Step(i)
  <2>1. UNCHANGED <<mode, queue, guard, harmed>>
    BY <1>2 DEF Step, NoMishap
  <2>2. UNCHANGED <<radio, lines>> \/ lines' # <<>>
    BY <1>2, RadioReports DEF Step, Steps, Sane, Kinds
  <2> QED BY <2>1, <2>2 DEF Dark
<1> QED BY <1>1, <1>2

LEMMA NextDark == ASSUME Sane, Dark, [Next]_vars PROVE Dark'
<1>1. CASE UNCHANGED vars
  BY <1>1 DEF vars, world, feed, Dark
<1>2. CASE Forward
  BY <1>2, MishapsStay DEF Forward, world, NoMishap, Sane, Announced, Dark
<1>3. CASE FeedPower
  BY <1>3 DEF FeedPower, world, NoMishap, Dark
<1>4. CASE RestoreExpires
  <2>1. guard'.waiting = guard.waiting
    BY <1>4 DEF RestoreExpires, Sane, Kinds, GuardState
  <2> QED BY <1>4, <2>1 DEF RestoreExpires, world, feed, NoMishap, Dark
<1>5. CASE Crash
  BY <1>5, MishapsStay DEF Crash, Dark
<1>6. CASE SwitchThreads
  BY <1>6, SwitchDark DEF SwitchThreads
<1> QED BY <1>1, <1>2, <1>3, <1>4, <1>5, <1>6, FirmwareDark, ReadDark, ConfirmDark DEF Next, GuardThread

(* In standby, once nothing is under way, Wi-Fi is off, for any number of   *)
(* wakes, power changes, failed commands and foreign commits: the guard     *)
(* hears of each start, and a turn-off that did nothing is tried again      *)
(* until it gives up (on_wifi_on, on_timer).                                *)
THEOREM StandbyIsDark == Spec => []StandbyDark
<1>1. Init => IInv /\ Sane /\ Dark
  BY InitSane DEF Init, IInv, Typed, Owned, Dark
<1>2. IInv /\ Sane /\ Dark /\ [Next]_vars => (IInv /\ Sane /\ Dark)'
  BY NextKeeps, NextSane, NextDark DEF IInv
<1>3. Dark => StandbyDark
  BY DEF Dark, StandbyDark, Quiet
<1> QED BY <1>1, <1>2, <1>3, PTL DEF Spec


-------------------------------------------------------------------------------
(* On again: a Wi-Fi that is off after a power-on is one the firmware, or the *)
(* guard, is still to start. Until then at most one command thread runs, and  *)
(* the guard remembers what it has to make good.                              *)

\* Nothing went wrong that is beyond the guard.
Held == userOn /\ harmed \subseteq {"writing", "commit", "given up"}

\* The turn-off of this standby makes the guard see to a restore when it hears of the power-on.
Owed ==
    \/ /\ guard.power = "standby" /\ guard.acted > 0
       /\ IF mode = "standby" THEN queue = <<>>
          ELSE (air = <<"on">> /\ queue = <<>>) \/ (air = <<>> /\ queue = <<"on">>)
    \/ mode = "on" /\ guard.restore /\ queue = <<>> /\ air = <<>>

TurningOff == Len(switches) = 1 /\ ~switches[1].on /\ radio /\ lines = <<>> /\ Owed

TurningOn ==
    /\ Len(switches) = 1 /\ switches[1].on
    /\ starting = "no" /\ queue = <<>> /\ air = <<>>
    /\ switches[1].seen = received["standby"] /\ switches[1].at # "revert"
    /\ switches[1].at \in {"was set", "commit"} => staged = TRUE \/ (staged = None /\ conf)
    /\ switches[1].at \in {"committed", "reload"} => staged = None /\ conf

InStandby ==
    /\ lines \in {<<>>, <<"off">>, <<"on">>, <<"off", "on">>}
    /\ switches # <<>> => TurningOff

PoweredOn ==
    \/ switches = <<>> /\ radio
    \/ switches = <<>> /\ ~radio /\ starting # "no"
    \/ switches = <<>> /\ ~radio /\ starting = "no" /\ Owed /\ lines \in {<<>>, <<"off">>}
    \/ TurningOff
    \/ TurningOn

Back == Held => (mode = "standby" => InStandby) /\ (mode = "on" => PoweredOn)

LEMMA OnlyOne == ASSUME Typed, Len(switches) = 1, NEW i \in DOMAIN switches PROVE i = 1 /\ switches[1] \in Switches
<1>1. switches \in Seq(Switches) /\ i \in 1..Len(switches) /\ 1 \in 1..Len(switches)
  BY LenProperties DEF Typed
<1>2. i = 1
  BY <1>1
<1>3. switches[1] \in Switches
  BY <1>1, ElementOfSeq
<1> QED BY <1>2, <1>3

LEMMA OneEnds ==
    ASSUME Typed, Len(switches) = 1, NEW i \in DOMAIN switches, Ends(i)
    PROVE  switches' = <<>>
<1>1. i = 1 /\ switches \in Seq(Switches)
  BY OnlyOne DEF Typed
<1>2. SubSeq(switches, 1, 0) = <<>> /\ SubSeq(switches, 2, 1) = <<>>
  BY <1>1
<1>3. switches' = SubSeq(switches, 1, 0) \o SubSeq(switches, 2, 1)
  BY <1>1 DEF Ends, RemoveAt
<1> QED BY <1>2, <1>3

LEMMA OneMoves ==
    ASSUME Typed, Len(switches) = 1, NEW i \in DOMAIN switches, NEW at \in Places, Moves(i, at)
    PROVE  /\ Len(switches') = 1 /\ switches'[1].at = at
           /\ switches'[1].on = switches[1].on /\ switches'[1].seen = switches[1].seen
<1> DEFINE s == [switches[1] EXCEPT !.at = at]
<1>1. i = 1 /\ switches[1] \in Switches /\ switches \in Seq(Switches)
  BY OnlyOne DEF Typed
<1>2. /\ s \in Switches /\ s.at = at
      /\ s.on = switches[1].on /\ s.seen = switches[1].seen
  BY <1>1 DEF Switches
<1>3. switches' = [switches EXCEPT ![1] = s]
  BY <1>1 DEF Moves
<1> HIDE DEF s
<1>4. 1 \in 1..Len(switches) /\ DOMAIN switches = 1..Len(switches)
  BY <1>1, LenProperties
<1>5. switches' \in Seq(Switches) /\ Len(switches') = Len(switches)
  <2> DEFINE r == [switches EXCEPT ![1] = s]
  <2>1. switches \in Seq(Switches) /\ s \in Switches /\ 1 \in 1..Len(switches)
    BY <1>1, <1>2, <1>4
  <2>2. r \in Seq(Switches) /\ Len(r) = Len(switches)
    BY ONLY <2>1, ExceptSeq
  <2> QED BY <1>3, <2>2
<1>6. switches'[1] = s
  BY <1>3, <1>4
<1> QED BY <1>2, <1>5, <1>6

LEMMA OneStarts ==
    ASSUME Typed, switches = <<>>, NEW on \in BOOLEAN, switches' = Append(switches, NewSwitch(on))
    PROVE  /\ Len(switches') = 1 /\ switches'[1].on = on /\ switches'[1].at = "start"
           /\ on => switches'[1].seen = fed["standby"]
<1>1. switches' = <<NewSwitch(on)>>
  OBVIOUS
<1>2. switches'[1] = NewSwitch(on) /\ Len(switches') = 1
  BY <1>1
<1> QED BY <1>2 DEF NewSwitch


LEMMA FedAll == ASSUME Sane, Typed, queue = <<>> PROVE received["standby"] = fed["standby"]
<1>1. HowMany(queue, "standby") = 0
  BY CountNone
<1>2. received["standby"] = fed["standby"] + HowMany(queue, "standby") /\ fed["standby"] \in Nat
  BY DEF Sane, Announced, Typed, Class
<1> QED BY <1>1, <1>2

LEMMA AppendToOne ==
    ASSUME NEW S, NEW a \in S, NEW b \in S
    PROVE  Append(<<a>>, b) = <<a, b>>
<1> DEFINE s == <<a>>
           t == <<a, b>>
           u == Append(s, b)
<1>1. s \in Seq(S) /\ Len(s) = 1 /\ s[1] = a
  OBVIOUS
<1>2. t \in Seq(S) /\ Len(t) = 2 /\ t[1] = a /\ t[2] = b
  OBVIOUS
<1> HIDE DEF s, t
<1>3. u \in Seq(S) /\ Len(u) = 2 /\ u[1] = a /\ u[2] = b
  <2>1. u \in Seq(S) /\ Len(u) = Len(s) + 1 /\ u[Len(s) + 1] = b
    BY ONLY <1>1, b \in S, AppendProperties DEF u
  <2>2. \A i \in 1..Len(s) : u[i] = s[i]
    BY ONLY <1>1, b \in S, AppendProperties DEF u
  <2>3. 1 \in 1..Len(s)
    BY <1>1
  <2> HIDE DEF u
  <2> QED BY <1>1, <2>1, <2>2, <2>3
<1> HIDE DEF u
<1>4. \A i \in 1..2 : i = 1 \/ i = 2
  OBVIOUS
<1>5. \A i \in 1..Len(u) : u[i] = t[i]
  BY <1>2, <1>3, <1>4
<1>6. u = t
  BY <1>2, <1>3, <1>5, SeqEqual
<1> QED BY <1>6 DEF u, s, t

\* The reports that can stand unread in standby, and what is left of them.
LEMMA Unread ==
    ASSUME lines \in {<<>>, <<"off">>, <<"on">>, <<"off", "on">>}
    PROVE  /\ lines # <<>> /\ lines' = Tail(lines) => lines' \in {<<>>, <<"on">>}
           /\ lines # <<>> /\ Head(lines) = "on" => lines = <<"on">> /\ Tail(lines) = <<>>
           /\ lines # <<>> /\ Last(lines) = "off" => lines = <<"off">>
           /\ lines = <<"off">> => Head(lines) = "off" /\ Tail(lines) = <<>> /\ Last(lines) = "off"
           /\ lines \in {<<>>, <<"off">>} => Append(lines, "on") \in {<<"on">>, <<"off", "on">>}
<1>1. CASE lines = <<>>
  BY <1>1
<1>2. CASE lines = <<"off">>
  <2>1. Head(lines) = "off" /\ Tail(lines) = <<>> /\ Last(lines) = "off" /\ lines # <<>>
    BY <1>2 DEF Last
  <2>2. Append(<<"off">>, "on") = <<"off", "on">>
    <3>1. "off" \in {"on", "off"} /\ "on" \in {"on", "off"}
      OBVIOUS
    <3> QED BY <3>1, AppendToOne
  <2> QED BY <1>2, <2>1, <2>2
<1>3. CASE lines = <<"on">>
  <2>1. Head(lines) = "on" /\ Tail(lines) = <<>> /\ Last(lines) = "on" /\ lines # <<>>
    BY <1>3 DEF Last
  <2>2. lines # <<"off">>
    BY <1>3
  <2> QED BY <1>3, <2>1, <2>2
<1>4. CASE lines = <<"off", "on">>
  <2>1. Head(lines) = "off" /\ Tail(lines) = <<"on">> /\ Last(lines) = "on" /\ lines # <<>>
    BY <1>4 DEF Last
  <2>2. lines # <<"off">>
    BY <1>4
  <2> QED BY <1>4, <2>1, <2>2
<1> QED BY <1>1, <1>2, <1>3, <1>4


\* How a turn-off's thread goes on.
LEMMA TurnsOff ==
    ASSUME Sane, Typed, TurningOff, NEW i \in DOMAIN switches, Look(i) \/ Step(i)
    PROVE  /\ UNCHANGED <<mode, starting, userOn, air, queue, received, fed, guard, harmed>>
           /\ \/ Len(switches') = 1 /\ ~switches'[1].on /\ UNCHANGED <<radio, lines>>
              \/ switches' = <<>> /\ UNCHANGED <<radio, lines>>
              \/ switches' = <<>> /\ ~radio' /\ lines' = <<"off">>
<1>0. Len(switches) = 1 /\ ~switches[1].on
  BY DEF TurningOff
<1>1. CASE Look(i)
  <2>1. UNCHANGED <<world, feed, guard, harmed>>
    BY <1>1 DEF Look, NoMishap
  <2>2. Ends(i) \/ \E at \in Places : Moves(i, at)
    BY <1>1 DEF Look, Places
  <2> QED BY <1>0, <2>1, <2>2, OneEnds, OneMoves DEF world, feed
<1>2. CASE Step(i)
  <2>1. UNCHANGED <<mode, starting, userOn, air, queue, received, fed, guard, harmed>>
    BY <1>2 DEF Step, NoMishap
  <2>2. CASE UNCHANGED <<radio, lines>> /\ (Ends(i) \/ \E at \in Places : Moves(i, at))
    BY <1>0, <2>1, <2>2, OneEnds, OneMoves
  <2>3. CASE Radio(conf) /\ Ends(i)
    <3>1. conf = radio => UNCHANGED <<radio, lines>>
      BY <2>3, RadioReports DEF Sane, Kinds
    <3>2. conf # radio => ~radio' /\ lines' = <<"off">>
      <4> SUFFICES ASSUME conf # radio PROVE ~radio' /\ lines' = <<"off">>
        OBVIOUS
      <4>1. radio /\ lines = <<>> /\ conf \in BOOLEAN
        BY DEF TurningOff, Sane, Kinds
      <4>2. ~conf /\ newest' = "off" /\ lines' = Append(lines, newest')
        BY <2>3, <4>1 DEF Radio
      <4>3. Append(<<>>, "off") = <<"off">>
        OBVIOUS
      <4> QED BY <2>3, <4>1, <4>2, <4>3 DEF Radio
    <3> QED BY <1>0, <2>1, <2>3, <3>1, <3>2, OneEnds
  <2> QED BY <1>2, <2>2, <2>3 DEF Step, Steps, Places
<1> QED BY <1>1, <1>2

LEMMA StandbyFirmware ==
    ASSUME Sane, Typed, mode = "standby", InStandby, Firmware, mode' = "standby"
    PROVE  InStandby'
<1>1. CASE OtherCommit
  BY <1>1 DEF OtherCommit, feed, InStandby, TurningOff, Owed
<1>2. CASE Wakes
  <2>1. ~radio /\ switches = <<>> /\ switches' = <<>>
    BY <1>2 DEF Wakes, InStandby, TurningOff
  <2>2. lines \in {<<>>, <<"off">>}
    BY <2>1, Unread DEF InStandby, Sane, Reported
  <2>3. lines' = Append(lines, "on")
    BY <1>2, <2>1, RadioReports DEF Wakes
  <2>4. lines' \in {<<"on">>, <<"off", "on">>}
    BY <2>2, <2>3, Unread DEF InStandby
  <2> QED BY <2>1, <2>4 DEF InStandby
<1> QED BY <1>1, <1>2 DEF Firmware, GoesToStandby, EntersStandby, PowersOn, PowerChange, SetsWifi, StartsWifi,
           Sane, Announced

LEMMA StandbyGuardThread ==
    ASSUME Sane, Typed, mode = "standby", InStandby, Held, GuardThread
    PROVE  InStandby'
<1>0. harmed \cap {"lost", "crash"} = {}
  BY DEF Held
<1>1. CASE FeedPower
  BY <1>1 DEF FeedPower, InStandby, TurningOff, Owed
<1>2. CASE ReadLine
  <2>1. /\ lines # <<>> /\ queue = <<>> /\ lines' = Tail(lines) /\ lines' \in {<<>>, <<"on">>}
        /\ switches = <<>> /\ UNCHANGED <<mode, radio, air, queue>>
    BY <1>2, Unread DEF ReadLine, world, InStandby, TurningOff
  <2>2. CASE UNCHANGED switches
    BY <2>1, <2>2 DEF InStandby
  <2>3. CASE ~UNCHANGED switches
    <3> DEFINE g == [[guard EXCEPT !.wifi = Head(lines)] EXCEPT !.restore = FALSE]
    <3>0. Head(lines) \in {"on", "off"}
      BY <2>1, LastOfTail DEF Sane, Kinds
    <3>1. Head(lines) = "on" /\ OnKeyLog(g, guard.wifi = "off", FALSE)
      BY <1>2, <2>3, <3>0 DEF ReadLine
    <3>2. g \in GuardState
      BY <3>1 DEF Sane, Kinds, GuardState
    <3>3. (guard.wifi = "off") \in BOOLEAN
      OBVIOUS
    <3> HIDE DEF g
    <3>4. /\ guard'.power = "standby" /\ guard'.acted = g.acted + 1 /\ switches' = Append(switches, NewSwitch(FALSE))
      BY <2>3, <3>1, <3>2, <3>3, OnKeyLogDoes
    <3>5. g.acted \in Nat
      BY <3>2 DEF GuardState
    <3>6. lines' = <<>> /\ radio
      BY <2>1, <3>1, Unread, LastOfTail DEF InStandby, Sane, Kinds, Reported
    <3>7. Len(switches') = 1 /\ ~switches'[1].on
      BY <2>1, <3>4, OneStarts
    <3>8. Owed'
      BY <2>1, <3>4, <3>5 DEF Owed
    <3> QED BY <2>1, <3>6, <3>7, <3>8 DEF InStandby, TurningOff
  <2> QED BY <2>2, <2>3
<1>3. CASE ConfirmExpires
  <2>1. /\ lines = <<>> /\ queue = <<>> /\ switches = <<>> /\ UNCHANGED <<mode, radio, air, queue, lines>>
        /\ guard.wifi = "on" /\ radio
    BY <1>3 DEF ConfirmExpires, TimerTurn, world, feed, Sane, Reported
  <2>2. CASE UNCHANGED switches
    BY <2>1, <2>2 DEF InStandby
  <2>3. CASE ~UNCHANGED switches
    <3> DEFINE g == [guard EXCEPT !.waiting = "no"]
    <3>1. OnKeyLog(g, TRUE, TRUE)
      BY <1>3, <2>3 DEF ConfirmExpires
    <3>2. g \in GuardState
      BY DEF Sane, Kinds, GuardState
    <3> HIDE DEF g
    <3>4. /\ guard'.power = "standby" /\ guard'.acted = g.acted + 1 /\ switches' = Append(switches, NewSwitch(FALSE))
      BY <2>3, <3>1, <3>2, OnKeyLogDoes
    <3>5. g.acted \in Nat
      BY <3>2 DEF GuardState
    <3>7. Len(switches') = 1 /\ ~switches'[1].on
      BY <2>1, <3>4, OneStarts
    <3>8. Owed'
      BY <2>1, <3>4, <3>5 DEF Owed
    <3> QED BY <2>1, <3>7, <3>8 DEF InStandby, TurningOff
  <2> QED BY <2>2, <2>3
<1>4. CASE RestoreExpires
  <2>1. guard.power = "standby" /\ guard.power = "on"
    BY <1>0, <1>4, KnowsStandby DEF RestoreExpires, TimerTurn, Sane, Announced
  <2> QED BY <2>1
<1> QED BY <1>1, <1>2, <1>3, <1>4 DEF GuardThread

LEMMA StandbyKeeps ==
    ASSUME Sane, Typed, mode = "standby", InStandby, Held, Held', [Next]_vars, mode' = "standby"
    PROVE  InStandby'
<1>1. CASE UNCHANGED vars
  BY <1>1 DEF vars, world, feed, InStandby, TurningOff, Owed
<1>2. CASE Forward
  BY <1>2 DEF Forward, Sane, Announced
<1>3. CASE Crash
  <2>1. "crash" \in harmed'
    BY <1>3, MishapsStay DEF Crash
  <2> QED BY <2>1 DEF Held
<1>4. CASE SwitchThreads
  <2>1. PICK i \in DOMAIN switches : Look(i) \/ Step(i) \/ StepFails(i)
    BY <1>4 DEF SwitchThreads
  <2>2. ~StepFails(i)
    <3>1. "step" \notin harmed' /\ "revert" \notin harmed'
      BY DEF Held
    <3> QED BY <3>1, MishapsStay DEF StepFails
  <2>3. switches # <<>> /\ TurningOff
    BY <2>1 DEF InStandby
  <2> QED BY <2>1, <2>2, <2>3, TurnsOff DEF InStandby, TurningOff, Owed
<1> QED BY <1>1, <1>2, <1>3, <1>4, StandbyFirmware, StandbyGuardThread DEF Next


\* How the thread of a restore goes on.
LEMMA TurnsOn ==
    ASSUME Sane, Typed, TurningOn, NEW i \in DOMAIN switches, Look(i) \/ Step(i)
    PROVE  TurningOn' \/ (switches' = <<>> /\ radio')
<1> DEFINE s == switches[1]
<1>0. Len(switches) = 1 /\ i = 1 /\ s.on
  BY OnlyOne DEF TurningOn
<1>1. CASE Look(i)
  <2>1. UNCHANGED <<world, feed>> /\ ~Undone(s)
    BY <1>0, <1>1 DEF Look, TurningOn, Undone
  <2>2. \/ s.at = "start" /\ Moves(i, "set")
        \/ s.at = "was set" /\ Moves(i, "commit")
        \/ s.at = "committed" /\ Moves(i, "reload")
    BY <1>0, <1>1, <2>1 DEF Look
  <2>3. {"set", "commit", "reload"} \subseteq Places
    BY DEF Places
  <2> QED BY <1>0, <2>1, <2>2, <2>3, OneMoves DEF world, feed, TurningOn
<1>2. CASE Step(i)
  <2>1. UNCHANGED <<mode, starting, userOn, air, queue, received, fed, guard, harmed>>
    BY <1>2 DEF Step, NoMishap
  <2>2. CASE s.at = "set" /\ staged' = s.on /\ Moves(i, "was set")
    BY <1>0, <2>1, <2>2, OneMoves DEF TurningOn, Places
  <2>3. CASE s.at = "commit" /\ staged' = None /\ Moves(i, "committed")
             /\ conf' = IF staged = None THEN conf ELSE staged
    <3>1. CASE staged = None
      <4>1. staged # TRUE
        BY <3>1, GuardAssumption
      <4>2. conf
        BY <2>3, <4>1 DEF TurningOn
      <4>3. conf' = conf
        BY <2>3, <3>1
      <4>4. conf'
        BY ONLY <4>2, <4>3
      <4> QED BY <1>0, <2>1, <2>3, <4>4, OneMoves DEF TurningOn, Places
    <3>2. CASE staged # None
      <4>1. staged = TRUE
        BY <2>3, <3>2 DEF TurningOn
      <4>2. conf' = staged
        BY <2>3, <3>2
      <4>3. conf' = TRUE
        BY ONLY <4>1, <4>2
      <4> QED BY <1>0, <2>1, <2>3, <4>3, OneMoves DEF TurningOn, Places
    <3> QED BY <3>1, <3>2
  <2>4. CASE s.at = "reload" /\ Radio(conf) /\ Ends(i)
    BY <1>0, <2>4, OneEnds, RadioReports DEF TurningOn, Sane, Kinds
  <2> QED BY <1>0, <1>2, <2>2, <2>3, <2>4 DEF Step, Steps, TurningOn
<1> QED BY <1>1, <1>2

LEMMA OnFirmware ==
    ASSUME Sane, Typed, mode = "on", PoweredOn, userOn, Firmware, mode' = "on"
    PROVE  PoweredOn'
<1>1. CASE SetsWifi
  BY <1>1 DEF SetsWifi, feed, PoweredOn, TurningOff, TurningOn, Owed
<1>2. CASE StartsWifi
  <2>1. radio => UNCHANGED <<radio, lines>>
    BY <1>2, RadioReports DEF StartsWifi
  <2>2. switches = <<>> => radio'
    <3>0. ToSet(<<>>) = {}
      BY DEF ToSet
    <3>1. switches = <<>> => Radio(userOn)
      BY <1>2, <3>0 DEF StartsWifi
    <3> QED BY <3>1, RadioReports
  <2>3. UNCHANGED <<mode, conf, staged, userOn, air, queue, received, fed, guard, switches>> /\ starting # "no"
    BY <1>2 DEF StartsWifi
  <2>4. CASE TurningOff
    BY <2>1, <2>3, <2>4 DEF PoweredOn, TurningOff, Owed
  <2>5. CASE switches = <<>>
    BY <2>2, <2>3, <2>5 DEF PoweredOn
  <2> QED BY <2>3, <2>4, <2>5 DEF PoweredOn, TurningOn
<1>3. CASE OtherCommit
  <2>1. UNCHANGED <<mode, starting, radio, air, queue, received, lines, guard, switches>>
        /\ staged # None /\ conf' = staged /\ staged' = None
    BY <1>3 DEF OtherCommit, feed
  <2>2. TurningOn => TurningOn'
    BY <2>1 DEF TurningOn
  <2>3. TurningOff => TurningOff'
    BY <2>1 DEF TurningOff, Owed
  <2> QED BY <2>1, <2>2, <2>3 DEF PoweredOn, Owed
<1> QED BY <1>1, <1>2, <1>3 DEF Firmware, GoesToStandby, EntersStandby, PowersOn, PowerChange, Wakes

LEMMA OnForward ==
    ASSUME Sane, Typed, mode = "on", PoweredOn, Held', Forward
    PROVE  PoweredOn'
<1>1. /\ starting # "no" /\ air # <<>> /\ air' = Tail(air) /\ queue' = Append(queue, Head(air))
      /\ UNCHANGED <<mode, starting, radio, lines, guard, switches>>
  <2>1. "lost" \notin harmed'
    BY DEF Held
  <2>2. ~Mishap("lost")
    BY <2>1, MishapsStay
  <2> QED BY <2>2 DEF Forward, world, Sane, Announced
<1>2. Owed => Owed'
  <2>1. Tail(<<"on">>) = <<>> /\ Append(<<>>, Head(<<"on">>)) = <<"on">>
    OBVIOUS
  <2> QED BY <1>1, <2>1 DEF Owed
<1> QED BY <1>1, <1>2 DEF PoweredOn, TurningOff, TurningOn

LEMMA OnFeeds ==
    ASSUME Sane, Typed, mode = "on", PoweredOn, FeedPower
    PROVE  PoweredOn'
<1>1. queue # <<>> /\ queue' = Tail(queue) /\ UNCHANGED <<mode, starting, radio, air, lines, switches>>
  BY DEF FeedPower, world
<1>2. Owed => Owed'
  <2> SUFFICES ASSUME Owed PROVE Owed'
    OBVIOUS
  <2>1. guard.power = "standby" /\ guard.acted > 0 /\ air = <<>> /\ queue = <<"on">>
    BY <1>1 DEF Owed
  <2>2. Head(<<"on">>) = "on" /\ Tail(<<"on">>) = <<>>
    OBVIOUS
  <2>3. guard \in GuardState /\ guard' = OnPower(guard, "on") /\ "on" \in Class
    BY <2>1, <2>2 DEF FeedPower, Sane, Kinds, Class
  <2>4. guard'.restore
    BY <2>1, <2>3, OnPowerIs
  <2> QED BY <1>1, <2>1, <2>2, <2>4 DEF Owed
<1> QED BY <1>1, <1>2 DEF PoweredOn, TurningOff, TurningOn

LEMMA OnReads ==
    ASSUME Sane, Typed, mode = "on", PoweredOn, ReadLine
    PROVE  PoweredOn'
<1>1. /\ lines # <<>> /\ lines' = Tail(lines)
      /\ UNCHANGED <<mode, starting, radio, conf, staged, air, queue, received>>
  BY DEF ReadLine, world
<1>2. UNCHANGED switches
  BY DEF ReadLine, OnKeyLog
<1>3. TurningOn => TurningOn'
  BY <1>1, <1>2 DEF TurningOn
<1>4. lines = <<"off">> /\ Owed => Owed' /\ lines' = <<>>
  <2> SUFFICES ASSUME lines = <<"off">>, Owed PROVE Owed' /\ lines' = <<>>
    OBVIOUS
  <2>1. Head(<<"off">>) = "off" /\ Tail(<<"off">>) = <<>>
    OBVIOUS
  <2>2. guard' = [guard EXCEPT !.wifi = "off", !.waiting = "no"]
    BY <2>1 DEF ReadLine
  <2>3. guard'.power = guard.power /\ guard'.acted = guard.acted /\ guard'.restore = guard.restore
    BY <2>2 DEF Sane, Kinds, GuardState
  <2> QED BY <1>1, <2>1, <2>3 DEF Owed
<1> QED BY <1>1, <1>2, <1>3, <1>4 DEF PoweredOn, TurningOff

LEMMA OnTimers ==
    ASSUME Sane, Typed, mode = "on", PoweredOn, userOn, ConfirmExpires \/ RestoreExpires
    PROVE  PoweredOn'
<1>0. /\ UNCHANGED <<mode, starting, radio, conf, staged, air, queue, received, lines>>
      /\ lines = <<>> /\ queue = <<>> /\ switches = <<>>
  BY DEF ConfirmExpires, RestoreExpires, TimerTurn, world, feed
<1>1. CASE ConfirmExpires
  <2>1. radio
    BY <1>0, <1>1 DEF ConfirmExpires, Sane, Reported
  <2>2. UNCHANGED switches
    BY <1>1 DEF ConfirmExpires, OnKeyLog
  <2> QED BY <1>0, <2>1, <2>2 DEF PoweredOn
<1>2. CASE RestoreExpires
  <2>1. starting = "no" /\ air = <<>> /\ guard.power = "on"
    BY <1>2 DEF RestoreExpires, Sane, Announced
  <2>2. CASE radio
    <3>1. guard.wifi # "off"
      BY <1>0, <2>2 DEF Sane, Reported
    <3> QED BY <1>0, <1>2, <2>2, <3>1 DEF RestoreExpires, PoweredOn
  <2>3. CASE ~radio
    <3>1. guard.wifi = "off"
      BY <1>0, <2>3 DEF Sane, Reported
    <3>2. switches' = Append(switches, NewSwitch(TRUE))
      BY <1>2, <2>1, <3>1 DEF RestoreExpires
    <3>3. Len(switches') = 1 /\ switches'[1].on /\ switches'[1].at = "start" /\ switches'[1].seen = received["standby"]
      BY <1>0, <3>2, OneStarts, FedAll
    <3> QED BY <1>0, <2>1, <3>3 DEF PoweredOn, TurningOn
  <2> QED BY <2>2, <2>3
<1> QED BY <1>1, <1>2

LEMMA OnKeeps ==
    ASSUME Sane, Typed, mode = "on", PoweredOn, Held, Held', [Next]_vars, mode' = "on"
    PROVE  PoweredOn'
<1>1. CASE UNCHANGED vars
  BY <1>1 DEF vars, world, feed, PoweredOn, TurningOff, TurningOn, Owed
<1>2. CASE Crash
  <2>1. "crash" \in harmed'
    BY <1>2, MishapsStay DEF Crash
  <2> QED BY <2>1 DEF Held
<1>3. CASE SwitchThreads
  <2>1. PICK i \in DOMAIN switches : Look(i) \/ Step(i) \/ StepFails(i)
    BY <1>3 DEF SwitchThreads
  <2>2. ~StepFails(i)
    <3>1. "step" \notin harmed' /\ "revert" \notin harmed'
      BY DEF Held
    <3> QED BY <3>1, MishapsStay DEF StepFails
  <2>3. CASE TurningOff
    BY <2>1, <2>2, <2>3, TurnsOff DEF PoweredOn, TurningOff, Owed
  <2>4. CASE TurningOn
    BY <2>1, <2>2, <2>4, TurnsOn DEF PoweredOn
  <2> QED BY <2>3, <2>4 DEF PoweredOn
<1> QED BY <1>1, <1>2, <1>3, OnFirmware, OnForward, OnFeeds, OnReads, OnTimers DEF Next, GuardThread, Held

\* The power changes.
LEMMA ChangeBack ==
    ASSUME Sane, Typed, Back, Held', Firmware, mode' # mode
    PROVE  Back'
<1>1. CASE GoesToStandby
  BY <1>1 DEF GoesToStandby, PowerChange, Back
<1>2. CASE EntersStandby
  <2>1. switches = <<>> /\ UNCHANGED switches
    BY <1>2 DEF EntersStandby, Held
  <2>2. lines' \in {<<>>, <<"off">>}
    <3>1. Append(<<>>, "off") = <<"off">>
      OBVIOUS
    <3> QED BY <1>2, <3>1 DEF EntersStandby, Radio
  <2> QED BY <1>2, <2>1, <2>2 DEF EntersStandby, Back, InStandby
<1>3. CASE PowersOn
  <2>1. /\ mode = "standby" /\ mode' = "on" /\ air' = Append(air, "on") /\ starting' = "set"
        /\ UNCHANGED <<radio, lines, userOn, queue, guard, switches, harmed>>
    BY <1>3 DEF PowersOn, PowerChange, Announce
  <2>2. air = <<>> /\ radio \in BOOLEAN
    BY <2>1 DEF Sane, Kinds, Announced
  <2>3. air' = <<"on">>
    BY <2>1, <2>2
  <2>4. InStandby
    BY <2>1 DEF Held, Back
  <2>5. TurningOff => TurningOff'
    <3>1. Owed => Owed'
      <4> SUFFICES ASSUME Owed PROVE Owed'
        OBVIOUS
      <4>1. guard.power = "standby" /\ guard.acted > 0 /\ queue = <<>>
        BY <2>1 DEF Owed
      <4>2. mode' # "standby" /\ guard'.power = "standby" /\ guard'.acted > 0 /\ queue' = <<>>
        BY <2>1, <4>1
      <4> QED BY ONLY <2>3, <4>2 DEF Owed
    <3> QED BY <2>1, <3>1 DEF TurningOff
  <2>6. PoweredOn'
    BY <2>1, <2>2, <2>4, <2>5 DEF InStandby, PoweredOn
  <2> QED BY <2>1, <2>6 DEF Back
<1> QED BY <1>1, <1>2, <1>3 DEF Firmware, SetsWifi, StartsWifi, Wakes, OtherCommit

LEMMA HarmStays == ASSUME [Next]_vars, mode' = mode PROVE harmed \subseteq harmed' /\ UNCHANGED userOn
<1>1. CASE UNCHANGED vars
  BY <1>1 DEF vars, world
<1>2. CASE Firmware
  BY <1>2, MishapsStay DEF Firmware, GoesToStandby, EntersStandby, PowersOn, PowerChange, SetsWifi, StartsWifi,
     Wakes, OtherCommit, NoMishap
<1>3. CASE Forward \/ Crash
  BY <1>3, MishapsStay DEF Forward, Crash, NoMishap, world
<1>4. CASE GuardThread
  <2>1. \A g, wasOff, again : OnKeyLog(g, wasOff, again) => harmed \subseteq harmed'
    BY MishapsStay DEF OnKeyLog, NoMishap, GivesUp
  <2> QED BY <1>4, <2>1 DEF GuardThread, FeedPower, ReadLine, ConfirmExpires, RestoreExpires, NoMishap, GivesUp, world
<1>5. CASE SwitchThreads
  BY <1>5, MishapsStay DEF SwitchThreads, Look, Step, StepFails, NoMishap, world
<1> QED BY <1>1, <1>2, <1>3, <1>4, <1>5 DEF Next

LEMMA NextBack == ASSUME Sane, Typed, Back, [Next]_vars PROVE Back'
<1> SUFFICES ASSUME Held' PROVE Back'
  BY DEF Back
<1>1. CASE mode' # mode
  <2>1. Firmware
    <3>1. CASE SwitchThreads
      BY <1>1, <3>1 DEF SwitchThreads, Look, Step, StepFails, world
    <3> QED BY <1>1, <3>1 DEF Next, Forward, GuardThread, FeedPower, ReadLine, ConfirmExpires, RestoreExpires,
               Crash, vars, world
  <2> QED BY <1>1, <2>1, ChangeBack
<1>2. CASE mode' = mode
  <2>1. Held
    BY <1>2, HarmStays DEF Held
  <2> QED BY <1>2, <2>1, StandbyKeeps, OnKeeps DEF Back
<1> QED BY <1>1, <1>2

(* After a power-on, once nothing is under way, a user who wants Wi-Fi has   *)
(* it, for any number of power changes, wakes, foreign commits and           *)
(* half-written logs: a turn-off that runs into the power-on either is cut   *)
(* short before its reload or is made good by the restore that the power-on  *)
(* armed, whichever of the two the guard hears of first (on_power, on_timer, *)
(* switch_wifi_with).                                                        *)
THEOREM WifiComesBack == Spec => []WifiBack
<1>1. Init => IInv /\ Sane /\ Back
  <2>1. Init => IInv
    BY DEF Init, IInv, Typed, Owned
  <2>2. Init => Back
    BY DEF Init, Back, Held, PoweredOn
  <2> QED BY <2>1, <2>2, InitSane
<1>2. IInv /\ Sane /\ Back /\ [Next]_vars => (IInv /\ Sane /\ Back)'
  BY NextKeeps, NextSane, NextBack DEF IInv
<1>3. Sane /\ Back => WifiBack
  <2> SUFFICES ASSUME Sane, Back, mode = "on", Quiet, Held PROVE radio
    BY DEF WifiBack, Held
  <2>1. switches = <<>> /\ starting = "no" /\ ~Owed
    BY DEF Quiet, Owed
  <2> QED BY <2>1 DEF Back, PoweredOn, TurningOff, TurningOn
<1> QED BY <1>1, <1>2, <1>3, PTL DEF Spec
===============================================================================
