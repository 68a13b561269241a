-------------------------- MODULE OosPolicyProofs --------------------------
(***************************************************************************)
(* The no-service policy never loses the owner's knob values, never leaves *)
(* quiet knobs unattended, and never leaves a modem it parked unattended   *)
(* but for the known mishaps, whatever fails, whenever the agent dies,     *)
(* however long the channel is.                                            *)
(*                                                                         *)
(* The argument: the backup in memory is there whenever the knobs are not  *)
(* the owner's, the one on disk whenever the one in memory is (Backups);   *)
(* and the knobs are made quiet only in a cycle, whose end has their       *)
(* restore as its first action (Cycles).                                   *)
(***************************************************************************)
EXTENDS OosPolicy, TLAPS

\* The action to be done next.
First == IF thread.todo = <<>> THEN "none" ELSE Head(thread.todo)

\* Only actions on the modem are queued behind another.
Later == {"SetLpm", "GoOnline", "OnlineIfLpm", "ReadService"}
Ordered == \A i \in 2 .. Len(thread.todo) : thread.todo[i] \in Later

Backups ==
    /\ disk.backup \in {None, owner} /\ exec.backup \in {None, owner}
    /\ exec.backup = owner => disk.backup = owner
    /\ knobs # owner => exec.backup = owner
    /\ First = "RemoveBackup" => exec.backup = None
    /\ First = "WriteQuiet" => exec.backup = owner \/ owner = Quiet

Cycles ==
    /\ First \in {"SetQuietKnobs", "SaveKnobs", "WriteQuiet"} => machine.state = "Quiet"
    /\ knobs # owner =>
         machine.state \in {"Quiet", "Probing"} \/ exec.retry \/ First = "RestoreKnobs"

IInv == TypeOK /\ Ordered /\ Backups /\ Cycles

Threads == [event : Events \cup {None}, todo : Seq(Steps)]

-----------------------------------------------------------------------------
(* The list of actions. *)

\* What follows a done action is an action on the modem.
LEMMA PopStep ==
    ASSUME thread \in Threads, Ordered, thread.todo # <<>>, thread' = Pop(thread)
    PROVE  /\ thread' \in Threads /\ Ordered'
           /\ First' \in Later \cup {"none"}
           /\ thread'.event = thread.event
<1> DEFINE s == thread.todo
           r == Tail(s)
<1>1. s \in Seq(Steps) /\ s # <<>>
  BY DEF Threads
<1>2. thread'.todo = r /\ thread'.event = thread.event /\ thread' \in Threads
  <2>1. r \in Seq(Steps)
    BY <1>1
  <2>2. thread' = [thread EXCEPT !.todo = r]
    BY DEF Pop
  <2> HIDE DEF r
  <2> QED BY <2>1, <2>2 DEF Threads
<1>3. r \in Seq(Steps) /\ Len(r) = Len(s) - 1 /\ \A i \in 1 .. Len(r) : r[i] = s[i + 1]
  BY <1>1
<1>4. \A i \in 1 .. Len(r) : r[i] \in Later
  BY <1>1, <1>3 DEF Ordered
<1>5. r # <<>> => Head(r) \in Later
  BY <1>3, <1>4
<1> HIDE DEF r
<1> QED BY <1>2, <1>3, <1>4, <1>5 DEF Ordered, First

\* An action may go on as another.
LEMMA HeadStep ==
    ASSUME thread \in Threads, Ordered, thread.todo # <<>>, NEW step \in Steps,
           thread' = [thread EXCEPT !.todo = <<step>> \o Tail(@)]
    PROVE  /\ thread' \in Threads /\ Ordered'
           /\ First' = step
<1> DEFINE s == thread.todo
           r == <<step>> \o Tail(s)
<1>1. s \in Seq(Steps) /\ s # <<>>
  BY DEF Threads
<1>2. thread'.todo = r
  BY DEF Threads
<1>3. Tail(s) \in Seq(Steps) /\ Len(Tail(s)) = Len(s) - 1
      /\ \A i \in 1 .. Len(Tail(s)) : Tail(s)[i] = s[i + 1]
  BY <1>1
<1>4. r \in Seq(Steps) /\ Len(r) = Len(s) /\ r[1] = step
      /\ \A i \in 2 .. Len(r) : r[i] = s[i]
  <2> DEFINE q == Tail(s)
  <2> HIDE DEF q
  <2> QED BY <1>1, <1>3 DEF q
<1>5. thread' \in Threads
  BY <1>4 DEF Threads
<1>6. \A i \in 2 .. Len(r) : r[i] \in Later
  BY <1>4 DEF Ordered
<1>7. r # <<>> /\ Head(r) = step
  BY <1>4
<1> HIDE DEF r
<1> QED BY <1>2, <1>5, <1>6, <1>7 DEF Ordered, First

-----------------------------------------------------------------------------
(* The machine. *)

Cycle == {"Quiet", "Probing"}
Machines == [state : {"Idle", "Grace", "Quiet", "Probing"},
             service : BOOLEAN \cup {None}, suspended : BOOLEAN, enabled : BOOLEAN]

LEMMA SetState ==
    ASSUME NEW m \in Machines, NEW v \in {"Idle", "Grace", "Quiet", "Probing"}
    PROVE  [m EXCEPT !.state = v] \in Machines /\ [m EXCEPT !.state = v].state = v
BY DEF Machines

LEMMA SetService ==
    ASSUME NEW m \in Machines, NEW v \in BOOLEAN
    PROVE  [m EXCEPT !.service = v] \in Machines /\ [m EXCEPT !.service = v].state = m.state
BY DEF Machines

LEMMA SetSuspended ==
    ASSUME NEW m \in Machines, NEW v \in BOOLEAN
    PROVE  [m EXCEPT !.suspended = v] \in Machines /\ [m EXCEPT !.suspended = v].state = m.state
BY DEF Machines

LEMMA SetEnabled ==
    ASSUME NEW m \in Machines, NEW v \in BOOLEAN
    PROVE  [m EXCEPT !.enabled = v] \in Machines /\ [m EXCEPT !.enabled = v].state = m.state
BY DEF Machines

\* A cycle ends only with the knobs' restore first, and only a cycle makes them quiet.
Sound(m, next, todo) ==
    /\ next \in Machines
    /\ \/ todo = <<"SetQuietKnobs", "SetLpm">> /\ next.state = "Quiet"
       \/ todo \in {<<"RestoreKnobs">>, <<"RestoreKnobs", "GoOnline">>}
       \/ /\ todo \in {<<>>, <<"GoOnline">>, <<"SetLpm">>}
          /\ m.state \in Cycle => next.state \in Cycle

LEMMA StandDownSound ==
    ASSUME NEW m \in Machines, NEW from \in Machines, m.state = from.state, NEW goOnline \in BOOLEAN
    PROVE  Sound(from, StandDown(m, goOnline).m, StandDown(m, goOnline).todo)
<1>1. [m EXCEPT !.state = "Idle"] \in Machines
  BY SetState
<1>2. StandDown(m, goOnline).m = [m EXCEPT !.state = "Idle"]
  BY DEF StandDown, Result
<1>3. StandDown(m, goOnline).todo = IF m.state \notin {"Quiet", "Probing"} THEN <<>>
           ELSE IF m.state = "Quiet" /\ goOnline THEN <<"RestoreKnobs", "GoOnline">>
           ELSE <<"RestoreKnobs">>
  BY DEF StandDown, Result
<1> QED BY <1>1, <1>2, <1>3 DEF Sound, Cycle

LEMMA OutcomesSound ==
    ASSUME NEW m \in Machines, NEW e \in Events, NEW r \in Outcomes(m, e)
    PROVE  Sound(m, r.m, r.todo)
<1> USE DEF Result
<1>1. CASE e.kind = "Service"
  <2>1. r = OnService(m, e.on) /\ e.on \in BOOLEAN
    BY <1>1 DEF Outcomes, Events
  <2>2. CASE e.on
    <3> DEFINE known == [m EXCEPT !.service = TRUE]
               free == [known EXCEPT !.suspended = FALSE]
    <3>1. known \in Machines /\ known.state = m.state
      BY SetService
    <3> HIDE DEF known
    <3>2. free \in Machines /\ free.state = m.state
      BY <3>1, SetSuspended
    <3>3. r = StandDown(free, TRUE)
      BY <2>1, <2>2 DEF OnService, known
    <3> HIDE DEF free
    <3> QED BY <3>2, <3>3, StandDownSound
  <2>3. CASE ~e.on
    <3> DEFINE known == [m EXCEPT !.service = FALSE]
    <3>1. known \in Machines /\ known.state = m.state
      BY SetService
    <3>2. r = Result(IF m.enabled /\ ~m.suspended /\ m.state = "Idle"
                        THEN StartGrace(known) ELSE known, <<>>)
      BY <2>1, <2>3 DEF OnService
    <3> HIDE DEF known
    <3>3. StartGrace(known) \in Machines
      BY <3>1, SetState DEF StartGrace
    <3> QED BY <3>1, <3>2, <3>3 DEF Sound, Cycle
  <2> QED BY <2>1, <2>2, <2>3
<1>2. CASE e.kind = "UserMode"
  <2>1. r = OnUserMode(m, e.on) /\ e.on \in BOOLEAN
    BY <1>2 DEF Outcomes, Events
  <2>2. CASE ~e.on
    <3> DEFINE held == [m EXCEPT !.suspended = TRUE]
    <3>1. held \in Machines /\ held.state = m.state
      BY SetSuspended
    <3>2. r = StandDown(held, FALSE)
      BY <2>1, <2>2 DEF OnUserMode
    <3> HIDE DEF held
    <3> QED BY <3>1, <3>2, StandDownSound
  <2>3. CASE e.on
    <3> DEFINE free == [m EXCEPT !.suspended = FALSE]
               down == IF m.state \in {"Quiet", "Probing"} THEN StandDown(free, FALSE) ELSE Result(free, <<>>)
    <3>1. free \in Machines /\ free.state = m.state
      BY SetSuspended
    <3>2. r = IF m.enabled /\ m.service = FALSE THEN Result(StartGrace(down.m), down.todo) ELSE down
      BY <2>1, <2>3 DEF OnUserMode
    <3> HIDE DEF free
    <3>3. CASE m.state \in {"Quiet", "Probing"}
      <4>1. down = [m |-> [free EXCEPT !.state = "Idle"], todo |-> <<"RestoreKnobs">>]
        BY <3>1, <3>3 DEF StandDown
      <4>2. down.m \in Machines /\ down.todo = <<"RestoreKnobs">>
        <5> DEFINE idle == [free EXCEPT !.state = "Idle"]
        <5>1. idle \in Machines
          BY <3>1, SetState
        <5> HIDE DEF idle, down
        <5>2. down = [m |-> idle, todo |-> <<"RestoreKnobs">>]
          BY <4>1 DEF idle
        <5> QED BY <5>1, <5>2
      <4> HIDE DEF down
      <4>3. StartGrace(down.m) \in Machines
        BY <4>2, SetState DEF StartGrace
      <4> QED BY <3>2, <4>2, <4>3 DEF Sound
    <3>4. CASE m.state \notin {"Quiet", "Probing"}
      <4>1. down.m = free /\ down.todo = <<>>
        BY <3>4
      <4> HIDE DEF down
      <4>2. StartGrace(down.m) \in Machines
        BY <3>1, <4>1, SetState DEF StartGrace
      <4> QED BY <3>1, <3>2, <3>4, <4>1, <4>2 DEF Sound, Cycle
    <3> QED BY <3>3, <3>4
  <2> QED BY <2>1, <2>2, <2>3
<1>3. CASE e.kind = "Config"
  <2> DEFINE set == [m EXCEPT !.enabled = e.on]
  <2>1. r = OnConfig(m, e.on) /\ e.on \in BOOLEAN
    BY <1>3 DEF Outcomes, Events
  <2>2. set \in Machines /\ set.state = m.state
    BY <2>1, SetEnabled
  <2>3. \/ r = StandDown(set, TRUE)
        \/ r = Result(StartGrace(set), <<>>) /\ m.state = "Idle"
        \/ r = Result(set, <<>>)
    BY <2>1 DEF OnConfig
  <2> HIDE DEF set
  <2>4. StartGrace(set) \in Machines
    BY <2>2, SetState DEF StartGrace
  <2>5. CASE r = StandDown(set, TRUE)
    BY <2>2, <2>5, StandDownSound
  <2>6. CASE r = Result(StartGrace(set), <<>>) /\ m.state = "Idle"
    BY <2>4, <2>6 DEF Sound, Cycle
  <2>7. CASE r = Result(set, <<>>)
    BY <2>2, <2>7 DEF Sound, Cycle
  <2> QED BY <2>3, <2>5, <2>6, <2>7
<1>4. CASE e.kind = "Standby"
  <2>1. r = StandDown(m, FALSE)
    BY <1>4 DEF Outcomes
  <2> QED BY <2>1, StandDownSound
<1>5. CASE e.kind = "Timer"
  <2>1. r = Result(m, <<>>) \/ r = OnTimer(m)
    BY <1>5 DEF Outcomes
  <2>2. [m EXCEPT !.state = "Quiet"] \in Machines /\ [m EXCEPT !.state = "Quiet"].state = "Quiet"
    BY SetState
  <2>3. [m EXCEPT !.state = "Probing"] \in Machines /\ [m EXCEPT !.state = "Probing"].state = "Probing"
    BY SetState
  <2>4. CASE r = Result(m, <<>>)
    BY <2>4 DEF Sound
  <2>5. CASE r = OnTimer(m)
    BY <2>2, <2>3, <2>5 DEF OnTimer, Sound, Cycle, Machines
  <2> QED BY <2>1, <2>4, <2>5
<1> QED BY <1>1, <1>2, <1>3, <1>4, <1>5 DEF Events

-----------------------------------------------------------------------------
(* The steps of the thread. *)

LEMMA Typed ==
    ASSUME TypeOK
    PROVE  /\ thread \in Threads /\ machine \in Machines
           /\ (exec \in [backup : KnobValues \cup {None}, retry : BOOLEAN])
           /\ (disk \in [enabled : BOOLEAN, backup : KnobValues \cup {None}])
           /\ owner \in KnobValues /\ None # owner /\ knobs \in KnobValues
BY ConstantsAssumption DEF TypeOK, Threads, Machines, KnobValues

\* The lists the code starts from.
LEMMA ListOrdered ==
    ASSUME thread'.todo \in {<<>>, <<"RestoreKnobs">>, <<"RestoreKnobs", "GoOnline">>, <<"SetQuietKnobs", "SetLpm">>,
                             <<"GoOnline">>, <<"SetLpm">>, <<"ReadService">>,
                             <<"RestoreKnobs", "OnlineIfLpm", "ReadService">>}
    PROVE  /\ thread'.todo \in Seq(Steps) /\ Ordered'
           /\ First' = IF thread'.todo = <<>> THEN "none" ELSE thread'.todo[1]
<1> DEFINE todo == thread'.todo
<1>1. todo \in Seq(Steps) /\ (\A i \in 2 .. Len(todo) : todo[i] \in Later)
      /\ (todo # <<>> => Head(todo) = todo[1])
  <2> USE DEF Later, Steps
  <2>1. CASE todo = <<>>
    BY <2>1
  <2>2. ASSUME NEW step \in {"RestoreKnobs", "GoOnline", "SetLpm", "ReadService"}, todo = <<step>>
        PROVE  /\ todo \in Seq(Steps) /\ (\A i \in 2 .. Len(todo) : todo[i] \in Later)
               /\ (todo # <<>> => Head(todo) = todo[1])
    BY <2>2
  <2>3. CASE todo = <<"RestoreKnobs", "GoOnline">>
    BY <2>3
  <2>4. CASE todo = <<"SetQuietKnobs", "SetLpm">>
    BY <2>4
  <2>5. CASE todo = <<"RestoreKnobs", "OnlineIfLpm", "ReadService">>
    BY <2>5
  <2> QED BY <2>1, <2>2, <2>3, <2>4, <2>5
<1> HIDE DEF todo
<1> QED BY <1>1 DEF todo, Ordered, First

LEMMA WakeKeeps == ASSUME IInv, Wake PROVE IInv'
<1> USE DEF environment
<1>1. thread \in Threads /\ thread.todo = <<>> /\ First = "none"
  BY Typed DEF IInv, Wake, Waiting, First
<1>2. thread'.todo \in {<<>>, <<"RestoreKnobs">>} /\ thread' \in Threads /\ queue' \in Seq(Events)
  <2>1. Timer \in Events
    BY DEF Timer, Events
  <2>2. queue # <<>> => Head(queue) \in Events /\ Tail(queue) \in Seq(Events)
    BY DEF IInv, TypeOK
  <2>3. <<>> \in Seq(Steps) /\ <<"RestoreKnobs">> \in Seq(Steps)
    BY DEF Steps
  <2>4. PICK e \in Events, due \in BOOLEAN :
             thread' = [event |-> e, todo |-> IF due THEN <<"RestoreKnobs">> ELSE <<>>]
    BY <2>1, <2>2 DEF Wake, IInv, TypeOK
  <2>5. thread'.todo \in {<<>>, <<"RestoreKnobs">>} /\ thread' \in Threads
    BY <2>3, <2>4 DEF Threads
  <2> QED BY <2>2, <2>5 DEF Wake, IInv, TypeOK
<1>3. Ordered' /\ First' \in {"none", "RestoreKnobs"}
  BY <1>2, ListOrdered
<1> QED BY <1>1, <1>2, <1>3 DEF Wake, IInv, TypeOK, Backups, Cycles, Threads

LEMMA DecideKeeps == ASSUME IInv, Decide PROVE IInv'
<1> USE DEF environment
<1>1. thread \in Threads /\ thread.event \in Events /\ First = "none" /\ machine \in Machines
  BY Typed DEF IInv, Decide, First, Threads
<1>2. PICK r \in Outcomes(machine, thread.event) :
           machine' = r.m /\ thread' = [event |-> None, todo |-> r.todo]
  BY DEF Decide
<1>3. Sound(machine, machine', thread'.todo)
  BY <1>1, <1>2, OutcomesSound
<1>4. thread'.todo \in Seq(Steps) /\ Ordered' /\ First' = IF thread'.todo = <<>> THEN "none" ELSE thread'.todo[1]
  BY <1>3, ListOrdered DEF Sound
<1>5. thread' \in Threads
  BY <1>2, <1>4 DEF Threads
<1>6. /\ First' \notin {"RemoveBackup", "WriteQuiet", "SaveKnobs"}
      /\ First' = "SetQuietKnobs" => machine'.state = "Quiet"
      /\ First' = "RestoreKnobs" \/ machine'.state = "Quiet" \/ (machine.state \in Cycle => machine'.state \in Cycle)
  BY <1>3, <1>4 DEF Sound
<1>7. TypeOK'
  BY <1>3, <1>5 DEF Decide, IInv, TypeOK, Sound, Machines, Threads
<1> QED BY <1>1, <1>4, <1>6, <1>7 DEF Decide, IInv, Backups, Cycles, Cycle

\* A step that ends an action or goes on as another.
LEMMA ActKeeps == ASSUME IInv, Act PROVE IInv'
<1> USE DEF environment, Doing
<1>1. thread \in Threads /\ Ordered
  BY Typed DEF IInv
<1>2. ASSUME thread.todo # <<>>, thread' = Pop(thread)
      PROVE  thread' \in Threads /\ Ordered' /\ First' \in Later \cup {"none"}
  BY <1>1, <1>2, PopStep
<1>3. ASSUME thread.todo # <<>>, NEW step \in Steps, thread' = [thread EXCEPT !.todo = <<step>> \o Tail(@)]
      PROVE  thread' \in Threads /\ Ordered' /\ First' = step
  BY <1>1, <1>3, HeadStep
<1>4. ASSUME NEW e \in Events \cup {None}, thread' = [event |-> e, todo |-> <<>>]
      PROVE  thread' \in Threads /\ Ordered' /\ First' = "none"
  BY <1>4, ListOrdered DEF Threads
<1>5. thread.todo # <<>> => First = Head(thread.todo)
  BY DEF First
<1>6. CASE SetQuietKnobs
  <2>1. CASE thread' = [event |-> Standby, todo |-> <<>>] /\ UNCHANGED exec
    <3>1. thread' \in Threads /\ Ordered' /\ First' = "none"
      BY <1>4, <2>1 DEF Standby, Events
    <3> QED BY <1>5, <1>6, <2>1, <3>1 DEF SetQuietKnobs, IInv, TypeOK, Backups, Cycles, Threads
  <2>2. CASE exec' = [exec EXCEPT !.retry = FALSE] /\ thread' = [thread EXCEPT !.todo = <<"SaveKnobs">> \o Tail(@)]
    <3>1. thread' \in Threads /\ Ordered' /\ First' = "SaveKnobs"
      BY <1>3, <1>6, <2>2 DEF SetQuietKnobs, Steps
    <3>2. exec'.backup = exec.backup /\ exec' \in [backup : KnobValues \cup {None}, retry : BOOLEAN]
      BY <2>2, Typed DEF IInv
    <3>3. TypeOK'
      BY <1>6, <3>1, <3>2 DEF SetQuietKnobs, IInv, TypeOK, Threads
    <3>4. machine'.state = "Quiet"
      BY <1>5, <1>6 DEF SetQuietKnobs, IInv, Cycles
    <3> QED BY <1>6, <3>1, <3>2, <3>3, <3>4 DEF SetQuietKnobs, IInv, Backups, Cycles
  <2> QED BY <1>6, <2>1, <2>2 DEF SetQuietKnobs
<1>7. CASE SaveKnobs
  <2>1. CASE thread' = Pop(thread) /\ UNCHANGED <<exec, disk>>
    <3>1. thread' \in Threads /\ Ordered' /\ First' \in Later \cup {"none"}
      BY <1>2, <1>7, <2>1 DEF SaveKnobs
    <3>2. TypeOK'
      BY <1>7, <2>1, <3>1 DEF SaveKnobs, IInv, TypeOK, Threads
    <3>3. machine'.state = "Quiet"
      BY <1>5, <1>7 DEF SaveKnobs, IInv, Cycles
    <3> QED BY <1>7, <2>1, <3>1, <3>2, <3>3 DEF SaveKnobs, IInv, Backups, Cycles, Later
  <2>2. CASE thread' = [thread EXCEPT !.todo = <<"WriteQuiet">> \o Tail(@)]
    <3>1. thread' \in Threads /\ Ordered' /\ First' = "WriteQuiet"
      BY <1>3, <1>7, <2>2 DEF SaveKnobs, Steps
    <3>2. exec' \in [backup : KnobValues \cup {None}, retry : BOOLEAN] /\ disk' \in [enabled : BOOLEAN, backup : KnobValues \cup {None}]
      BY <1>7, Typed DEF SaveKnobs, IInv
    <3>3. TypeOK'
      BY <1>7, <3>1, <3>2 DEF SaveKnobs, IInv, TypeOK, Threads
    <3>4. machine'.state = "Quiet"
      BY <1>5, <1>7 DEF SaveKnobs, IInv, Cycles
    <3>5. CASE exec.backup = None /\ knobs # Quiet /\ exec' = [exec EXCEPT !.backup = knobs]
               /\ disk' = [disk EXCEPT !.backup = knobs]
      <4>1. knobs = owner
        BY <3>5, Typed DEF IInv, Backups
      <4>2. exec'.backup = owner /\ disk'.backup = owner
        BY <3>5, <4>1, Typed DEF IInv
      <4> QED BY <1>7, <3>1, <3>3, <3>4, <4>2 DEF SaveKnobs, IInv, Backups, Cycles
    <3>6. CASE (exec.backup # None \/ knobs = Quiet) /\ UNCHANGED <<exec, disk>>
      BY <1>7, <3>1, <3>3, <3>4, <3>6, Typed DEF SaveKnobs, IInv, Backups, Cycles
    <3>7. CASE thread' = Pop(thread)
      <4>1. First' \in Later \cup {"none"}
        BY <1>2, <1>7, <3>7 DEF SaveKnobs
      <4> QED BY <3>1, <4>1 DEF Later
    <3> QED BY <1>7, <3>5, <3>6, <3>7 DEF SaveKnobs
  <2> QED BY <1>7, <2>1, <2>2 DEF SaveKnobs
<1>8. CASE WriteQuiet
  BY <1>2, <1>5, <1>8, Typed DEF WriteQuiet, IInv, TypeOK, Backups, Cycles, Threads, Later, KnobValues
<1>9. CASE RestoreKnobs
  <2>1. CASE thread' = Pop(thread)
    <3>1. thread' \in Threads /\ Ordered' /\ First' \in Later \cup {"none"}
      BY <1>2, <1>9, <2>1 DEF RestoreKnobs
    <3>2. CASE exec.backup # None /\ exec' = [exec EXCEPT !.retry = TRUE] /\ UNCHANGED knobs
      <4>1. exec'.backup = exec.backup /\ exec'.retry
            /\ exec' \in [backup : KnobValues \cup {None}, retry : BOOLEAN]
        BY <3>2, Typed DEF IInv
      <4>2. TypeOK'
        BY <1>9, <3>1, <3>2, <4>1 DEF RestoreKnobs, IInv, TypeOK, Threads
      <4> QED BY <1>9, <3>1, <3>2, <4>1, <4>2 DEF RestoreKnobs, IInv, Backups, Cycles, Later
    <3>3. CASE exec.backup = None /\ UNCHANGED <<exec, knobs>>
      <4>1. knobs = owner
        BY <3>3, Typed DEF IInv, Backups
      <4>2. TypeOK'
        BY <1>9, <3>1, <3>3 DEF RestoreKnobs, IInv, TypeOK, Threads
      <4> QED BY <1>9, <3>1, <3>3, <4>1, <4>2 DEF RestoreKnobs, IInv, Backups, Cycles, Later
    <3>4. CASE thread' = [thread EXCEPT !.todo = <<"RemoveBackup">> \o Tail(@)]
      <4>1. First' = "RemoveBackup"
        BY <1>3, <1>9, <3>4 DEF RestoreKnobs, Steps
      <4> QED BY <3>1, <4>1 DEF Later
    <3> QED BY <1>9, <3>2, <3>3, <3>4 DEF RestoreKnobs
  <2>2. CASE thread' = [thread EXCEPT !.todo = <<"RemoveBackup">> \o Tail(@)]
    <3>1. thread' \in Threads /\ Ordered' /\ First' = "RemoveBackup"
      BY <1>3, <1>9, <2>2 DEF RestoreKnobs, Steps
    <3>2. CASE thread' = Pop(thread)
      <4>1. First' \in Later \cup {"none"}
        BY <1>2, <1>9, <3>2 DEF RestoreKnobs
      <4> QED BY <3>1, <4>1 DEF Later
    <3>3. CASE exec.backup # None /\ knobs' = exec.backup /\ exec' = [backup |-> None, retry |-> FALSE]
      <4>1. knobs' = owner /\ exec'.backup = None
            /\ exec' \in [backup : KnobValues \cup {None}, retry : BOOLEAN] /\ knobs' \in KnobValues
        BY <3>3, Typed DEF IInv, Backups
      <4>2. TypeOK'
        BY <1>9, <3>1, <4>1 DEF RestoreKnobs, IInv, TypeOK, Threads
      <4> QED BY <1>9, <3>1, <4>1, <4>2, Typed DEF RestoreKnobs, IInv, Backups, Cycles
    <3> QED BY <1>9, <3>2, <3>3 DEF RestoreKnobs
  <2> QED BY <1>9, <2>1, <2>2 DEF RestoreKnobs
<1>10. CASE RemoveBackup
  BY <1>2, <1>5, <1>10, Typed DEF RemoveBackup, IInv, TypeOK, Backups, Cycles, Threads, Later
<1>11. CASE SetLpm
  <2>1. thread' \in Threads /\ Ordered' /\ First' \in Later \cup {"none"} /\ First = "SetLpm"
    BY <1>2, <1>5, <1>11 DEF SetLpm
  <2>2. mishap' \in BOOLEAN /\ lpm' \in {None, "policy", "user"}
    BY <1>11 DEF SetLpm, IInv, TypeOK
  <2>3. TypeOK'
    BY <1>11, <2>1, <2>2 DEF SetLpm, IInv, TypeOK, Threads
  <2> QED BY <1>11, <2>1, <2>3 DEF SetLpm, IInv, Backups, Cycles, Later
<1>12. CASE GoOnline
  <2>1. thread' \in Threads /\ Ordered' /\ First' \in Later \cup {"none"} /\ First = "GoOnline"
    BY <1>2, <1>5, <1>12 DEF GoOnline
  <2>2. mishap' \in BOOLEAN /\ lpm' \in {None, "policy", "user"}
    BY <1>12 DEF GoOnline, IInv, TypeOK
  <2>3. TypeOK'
    BY <1>12, <2>1, <2>2 DEF GoOnline, IInv, TypeOK, Threads
  <2> QED BY <1>12, <2>1, <2>3 DEF GoOnline, IInv, Backups, Cycles, Later
<1>13. CASE OnlineIfLpm
  <2>1. CASE thread' = Pop(thread)
    BY <1>2, <1>5, <1>13, <2>1 DEF OnlineIfLpm, IInv, TypeOK, Backups, Cycles, Threads, Later
  <2>2. CASE thread' = [thread EXCEPT !.todo = <<"GoOnline">> \o Tail(@)]
    <3>1. thread' \in Threads /\ Ordered' /\ First' = "GoOnline"
      BY <1>3, <1>13, <2>2 DEF OnlineIfLpm, Steps
    <3> QED BY <1>5, <1>13, <3>1 DEF OnlineIfLpm, IInv, TypeOK, Backups, Cycles, Threads
  <2> QED BY <1>13, <2>1, <2>2 DEF OnlineIfLpm
<1>14. CASE ReadService
  <2>1. PICK e \in Events \cup {None} : thread' = [event |-> e, todo |-> <<>>]
    <3>1. Service \in BOOLEAN
      BY DEF Service, IInv, TypeOK
    <3> QED BY <1>14, <3>1 DEF ReadService, Event, Events
  <2> QED BY <1>4, <1>5, <1>14, <2>1 DEF ReadService, IInv, TypeOK, Backups, Cycles, Threads
<1> QED BY <1>6, <1>7, <1>8, <1>9, <1>10, <1>11, <1>12, <1>13, <1>14 DEF Act

\* The agent starts again from what is on disk.
LEMMA RestartKeeps == ASSUME IInv, Restart PROVE IInv'
<1>1. thread'.todo \in Seq(Steps) /\ Ordered'
      /\ First' = IF disk.backup = None THEN "ReadService" ELSE "RestoreKnobs"
  <2>1. thread'.todo = IF disk.backup = None THEN <<"ReadService">>
                       ELSE <<"RestoreKnobs", "OnlineIfLpm", "ReadService">>
    BY DEF Restart, Started
  <2> QED BY <2>1, ListOrdered
<1>2. thread' \in Threads
  BY <1>1 DEF Restart, Started, Threads
<1>3. TypeOK'
  <2>1. machine' \in Machines
    BY Typed DEF Restart, Fresh, IInv, Machines
  <2>2. exec' \in [backup : KnobValues \cup {None}, retry : BOOLEAN]
    BY Typed DEF Restart, IInv
  <2>3. mishap' \in BOOLEAN /\ queue' \in Seq(Events)
    BY DEF Restart, IInv, TypeOK
  <2> QED BY <1>2, <2>1, <2>2, <2>3 DEF Restart, IInv, TypeOK, Threads, Machines, environment
<1> QED BY <1>1, <1>3, Typed DEF Restart, IInv, Backups, Cycles, environment

-----------------------------------------------------------------------------
(* The user, the firmware, and the theorems. *)

LEMMA SendKeeps ==
    ASSUME TypeOK, NEW e \in Events, Send(e)
    PROVE  queue' \in Seq(Events)
BY DEF Send, TypeOK

LEMMA OthersKeep ==
    ASSUME IInv, \/ AskOnline \/ UserOnline \/ AskLpm \/ UserLpm \/ TellLpm \/ OtherChange
                 \/ OutsideChange \/ Configure \/ Announce \/ CoverageChanges \/ ActivityLapses
    PROVE  IInv'
<1> USE DEF environment
<1>1. UNCHANGED <<machine, exec, thread, knobs, owner>> /\ disk'.backup = disk.backup
      /\ disk' \in [enabled : BOOLEAN, backup : KnobValues \cup {None}]
  BY Typed DEF IInv, AskOnline, UserOnline, AskLpm, UserLpm, TellLpm, OtherChange, OutsideChange,
     Configure, Announce, CoverageChanges, ActivityLapses
<1>2. Ordered' /\ Backups' /\ Cycles'
  BY <1>1 DEF IInv, Ordered, Backups, Cycles, First
<1>3. queue' \in Seq(Events)
  <2>1. Event("UserMode", TRUE) \in Events /\ Event("UserMode", FALSE) \in Events
        /\ Event("Config", ~disk.enabled) \in Events /\ Event("Service", Service) \in Events
    BY DEF Event, Events, Service, IInv, TypeOK
  <2> QED BY <2>1, SendKeeps DEF IInv, TypeOK, AskOnline, UserOnline, AskLpm, UserLpm, TellLpm, OtherChange,
       OutsideChange, Configure, Announce, CoverageChanges, ActivityLapses
<1>4. TypeOK'
  <2>1. recent' \in BOOLEAN /\ mishap' \in BOOLEAN
    BY DEF IInv, TypeOK, AskOnline, UserOnline, AskLpm, UserLpm, TellLpm, OtherChange,
       OutsideChange, Configure, Announce, CoverageChanges, ActivityLapses
  <2>2. handler' \in {"none", "cfun", "lpm", "tell"} /\ lpm' \in {None, "policy", "user"}
    BY DEF IInv, TypeOK, AskOnline, UserOnline, AskLpm, UserLpm, TellLpm, OtherChange,
       OutsideChange, Configure, Announce, CoverageChanges, ActivityLapses
  <2>3. coverage' \in BOOLEAN /\ reported' \in BOOLEAN
    BY DEF IInv, TypeOK, Service, AskOnline, UserOnline, AskLpm, UserLpm, TellLpm, OtherChange,
       OutsideChange, Configure, Announce, CoverageChanges, ActivityLapses
  <2> QED BY <1>1, <1>3, <2>1, <2>2, <2>3 DEF IInv, TypeOK
<1> QED BY <1>2, <1>4 DEF IInv

LEMMA InitHolds == Init => IInv
<1> SUFFICES ASSUME Init PROVE IInv
  OBVIOUS
<1>1. thread.todo = <<"ReadService">> /\ thread \in Threads
  BY DEF Init, Started, Threads, Steps
<1>2. Ordered /\ First = "ReadService"
  BY <1>1 DEF Ordered, First
<1>3. TypeOK
  <2>1. machine \in Machines /\ disk \in [enabled : BOOLEAN, backup : KnobValues \cup {None}]
    BY DEF Init, Fresh, Machines
  <2>2. Service \in BOOLEAN /\ queue \in Seq(Events)
    BY DEF Init, Service
  <2> QED BY <1>1, <2>1, <2>2 DEF Init, TypeOK, Threads, Machines
<1> QED BY <1>2, <1>3, ConstantsAssumption DEF IInv, Init, Backups, Cycles, KnobValues

LEMMA StepKeeps == IInv /\ [Next]_vars => IInv'
<1> SUFFICES ASSUME IInv, [Next]_vars PROVE IInv'
  OBVIOUS
<1>1. CASE UNCHANGED vars
  BY <1>1 DEF vars, environment, IInv, TypeOK, Ordered, Backups, Cycles, First
<1> QED BY <1>1, WakeKeeps, DecideKeeps, ActKeeps, OthersKeep, RestartKeeps DEF Next, Run

LEMMA Inductive == Spec => []IInv
BY InitHolds, StepKeeps, PTL DEF Spec

\* Whatever write fails and whenever the agent dies, the owner's knob values are in the knobs
\* or in the file a restarted agent reads (SetQuietKnobs and RestoreKnobs of Executor::perform).
THEOREM KnobsNeverLost == Spec => []OwnersKnobsKept
<1>1. IInv => OwnersKnobsKept
  BY Typed DEF IInv, Backups, OwnersKnobsKept
<1> QED BY <1>1, Inductive, PTL

\* While the thread waits, knobs that are not the owner's have a cycle whose end restores
\* them, or a restore due (Machine::stand_down, Executor::perform).
THEOREM QuietKnobsHaveAnEnd == Spec => []QuietKnobsAttended
<1>1. IInv => QuietKnobsAttended
  BY DEF IInv, Cycles, QuietKnobsAttended, Waiting, First
<1> QED BY <1>1, Inductive, PTL

-----------------------------------------------------------------------------
(* A modem the policy parked is attended, unless one of the known mishaps  *)
(* came in between. The argument: the modem is parked only in the quiet    *)
(* half of a cycle (Planned), and it leaves that half only with AT+CFUN=1  *)
(* ahead, in the thread's list or in the handler of the user's request     *)
(* that ended the cycle (Parked).                                          *)

\* AT+CFUN=1 is still to come: at the end of a cycle or of a restart.
Ahead == \E i \in 1 .. Len(thread.todo) : thread.todo[i] \in {"GoOnline", "OnlineIfLpm"}

\* The list parks only in the quiet half, and reading the service is the last thing on it.
Planned ==
    \A i \in 1 .. Len(thread.todo) :
        /\ thread.todo[i] = "SetLpm" => machine.state = "Quiet" /\ thread.event = None
        /\ thread.todo[i] = "ReadService" => i = Len(thread.todo)

\* Nothing under way would end the cycle and leave the modem in LPM.
Undisturbed ==
    /\ handler # "tell"
    /\ \A i \in 1 .. Len(queue) : queue[i].kind # "UserMode"
    /\ thread.event = None \/ thread.event.kind \notin {"UserMode", "Standby"}

Parked ==
    lpm = "policy" /\ ~mishap /\ handler # "cfun" =>
        /\ Undisturbed
        /\ Ahead \/ machine.state = "Quiet"
        /\ First # "SetQuietKnobs"

\* Standby is only ever the thread's own event.
NoStandby == \A i \in 1 .. Len(queue) : queue[i].kind # "Standby"

PInv == Planned /\ NoStandby /\ Parked

\* What is left of the list when its first action is done.
LEMMA Rest ==
    ASSUME IInv, Planned, thread.todo # <<>>, thread' = Pop(thread)
    PROVE  /\ thread'.event = thread.event
           /\ First' # "SetQuietKnobs"
           /\ machine' = machine => Planned'
           /\ Ahead /\ First \notin {"GoOnline", "OnlineIfLpm"} => Ahead'
<1> DEFINE s == thread.todo
           r == Tail(s)
<1>1. s \in Seq(Steps) /\ s # <<>> /\ First = s[1]
  BY DEF IInv, TypeOK, First
<1>2. thread'.todo = r /\ thread'.event = thread.event /\ First' # "SetQuietKnobs"
  <2>1. thread \in Threads
    BY Typed DEF IInv
  <2>2. thread' = [thread EXCEPT !.todo = r]
    BY DEF Pop
  <2>3. First' \in Later \cup {"none"}
    BY <2>1, PopStep DEF IInv
  <2> HIDE DEF r
  <2> QED BY <2>1, <2>2, <2>3 DEF Threads, Later
<1>3. r \in Seq(Steps) /\ Len(r) = Len(s) - 1 /\ \A i \in 1 .. Len(r) : r[i] = s[i + 1]
  BY <1>1
<1>4. Len(s) \in Nat
  BY <1>1
<1> HIDE DEF r
<1>5. machine' = machine => Planned'
  <2> SUFFICES ASSUME machine' = machine, NEW i \in 1 .. Len(r)
               PROVE  /\ r[i] = "SetLpm" => machine.state = "Quiet" /\ thread.event = None
                      /\ r[i] = "ReadService" => i = Len(r)
    BY <1>2 DEF Planned
  <2>1. i + 1 \in 1 .. Len(s) /\ r[i] = s[i + 1]
    BY <1>3, <1>4
  <2> QED BY <1>3, <1>4, <2>1 DEF Planned
<1>6. Ahead /\ First \notin {"GoOnline", "OnlineIfLpm"} => Ahead'
  <2> SUFFICES ASSUME NEW i \in 1 .. Len(s), s[i] \in {"GoOnline", "OnlineIfLpm"}, i # 1
               PROVE  \E j \in 1 .. Len(r) : r[j] \in {"GoOnline", "OnlineIfLpm"}
    BY <1>1, <1>2 DEF Ahead
  <2>1. i - 1 \in 1 .. Len(r) /\ r[i - 1] = s[i]
    BY <1>3, <1>4
  <2> QED BY <2>1
<1> QED BY <1>2, <1>5, <1>6

\* A list whose first action goes on as another.
LEMMA GoesOn ==
    ASSUME IInv, Planned, thread.todo # <<>>, machine' = machine,
           NEW step \in Steps \ {"SetLpm", "ReadService", "SetQuietKnobs"},
           thread' = [thread EXCEPT !.todo = <<step>> \o Tail(@)]
    PROVE  /\ thread'.event = thread.event
           /\ First' # "SetQuietKnobs"
           /\ Planned'
           /\ step = "GoOnline" => Ahead'
           /\ Ahead /\ First \notin {"GoOnline", "OnlineIfLpm"} => Ahead'
<1> DEFINE s == thread.todo
           q == Tail(s)
           r == <<step>> \o q
<1>1. s \in Seq(Steps) /\ s # <<>> /\ First = s[1] /\ Len(s) \in Nat
  BY DEF IInv, TypeOK, First
<1>2. thread'.todo = r /\ thread'.event = thread.event /\ First' # "SetQuietKnobs"
  <2>1. thread \in Threads
    BY Typed DEF IInv
  <2>2. thread' = [thread EXCEPT !.todo = r]
    OBVIOUS
  <2>3. First' = step
    BY <2>1, HeadStep DEF IInv
  <2> HIDE DEF r
  <2> QED BY <2>1, <2>2, <2>3 DEF Threads
<1>3. q \in Seq(Steps) /\ Len(q) = Len(s) - 1 /\ \A i \in 1 .. Len(q) : q[i] = s[i + 1]
  BY <1>1
<1>4. r \in Seq(Steps) /\ Len(r) = Len(s) /\ r[1] = step /\ \A i \in 2 .. Len(r) : r[i] = s[i]
  <2>1. step \in Steps /\ s \in Seq(Steps) /\ s # <<>>
    BY <1>1
  <2> HIDE DEF q, s
  <2>2. Len(q) \in Nat /\ Len(s) = Len(q) + 1
    BY <1>3, <2>1
  <2>3. r \in Seq(Steps) /\ Len(r) = Len(q) + 1 /\ r[1] = step
    BY <1>3, <2>1
  <2>4. ASSUME NEW i \in 2 .. Len(r) PROVE r[i] = s[i]
    <3>1. r[i] = q[i - 1] /\ i - 1 \in 1 .. Len(q)
      BY <1>3, <2>1, <2>2, <2>3
    <3> QED BY <1>3, <3>1
  <2> QED BY <2>2, <2>3, <2>4
<1> HIDE DEF r
<1>5. Planned'
  <2> SUFFICES ASSUME NEW i \in 1 .. Len(r)
               PROVE  /\ r[i] = "SetLpm" => machine.state = "Quiet" /\ thread.event = None
                      /\ r[i] = "ReadService" => i = Len(r)
    BY <1>2 DEF Planned
  <2>1. CASE i = 1
    BY <1>4, <2>1
  <2>2. CASE i # 1
    BY <1>1, <1>4, <2>2 DEF Planned
  <2> QED BY <2>1, <2>2
<1>6. step = "GoOnline" => Ahead'
  <2>1. 1 \in 1 .. Len(r)
    BY <1>1, <1>4
  <2> QED BY <1>2, <1>4, <2>1 DEF Ahead
<1>7. Ahead /\ First \notin {"GoOnline", "OnlineIfLpm"} => Ahead'
  <2> SUFFICES ASSUME NEW i \in 1 .. Len(s), s[i] \in {"GoOnline", "OnlineIfLpm"}, i # 1
               PROVE  \E j \in 1 .. Len(r) : r[j] \in {"GoOnline", "OnlineIfLpm"}
    BY <1>1, <1>2 DEF Ahead
  <2> QED BY <1>1, <1>4
<1> QED BY <1>2, <1>5, <1>6, <1>7

\* The lists the machine hands out: it parks only into the quiet half, and leaves the quiet
\* half, when neither the user nor a standby asks, only with AT+CFUN=1 ahead.
Down(todo) == todo \in {<<>>, <<"RestoreKnobs">>, <<"RestoreKnobs", "GoOnline">>}

LEMMA OutcomesPlanned ==
    ASSUME NEW m \in Machines, NEW e \in Events, NEW r \in Outcomes(m, e)
    PROVE  /\ \/ Down(r.todo) \/ r.todo = <<"GoOnline">>
              \/ r.todo \in {<<"SetQuietKnobs", "SetLpm">>, <<"SetLpm">>} /\ r.m.state = "Quiet"
           /\ m.state = "Quiet" /\ e.kind \notin {"UserMode", "Standby"}
                => \/ r.todo \in {<<"RestoreKnobs", "GoOnline">>, <<"GoOnline">>}
                   \/ r.m.state = "Quiet" /\ r.todo = <<>>
<1> USE DEF Result
<1>1. ASSUME NEW from \in Machines, from.state = m.state, NEW goOnline \in BOOLEAN
      PROVE  /\ Down(StandDown(from, goOnline).todo)
             /\ m.state = "Quiet" /\ goOnline => StandDown(from, goOnline).todo = <<"RestoreKnobs", "GoOnline">>
  BY <1>1 DEF StandDown, Down
<1>2. Down(<<>>)
  BY DEF Down
<1>3. CASE e.kind = "Service"
  <2>1. r = OnService(m, e.on) /\ e.on \in BOOLEAN
    BY <1>3 DEF Outcomes, Events
  <2>2. CASE e.on
    <3> DEFINE known == [m EXCEPT !.service = TRUE]
               free == [known EXCEPT !.suspended = FALSE]
    <3>1. known \in Machines /\ known.state = m.state
      BY SetService
    <3> HIDE DEF known
    <3>2. free \in Machines /\ free.state = m.state
      BY <3>1, SetSuspended
    <3>3. r = StandDown(free, TRUE)
      BY <2>1, <2>2 DEF OnService, known
    <3> HIDE DEF free
    <3> QED BY <1>1, <3>2, <3>3
  <2>3. CASE ~e.on
    <3> DEFINE known == [m EXCEPT !.service = FALSE]
    <3>1. known.state = m.state
      BY SetService
    <3>2. r = Result(IF m.enabled /\ ~m.suspended /\ m.state = "Idle"
                        THEN StartGrace(known) ELSE known, <<>>)
      BY <2>1, <2>3 DEF OnService
    <3> HIDE DEF known
    <3> QED BY <1>2, <3>1, <3>2
  <2> QED BY <2>1, <2>2, <2>3
<1>4. CASE e.kind = "UserMode"
  <2>1. r = OnUserMode(m, e.on) /\ e.on \in BOOLEAN
    BY <1>4 DEF Outcomes, Events
  <2>2. CASE ~e.on
    <3> DEFINE held == [m EXCEPT !.suspended = TRUE]
    <3>1. held \in Machines /\ held.state = m.state
      BY SetSuspended
    <3>2. r = StandDown(held, FALSE)
      BY <2>1, <2>2 DEF OnUserMode
    <3> HIDE DEF held
    <3> QED BY <1>1, <1>4, <3>1, <3>2
  <2>3. CASE e.on
    <3> DEFINE free == [m EXCEPT !.suspended = FALSE]
               down == IF m.state \in {"Quiet", "Probing"} THEN StandDown(free, FALSE) ELSE Result(free, <<>>)
    <3>1. free \in Machines /\ free.state = m.state
      BY SetSuspended
    <3>2. r = IF m.enabled /\ m.service = FALSE THEN Result(StartGrace(down.m), down.todo) ELSE down
      BY <2>1, <2>3 DEF OnUserMode
    <3> HIDE DEF free
    <3>3. Down(down.todo)
      BY <1>1, <1>2, <3>1
    <3>4. r.todo = down.todo
      BY <3>2
    <3> HIDE DEF down
    <3> QED BY <1>4, <3>3, <3>4
  <2> QED BY <2>1, <2>2, <2>3
<1>5. CASE e.kind = "Config"
  <2> DEFINE set == [m EXCEPT !.enabled = e.on]
  <2>1. r = OnConfig(m, e.on) /\ e.on \in BOOLEAN
    BY <1>5 DEF Outcomes, Events
  <2>2. set \in Machines /\ set.state = m.state
    BY <2>1, SetEnabled
  <2>3. \/ r = StandDown(set, TRUE)
        \/ r = Result(StartGrace(set), <<>>) /\ m.state = "Idle"
        \/ r = Result(set, <<>>)
    BY <2>1 DEF OnConfig
  <2> HIDE DEF set
  <2>4. CASE r = StandDown(set, TRUE)
    BY <1>1, <2>2, <2>4
  <2>5. CASE r = Result(StartGrace(set), <<>>) /\ m.state = "Idle"
    BY <1>2, <2>5
  <2>6. CASE r = Result(set, <<>>)
    BY <1>2, <2>2, <2>6
  <2> QED BY <2>3, <2>4, <2>5, <2>6
<1>6. CASE e.kind = "Standby"
  <2>1. r = StandDown(m, FALSE)
    BY <1>6 DEF Outcomes
  <2> QED BY <1>1, <1>6, <2>1
<1>7. CASE e.kind = "Timer"
  <2>1. r = Result(m, <<>>) \/ r = OnTimer(m)
    BY <1>7 DEF Outcomes
  <2>2. CASE r = Result(m, <<>>)
    BY <1>2, <2>2
  <2>3. CASE r = OnTimer(m)
    <3>1. [m EXCEPT !.state = "Quiet"].state = "Quiet"
      BY SetState
    <3>2. \/ r.todo = <<"SetQuietKnobs", "SetLpm">> /\ r.m.state = "Quiet" /\ m.state = "Grace"
          \/ r.todo = <<"GoOnline">>
          \/ r.todo = <<"SetLpm">> /\ r.m.state = "Quiet" /\ m.state = "Probing"
          \/ r.todo = <<>> /\ m.state = "Idle"
      BY <2>3, <3>1 DEF OnTimer, Machines
    <3> QED BY <1>2, <3>2
  <2> QED BY <2>1, <2>2, <2>3
<1> QED BY <1>3, <1>4, <1>5, <1>6, <1>7 DEF Events

\* A step of the thread that leaves the modem, the machine and the user's requests alone.
LEMMA ParkedStays ==
    ASSUME Parked, UNCHANGED <<machine, queue, handler, lpm, mishap>>, thread'.event = thread.event,
           First' # "SetQuietKnobs", Ahead => Ahead'
    PROVE  Parked'
BY DEF Parked, Undisturbed

LEMMA WakePlans == ASSUME IInv, PInv, Wake PROVE PInv'
<1> USE DEF environment
<1>1. thread.todo = <<>> /\ ~Ahead
  BY DEF Wake, Waiting, Ahead
<1>2. thread'.todo \in {<<>>, <<"RestoreKnobs">>}
  BY DEF Wake
<1>3. Planned' /\ First' # "SetQuietKnobs"
  BY <1>2 DEF Planned, First
<1>4. \/ queue # <<>> /\ queue' = Tail(queue) /\ thread'.event = Head(queue)
      \/ queue' = queue /\ thread'.event = Timer
  BY DEF Wake
<1>5. queue \in Seq(Events)
  BY DEF IInv, TypeOK
<1>6. CASE queue # <<>> /\ queue' = Tail(queue) /\ thread'.event = Head(queue)
  <2>1. Len(queue') = Len(queue) - 1 /\ Len(queue) \in Nat \ {0} /\ \A i \in 1 .. Len(queue') : queue'[i] = queue[i + 1]
    BY <1>5, <1>6
  <2>2. \A i \in 1 .. Len(queue') : i + 1 \in 1 .. Len(queue)
    BY <2>1
  <2>3. thread'.event = queue[1] /\ 1 \in 1 .. Len(queue)
    BY <1>5, <1>6, <2>1
  <2>4. NoStandby'
    BY <2>1, <2>2 DEF PInv, NoStandby
  <2>5. Undisturbed => Undisturbed'
    BY <2>1, <2>2, <2>3 DEF Undisturbed, PInv, NoStandby, Wake
  <2> QED BY <1>1, <1>3, <2>4, <2>5 DEF Wake, PInv, Parked
<1>7. CASE queue' = queue /\ thread'.event = Timer
  BY <1>1, <1>3, <1>7 DEF Wake, PInv, Parked, NoStandby, Undisturbed, Timer
<1> QED BY <1>4, <1>6, <1>7

LEMMA DecidePlans == ASSUME IInv, PInv, Decide PROVE PInv'
<1> USE DEF environment
<1>1. thread.event # None /\ thread.event \in Events /\ machine \in Machines /\ ~Ahead
  <2>1. thread \in Threads /\ machine \in Machines
    BY Typed DEF IInv
  <2> QED BY <2>1 DEF Decide, Threads, Ahead
<1>2. PICK r \in Outcomes(machine, thread.event) :
           machine' = r.m /\ thread' = [event |-> None, todo |-> r.todo]
  BY DEF Decide
<1> DEFINE todo == thread'.todo
<1>3. /\ \/ Down(todo) \/ todo = <<"GoOnline">>
         \/ todo \in {<<"SetQuietKnobs", "SetLpm">>, <<"SetLpm">>} /\ machine'.state = "Quiet"
      /\ machine.state = "Quiet" /\ thread.event.kind \notin {"UserMode", "Standby"}
           => \/ todo \in {<<"RestoreKnobs", "GoOnline">>, <<"GoOnline">>}
              \/ machine'.state = "Quiet" /\ todo = <<>>
  BY <1>1, <1>2, OutcomesPlanned
<1>4. thread'.event = None
  BY <1>2
<1>5. todo \in {<<"RestoreKnobs", "GoOnline">>, <<"GoOnline">>} => Ahead'
  <2>1. todo = <<"GoOnline">> => Ahead'
    <3> SUFFICES ASSUME todo = <<"GoOnline">> PROVE 1 \in 1 .. Len(todo) /\ todo[1] = "GoOnline"
      BY DEF Ahead
    <3> QED OBVIOUS
  <2>2. todo = <<"RestoreKnobs", "GoOnline">> => Ahead'
    <3> SUFFICES ASSUME todo = <<"RestoreKnobs", "GoOnline">> PROVE 2 \in 1 .. Len(todo) /\ todo[2] = "GoOnline"
      BY DEF Ahead
    <3> QED OBVIOUS
  <2> HIDE DEF todo
  <2> QED BY <2>1, <2>2
<1>6. Planned'
  <2> SUFFICES ASSUME NEW i \in 1 .. Len(todo)
               PROVE  /\ todo[i] = "SetLpm" => machine'.state = "Quiet"
                      /\ todo[i] = "ReadService" => i = Len(todo)
    BY <1>4 DEF Planned
  <2> HIDE DEF todo
  <2>1. CASE todo = <<>>
    BY <2>1
  <2>2. CASE todo \in {<<"RestoreKnobs">>, <<"GoOnline">>, <<"SetLpm">>}
    BY <1>3, <2>2 DEF Down
  <2>3. CASE todo = <<"RestoreKnobs", "GoOnline">>
    BY <2>3
  <2>4. CASE todo = <<"SetQuietKnobs", "SetLpm">>
    BY <1>3, <2>4 DEF Down
  <2> QED BY <1>3, <2>1, <2>2, <2>3, <2>4 DEF Down
<1>7. machine.state = "Quiet" /\ thread.event.kind \notin {"UserMode", "Standby"}
        => (Ahead' \/ machine'.state = "Quiet") /\ First' # "SetQuietKnobs"
  <2>1. todo \in {<<>>, <<"RestoreKnobs", "GoOnline">>, <<"GoOnline">>} => First' # "SetQuietKnobs"
    BY DEF First
  <2> HIDE DEF todo
  <2> QED BY <1>3, <1>5, <2>1
<1> QED BY <1>1, <1>4, <1>6, <1>7 DEF Decide, PInv, NoStandby, Parked, Undisturbed

LEMMA ActPlans == ASSUME IInv, PInv, Act PROVE PInv'
<1> USE DEF environment, Doing
<1>1. thread.todo # <<>> /\ First = Head(thread.todo) /\ First = thread.todo[1] /\ 1 \in 1 .. Len(thread.todo)
  <2>1. thread.todo \in Seq(Steps)
    BY DEF IInv, TypeOK
  <2>2. thread.todo # <<>>
    BY DEF Act, SetQuietKnobs, SaveKnobs, WriteQuiet, RestoreKnobs, RemoveBackup, SetLpm, GoOnline, OnlineIfLpm, ReadService
  <2> QED BY <2>1, <2>2 DEF First
<1>2. NoStandby'
  BY DEF PInv, NoStandby, Act, SetQuietKnobs, SaveKnobs, WriteQuiet, RestoreKnobs, RemoveBackup, SetLpm, GoOnline,
     OnlineIfLpm, ReadService
<1>3. ASSUME thread' = Pop(thread)
      PROVE  /\ thread'.event = thread.event
             /\ First' # "SetQuietKnobs"
             /\ machine' = machine => Planned'
             /\ Ahead /\ First \notin {"GoOnline", "OnlineIfLpm"} => Ahead'
  BY <1>1, <1>3, Rest DEF PInv
<1>4. ASSUME machine' = machine, NEW step \in {"SaveKnobs", "WriteQuiet", "RemoveBackup", "GoOnline"},
             thread' = [thread EXCEPT !.todo = <<step>> \o Tail(@)]
      PROVE  /\ thread'.event = thread.event
             /\ First' # "SetQuietKnobs"
             /\ Planned'
             /\ step = "GoOnline" => Ahead'
             /\ Ahead /\ First \notin {"GoOnline", "OnlineIfLpm"} => Ahead'
  BY <1>1, <1>4, GoesOn DEF PInv, Steps
<1>5. CASE SetQuietKnobs
  <2>1. CASE thread' = [event |-> Standby, todo |-> <<>>]
    <3>1. First = "SetQuietKnobs"
      BY <1>1, <1>5 DEF SetQuietKnobs
    <3>2. Planned'
      BY <2>1 DEF Planned
    <3> QED BY <1>2, <1>5, <3>1, <3>2 DEF SetQuietKnobs, PInv, Parked
  <2>2. CASE thread' = [thread EXCEPT !.todo = <<"SaveKnobs">> \o Tail(@)]
    <3>1. First = "SetQuietKnobs"
      BY <1>1, <1>5 DEF SetQuietKnobs
    <3>2. Planned' /\ First' # "SetQuietKnobs" /\ thread'.event = thread.event /\ (Ahead => Ahead')
      BY <1>4, <1>5, <2>2, <3>1 DEF SetQuietKnobs
    <3> QED BY <1>2, <1>5, <3>2, ParkedStays DEF SetQuietKnobs, PInv
  <2> QED BY <1>5, <2>1, <2>2 DEF SetQuietKnobs
<1>6. CASE SaveKnobs
  <2>1. First = "SaveKnobs" /\ (thread' = Pop(thread) \/ thread' = [thread EXCEPT !.todo = <<"WriteQuiet">> \o Tail(@)])
    BY <1>1, <1>6 DEF SaveKnobs
  <2>2. Planned' /\ First' # "SetQuietKnobs" /\ thread'.event = thread.event /\ (Ahead => Ahead')
    BY <1>3, <1>4, <1>6, <2>1 DEF SaveKnobs
  <2> QED BY <1>2, <1>6, <2>2, ParkedStays DEF SaveKnobs, PInv
<1>7. CASE WriteQuiet
  <2>1. First = "WriteQuiet"
    BY <1>1, <1>7 DEF WriteQuiet
  <2>2. Planned' /\ First' # "SetQuietKnobs" /\ thread'.event = thread.event /\ (Ahead => Ahead')
    BY <1>3, <1>7, <2>1 DEF WriteQuiet
  <2> QED BY <1>2, <1>7, <2>2, ParkedStays DEF WriteQuiet, PInv
<1>8. CASE RestoreKnobs
  <2>1. First = "RestoreKnobs" /\ (thread' = Pop(thread) \/ thread' = [thread EXCEPT !.todo = <<"RemoveBackup">> \o Tail(@)])
    BY <1>1, <1>8 DEF RestoreKnobs
  <2>2. Planned' /\ First' # "SetQuietKnobs" /\ thread'.event = thread.event /\ (Ahead => Ahead')
    BY <1>3, <1>4, <1>8, <2>1 DEF RestoreKnobs
  <2> QED BY <1>2, <1>8, <2>2, ParkedStays DEF RestoreKnobs, PInv
<1>9. CASE RemoveBackup
  <2>1. First = "RemoveBackup"
    BY <1>1, <1>9 DEF RemoveBackup
  <2>2. Planned' /\ First' # "SetQuietKnobs" /\ thread'.event = thread.event /\ (Ahead => Ahead')
    BY <1>3, <1>9, <2>1 DEF RemoveBackup
  <2> QED BY <1>2, <1>9, <2>2, ParkedStays DEF RemoveBackup, PInv
<1>10. CASE SetLpm
  <2>1. First = "SetLpm"
    BY <1>1, <1>10 DEF SetLpm
  <2>2. Planned' /\ First' # "SetQuietKnobs" /\ thread'.event = thread.event /\ (Ahead => Ahead')
    BY <1>3, <1>10, <2>1 DEF SetLpm
  <2>3. CASE UNCHANGED <<lpm, mishap>>
    BY <1>2, <1>10, <2>2, <2>3, ParkedStays DEF SetLpm, PInv
  <2>4. CASE mishap' = (mishap \/ handler = "tell" \/ \E i \in 1 .. Len(queue) : queue[i].kind = "UserMode")
    <3>1. machine.state = "Quiet" /\ thread.event = None
      BY <1>1, <2>1 DEF PInv, Planned
    <3>2. Parked'
      BY <1>10, <2>2, <2>4, <3>1 DEF SetLpm, Parked, Undisturbed
    <3> QED BY <1>2, <2>2, <3>2 DEF PInv
  <2> QED BY <1>10, <2>3, <2>4 DEF SetLpm
<1>11. CASE GoOnline
  <2>1. Planned'
    BY <1>3, <1>11 DEF GoOnline
  <2>2. Parked'
    BY <1>11, ConstantsAssumption DEF GoOnline, Parked
  <2> QED BY <1>2, <2>1, <2>2 DEF PInv
<1>12. CASE OnlineIfLpm
  <2>1. CASE thread' = [thread EXCEPT !.todo = <<"GoOnline">> \o Tail(@)]
    <3>1. Planned' /\ First' # "SetQuietKnobs" /\ thread'.event = thread.event /\ Ahead'
      BY <1>4, <1>12, <2>1 DEF OnlineIfLpm
    <3> QED BY <1>2, <1>12, <3>1, ParkedStays DEF OnlineIfLpm, PInv
  <2>2. CASE lpm = None /\ thread' = Pop(thread)
    <3>1. Planned' /\ First' # "SetQuietKnobs"
      BY <1>3, <1>12, <2>2 DEF OnlineIfLpm
    <3> QED BY <1>2, <1>12, <2>2, <3>1, ConstantsAssumption DEF OnlineIfLpm, PInv, Parked
  <2> QED BY <1>12, <2>1, <2>2 DEF OnlineIfLpm
<1>13. CASE ReadService
  <2>1. PICK e \in {Event("Service", Service), None} : thread' = [event |-> e, todo |-> <<>>]
    BY <1>13 DEF ReadService
  <2>2. Planned' /\ First' # "SetQuietKnobs"
    BY <2>1 DEF Planned, First
  <2>3. ~Ahead
    BY <1>1, <1>13 DEF ReadService, PInv, Planned, Ahead
  <2>4. thread'.event = None \/ thread'.event.kind = "Service"
    BY <2>1 DEF Event
  <2>5. Parked'
    BY <1>13, <2>2, <2>3, <2>4 DEF ReadService, PInv, Parked, Undisturbed
  <2> QED BY <1>2, <2>2, <2>5 DEF PInv
<1> QED BY <1>5, <1>6, <1>7, <1>8, <1>9, <1>10, <1>11, <1>12, <1>13 DEF Act

\* A restart that finds a backup has AT+CFUN=1 ahead; without one, the parking is a mishap.
LEMMA RestartPlans == ASSUME IInv, PInv, Restart PROVE PInv'
<1> USE DEF environment
<1> DEFINE todo == thread'.todo
<1>1. todo = IF disk.backup = None THEN <<"ReadService">> ELSE <<"RestoreKnobs", "OnlineIfLpm", "ReadService">>
  BY DEF Restart, Started
<1>2. Planned' /\ First' # "SetQuietKnobs" /\ (disk.backup # None => Ahead')
  <2>1. CASE disk.backup = None
    <3>1. todo = <<"ReadService">>
      BY <1>1, <2>1
    <3> QED BY <2>1, <3>1 DEF Planned, First
  <2>2. CASE disk.backup # None
    <3>1. todo = <<"RestoreKnobs", "OnlineIfLpm", "ReadService">>
      BY <1>1, <2>2
    <3>2. todo # <<>> /\ Head(todo) = "RestoreKnobs" /\ 2 \in 1 .. Len(todo) /\ todo[2] = "OnlineIfLpm"
      BY <3>1
    <3>3. Planned'
      BY <3>1 DEF Planned
    <3> HIDE DEF todo
    <3> QED BY <3>2, <3>3 DEF First, Ahead, todo
  <2> QED BY <2>1, <2>2
<1>3. NoStandby' /\ Undisturbed'
  <2>1. thread'.event = None /\ queue' = <<>> /\ handler' = "none"
    BY DEF Restart, Started
  <2> QED BY <2>1 DEF NoStandby, Undisturbed
<1> QED BY <1>2, <1>3 DEF Restart, PInv, Parked

\* One more event at the end of the channel.
LEMMA Sent ==
    ASSUME TypeOK, NEW e \in Events, Send(e), NoStandby, e.kind # "Standby"
    PROVE  /\ NoStandby'
           /\ (\A i \in 1 .. Len(queue) : queue[i].kind # "UserMode") /\ e.kind # "UserMode"
                => \A i \in 1 .. Len(queue') : queue'[i].kind # "UserMode"
<1>1. queue \in Seq(Events) /\ queue' = Append(queue, e)
  BY DEF TypeOK, Send
<1>2. Len(queue') = Len(queue) + 1 /\ Len(queue) \in Nat /\ queue'[Len(queue) + 1] = e
      /\ \A i \in 1 .. Len(queue) : queue'[i] = queue[i]
  BY <1>1
<1>3. \A i \in 1 .. Len(queue') : i \in 1 .. Len(queue) \/ i = Len(queue) + 1
  BY <1>2
<1> QED BY <1>2, <1>3 DEF NoStandby

LEMMA OthersPlan ==
    ASSUME IInv, PInv,
           \/ AskOnline \/ UserOnline \/ AskLpm \/ UserLpm \/ TellLpm \/ OtherChange
           \/ OutsideChange \/ Configure \/ Announce \/ CoverageChanges \/ ActivityLapses
    PROVE  PInv'
<1> USE DEF environment
<1>1. UNCHANGED <<thread, machine>>
  BY DEF AskOnline, UserOnline, AskLpm, UserLpm, TellLpm, OtherChange, OutsideChange, Configure, Announce,
     CoverageChanges, ActivityLapses
<1>2. Planned' /\ (Ahead' <=> Ahead) /\ First' = First
  BY <1>1 DEF PInv, Planned, Ahead, First
<1>3. ASSUME UNCHANGED <<queue, handler, lpm, mishap>> PROVE PInv'
  BY <1>1, <1>2, <1>3 DEF PInv, NoStandby, Parked, Undisturbed
<1>4. ASSUME UNCHANGED queue, lpm' # "policy" \/ mishap' PROVE PInv'
  BY <1>2, <1>4 DEF PInv, NoStandby, Parked
<1>5. CASE AskOnline
  <2>1. Event("UserMode", TRUE) \in Events /\ Event("UserMode", TRUE).kind = "UserMode"
    BY DEF Event, Events
  <2>2. NoStandby'
    BY <1>5, <2>1, Sent DEF AskOnline, IInv, PInv
  <2> QED BY <1>2, <1>5, <2>2 DEF AskOnline, PInv, Parked
<1>6. CASE UserOnline
  BY <1>4, <1>6, ConstantsAssumption DEF UserOnline
<1>7. CASE AskLpm
  BY <1>1, <1>2, <1>7 DEF AskLpm, PInv, NoStandby, Parked, Undisturbed
<1>8. CASE UserLpm
  <2>1. CASE lpm' = "user"
    BY <1>4, <1>8, <2>1 DEF UserLpm
  <2>2. CASE handler' = "none" /\ UNCHANGED lpm
    BY <1>1, <1>2, <1>8, <2>2 DEF UserLpm, PInv, NoStandby, Parked, Undisturbed
  <2> QED BY <1>8, <2>1, <2>2 DEF UserLpm
<1>9. CASE TellLpm
  <2>1. Event("UserMode", FALSE) \in Events /\ Event("UserMode", FALSE).kind = "UserMode"
    BY DEF Event, Events
  <2>2. NoStandby'
    BY <1>9, <2>1, Sent DEF TellLpm, IInv, PInv
  <2>3. lpm = "policy" => mishap
    BY <1>9 DEF TellLpm, PInv, Parked, Undisturbed
  <2> QED BY <1>2, <1>9, <2>2, <2>3 DEF TellLpm, PInv, Parked
<1>10. CASE OtherChange \/ CoverageChanges \/ ActivityLapses
  BY <1>3, <1>10 DEF OtherChange, CoverageChanges, ActivityLapses
<1>11. CASE OutsideChange
  BY <1>4, <1>11, ConstantsAssumption DEF OutsideChange
<1>12. CASE Configure \/ Announce
  <2>1. PICK e \in Events : Send(e) /\ e.kind \in {"Config", "Service"}
    <3>1. Event("Config", ~disk.enabled) \in Events /\ Event("Config", ~disk.enabled).kind = "Config"
      BY DEF Event, Events
    <3>2. Event("Service", Service) \in Events /\ Event("Service", Service).kind = "Service"
      BY DEF Event, Events, Service, IInv, TypeOK
    <3> QED BY <1>12, <3>1, <3>2 DEF Configure, Announce
  <2>2. NoStandby' /\ (Undisturbed /\ UNCHANGED <<thread, handler>> => Undisturbed')
    BY <2>1, Sent DEF IInv, PInv, Undisturbed
  <2> QED BY <1>1, <1>2, <1>12, <2>2 DEF Configure, Announce, PInv, Parked
<1> QED BY <1>5, <1>6, <1>7, <1>8, <1>9, <1>10, <1>11, <1>12

LEMMA PlansHold == Init => PInv
<1> SUFFICES ASSUME Init PROVE PInv
  OBVIOUS
<1>1. thread.todo = <<"ReadService">> /\ queue = <<>> /\ lpm # "policy"
  BY ConstantsAssumption DEF Init, Started
<1> QED BY <1>1 DEF PInv, Planned, NoStandby, Parked

LEMMA StepPlans == IInv /\ PInv /\ [Next]_vars => PInv'
<1> SUFFICES ASSUME IInv, PInv, [Next]_vars PROVE PInv'
  OBVIOUS
<1>1. CASE UNCHANGED vars
  BY <1>1 DEF vars, environment, PInv, Planned, NoStandby, Parked, Undisturbed, Ahead, First
<1> QED BY <1>1, WakePlans, DecidePlans, ActPlans, OthersPlan, RestartPlans DEF Next, Run

\* A modem the policy has put in LPM is left there, with nothing more to handle and nobody asking,
\* only within a cycle that will probe for service; or AT+CFUN=1 failed, a restart found no backup,
\* or the user's change met the parking halfway (Machine::stand_down, restore_leftover,
\* OosPolicy::user_mode).
THEOREM ParkedByTheBooks == Spec => []StrandedOnlyByMishap
<1>1. IInv /\ PInv => StrandedOnlyByMishap
  BY DEF PInv, Parked, Ahead, StrandedOnlyByMishap, ParkedIsAttended, Waiting
<1>2. IInv /\ PInv /\ [Next]_vars => (IInv /\ PInv)'
  BY StepKeeps, StepPlans
<1> QED BY <1>1, <1>2, InitHolds, PlansHold, PTL DEF Spec

=============================================================================
