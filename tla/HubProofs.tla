------------------------------ MODULE HubProofs ------------------------------
(***************************************************************************)
(* The live event hub.                                                     *)
(*                                                                         *)
(* Streams: a revoked session keeps no stream, a topic is sampled for      *)
(* exactly the live streams that want it, and a bye gives the true reason: *)
(* for any connections, topics and limits, any times and any number of     *)
(* logins.                                                                 *)
(*                                                                         *)
(* The argument: what is in the table is live, and a stream opens or goes  *)
(* on only after it found its session there, so a stream can only be       *)
(* overtaken by a revocation whose hook is still to come (Sessions).  An   *)
(* entry gives its demand back in the step that makes it no longer live,   *)
(* and only then (WantedLess).  A stream looks at its session at least     *)
(* once as time passes, and what one call prunes in between fits the ring, *)
(* for a kind never exceeds its cap: so what a look does not find in the   *)
(* ring has been revoked (Ring, Followed).                                 *)
(*                                                                         *)
(* One topic (LiveTopic): no reader is served the past, a late read does   *)
(* not turn the hub's clock back, and when nothing is left to read the hub *)
(* holds the truth: for any number of announcing threads and page loads,   *)
(* and any bounds.                                                         *)
(*                                                                         *)
(* The argument.  The cache and a fetch that still counts are never older  *)
(* than the last announcement (Fresh).  Of two reads in flight, the one    *)
(* that is not known to have started first began with no more announced    *)
(* than the other (Ordered), so a read that was not overtaken is not older *)
(* than the slot.  A change the hub does not have yet is still to be       *)
(* announced, or a touch keeps the slot stale until a read that started    *)
(* after it lands (Settling).                                              *)
(***************************************************************************)
EXTENDS Streams, LiveTopic, FiniteSetTheorems, TLAPS

-----------------------------------------------------------------------------
(* The streams: the inductive invariant. *)

ConnFields == {"pc", "owner", "topics", "key", "ended", "looked", "misled"}

Wanting(t) == {c \in Conns : LiveEntry(c) /\ t \in conn[c].topics}

Typed ==
    /\ DOMAIN fate = Ids /\ DOMAIN demand = Topics
    /\ DOMAIN conn = Conns /\ \A c \in Conns : DOMAIN conn[c] = ConnFields

Sessions ==
    /\ \A id \in DOMAIN table : id \in Ids /\ fate[id] = "live"
    /\ \A c \in Conns : conn[c].pc # "idle" => conn[c].owner \in Ids
    /\ RevokedStreamsEnd

Demand ==
    /\ \A c \in Conns : conn[c].pc = "asked" => conn[c].ended = None
    /\ DemandIsExact

IInv == Typed /\ Sessions /\ Demand

-----------------------------------------------------------------------------
(* The table and the fates of its sessions. *)

\* A call that prunes the table and revokes some sessions.
LEMMA TableShrinks ==
    ASSUME IInv, NEW revoked \in SUBSET Ids, fate' = Fates(revoked),
           DOMAIN table' \subseteq Current \ revoked
    PROVE  /\ DOMAIN fate' = Ids
           /\ \A id \in DOMAIN table' : id \in Ids /\ fate'[id] = "live"
           /\ \A id \in Ids : fate'[id] = "revoked" => fate[id] = "revoked" \/ id \in revoked
<1>1. \A id \in Ids : fate'[id] = IF id \in revoked THEN "revoked"
                                  ELSE IF id \in PastDeadline THEN "expired" ELSE fate[id]
  BY DEF Fates
<1>2. DOMAIN fate' = Ids
  BY DEF Fates
<1>3. \A id \in DOMAIN table' : id \in Ids /\ id \notin revoked /\ id \notin PastDeadline /\ fate[id] = "live"
  BY DEF Current, IInv, Sessions
<1> QED BY <1>1, <1>2, <1>3

\* A revocation leaves a hook, and the hooks before it stay.
LEMMA HookPending ==
    ASSUME IInv, NEW revoked \in SUBSET Ids, Revoking(revoked), UNCHANGED conn, DOMAIN fate' = Ids,
           \A id \in Ids : fate'[id] = "revoked" => fate[id] = "revoked" \/ id \in revoked
    PROVE  RevokedStreamsEnd'
<1> SUFFICES ASSUME NEW c \in Conns, conn[c].pc = "open", conn[c].ended = None,
                    fate'[conn[c].owner] = "revoked"
             PROVE  \E ids \in hooks' : conn[c].owner \in ids
  BY DEF RevokedStreamsEnd
<1>1. conn[c].owner \in Ids
  BY DEF IInv, Sessions
<1>2. CASE conn[c].owner \in revoked
  BY <1>2 DEF Revoking
<1>3. CASE fate[conn[c].owner] = "revoked"
  BY <1>3 DEF Revoking, IInv, Sessions, RevokedStreamsEnd
<1> QED BY <1>1, <1>2, <1>3

\* No step on the table alone changes what the hub wants.
LEMMA HubUnchanged ==
    ASSUME IInv, UNCHANGED hub
    PROVE  /\ Demand' /\ DOMAIN demand' = Topics
           /\ DOMAIN conn' = Conns /\ \A c \in Conns : DOMAIN conn'[c] = ConnFields
BY DEF IInv, Typed, Demand, DemandIsExact, LiveEntry, HasEntry, hub

LEMMA LoginKeeps ==
    ASSUME IInv, NEW kind \in Kinds, NEW presented \in SUBSET DOMAIN table, Login(kind, presented)
    PROVE  IInv'
<1> DEFINE rotated == IF kind = "browser" THEN {id \in presented \cap Current : table[id].kind = kind}
                      ELSE {}
           rest == Current \ rotated
           same == {id \in rest : table[id].kind = kind}
<1>1. PICK evicted \in (IF AtCap(same, kind) THEN {{id} : id \in LeastRecentlyUsed(same)} ELSE {{}}) :
        /\ DOMAIN table' = (rest \ evicted) \cup {NextId}
        /\ fate' = [Fates(rotated \cup evicted) EXCEPT ![NextId] = "live"]
        /\ Revoking(rotated \cup evicted)
  BY DEF Login
<1>2. NextId \in Ids /\ UNCHANGED hub
  BY DEF Login
<1>3. rotated \cup evicted \subseteq Ids
  BY DEF LeastRecentlyUsed, Current, IInv, Sessions
<1>4. /\ DOMAIN fate' = Ids /\ fate'[NextId] = "live"
      /\ \A id \in Ids : id # NextId =>
           fate'[id] = IF id \in rotated \cup evicted THEN "revoked"
                       ELSE IF id \in PastDeadline THEN "expired" ELSE fate[id]
  BY <1>1, <1>2 DEF Fates
<1>5. \A id \in DOMAIN table' : id \in Ids /\ fate'[id] = "live"
  <2> SUFFICES ASSUME NEW id \in DOMAIN table', id # NextId
               PROVE  id \in Ids /\ fate'[id] = "live"
    BY <1>2, <1>4
  <2>1. id \in DOMAIN table /\ id \notin PastDeadline /\ id \notin rotated \cup evicted
    BY <1>1 DEF Current
  <2> QED BY <1>4, <2>1 DEF IInv, Sessions
<1>6. \A id \in Ids : fate'[id] = "revoked" => fate[id] = "revoked" \/ id \in rotated \cup evicted
  BY <1>4
<1>7. RevokedStreamsEnd'
  BY <1>1, <1>2, <1>3, <1>4, <1>6, HookPending DEF hub
<1>8. \A c \in Conns : conn'[c].pc # "idle" => conn'[c].owner \in Ids
  BY <1>2 DEF hub, IInv, Sessions
<1> QED BY <1>2, <1>4, <1>5, <1>7, <1>8, HubUnchanged DEF IInv, Typed, Sessions

\* A look at a session revokes none, and leaves the current ones.
LEMMA LookKeeps ==
    ASSUME IInv, NEW id, Used(id), fate' = Fates({})
    PROVE  /\ DOMAIN fate' = Ids
           /\ \A i \in DOMAIN table' : i \in Ids /\ fate'[i] = "live"
           /\ \A i \in Ids : fate'[i] = "revoked" => fate[i] = "revoked"
           /\ \A i \in Current : i \in Ids /\ fate'[i] = "live"
<1>1. DOMAIN table' = Current
  BY DEF Used
<1> QED BY <1>1, TableShrinks

LEMMA AuthenticateKeeps ==
    ASSUME IInv, NEW id \in Ids, Authenticate(id)
    PROVE  IInv'
<1>1. UNCHANGED <<hooks, hub>>
  BY DEF Authenticate
<1>2. /\ DOMAIN fate' = Ids
      /\ \A i \in DOMAIN table' : i \in Ids /\ fate'[i] = "live"
      /\ \A i \in Ids : fate'[i] = "revoked" => fate[i] = "revoked"
  BY LookKeeps DEF Authenticate
<1>3. RevokedStreamsEnd' /\ \A c \in Conns : conn'[c].pc # "idle" => conn'[c].owner \in Ids
  BY <1>1, <1>2 DEF hub, IInv, Sessions, RevokedStreamsEnd
<1> QED BY <1>1, <1>2, <1>3, HubUnchanged DEF IInv, Typed, Sessions

LEMMA LogoutKeeps ==
    ASSUME IInv, NEW id \in Ids, Logout(id)
    PROVE  IInv'
<1> DEFINE revoked == {id} \cap Current
<1>1. fate' = Fates(revoked) /\ DOMAIN table' \subseteq Current \ revoked /\ Revoking(revoked) /\ UNCHANGED hub
  BY DEF Logout
<1>2. revoked \in SUBSET Ids
  OBVIOUS
<1> HIDE DEF revoked
<1>3. /\ DOMAIN fate' = Ids
      /\ \A i \in DOMAIN table' : i \in Ids /\ fate'[i] = "live"
      /\ \A i \in Ids : fate'[i] = "revoked" => fate[i] = "revoked" \/ i \in revoked
  BY <1>1, <1>2, TableShrinks
<1>4. RevokedStreamsEnd'
  BY <1>1, <1>2, <1>3, HookPending DEF hub
<1>5. \A c \in Conns : conn'[c].pc # "idle" => conn'[c].owner \in Ids
  BY <1>1 DEF hub, IInv, Sessions
<1> QED BY <1>1, <1>3, <1>4, <1>5, HubUnchanged DEF IInv, Typed, Sessions

-----------------------------------------------------------------------------
(* The demand. *)

\* The live entries among cs go, nothing else changes for the hub.
LEMMA WantedLess ==
    ASSUME IInv, NEW cs \in SUBSET Conns, demand' = Released(cs),
           \A t \in Topics : Wanting(t)' = Wanting(t) \ cs
    PROVE  DemandIsExact' /\ DOMAIN demand' = Topics
<1>1. DOMAIN demand' = Topics
  BY DEF Released
<1>2. ASSUME NEW t \in Topics
      PROVE  demand'[t] = Cardinality(Wanting(t)')
  <2>1. IsFiniteSet(Wanting(t)) /\ demand[t] = Cardinality(Wanting(t))
    BY ConnsAssumption, FS_Subset DEF Wanting, IInv, Demand, DemandIsExact
  <2>2. {c \in cs : LiveEntry(c) /\ t \in conn[c].topics} = Wanting(t) \cap cs
    BY DEF Wanting
  <2>3. demand'[t] = demand[t] - Cardinality(Wanting(t) \cap cs)
    BY <2>2 DEF Released
  <2> QED BY <2>1, <2>3, FS_Difference
<1> QED BY <1>1, <1>2 DEF DemandIsExact, Wanting

-----------------------------------------------------------------------------
(* The hub ends streams. *)

LEMMA EndKeeps ==
    ASSUME IInv, NEW cs \in SUBSET Conns, NEW reason, reason # None, EndEntries(cs, reason)
    PROVE  /\ Demand' /\ DOMAIN demand' = Topics /\ DOMAIN conn' = Conns
           /\ \A c \in Conns : /\ DOMAIN conn'[c] = ConnFields
                               /\ conn'[c].pc = conn[c].pc /\ conn'[c].owner = conn[c].owner
                               /\ conn'[c].ended = None =>
                                    conn[c].ended = None /\ ~(c \in cs /\ HasEntry(c))
<1>1. /\ DOMAIN conn' = Conns
      /\ \A c \in Conns : /\ DOMAIN conn'[c] = ConnFields
                          /\ conn'[c].pc = conn[c].pc /\ conn'[c].owner = conn[c].owner
                          /\ conn'[c].topics = conn[c].topics
                          /\ conn'[c].ended = IF c \in cs /\ LiveEntry(c) THEN reason ELSE conn[c].ended
  BY DEF EndEntries, IInv, Typed, ConnFields
<1>2. \A t \in Topics : Wanting(t)' = Wanting(t) \ cs
  BY <1>1 DEF Wanting, LiveEntry, HasEntry
<1>3. DemandIsExact' /\ DOMAIN demand' = Topics
  BY <1>2, WantedLess DEF EndEntries
<1>4. \A c \in Conns : conn'[c].pc = "asked" => conn'[c].ended = None
  BY <1>1 DEF IInv, Demand, LiveEntry, HasEntry
<1> QED BY <1>1, <1>3, <1>4 DEF Demand, LiveEntry

LEMMA RunHookKeeps ==
    ASSUME IInv, NEW ids \in hooks, RunHook(ids)
    PROVE  IInv'
<1> DEFINE cs == {c \in Conns : conn[c].owner \in ids}
<1>1. EndEntries(cs, "logged_out") /\ hooks' = hooks \ {ids} /\ UNCHANGED <<table, fate>>
  BY DEF RunHook
<1>2. cs \in SUBSET Conns /\ "logged_out" # None
  BY NoneAssumption
<1>3. /\ Demand' /\ DOMAIN demand' = Topics /\ DOMAIN conn' = Conns
      /\ \A c \in Conns : /\ DOMAIN conn'[c] = ConnFields
                          /\ conn'[c].pc = conn[c].pc /\ conn'[c].owner = conn[c].owner
                          /\ conn'[c].ended = None =>
                               conn[c].ended = None /\ ~(conn[c].owner \in ids /\ HasEntry(c))
  <2> HIDE DEF cs
  <2>1. /\ Demand' /\ DOMAIN demand' = Topics /\ DOMAIN conn' = Conns
        /\ \A c \in Conns : /\ DOMAIN conn'[c] = ConnFields
                            /\ conn'[c].pc = conn[c].pc /\ conn'[c].owner = conn[c].owner
                            /\ conn'[c].ended = None =>
                                 conn[c].ended = None /\ ~(c \in cs /\ HasEntry(c))
    BY <1>1, <1>2, EndKeeps
  <2> QED BY <2>1 DEF cs
<1>4. RevokedStreamsEnd'
  BY <1>1, <1>3 DEF IInv, Sessions, RevokedStreamsEnd, HasEntry
<1> QED BY <1>1, <1>3, <1>4 DEF IInv, Typed, Sessions

LEMMA StandbyKeeps ==
    ASSUME IInv, Standby
    PROVE  IInv'
<1>1. EndEntries(Conns, "standby") /\ UNCHANGED <<table, fate, hooks>> /\ "standby" # None
  BY NoneAssumption DEF Standby, auth
<1>2. /\ Demand' /\ DOMAIN demand' = Topics /\ DOMAIN conn' = Conns
      /\ \A c \in Conns : /\ DOMAIN conn'[c] = ConnFields
                          /\ conn'[c].pc = conn[c].pc /\ conn'[c].owner = conn[c].owner
                          /\ conn'[c].ended = None => conn[c].ended = None
  BY <1>1, EndKeeps
<1>3. RevokedStreamsEnd'
  BY <1>1, <1>2 DEF IInv, Sessions, RevokedStreamsEnd
<1> QED BY <1>1, <1>2, <1>3 DEF IInv, Typed, Sessions

-----------------------------------------------------------------------------
(* The steps of one connection. *)

\* A stream request whose session is there.
LEMMA AskKeeps ==
    ASSUME IInv, NEW c \in Conns, NEW id \in Ids, Ask(c, id)
    PROVE  IInv'
<1>1. /\ DOMAIN fate' = Ids
      /\ \A i \in DOMAIN table' : i \in Ids /\ fate'[i] = "live"
      /\ \A i \in Ids : fate'[i] = "revoked" => fate[i] = "revoked"
  BY LookKeeps DEF Ask
<1>2. /\ conn[c].pc = "idle" /\ UNCHANGED <<hooks, order, demand>>
      /\ DOMAIN conn' = Conns /\ DOMAIN conn'[c] = ConnFields
      /\ conn'[c].pc = "asked" /\ conn'[c].owner = id /\ conn'[c].ended = None
      /\ \A d \in Conns : d # c => conn'[d] = conn[d]
  BY DEF Ask, Idling, IInv, Typed, ConnFields
<1>3. \A t \in Topics : Wanting(t)' = Wanting(t)
  BY <1>2 DEF Wanting, LiveEntry, HasEntry
<1>4. DemandIsExact'
  BY <1>2, <1>3 DEF IInv, Demand, DemandIsExact, Wanting
<1>5. RevokedStreamsEnd'
  BY <1>1, <1>2 DEF IInv, Sessions, RevokedStreamsEnd
<1> QED BY <1>1, <1>2, <1>4, <1>5 DEF IInv, Typed, Sessions, Demand

\* A stream that ends gives its entry back.
LEMMA LeaveKeeps ==
    ASSUME IInv, NEW c \in Conns, NEW misled,
           conn' = [conn EXCEPT ![c] = [Idling EXCEPT !.misled = misled]], demand' = Released({c}),
           UNCHANGED hooks, DOMAIN fate' = Ids,
           \A id \in DOMAIN table' : id \in Ids /\ fate'[id] = "live",
           \A id \in Ids : fate'[id] = "revoked" => fate[id] = "revoked"
    PROVE  IInv'
<1>1. /\ DOMAIN conn' = Conns /\ DOMAIN conn'[c] = ConnFields /\ conn'[c].pc = "idle"
      /\ \A d \in Conns : d # c => conn'[d] = conn[d]
  BY DEF Idling, IInv, Typed, ConnFields
<1>2. \A t \in Topics : Wanting(t)' = Wanting(t) \ {c}
  BY <1>1 DEF Wanting, LiveEntry, HasEntry
<1>3. DemandIsExact' /\ DOMAIN demand' = Topics
  BY <1>2, WantedLess
<1>4. RevokedStreamsEnd'
  BY <1>1 DEF IInv, Sessions, RevokedStreamsEnd
<1> QED BY <1>1, <1>3, <1>4 DEF IInv, Typed, Sessions, Demand

LEMMA DropKeeps ==
    ASSUME IInv, NEW c \in Conns, Drop(c)
    PROVE  IInv'
<1>1. conn' = [conn EXCEPT ![c] = [Idling EXCEPT !.misled = FALSE]]
  BY DEF Drop, Idling
<1> QED BY <1>1, LeaveKeeps DEF Drop, auth, IInv, Typed, Sessions

\* A stream goes on after it found its session in the table.
LEMMA StayKeeps ==
    ASSUME IInv, NEW c \in Conns, HasEntry(c), conn[c].owner \in Current,
           Touch(conn[c].owner), Stay(c)
    PROVE  IInv'
<1>1. /\ DOMAIN fate' = Ids
      /\ \A i \in DOMAIN table' : i \in Ids /\ fate'[i] = "live"
      /\ \A i \in Ids : fate'[i] = "revoked" => fate[i] = "revoked"
      /\ fate'[conn[c].owner] = "live"
  BY LookKeeps DEF Touch
<1>2. /\ UNCHANGED <<hooks, order, demand>>
      /\ DOMAIN conn' = Conns /\ DOMAIN conn'[c] = ConnFields
      /\ conn'[c].pc = "open" /\ conn'[c].owner = conn[c].owner /\ conn'[c].ended = conn[c].ended
      /\ conn'[c].topics = conn[c].topics
      /\ \A d \in Conns : d # c => conn'[d] = conn[d]
  BY DEF Touch, Stay, IInv, Typed, ConnFields
<1>3. \A t \in Topics : Wanting(t)' = Wanting(t)
  BY <1>2 DEF Wanting, LiveEntry, HasEntry
<1>4. DemandIsExact'
  BY <1>2, <1>3 DEF IInv, Demand, DemandIsExact, Wanting
<1>5. RevokedStreamsEnd'
  BY <1>1, <1>2 DEF IInv, Sessions, RevokedStreamsEnd
<1>6. \A d \in Conns : conn'[d].pc # "idle" => conn'[d].owner \in Ids
  BY <1>2 DEF IInv, Sessions, HasEntry
<1> QED BY <1>1, <1>2, <1>4, <1>5, <1>6 DEF IInv, Typed, Sessions, Demand

LEMMA DriverKeeps ==
    ASSUME IInv, NEW c \in Conns, Open(c) \/ Wake(c)
    PROVE  IInv'
<1>1. HasEntry(c) /\ Touch(conn[c].owner)
  BY DEF Open, Wake, HasEntry
<1>2. (SessionCheck(conn[c].owner) = "live" /\ Stay(c)) \/ \E bye : Finish(c, bye)
  BY DEF Open, Wake
<1>3. CASE SessionCheck(conn[c].owner) = "live" /\ Stay(c)
  <2>1. conn[c].owner \in Current
    BY <1>3 DEF SessionCheck, Current
  <2> QED BY <1>1, <1>3, <2>1, StayKeeps
<1>4. ASSUME NEW bye, Finish(c, bye)
      PROVE  IInv'
  <2>1. /\ DOMAIN fate' = Ids
        /\ \A i \in DOMAIN table' : i \in Ids /\ fate'[i] = "live"
        /\ \A i \in Ids : fate'[i] = "revoked" => fate[i] = "revoked"
    BY <1>1, LookKeeps DEF Touch
  <2>2. UNCHANGED hooks /\ demand' = Released({c})
    BY <1>1, <1>4 DEF Touch, Finish
  <2>3. \E misled : conn' = [conn EXCEPT ![c] = [Idling EXCEPT !.misled = misled]]
    BY <1>4 DEF Finish
  <2> QED BY <2>1, <2>2, <2>3, LeaveKeeps
<1> QED BY <1>2, <1>3, <1>4

\* The stream is queued, and those of evict are ended for it.
Queues(c, topics, key, evict) ==
    /\ conn' = [d \in Conns |->
         IF d = c THEN [conn[c] EXCEPT !.pc = "queued", !.topics = topics, !.key = key]
         ELSE IF d \in evict THEN [conn[d] EXCEPT !.ended = "evicted"] ELSE conn[d]]
    /\ demand' = [t \in Topics |-> Released(evict)[t] + (IF t \in topics THEN 1 ELSE 0)]

\* A subscription is refused, or queues the stream and may end another one.
LEMMA Subscribes ==
    ASSUME NEW c \in Conns, NEW topics \in SUBSET Topics \ {{}}, NEW key \in Keys,
           Subscribe(c, topics, key)
    PROVE  \/ conn' = [conn EXCEPT ![c] = Idling] /\ UNCHANGED demand
           \/ \E evict \in SUBSET {d \in Conns : LiveEntry(d)} : Queues(c, topics, key, evict)
<1> DEFINE live == {d \in Conns : LiveEntry(d)}
           own == {d \in live : conn[d].owner = conn[c].owner}
           Place(d) == CHOOSE i \in DOMAIN order : order[i] = d
           oldest == {d \in own : \A e \in own : Place(d) <= Place(e)}
           same == {d \in own : conn[d].key = key /\ conn[d].topics = topics}
           victims == IF same # {} THEN same
                      ELSE IF Cardinality(own) >= MaxPerOwner THEN oldest ELSE {}
<1>1. PICK evict \in IF victims = {} THEN {{}} ELSE {{d} : d \in victims} :
        IF Cardinality(live \ evict) >= MaxStreams
        THEN conn' = [conn EXCEPT ![c] = Idling] /\ UNCHANGED demand
        ELSE /\ conn' = [d \in Conns |->
                  IF d = c THEN [conn[c] EXCEPT !.pc = "queued", !.topics = topics, !.key = key]
                  ELSE IF d \in evict THEN [conn[d] EXCEPT !.ended = "evicted"] ELSE conn[d]]
             /\ demand' = [t \in Topics |-> Released(evict)[t] + (IF t \in topics THEN 1 ELSE 0)]
  BY Zenon DEF Subscribe
<1>2. victims \subseteq live
  <2>1. same \subseteq live /\ oldest \subseteq live
    OBVIOUS
  <2> HIDE DEF same, oldest, own, live
  <2> QED BY <2>1
<1>3. evict \in SUBSET live
  <2> HIDE DEF victims, live
  <2> QED BY <1>1, <1>2
<1> HIDE DEF victims
<1> QED BY <1>1, <1>3 DEF Queues

\* A new stream is queued: another may be ended for it.
LEMMA SubscribeKeeps ==
    ASSUME IInv, NEW c \in Conns, NEW topics \in SUBSET Topics \ {{}}, NEW key \in Keys,
           Subscribe(c, topics, key)
    PROVE  IInv'
<1>0. conn[c].pc = "asked" /\ conn[c].ended = None /\ UNCHANGED <<table, fate, hooks>>
  BY DEF Subscribe, auth, IInv, Demand
<1>1. CASE conn' = [conn EXCEPT ![c] = Idling] /\ UNCHANGED demand
  <2>1. /\ DOMAIN conn' = Conns /\ DOMAIN conn'[c] = ConnFields /\ conn'[c].pc = "idle"
        /\ \A d \in Conns : d # c => conn'[d] = conn[d]
    BY <1>1 DEF Idling, IInv, Typed, ConnFields
  <2>2. \A t \in Topics : Wanting(t)' = Wanting(t)
    BY <1>0, <2>1 DEF Wanting, LiveEntry, HasEntry
  <2>3. DemandIsExact'
    BY <1>1, <2>2 DEF IInv, Demand, DemandIsExact, Wanting
  <2>4. RevokedStreamsEnd'
    BY <1>0, <2>1 DEF IInv, Sessions, RevokedStreamsEnd
  <2> QED BY <1>0, <1>1, <2>1, <2>3, <2>4 DEF IInv, Typed, Sessions, Demand
<1>2. ASSUME NEW evict \in SUBSET {d \in Conns : LiveEntry(d)}, Queues(c, topics, key, evict)
      PROVE  IInv'
  <2>1. /\ DOMAIN conn' = Conns /\ DOMAIN conn'[c] = ConnFields
        /\ conn'[c].pc = "queued" /\ conn'[c].owner = conn[c].owner /\ conn'[c].ended = None
        /\ conn'[c].topics = topics
    BY <1>0, <1>2 DEF Queues, IInv, Typed, ConnFields
  <2>2. \A d \in Conns : d # c =>
          /\ DOMAIN conn'[d] = ConnFields
          /\ conn'[d].pc = conn[d].pc /\ conn'[d].owner = conn[d].owner
          /\ conn'[d].topics = conn[d].topics
          /\ conn'[d].ended = IF d \in evict THEN "evicted" ELSE conn[d].ended
    BY <1>2 DEF Queues, IInv, Typed, ConnFields
  <2>3. \A t \in Topics :
          Wanting(t)' = (Wanting(t) \ evict) \cup (IF t \in topics THEN {c} ELSE {})
    BY <1>0, <2>1, <2>2, NoneAssumption DEF Wanting, LiveEntry, HasEntry
  <2>4. ASSUME NEW t \in Topics
        PROVE  demand'[t] = Cardinality(Wanting(t)')
    <3> DEFINE left == Wanting(t) \ evict
    <3>1. IsFiniteSet(Wanting(t)) /\ demand[t] = Cardinality(Wanting(t))
      BY ConnsAssumption, FS_Subset DEF Wanting, IInv, Demand, DemandIsExact
    <3>2. {d \in evict : LiveEntry(d) /\ t \in conn[d].topics} = Wanting(t) \cap evict
      BY DEF Wanting
    <3>3. Released(evict)[t] = demand[t] - Cardinality(Wanting(t) \cap evict)
      BY <3>2 DEF Released
    <3>4. Released(evict)[t] = Cardinality(left) /\ IsFiniteSet(left)
      BY <3>1, <3>3, FS_Difference
    <3>5. c \notin left
      BY <1>0 DEF Wanting, LiveEntry, HasEntry
    <3>6. Cardinality(left) \in Nat /\ Cardinality(left \cup {c}) = Cardinality(left) + 1
      BY <3>4, <3>5, FS_AddElement, FS_CardinalityType
    <3>7. demand'[t] = Cardinality(left) + (IF t \in topics THEN 1 ELSE 0)
      BY <1>2, <3>4 DEF Queues
    <3>8. Wanting(t)' = left \cup (IF t \in topics THEN {c} ELSE {})
      BY <2>3
    <3> HIDE DEF left
    <3>9. CASE t \in topics
      BY <3>6, <3>7, <3>8, <3>9
    <3>10. CASE t \notin topics
      <4>1. Wanting(t)' = left /\ demand'[t] = Cardinality(left) + 0
        BY <3>7, <3>8, <3>10
      <4> QED BY <3>6, <4>1
    <3> QED BY <3>9, <3>10
  <2>5. DemandIsExact' /\ DOMAIN demand' = Topics
    BY <1>2, <2>4 DEF Queues, DemandIsExact, Wanting
  <2>6. RevokedStreamsEnd'
    BY <1>0, <2>1, <2>2, NoneAssumption DEF IInv, Sessions, RevokedStreamsEnd
  <2>7. \A d \in Conns : conn'[d].pc = "asked" => conn'[d].ended = None
    BY <2>1, <2>2 DEF IInv, Demand, LiveEntry, HasEntry
  <2>8. \A d \in Conns : conn'[d].pc # "idle" => conn'[d].owner \in Ids
    BY <1>0, <2>1, <2>2 DEF IInv, Sessions
  <2> QED BY <1>0, <2>1, <2>2, <2>5, <2>6, <2>7, <2>8 DEF IInv, Typed, Sessions, Demand
<1> QED BY <1>1, <1>2, Subscribes

\* Time only ages sessions.
LEMMA AdvanceKeeps ==
    ASSUME IInv, NEW d \in 1 .. MaxJump, Advance(d)
    PROVE  IInv'
<1>1. /\ DOMAIN table' = DOMAIN table /\ UNCHANGED <<hooks, fate, demand>> /\ DOMAIN conn' = Conns
      /\ \A c \in Conns : /\ DOMAIN conn'[c] = ConnFields
                          /\ conn'[c].pc = conn[c].pc /\ conn'[c].owner = conn[c].owner
                          /\ conn'[c].topics = conn[c].topics /\ conn'[c].ended = conn[c].ended
  BY DEF Advance, IInv, Typed, ConnFields
<1>2. \A t \in Topics : Wanting(t)' = Wanting(t)
  BY <1>1 DEF Wanting, LiveEntry, HasEntry
<1>3. DemandIsExact'
  BY <1>1, <1>2 DEF IInv, Demand, DemandIsExact, Wanting
<1>4. RevokedStreamsEnd'
  BY <1>1 DEF IInv, Sessions, RevokedStreamsEnd
<1> QED BY <1>1, <1>3, <1>4 DEF IInv, Typed, Sessions, Demand

-----------------------------------------------------------------------------
(* What the ring of pruned ids remembers. *)

EntryFields == {"kind", "age", "unused"}
Fortunes == {"unborn", "live", "expired", "revoked"}
OfKind(kind) == {id \in DOMAIN table : table[id].kind = kind}

Ring ==
    /\ \A id \in DOMAIN table : /\ DOMAIN table[id] = EntryFields /\ table[id].kind \in Kinds
                                /\ table[id].age \in Nat /\ table[id].unused \in Nat
    /\ \A kind \in Kinds : Cardinality(OfKind(kind)) <= Cap[kind]
    /\ fate \in [Ids -> Fortunes] /\ \A id \in Ids : fate[id] = "live" <=> id \in DOMAIN table
    /\ \A i, j \in Ids : i <= j /\ fate[j] # "unborn" => fate[i] # "unborn"
    /\ recent \in Seq(Ids) /\ Len(recent) <= RingSize
    /\ \A id \in ToSet(recent) : fate[id] = "expired"
    /\ \A ids \in hooks : \A id \in ids : id \in Ids /\ fate[id] = "revoked"

\* What holds of the connection k: its session was there when it looked, and what is pruned
\* before the next look is still in the ring then.
Follows(k) ==
    /\ k.ended \in {None, "evicted", "logged_out", "standby"} /\ ~k.misled
    /\ k.pc # "idle" =>
         /\ fate[k.owner] # "unborn"
         /\ fate[k.owner] = "expired" =>
              k.owner \in ToSet(recent) /\ ~k.looked /\ PastDeadline = {}
         /\ PastDeadline # {} => ~k.looked
         /\ k.ended = "logged_out" => fate[k.owner] = "revoked"

Followed == \A c \in Conns : Follows(conn[c])

ByeInv == IInv /\ Ring /\ Followed

LEMMA IdsFinite == ASSUME NEW S \in SUBSET Ids PROVE IsFiniteSet(S) /\ Cardinality(S) \in Nat
<1>1. MaxLogins \in Nat
  BY PolicyAssumption
<1>2. IsFiniteSet(Ids)
  BY <1>1, FS_Interval DEF Ids
<1> QED BY <1>2, FS_Subset, FS_CardinalityType

\* SetToSeq lists a finite set, each element once.
LEMMA SetToSeqLists ==
    ASSUME NEW S, IsFiniteSet(S)
    PROVE  /\ SetToSeq(S) \in Seq(S) /\ Len(SetToSeq(S)) = Cardinality(S)
           /\ Cardinality(S) \in Nat
           /\ \A x \in S : \E i \in 1..Cardinality(S) : SetToSeq(S)[i] = x
<1> DEFINE n == Cardinality(S)
<1>1. n \in Nat /\ ExistsBijection(1..n, S)
  BY FS_CardinalityType
<1>2. PICK f \in [1..n -> S] : IsInjective(f)
  BY <1>1 DEF ExistsBijection, Bijection, Injection
<1>3. SetToSeq(S) \in [1..n -> S] /\ IsInjective(SetToSeq(S))
  BY <1>2 DEF SetToSeq
<1>4. Cardinality(1..n) = n /\ IsFiniteSet(1..n)
  BY <1>1, FS_Interval
<1>5. SetToSeq(S) \in Surjection(1..n, S)
  <2>1. SetToSeq(S) \in Injection(1..n, S)
    BY <1>3 DEF Injection
  <2> QED BY <2>1, <1>4, FS_Injection
<1> HIDE DEF n
<1>6. SetToSeq(S) \in Seq(S) /\ Len(SetToSeq(S)) = n
  BY <1>1, <1>3
<1> QED BY <1>1, <1>5, <1>6 DEF Surjection, n

\* Nothing is forgotten that was pruned in one go: it fits the ring.
LEMMA RingHoldsAKind ==
    ASSUME IInv, Ring
    PROVE  RingSize \in Nat /\ PastDeadline \in SUBSET Ids /\ Cardinality(PastDeadline) <= RingSize
<1>1. DOMAIN table \subseteq Ids
  BY DEF IInv, Sessions
<1>2. OfKind("bearer") \in SUBSET Ids /\ OfKind("browser") \in SUBSET Ids /\ PastDeadline \in SUBSET Ids
  BY <1>1 DEF OfKind, PastDeadline
<1>3. PastDeadline \in SUBSET (OfKind("bearer") \cup OfKind("browser"))
  BY DEF PastDeadline, OfKind, Ring, Kinds
<1>4. Cap["bearer"] \in Nat /\ Cap["browser"] \in Nat
  BY PolicyAssumption DEF Kinds
<1>5. /\ Cardinality(OfKind("bearer")) <= Cap["bearer"]
      /\ Cardinality(OfKind("browser")) <= Cap["browser"]
  BY DEF Ring, Kinds
<1> DEFINE a == OfKind("bearer")
           b == OfKind("browser")
<1>6. /\ IsFiniteSet(a) /\ IsFiniteSet(b) /\ Cardinality(a) \in Nat /\ Cardinality(b) \in Nat
      /\ Cardinality(a \cap b) \in Nat
  BY <1>2, IdsFinite
<1>7. IsFiniteSet(a \cup b) /\ Cardinality(a \cup b) = Cardinality(a) + Cardinality(b) - Cardinality(a \cap b)
  BY <1>6, FS_Union
<1>8. Cardinality(PastDeadline) <= Cardinality(a \cup b)
  BY <1>3, <1>7, FS_Subset
<1>9. Cardinality(PastDeadline) \in Nat
  BY <1>2, IdsFinite
<1> HIDE DEF a, b
<1> QED BY <1>2, <1>4, <1>5, <1>6, <1>7, <1>8, <1>9 DEF RingSize, a, b

\* One turn of the ring.
LEMMA RingTurns ==
    ASSUME IInv, Ring, PruneRemembers
    PROVE  /\ recent' \in Seq(Ids) /\ Len(recent') <= RingSize
           /\ ToSet(recent') \subseteq ToSet(recent) \cup PastDeadline
           /\ PastDeadline \subseteq ToSet(recent')
           /\ PastDeadline = {} => ToSet(recent') = ToSet(recent)
<1> DEFINE q == SetToSeq(PastDeadline)
           n == Cardinality(PastDeadline)
           ring == recent \o q
           first == Len(ring) - RingSize + 1
           start == IF first > 1 THEN first ELSE 1
<1>1. RingSize \in Nat /\ PastDeadline \in SUBSET Ids /\ n <= RingSize /\ n \in Nat
  BY RingHoldsAKind, IdsFinite
<1>2. /\ q \in Seq(Ids) /\ Len(q) = n /\ \A x \in PastDeadline : \E i \in 1..n : q[i] = x
      /\ \A i \in 1..n : q[i] \in PastDeadline
  <2>1. IsFiniteSet(PastDeadline)
    BY <1>1, IdsFinite
  <2>2. q \in Seq(PastDeadline) /\ Len(q) = n /\ \A x \in PastDeadline : \E i \in 1..n : q[i] = x
    BY <2>1, SetToSeqLists
  <2> HIDE DEF q, n
  <2>3. q \in Seq(Ids)
    BY <1>1, <2>2
  <2> QED BY <1>1, <2>2, <2>3
<1>3. recent \in Seq(Ids) /\ Len(recent) \in Nat /\ Len(recent) <= RingSize
  BY DEF Ring
<1> HIDE DEF q, n
<1>4. /\ ring \in Seq(Ids) /\ Len(ring) = Len(recent) + n
      /\ \A i \in 1..Len(recent) : ring[i] = recent[i]
      /\ \A i \in 1..n : ring[Len(recent) + i] = q[i]
  BY <1>1, <1>2, <1>3
<1>5. recent' = SubSeq(ring, start, Len(ring))
  BY DEF PruneRemembers, q
<1> HIDE DEF ring
<1>6. start \in 1..Len(recent) + 1 /\ first \in Int /\ (n = 0 => start = 1)
  BY <1>1, <1>3, <1>4
<1> HIDE DEF start
<1>7. /\ recent' \in Seq(Ids) /\ Len(recent') = Len(recent) + n - start + 1
      /\ \A i \in 1..Len(recent') : recent'[i] = ring[start + i - 1]
  BY <1>1, <1>3, <1>4, <1>5, <1>6
<1>8. Len(recent') <= RingSize
  BY <1>1, <1>3, <1>4, <1>6, <1>7 DEF start
<1>9. ASSUME NEW i \in 1..Len(recent') PROVE recent'[i] \in ToSet(recent) \cup PastDeadline
  <2>1. start + i - 1 \in 1..Len(recent) + n
    BY <1>1, <1>3, <1>6, <1>7
  <2>2. CASE start + i - 1 <= Len(recent)
    BY <1>3, <1>4, <1>7, <2>1, <2>2 DEF ToSet
  <2>3. CASE start + i - 1 > Len(recent)
    <3> DEFINE j == start + i - 1 - Len(recent)
    <3>1. j \in 1..n /\ Len(recent) + j = start + i - 1
      BY <1>1, <1>3, <1>6, <2>1, <2>3
    <3> HIDE DEF j
    <3>2. q[j] \in PastDeadline /\ ring[Len(recent) + j] = q[j]
      BY <1>2, <1>4, <3>1
    <3> QED BY <1>7, <3>1, <3>2
  <2> QED BY <2>1, <2>2, <2>3
<1>10. ASSUME NEW x \in PastDeadline PROVE x \in ToSet(recent')
  <2>1. PICK i \in 1..n : q[i] = x
    BY <1>2
  <2> DEFINE j == Len(recent) + i - start + 1
  <2>2. j \in 1..Len(recent') /\ start + j - 1 = Len(recent) + i
    BY <1>1, <1>3, <1>6, <1>7
  <2> HIDE DEF j
  <2>3. recent'[j] = x
    BY <1>4, <1>7, <2>1, <2>2
  <2> QED BY <1>7, <2>2, <2>3 DEF ToSet
<1>11. ToSet(recent') \subseteq ToSet(recent) \cup PastDeadline
  BY <1>7, <1>9 DEF ToSet
<1>12. ASSUME PastDeadline = {} PROVE ToSet(recent) \subseteq ToSet(recent')
  <2>1. n = 0 /\ start = 1
    BY <1>6, <1>12, FS_EmptySet DEF n
  <2>2. Len(recent') = Len(recent) /\ \A i \in 1..Len(recent) : recent'[i] = recent[i]
    BY <1>3, <1>4, <1>7, <2>1
  <2> QED BY <1>3, <1>7, <2>2 DEF ToSet
<1> QED BY <1>7, <1>8, <1>10, <1>11, <1>12

-----------------------------------------------------------------------------
(* A call that prunes the table. *)

\* Whatever the call does besides, streams are followed on.
LEMMA FollowsOn ==
    ASSUME IInv, Ring, PruneRemembers, PastDeadline' = {},
           \A id \in Ids :
              /\ fate[id] \in {"expired", "revoked"} => fate'[id] = fate[id]
              /\ fate[id] # "unborn" => fate'[id] # "unborn"
              /\ fate'[id] = "expired" => fate[id] = "expired" \/ id \in PastDeadline,
           NEW k, k.pc # "idle" => k.owner \in Ids, Follows(k)
    PROVE  Follows(k)'
<1>1. /\ PastDeadline \subseteq ToSet(recent')
      /\ PastDeadline = {} => ToSet(recent') = ToSet(recent)
  BY RingTurns
<1> SUFFICES ASSUME k.pc # "idle"
             PROVE  /\ fate'[k.owner] # "unborn"
                    /\ fate'[k.owner] = "expired" => k.owner \in ToSet(recent') /\ ~k.looked
                    /\ k.ended = "logged_out" => fate'[k.owner] = "revoked"
  BY DEF Follows
<1>2. fate'[k.owner] # "unborn" /\ (k.ended = "logged_out" => fate'[k.owner] = "revoked")
  BY DEF Follows
<1>3. ASSUME fate'[k.owner] = "expired" PROVE k.owner \in ToSet(recent') /\ ~k.looked
  <2>1. CASE fate[k.owner] = "expired"
    BY <1>1, <2>1 DEF Follows
  <2>2. CASE k.owner \in PastDeadline
    BY <1>1, <2>2 DEF Follows
  <2> QED BY <1>3, <2>1, <2>2
<1> QED BY <1>2, <1>3

\* Nothing in the table is past its deadline when each entry was there before and not past
\* it, or is new.
LEMMA NoneIsPast ==
    ASSUME IInv, Ring,
           \A id \in DOMAIN table' :
              /\ table'[id].kind \in Kinds
              /\ \/ /\ id \in Current /\ table'[id].kind = table[id].kind
                    /\ table'[id].age = table[id].age /\ table'[id].unused \in {0, table[id].unused}
                 \/ table'[id].age = 0 /\ table'[id].unused = 0
    PROVE  PastDeadline' = {}
<1>1. ASSUME NEW id \in DOMAIN table',
             table'[id].unused >= Idle[table'[id].kind] \/ table'[id].age >= Absolute[table'[id].kind]
      PROVE  FALSE
  <2>1. Idle[table'[id].kind] \in Nat \ {0} /\ Absolute[table'[id].kind] \in Nat \ {0}
    BY PolicyAssumption
  <2>2. CASE table'[id].age = 0 /\ table'[id].unused = 0
    BY <1>1, <2>1, <2>2
  <2>3. CASE /\ id \in Current /\ table'[id].kind = table[id].kind
             /\ table'[id].age = table[id].age /\ table'[id].unused \in {0, table[id].unused}
    BY <1>1, <2>1, <2>3 DEF Current, PastDeadline
  <2> QED BY <2>2, <2>3
<1> QED BY <1>1 DEF PastDeadline

\* The calls that only use or remove sessions.
LEMMA PruneKeepsRing ==
    ASSUME IInv, Ring, PruneRemembers,
           NEW revoked \in SUBSET Current, fate' = Fates(revoked),
           hooks' \subseteq hooks \cup {revoked},
           DOMAIN table' = Current \ revoked,
           \A id \in DOMAIN table' :
              /\ DOMAIN table'[id] = EntryFields /\ table'[id].kind = table[id].kind
              /\ table'[id].age = table[id].age /\ table'[id].unused \in {0, table[id].unused}
    PROVE  /\ Ring' /\ PastDeadline' = {}
           /\ \A k : (k.pc # "idle" => k.owner \in Ids) /\ Follows(k) => Follows(k)'
<1>1. /\ recent' \in Seq(Ids) /\ Len(recent') <= RingSize
      /\ ToSet(recent') \subseteq ToSet(recent) \cup PastDeadline
  BY RingTurns
<1>2. /\ DOMAIN table \subseteq Ids /\ PastDeadline \subseteq DOMAIN table
      /\ Current = DOMAIN table \ PastDeadline
      /\ \A id \in DOMAIN table : fate[id] = "live"
  BY DEF IInv, Sessions, Current, PastDeadline
<1>3. \A id \in Ids : fate'[id] = IF id \in revoked THEN "revoked"
                                  ELSE IF id \in PastDeadline THEN "expired" ELSE fate[id]
  BY DEF Fates
<1>4. fate' \in [Ids -> Fortunes] /\ \A id \in Ids : fate'[id] = "live" <=> id \in DOMAIN table'
  <2>1. \A id \in Ids : fate[id] \in Fortunes /\ (fate[id] = "live" <=> id \in DOMAIN table)
    BY DEF Ring
  <2>2. DOMAIN fate' = Ids /\ fate' = [id \in Ids |-> fate'[id]]
    BY DEF Fates
  <2>3. \A id \in Ids : fate'[id] \in Fortunes
    BY <1>3, <2>1 DEF Fortunes
  <2> QED BY <1>2, <1>3, <2>1, <2>2, <2>3
<1>5. /\ \A id \in Ids : fate'[id] = "unborn" <=> fate[id] = "unborn"
      /\ \A id \in Ids : fate[id] \in {"expired", "revoked"} => fate'[id] = fate[id]
  BY <1>2, <1>3
<1>6. \A i, j \in Ids : i <= j /\ fate'[j] # "unborn" => fate'[i] # "unborn"
  BY <1>5 DEF Ring
<1>7. \A id \in ToSet(recent') : fate'[id] = "expired"
  <2>1. ToSet(recent) \subseteq Ids /\ \A id \in ToSet(recent) : fate[id] = "expired"
    BY DEF Ring, ToSet
  <2> QED BY <1>1, <1>2, <1>3, <1>5, <2>1
<1>8. \A ids \in hooks' : \A id \in ids : id \in Ids /\ fate'[id] = "revoked"
  <2>1. \A id \in revoked : id \in Ids /\ fate'[id] = "revoked"
    BY <1>2, <1>3
  <2> QED BY <1>5, <2>1 DEF Ring
<1>9. \A id \in DOMAIN table' : /\ DOMAIN table'[id] = EntryFields /\ table'[id].kind \in Kinds
                                /\ table'[id].age \in Nat /\ table'[id].unused \in Nat
  BY <1>2 DEF Ring
<1>10. ASSUME NEW kind \in Kinds PROVE Cardinality(OfKind(kind)') <= Cap[kind]
  <2>1. OfKind(kind)' \subseteq OfKind(kind) /\ OfKind(kind) \in SUBSET Ids
    BY <1>2 DEF OfKind
  <2>2. /\ Cardinality(OfKind(kind)') <= Cardinality(OfKind(kind))
        /\ Cardinality(OfKind(kind)') \in Nat /\ Cardinality(OfKind(kind)) \in Nat
    BY <2>1, IdsFinite, FS_Subset
  <2>3. Cap[kind] \in Nat /\ Cardinality(OfKind(kind)) <= Cap[kind]
    BY PolicyAssumption DEF Ring
  <2> QED BY <2>2, <2>3
<1>11. Ring'
  BY <1>1, <1>4, <1>6, <1>7, <1>8, <1>9, <1>10 DEF Ring, RingSize
<1>12. PastDeadline' = {}
  BY <1>2, <1>9, NoneIsPast
<1>13. \A id \in Ids :
          /\ fate[id] \in {"expired", "revoked"} => fate'[id] = fate[id]
          /\ fate[id] # "unborn" => fate'[id] # "unborn"
          /\ fate'[id] = "expired" => fate[id] = "expired" \/ id \in PastDeadline
  BY <1>3, <1>5
<1> QED BY <1>11, <1>12, <1>13, FollowsOn

-----------------------------------------------------------------------------
(* The steps follow every stream. *)

\* A look at a session.
LEMMA LookFollowed ==
    ASSUME ByeInv, NEW id, Used(id), PruneRemembers, fate' = Fates({}), UNCHANGED hooks
    PROVE  /\ Ring' /\ PastDeadline' = {}
           /\ \A k : (k.pc # "idle" => k.owner \in Ids) /\ Follows(k) => Follows(k)'
<1>1. DOMAIN table' = Current /\ Current \subseteq DOMAIN table
  BY DEF Used, Current
<1>2. ASSUME NEW i \in DOMAIN table'
      PROVE  /\ DOMAIN table'[i] = EntryFields /\ table'[i].kind = table[i].kind
             /\ table'[i].age = table[i].age /\ table'[i].unused \in {0, table[i].unused}
  <2>1. DOMAIN table[i] = EntryFields
    BY <1>1 DEF ByeInv, Ring
  <2>2. table'[i] = IF i = id THEN [table[i] EXCEPT !.unused = 0] ELSE table[i]
    BY <1>1 DEF Used
  <2> QED BY <2>1, <2>2 DEF EntryFields
<1> QED BY <1>1, <1>2, PruneKeepsRing DEF ByeInv

\* The connections that a step leaves alone.
LEMMA OthersFollowed ==
    ASSUME ByeInv, \A k : (k.pc # "idle" => k.owner \in Ids) /\ Follows(k) => Follows(k)'
    PROVE  \A c \in Conns : conn'[c] = conn[c] => Follows(conn[c])'
<1> SUFFICES ASSUME NEW c \in Conns, conn'[c] = conn[c]
             PROVE  Follows(conn[c])'
  OBVIOUS
<1>1. PICK k : k = conn[c]
  OBVIOUS
<1>2. (k.pc # "idle" => k.owner \in Ids) /\ Follows(k)
  BY <1>1 DEF ByeInv, IInv, Sessions, Followed
<1>3. Follows(k)'
  BY <1>2
<1> QED BY <1>1, <1>3 DEF Follows

LEMMA AuthenticateFollowed ==
    ASSUME ByeInv, NEW id \in Ids, Authenticate(id)
    PROVE  Ring' /\ Followed'
<1>1. UNCHANGED conn
  BY DEF Authenticate, hub
<1>2. Ring' /\ \A c \in Conns : Follows(conn[c])'
  BY <1>1, LookFollowed, OthersFollowed DEF Authenticate
<1> QED BY <1>2 DEF Followed

LEMMA LogoutFollowed ==
    ASSUME ByeInv, NEW id \in Ids, Logout(id)
    PROVE  Ring' /\ Followed'
<1> DEFINE revoked == {id} \cap Current
<1>1. /\ PruneRemembers /\ fate' = Fates(revoked) /\ UNCHANGED conn
      /\ hooks' \subseteq hooks \cup {revoked} /\ DOMAIN table' = Current \ revoked
      /\ \A i \in DOMAIN table' : i \in DOMAIN table /\ table'[i] = table[i]
  BY DEF Logout, Revoking, hub, Current
<1>2. \A i \in DOMAIN table' :
        /\ DOMAIN table'[i] = EntryFields /\ table'[i].kind = table[i].kind
        /\ table'[i].age = table[i].age /\ table'[i].unused \in {0, table[i].unused}
  BY <1>1 DEF ByeInv, Ring
<1>3. revoked \in SUBSET Current
  OBVIOUS
<1> HIDE DEF revoked
<1>4. Ring' /\ \A k : (k.pc # "idle" => k.owner \in Ids) /\ Follows(k) => Follows(k)'
  BY <1>1, <1>2, <1>3, PruneKeepsRing DEF ByeInv
<1>5. \A c \in Conns : Follows(conn[c])'
  BY <1>1, <1>4, OthersFollowed
<1> QED BY <1>4, <1>5 DEF Followed

\* Ids are given out in order.
LEMMA NextIdUnborn ==
    ASSUME IInv, Ring, NextId \in Ids
    PROVE  /\ fate[NextId] = "unborn"
           /\ \A id \in Ids : id < NextId => fate[id] # "unborn"
<1> DEFINE born == {id \in Ids : fate[id] # "unborn"}
           n == Cardinality(born)
<1>1. MaxLogins \in Nat /\ Ids = 1 .. MaxLogins
  BY PolicyAssumption DEF Ids
<1>2. born \in SUBSET Ids /\ \A i, j \in Ids : i <= j /\ j \in born => i \in born
  BY DEF Ring
<1>3. IsFiniteSet(born) /\ n \in Nat /\ NextId = 1 + n
  BY <1>2, IdsFinite DEF NextId
<1>4. \A id \in Ids : id \in born <=> fate[id] # "unborn"
  OBVIOUS
<1> HIDE DEF born
<1>5. NextId \notin born
  <2> SUFFICES ASSUME NextId \in born PROVE FALSE
    OBVIOUS
  <2>1. 1 .. n + 1 \in SUBSET born
    BY <1>1, <1>2, <1>3
  <2>2. Cardinality(1 .. n + 1) = n + 1
    BY <1>3, FS_Interval
  <2>3. Cardinality(1 .. n + 1) <= n
    BY <1>3, <2>1, FS_Subset
  <2> QED BY <1>3, <2>2, <2>3
<1>6. ASSUME NEW id \in Ids, id < NextId, id \notin born
      PROVE  FALSE
  <2>1. born \in SUBSET (1 .. id - 1)
    BY <1>1, <1>2, <1>6
  <2>2. IsFiniteSet(1 .. id - 1) /\ Cardinality(1 .. id - 1) = id - 1
    BY <1>1, FS_Interval
  <2>3. n <= id - 1
    BY <2>1, <2>2, FS_Subset
  <2> QED BY <1>1, <1>3, <1>6, <2>3
<1> QED BY <1>4, <1>5, <1>6

LEMMA LoginFollowed ==
    ASSUME ByeInv, NEW kind \in Kinds, NEW presented \in SUBSET DOMAIN table, Login(kind, presented)
    PROVE  Ring' /\ Followed'
<1> DEFINE rotated == IF kind = "browser" THEN {id \in presented \cap Current : table[id].kind = kind}
                      ELSE {}
           rest == Current \ rotated
           same == {id \in rest : table[id].kind = kind}
<1>1. PICK evicted \in (IF AtCap(same, kind) THEN {{id} : id \in LeastRecentlyUsed(same)} ELSE {{}}) :
        /\ table' = [id \in (rest \ evicted) \cup {NextId} |->
                       IF id = NextId THEN [kind |-> kind, age |-> 0, unused |-> 0] ELSE table[id]]
        /\ fate' = [Fates(rotated \cup evicted) EXCEPT ![NextId] = "live"]
        /\ Revoking(rotated \cup evicted)
  BY DEF Login
<1>2. NextId \in Ids /\ UNCHANGED conn /\ PruneRemembers
  BY DEF Login, hub
<1>3. /\ evicted \subseteq same
      /\ AtCap(same, kind) => \E e \in same : evicted = {e}
  BY DEF LeastRecentlyUsed
<1>4. /\ same \subseteq rest /\ rest \subseteq Current /\ rotated \subseteq Current
      /\ Current = DOMAIN table \ PastDeadline /\ PastDeadline \subseteq DOMAIN table
      /\ DOMAIN table \subseteq Ids /\ same \subseteq OfKind(kind)
      /\ \A id \in DOMAIN table : fate[id] = "live"
  BY DEF Current, ByeInv, IInv, Sessions, PastDeadline, OfKind
<1>5. /\ fate[NextId] = "unborn" /\ NextId \notin DOMAIN table
      /\ \A id \in Ids : id < NextId => fate[id] # "unborn"
  BY <1>2, <1>4, NextIdUnborn DEF ByeInv
<1> DEFINE revoked == rotated \cup evicted
<1>6. /\ revoked \subseteq Current /\ NextId \notin revoked
      /\ DOMAIN table' = (Current \ revoked) \cup {NextId}
  BY <1>1, <1>3, <1>4, <1>5
<1>7. /\ table'[NextId] = [kind |-> kind, age |-> 0, unused |-> 0]
      /\ \A id \in Current \ revoked : table'[id] = table[id] /\ id # NextId
  BY <1>1, <1>4, <1>5
<1>8. {id \in Current \ revoked : table[id].kind = kind} = same \ evicted
  BY <1>3, <1>4
<1>9. DOMAIN fate' = Ids /\ fate' = [id \in Ids |-> fate'[id]] /\ hooks' \subseteq hooks \cup {revoked}
  BY <1>1 DEF Fates, Revoking
<1>10. \A id \in Ids : fate'[id] = IF id = NextId THEN "live" ELSE IF id \in revoked THEN "revoked"
                                   ELSE IF id \in PastDeadline THEN "expired" ELSE fate[id]
  BY <1>1, <1>2 DEF Fates
<1> HIDE DEF rotated, rest, same, revoked
<1>11. /\ recent' \in Seq(Ids) /\ Len(recent') <= RingSize
       /\ ToSet(recent') \subseteq ToSet(recent) \cup PastDeadline
  BY <1>2, RingTurns DEF ByeInv
<1>12. fate' \in [Ids -> Fortunes] /\ \A id \in Ids : fate'[id] = "live" <=> id \in DOMAIN table'
  <2>1. \A id \in Ids : fate[id] \in Fortunes /\ (fate[id] = "live" <=> id \in DOMAIN table)
    BY DEF ByeInv, Ring
  <2>2. \A id \in Ids : fate'[id] \in Fortunes
    BY <1>10, <2>1 DEF Fortunes
  <2> QED BY <1>4, <1>6, <1>9, <1>10, <2>1, <2>2
<1>13. /\ \A id \in Ids : fate'[id] = "unborn" <=> fate[id] = "unborn" /\ id # NextId
       /\ \A id \in Ids : fate[id] \in {"expired", "revoked"} => fate'[id] = fate[id]
       /\ \A id \in Ids : fate'[id] = "expired" => fate[id] = "expired" \/ id \in PastDeadline
  BY <1>4, <1>5, <1>6, <1>10
<1>14. \A i, j \in Ids : i <= j /\ fate'[j] # "unborn" => fate'[i] # "unborn"
  <2> SUFFICES ASSUME NEW i \in Ids, NEW j \in Ids, i <= j, fate'[j] # "unborn", fate'[i] = "unborn"
               PROVE  FALSE
    OBVIOUS
  <2>1. MaxLogins \in Nat
    BY PolicyAssumption
  <2>2. i \in Int /\ j \in Int /\ NextId \in Int
    BY <1>2, <2>1 DEF Ids
  <2>3. fate[i] = "unborn" /\ i # NextId
    BY <1>13
  <2>4. fate[j] = "unborn"
    BY <2>3 DEF ByeInv, Ring
  <2>5. j = NextId
    BY <1>13, <2>4
  <2> QED BY <1>5, <2>2, <2>3, <2>5
<1>15. \A id \in ToSet(recent') : fate'[id] = "expired"
  <2>1. ToSet(recent) \subseteq Ids /\ \A id \in ToSet(recent) : fate[id] = "expired"
    BY DEF ByeInv, Ring, ToSet
  <2> QED BY <1>4, <1>5, <1>6, <1>10, <1>11, <1>13, <2>1
<1>16. \A ids \in hooks' : \A id \in ids : id \in Ids /\ fate'[id] = "revoked"
  <2>1. \A id \in revoked : id \in Ids /\ fate'[id] = "revoked"
    BY <1>4, <1>6, <1>10
  <2> QED BY <1>9, <1>13, <2>1 DEF ByeInv, Ring
<1>17. \A id \in DOMAIN table' :
          /\ DOMAIN table'[id] = EntryFields /\ table'[id].kind \in Kinds
          /\ table'[id].age \in Nat /\ table'[id].unused \in Nat
          /\ \/ /\ id \in Current /\ table'[id].kind = table[id].kind
                /\ table'[id].age = table[id].age /\ table'[id].unused \in {0, table[id].unused}
             \/ table'[id].age = 0 /\ table'[id].unused = 0
  <2>1. /\ DOMAIN table'[NextId] = EntryFields /\ table'[NextId].kind = kind
        /\ table'[NextId].age = 0 /\ table'[NextId].unused = 0
    BY <1>7 DEF EntryFields
  <2>2. ASSUME NEW id \in Current \ revoked
        PROVE  /\ DOMAIN table'[id] = EntryFields /\ table'[id].kind \in Kinds
               /\ table'[id].age \in Nat /\ table'[id].unused \in Nat /\ table'[id] = table[id]
    BY <1>4, <1>7 DEF ByeInv, Ring
  <2> QED BY <1>6, <2>1, <2>2
<1>18. ASSUME NEW k \in Kinds PROVE Cardinality(OfKind(k)') <= Cap[k]
  <2>1. OfKind(k) \in SUBSET Ids /\ Cardinality(OfKind(k)) <= Cap[k] /\ Cap[k] \in Nat \ {0}
    BY <1>4, PolicyAssumption DEF OfKind, ByeInv, Ring
  <2>2. IsFiniteSet(OfKind(k)) /\ Cardinality(OfKind(k)) \in Nat
    BY <2>1, IdsFinite
  <2>3. CASE k # kind
    <3>1. OfKind(k)' \subseteq OfKind(k)
      BY <1>4, <1>6, <1>7, <2>3 DEF OfKind
    <3> QED BY <2>1, <2>2, <3>1, FS_Subset, FS_CardinalityType
  <2>4. CASE k = kind
    <3> DEFINE left == same \ evicted
    <3>1. OfKind(k)' = left \cup {NextId} /\ NextId \notin left
      BY <1>3, <1>4, <1>5, <1>6, <1>7, <1>8, <2>4 DEF OfKind
    <3>2. /\ IsFiniteSet(same) /\ Cardinality(same) \in Nat /\ Cardinality(same) <= Cap[k]
          /\ IsFiniteSet(left) /\ Cardinality(left) \in Nat /\ Cardinality(left) <= Cardinality(same)
      BY <1>4, <2>1, <2>2, <2>4, FS_Subset, FS_CardinalityType
    <3>3. Cardinality(left) <= Cap[k] - 1
      <4>1. CASE AtCap(same, kind)
        <5>1. PICK e \in same : evicted = {e}
          BY <1>3, <4>1
        <5>2. Cardinality(left) = Cardinality(same) - 1
          BY <3>2, <5>1, FS_RemoveElement
        <5> QED BY <2>1, <3>2, <5>2
      <4>2. CASE ~AtCap(same, kind)
        BY <2>1, <2>4, <3>2, <4>2 DEF AtCap
      <4> QED BY <4>1, <4>2
    <3> HIDE DEF left
    <3>4. Cardinality(left \cup {NextId}) = Cardinality(left) + 1
      BY <3>1, <3>2, FS_AddElement
    <3> QED BY <2>1, <3>1, <3>2, <3>3, <3>4
  <2> QED BY <2>3, <2>4
<1>19. Ring'
  BY <1>11, <1>12, <1>14, <1>15, <1>16, <1>17, <1>18 DEF Ring, RingSize
<1>20. PastDeadline' = {}
  BY <1>17, NoneIsPast DEF ByeInv
<1>21. \A k : (k.pc # "idle" => k.owner \in Ids) /\ Follows(k) => Follows(k)'
  BY <1>2, <1>13, <1>20, FollowsOn DEF ByeInv
<1>22. \A c \in Conns : Follows(conn[c])'
  BY <1>2, <1>21, OthersFollowed
<1> QED BY <1>19, <1>22 DEF Followed

LEMMA RunHookFollowed ==
    ASSUME ByeInv, NEW ids \in hooks, RunHook(ids)
    PROVE  Ring' /\ Followed'
<1>1. UNCHANGED <<table, recent, fate>> /\ hooks' \subseteq hooks
  BY DEF RunHook
<1>2. Ring' /\ PastDeadline' = PastDeadline
  BY <1>1 DEF ByeInv, Ring, RingSize, OfKind, PastDeadline
<1>3. \A c \in Conns : /\ DOMAIN conn[c] = ConnFields
                       /\ conn'[c] = IF conn[c].owner \in ids /\ LiveEntry(c)
                                     THEN [conn[c] EXCEPT !.ended = "logged_out"] ELSE conn[c]
  BY DEF RunHook, EndEntries, ByeInv, IInv, Typed
<1>4. \A id \in ids : fate[id] = "revoked"
  BY DEF ByeInv, Ring
<1>5. ASSUME NEW c \in Conns PROVE Follows(conn[c])'
  <2>0. Follows(conn[c]) /\ DOMAIN conn[c] = ConnFields
    BY <1>3 DEF ByeInv, Followed
  <2>1. CASE conn'[c] = conn[c]
    BY <1>1, <1>2, <2>0, <2>1 DEF Follows
  <2>2. CASE conn'[c] = [conn[c] EXCEPT !.ended = "logged_out"] /\ conn[c].owner \in ids
    <3>1. fate[conn[c].owner] = "revoked"
      BY <1>4, <2>2
    <3> QED BY <1>1, <1>2, <2>0, <2>2, <3>1 DEF Follows, ConnFields
  <2> QED BY <1>3, <2>1, <2>2
<1> QED BY <1>2, <1>5 DEF Followed

LEMMA StandbyFollowed ==
    ASSUME ByeInv, Standby
    PROVE  Ring' /\ Followed'
<1>1. UNCHANGED <<table, recent, fate, hooks>>
  BY DEF Standby, auth
<1>2. Ring' /\ PastDeadline' = PastDeadline
  BY <1>1 DEF ByeInv, Ring, RingSize, OfKind, PastDeadline
<1>3. \A c \in Conns : /\ DOMAIN conn[c] = ConnFields
                       /\ conn'[c] = IF LiveEntry(c) THEN [conn[c] EXCEPT !.ended = "standby"] ELSE conn[c]
  BY DEF Standby, EndEntries, ByeInv, IInv, Typed
<1>4. ASSUME NEW c \in Conns PROVE Follows(conn[c])'
  <2>0. Follows(conn[c]) /\ DOMAIN conn[c] = ConnFields
    BY <1>3 DEF ByeInv, Followed
  <2>1. CASE conn'[c] = conn[c]
    BY <1>1, <1>2, <2>0, <2>1 DEF Follows
  <2>2. CASE conn'[c] = [conn[c] EXCEPT !.ended = "standby"]
    BY <1>1, <1>2, <2>0, <2>2 DEF Follows, ConnFields
  <2> QED BY <1>3, <2>1, <2>2
<1> QED BY <1>2, <1>4 DEF Followed

LEMMA AskFollowed ==
    ASSUME ByeInv, NEW c \in Conns, NEW id \in Ids, Ask(c, id)
    PROVE  Ring' /\ Followed'
<1>1. /\ id \in Current /\ Used(id) /\ PruneRemembers /\ fate' = Fates({}) /\ UNCHANGED hooks
      /\ conn' = [conn EXCEPT ![c] = [Idling EXCEPT !.pc = "asked", !.owner = id]]
  BY DEF Ask
<1>2. /\ Ring' /\ PastDeadline' = {}
      /\ \A k : (k.pc # "idle" => k.owner \in Ids) /\ Follows(k) => Follows(k)'
  BY <1>1, LookFollowed
<1>3. fate'[id] = "live"
  BY <1>1, LookKeeps DEF ByeInv
<1>4. /\ conn'[c] = [Idling EXCEPT !.pc = "asked", !.owner = id]
      /\ \A d \in Conns : d # c => conn'[d] = conn[d]
  BY <1>1 DEF ByeInv, IInv, Typed
<1>5. Follows(conn[c])'
  BY <1>2, <1>3, <1>4, NoneAssumption DEF Follows, Idling
<1>6. \A d \in Conns : d # c => Follows(conn[d])'
  BY <1>2, <1>4, OthersFollowed
<1> QED BY <1>2, <1>5, <1>6 DEF Followed

LEMMA DropFollowed ==
    ASSUME ByeInv, NEW c \in Conns, Drop(c)
    PROVE  Ring' /\ Followed'
<1>1. UNCHANGED <<table, recent, fate, hooks>> /\ conn' = [conn EXCEPT ![c] = Idling]
  BY DEF Drop, auth
<1>2. Ring' /\ PastDeadline' = PastDeadline
  BY <1>1 DEF ByeInv, Ring, RingSize, OfKind, PastDeadline
<1>3. conn'[c] = Idling /\ \A d \in Conns : d # c => conn'[d] = conn[d]
  BY <1>1 DEF ByeInv, IInv, Typed
<1>4. Follows(conn[c])'
  BY <1>3, NoneAssumption DEF Follows, Idling
<1>5. \A d \in Conns : d # c => Follows(conn[d])'
  BY <1>1, <1>2, <1>3 DEF ByeInv, Followed, Follows
<1> QED BY <1>2, <1>4, <1>5 DEF Followed

LEMMA SubscribeFollowed ==
    ASSUME ByeInv, NEW c \in Conns, NEW topics \in SUBSET Topics \ {{}}, NEW key \in Keys,
           Subscribe(c, topics, key)
    PROVE  Ring' /\ Followed'
<1>1. UNCHANGED <<table, recent, fate, hooks>> /\ conn[c].pc = "asked"
  BY DEF Subscribe, auth
<1>2. Ring' /\ PastDeadline' = PastDeadline
  BY <1>1 DEF ByeInv, Ring, RingSize, OfKind, PastDeadline
<1>3. \A d \in Conns : DOMAIN conn[d] = ConnFields
  BY DEF ByeInv, IInv, Typed
<1>4. \A d \in Conns :
        \/ conn'[d] = conn[d]
        \/ conn'[d] = Idling
        \/ conn'[d] = [conn[c] EXCEPT !.pc = "queued", !.topics = topics, !.key = key] /\ d = c
        \/ conn'[d] = [conn[d] EXCEPT !.ended = "evicted"]
  <2>1. CASE conn' = [conn EXCEPT ![c] = Idling]
    BY <2>1 DEF ByeInv, IInv, Typed
  <2>2. CASE \E evict \in SUBSET {d \in Conns : LiveEntry(d)} : Queues(c, topics, key, evict)
    BY <2>2 DEF Queues
  <2>3. \/ conn' = [conn EXCEPT ![c] = Idling] /\ UNCHANGED demand
        \/ \E evict \in SUBSET {d \in Conns : LiveEntry(d)} : Queues(c, topics, key, evict)
    BY Subscribes
  <2> QED BY <2>1, <2>2, <2>3
<1>5. ASSUME NEW d \in Conns PROVE Follows(conn[d])'
  <2>0. Follows(conn[d])
    BY DEF ByeInv, Followed
  <2>1. CASE conn'[d] = conn[d]
    BY <1>1, <1>2, <2>0, <2>1 DEF Follows
  <2>2. CASE conn'[d] = Idling
    BY <2>2, NoneAssumption DEF Follows, Idling
  <2>3. CASE conn'[d] = [conn[c] EXCEPT !.pc = "queued", !.topics = topics, !.key = key] /\ d = c
    BY <1>1, <1>2, <1>3, <2>0, <2>3 DEF Follows, ConnFields
  <2>4. CASE conn'[d] = [conn[d] EXCEPT !.ended = "evicted"]
    BY <1>1, <1>2, <1>3, <2>0, <2>4 DEF Follows, ConnFields
  <2> QED BY <1>4, <2>1, <2>2, <2>3, <2>4
<1> QED BY <1>2, <1>5 DEF Followed

\* What a look tells of the session is what became of it.
LEMMA CheckIsTrue ==
    ASSUME ByeInv, NEW c \in Conns, conn[c].pc # "idle", Touch(conn[c].owner)
    PROVE  LET check == SessionCheck(conn[c].owner)
           IN  /\ check = "live" => conn[c].owner \in Current /\ fate[conn[c].owner] = "live"
               /\ check = "expired" => fate'[conn[c].owner] = "expired"
               /\ check = "revoked" => fate'[conn[c].owner] = "revoked"
<1> DEFINE id == conn[c].owner
<1>1. id \in Ids /\ Follows(conn[c])
  BY DEF ByeInv, IInv, Sessions, Followed
<1>2. fate[id] \in Fortunes /\ (fate[id] = "live" <=> id \in DOMAIN table)
  BY <1>1 DEF ByeInv, Ring
<1>3. fate'[id] = IF id \in PastDeadline THEN "expired" ELSE fate[id]
  BY <1>1 DEF Touch, Fates
<1>4. PastDeadline \subseteq DOMAIN table /\ Current = DOMAIN table \ PastDeadline
  BY DEF PastDeadline, Current
<1>5. id \in ToSet(recent) => fate[id] = "expired"
  BY DEF ByeInv, Ring
<1>6. fate[id] # "unborn" /\ (fate[id] = "expired" => id \in ToSet(recent))
  BY DEF ByeInv, Followed, Follows
<1> HIDE DEF id
<1>7. /\ SessionCheck(id) = "live" => id \in Current /\ fate[id] = "live"
      /\ SessionCheck(id) = "expired" => fate'[id] = "expired"
      /\ SessionCheck(id) = "revoked" => fate'[id] = "revoked"
  BY <1>2, <1>3, <1>4, <1>5, <1>6 DEF SessionCheck, Fortunes
<1> QED BY <1>7 DEF id

LEMMA DriverFollowed ==
    ASSUME ByeInv, NEW c \in Conns, Open(c) \/ Wake(c)
    PROVE  Ring' /\ Followed'
<1> DEFINE id == conn[c].owner
           check == SessionCheck(id)
<1>1. conn[c].pc # "idle" /\ Touch(id)
  BY DEF Open, Wake
<1>2. \/ check = "live" /\ Stay(c)
      \/ check = "expired" /\ Finish(c, "token_expired")
      \/ check = "revoked" /\ Finish(c, "logged_out")
      \/ check = "live" /\ Finish(c, conn[c].ended)
      \/ Finish(c, "lifetime") \/ Finish(c, None)
  BY DEF Open, Wake
<1>3. /\ Ring' /\ PastDeadline' = {}
      /\ \A k : (k.pc # "idle" => k.owner \in Ids) /\ Follows(k) => Follows(k)'
  BY <1>1, LookFollowed DEF Touch
<1>4. /\ check = "live" => id \in Current /\ fate[id] = "live"
      /\ check = "expired" => fate'[id] = "expired"
      /\ check = "revoked" => fate'[id] = "revoked"
  BY <1>1, CheckIsTrue
<1>5. Follows(conn[c]) /\ conn[c].owner \in Ids /\ DOMAIN conn[c] = ConnFields /\ DOMAIN conn = Conns
  BY <1>1 DEF ByeInv, IInv, Sessions, Typed, Followed
<1>6. \A d \in Conns : d # c => Follows(conn[d])'
  <2>1. \A d \in Conns : d # c => conn'[d] = conn[d]
    BY <1>2 DEF Stay, Finish, ByeInv, IInv, Typed
  <2> QED BY <1>3, <2>1, OthersFollowed
<1> HIDE DEF check
<1>7. CASE check = "live" /\ Stay(c)
  <2>1. conn'[c] = [conn[c] EXCEPT !.pc = "open", !.looked = TRUE]
    BY <1>5, <1>7 DEF Stay
  <2>2. fate'[id] = "live"
    BY <1>1, <1>4, <1>7, LookKeeps DEF ByeInv, Touch
  <2>3. Follows(conn[c])'
    BY <1>1, <1>3, <1>4, <1>5, <1>7, <2>1, <2>2 DEF Follows, ConnFields
  <2> QED BY <1>3, <1>6, <2>3 DEF Followed
<1>8. ASSUME NEW bye, Finish(c, bye),
             bye = "token_expired" => fate'[id] = "expired",
             bye = "logged_out" => fate'[id] = "revoked"
      PROVE  Ring' /\ Followed'
  <2>1. conn'[c] = [Idling EXCEPT !.misled =
                      \/ bye = "token_expired" /\ fate'[id] # "expired"
                      \/ bye = "logged_out" /\ fate'[id] # "revoked"]
    BY <1>5, <1>8 DEF Finish
  <2>2. conn'[c].pc = "idle" /\ conn'[c].ended = None /\ ~conn'[c].misled
    BY <1>8, <2>1 DEF Idling
  <2>3. Follows(conn[c])'
    BY <2>2 DEF Follows
  <2> QED BY <1>3, <1>6, <2>3 DEF Followed
<1>9. CASE check = "live" /\ Finish(c, conn[c].ended)
  <2>1. conn[c].ended # "token_expired" /\ conn[c].ended # "logged_out"
    BY <1>1, <1>4, <1>5, <1>9, NoneAssumption DEF Follows
  <2> QED BY <1>8, <1>9, <2>1
<1>10. None # "token_expired" /\ None # "logged_out"
  BY NoneAssumption
<1> QED BY <1>2, <1>4, <1>7, <1>8, <1>9, <1>10

LEMMA AdvanceFollowed ==
    ASSUME ByeInv, NEW d \in 1 .. MaxJump, Advance(d)
    PROVE  Ring' /\ Followed'
<1> DEFINE Older(e, field) == IF e[field] + d > Absolute[e.kind] THEN Absolute[e.kind] ELSE e[field] + d
<1>1. /\ DOMAIN table' = DOMAIN table /\ UNCHANGED <<recent, hooks, fate>>
      /\ \A c \in Conns : conn[c].looked
      /\ conn' = [c \in Conns |-> [conn[c] EXCEPT !.looked = @ /\ conn[c].pc = "idle"]]
      /\ \A id \in DOMAIN table :
           table'[id] = [table[id] EXCEPT !.age = Older(table[id], "age"),
                                          !.unused = Older(table[id], "unused")]
  BY DEF Advance
<1>2. ASSUME NEW id \in DOMAIN table
      PROVE  /\ DOMAIN table'[id] = EntryFields /\ table'[id].kind = table[id].kind
             /\ table'[id].age \in Nat /\ table'[id].unused \in Nat
  <2>1. /\ DOMAIN table[id] = EntryFields /\ table[id].kind \in Kinds
        /\ table[id].age \in Nat /\ table[id].unused \in Nat
    BY DEF ByeInv, Ring
  <2>2. MaxJump \in Nat /\ Absolute[table[id].kind] \in Nat
    BY <2>1, PolicyAssumption
  <2>3. Older(table[id], "age") \in Nat /\ Older(table[id], "unused") \in Nat
    BY <2>1, <2>2
  <2> HIDE DEF Older
  <2> QED BY <1>1, <2>1, <2>3 DEF EntryFields
<1>3. \A kind \in Kinds : OfKind(kind)' = OfKind(kind)
  BY <1>1, <1>2 DEF OfKind
<1>4. Ring'
  BY <1>1, <1>2, <1>3 DEF ByeInv, Ring, RingSize
<1>5. ASSUME NEW c \in Conns PROVE Follows(conn[c])'
  <2>1. /\ Follows(conn[c]) /\ conn[c].looked /\ DOMAIN conn[c] = ConnFields
        /\ conn'[c] = [conn[c] EXCEPT !.looked = @ /\ conn[c].pc = "idle"]
    BY <1>1 DEF ByeInv, IInv, Typed, Followed
  <2>2. /\ conn'[c].pc = conn[c].pc /\ conn'[c].owner = conn[c].owner /\ conn'[c].ended = conn[c].ended
        /\ conn'[c].misled = conn[c].misled /\ (conn[c].pc # "idle" => ~conn'[c].looked)
    BY <2>1 DEF ConnFields
  <2> QED BY <1>1, <2>1, <2>2 DEF Follows
<1> QED BY <1>4, <1>5 DEF Followed

\* Every step.
LEMMA NextFollowed ==
    ASSUME ByeInv, [Next]_vars
    PROVE  Ring' /\ Followed'
<1>1. CASE UNCHANGED vars
  BY <1>1 DEF ByeInv, Ring, RingSize, OfKind, PastDeadline, Followed, Follows, vars, auth, hub
<1>2. CASE Next
  BY <1>2, LoginFollowed, AuthenticateFollowed, LogoutFollowed, RunHookFollowed, StandbyFollowed,
     AskFollowed, SubscribeFollowed, DriverFollowed, DropFollowed, AdvanceFollowed DEF Next
<1> QED BY <1>1, <1>2

LEMMA InitFollowed ==
    ASSUME Init
    PROVE  Ring /\ Followed
<1>1. DOMAIN table = {} /\ recent = <<>> /\ hooks = {} /\ fate = [id \in Ids |-> "unborn"]
  BY DEF Init
<1>2. \A kind \in Kinds : OfKind(kind) = {} /\ Cardinality(OfKind(kind)) = 0 /\ Cap[kind] \in Nat
  BY <1>1, FS_EmptySet, PolicyAssumption DEF OfKind
<1>3. RingSize \in Nat
  BY PolicyAssumption DEF RingSize, Kinds
<1>4. recent \in Seq(Ids) /\ Len(recent) = 0 /\ ToSet(recent) = {}
  BY <1>1 DEF ToSet
<1>5. Ring
  BY <1>1, <1>2, <1>3, <1>4 DEF Ring, Fortunes
<1>6. Followed
  BY NoneAssumption DEF Init, Followed, Follows, Idling
<1> QED BY <1>5, <1>6

-----------------------------------------------------------------------------
(* The invariant. *)

LEMMA InitInvariant == Init => IInv
<1> SUFFICES ASSUME Init PROVE IInv
  OBVIOUS
<1>1. \A c \in Conns : conn[c].pc = "idle" /\ DOMAIN conn[c] = ConnFields
  BY DEF Init, Idling, ConnFields
<1>2. Typed
  BY <1>1 DEF Init, Typed
<1>3. \A t \in Topics : Wanting(t) = {}
  BY <1>1 DEF Wanting, LiveEntry, HasEntry
<1>4. DemandIsExact
  BY <1>3, FS_EmptySet DEF Init, DemandIsExact, Wanting
<1>5. DOMAIN table = {}
  BY DEF Init
<1> QED BY <1>1, <1>2, <1>4, <1>5 DEF IInv, Sessions, Demand, RevokedStreamsEnd

LEMMA StepInvariant == IInv /\ [Next]_vars => IInv'
<1> SUFFICES ASSUME IInv, [Next]_vars PROVE IInv'
  OBVIOUS
<1>1. CASE \E kind \in Kinds, presented \in SUBSET DOMAIN table : Login(kind, presented)
  BY <1>1, LoginKeeps
<1>2. CASE \E id \in Ids : Authenticate(id) \/ Logout(id)
  BY <1>2, AuthenticateKeeps, LogoutKeeps
<1>3. CASE (\E ids \in hooks : RunHook(ids)) \/ Standby
  BY <1>3, RunHookKeeps, StandbyKeeps
<1>4. ASSUME NEW c \in Conns,
             \/ \E id \in Ids : Ask(c, id)
             \/ \E topics \in SUBSET Topics \ {{}}, key \in Keys : Subscribe(c, topics, key)
             \/ Open(c) \/ Wake(c) \/ Drop(c)
      PROVE  IInv'
  BY <1>4, AskKeeps, SubscribeKeeps, DriverKeeps, DropKeeps
<1>5. CASE \E d \in 1 .. MaxJump : Advance(d)
  BY <1>5, AdvanceKeeps
<1>6. CASE UNCHANGED vars
  <2>1. UNCHANGED <<table, hooks, fate, conn, demand>>
    BY <1>6 DEF vars, auth, hub
  <2> QED BY <2>1 DEF IInv, Typed, Sessions, Demand, DemandIsExact, RevokedStreamsEnd, LiveEntry, HasEntry
<1> QED BY <1>1, <1>2, <1>3, <1>4, <1>5, <1>6 DEF Next

LEMMA Invariant == Spec => []IInv
BY InitInvariant, StepInvariant, PTL DEF Spec

(* A revoked session keeps no stream: once the hook of the revocation has run, none goes *)
(* on, even one authenticated before and subscribed after it (auth, logout; hub.rs,      *)
(* end_sessions; stream.rs, the first poll).                                             *)
THEOREM RevokedKeepNoStream == Spec => []RevokedStreamsEnd
<1>1. IInv => RevokedStreamsEnd
  BY DEF IInv, Sessions
<1> QED BY Invariant, <1>1, PTL

(* The demand of a topic is the number of live streams that want it, however they are *)
(* evicted, ended, finished or dropped (hub.rs, subscribe, end_entry, Drop).          *)
THEOREM SampledForItsStreams == Spec => []DemandIsExact
<1>1. IInv => DemandIsExact
  BY DEF IInv, Demand
<1> QED BY Invariant, <1>1, PTL

LEMMA ByeInvariant == Spec => []ByeInv
<1>1. Init => ByeInv
  BY InitInvariant, InitFollowed DEF ByeInv
<1>2. ByeInv /\ [Next]_vars => ByeInv'
  <2> SUFFICES ASSUME ByeInv, [Next]_vars PROVE ByeInv'
    OBVIOUS
  <2>1. Ring' /\ Followed'
    BY NextFollowed
  <2>2. IInv'
    BY StepInvariant DEF ByeInv
  <2> QED BY <2>1, <2>2 DEF ByeInv
<1> QED BY <1>1, <1>2, PTL DEF Spec

(* A bye gives the reason the session went: expiry is never told as a logout nor the      *)
(* reverse, whichever call prunes the table and however many ids the ring forgets (auth, *)
(* prune, touch_session; stream.rs, finish).                              *)
THEOREM ByesTellWhy == Spec => []ByeTellsWhy
<1>1. ByeInv => ByeTellsWhy
  BY DEF ByeInv, Followed, Follows, ByeTellsWhy
<1> QED BY ByeInvariant, <1>1, PTL

-----------------------------------------------------------------------------
(* One topic: the inductive invariant. *)

\* The members of a sequence.
TopicElems(s) == {s[i] : i \in DOMAIN s}

Value == Nat \cup {Nothing}
ReadFields == {"pc", "got", "failed", "touched", "overtaken", "before", "floor"}
SlotFields == {"value", "error", "hasRead", "stale", "retry", "floor"}

TopicTyped ==
    /\ source \in Nat /\ announced \in Nat
    /\ DOMAIN notifier = Notifiers
    /\ \A n \in Notifiers : DOMAIN notifier[n] = {"queue", "invalidated"} /\ notifier[n].queue \in Seq(Nat)
    /\ cache \in Value
    /\ DOMAIN gate = {"by", "valid", "got"} /\ gate.by \in Readers \cup {Nothing} /\ gate.got \in Value
    /\ DOMAIN read = Readers
    /\ \A r \in Readers : DOMAIN read[r] = ReadFields /\ read[r].got \in Value /\ read[r].floor \in Nat
    /\ DOMAIN slot = SlotFields /\ slot.value \in Value /\ slot.floor \in Nat

\* What is known of the source came from it.
Bounded ==
    /\ announced <= source
    /\ \A n \in Notifiers : \A v \in TopicElems(notifier[n].queue) : v <= source
    /\ cache # Nothing => cache <= source
    /\ gate.got # Nothing => gate.got <= source
    /\ \A r \in Readers : read[r].got # Nothing => read[r].got <= source
    /\ slot.value # Nothing => slot.value <= source

\* Cached and fetched answers are not older than what was announced when it counts.
Fresh ==
    /\ cache # Nothing => cache >= announced
    /\ gate.got # Nothing => gate.by # Nothing
    /\ gate.by # Nothing => read[gate.by].pc = "fetching"
    /\ gate.got # Nothing => gate.got >= read[gate.by].floor
    /\ gate.got # Nothing /\ gate.valid => gate.got >= announced
    /\ \A r \in Readers :
         /\ read[r].floor <= announced
         /\ read[r].got # Nothing => read[r].got >= read[r].floor
         /\ read[r].pc = "done" => read[r].got # Nothing \/ read[r].failed

Flying(r) == read[r].pc # "idle"

\* Reads in the order they started, as far as the slot has to know it.
Ordered ==
    /\ slot.floor <= announced
    /\ slot.value # Nothing => slot.value >= slot.floor
    /\ \A r \in Readers : Flying(r) /\ ~read[r].overtaken => slot.floor <= read[r].floor
    /\ \A q, r \in Readers :
         Flying(q) /\ Flying(r) /\ q # r => q \in read[r].before \/ read[r].floor <= read[q].floor

\* A change whose touch is still to come.
Pending(v) == \E n \in Notifiers : v \in TopicElems(notifier[n].queue)

\* The changes whose touch has come.  They are known to the cache, to a read that no touch
\* reached, and to a slot that is not due.
Past == {v \in 1 .. source : ~Pending(v)}

Settling ==
    /\ \A n \in Notifiers : notifier[n].invalidated =>
         notifier[n].queue # <<>> /\ Head(notifier[n].queue) <= announced
    /\ \A v \in Past : v <= announced
    /\ \A r \in Readers : Flying(r) /\ ~read[r].touched => \A v \in Past : v <= read[r].floor
    /\ \A r \in Readers : Flying(r) /\ read[r].touched /\ ~read[r].overtaken => slot.stale
    /\ \A q, r \in Readers :
         Flying(q) /\ Flying(r) /\ read[q].touched /\ ~read[r].touched => q \in read[r].before
    /\ ~Due => slot.value # Nothing /\ \A v \in Past : v <= slot.value

TopicIInv == TopicTyped /\ Bounded /\ Fresh /\ Ordered /\ Settling

-----------------------------------------------------------------------------
(* Sequences and records. *)

LEMMA AppendElems ==
    ASSUME NEW s \in Seq(Nat), NEW x \in Nat
    PROVE  /\ Append(s, x) \in Seq(Nat) /\ Append(s, x) # <<>>
           /\ TopicElems(Append(s, x)) = TopicElems(s) \cup {x}
           /\ s # <<>> => Head(Append(s, x)) = Head(s)
<1>1. /\ DOMAIN Append(s, x) = DOMAIN s \cup {Len(s) + 1}
      /\ \A i \in DOMAIN s : Append(s, x)[i] = s[i]
      /\ Append(s, x)[Len(s) + 1] = x
  OBVIOUS
<1>2. TopicElems(Append(s, x)) = TopicElems(s) \cup {x}
  BY <1>1 DEF TopicElems
<1>3. s # <<>> => 1 \in DOMAIN s
  OBVIOUS
<1> QED BY <1>1, <1>2, <1>3

LEMMA TailElems ==
    ASSUME NEW s \in Seq(Nat), s # <<>>
    PROVE  /\ Tail(s) \in Seq(Nat) /\ Head(s) \in TopicElems(s)
           /\ TopicElems(Tail(s)) \subseteq TopicElems(s)
           /\ TopicElems(s) \subseteq TopicElems(Tail(s)) \cup {Head(s)}
<1>1. /\ Len(s) \in Nat \ {0} /\ DOMAIN s = 1 .. Len(s) /\ Head(s) = s[1]
      /\ Tail(s) \in Seq(Nat) /\ Len(Tail(s)) = Len(s) - 1 /\ DOMAIN Tail(s) = 1 .. Len(s) - 1
  OBVIOUS
<1>2. \A i \in 1 .. Len(s) - 1 : Tail(s)[i] = s[i + 1]
  OBVIOUS
<1>3. TopicElems(Tail(s)) \subseteq TopicElems(s)
  BY <1>1, <1>2 DEF TopicElems
<1>4. \A i \in 2 .. Len(s) : i - 1 \in DOMAIN Tail(s) /\ Tail(s)[i - 1] = s[i]
  BY <1>1, <1>2
<1>5. TopicElems(s) \subseteq TopicElems(Tail(s)) \cup {Head(s)}
  <2> SUFFICES ASSUME NEW i \in DOMAIN s, i # 1
               PROVE  s[i] \in TopicElems(Tail(s))
    BY <1>1 DEF TopicElems
  <2>1. i \in 2 .. Len(s)
    BY <1>1
  <2>2. i - 1 \in DOMAIN Tail(s) /\ Tail(s)[i - 1] = s[i]
    BY <1>4, <2>1
  <2> QED BY <2>2 DEF TopicElems
<1>6. 1 \in DOMAIN s
  BY <1>1
<1>7. Head(s) \in TopicElems(s)
  BY <1>1, <1>6 DEF TopicElems
<1> QED BY <1>1, <1>3, <1>5, <1>7

-----------------------------------------------------------------------------
(* Announcements. *)

\* A change is pending from the start.
LEMMA ChangeKeeps ==
    ASSUME TopicIInv, NEW n \in Notifiers, Change(n)
    PROVE  TopicIInv'
<1> USE ReaderAssumption, BoundAssumption
<1>0. UNCHANGED <<cache, gate, read, slot, stream, errors, announced>> /\ source' = source + 1
  BY DEF Change
<1>1. TopicTyped'
  BY DEF TopicIInv, TopicTyped, Change
<1>2. /\ \A m \in Notifiers : m # n => notifier'[m] = notifier[m]
      /\ notifier'[n].queue = Append(notifier[n].queue, source + 1)
      /\ notifier'[n].invalidated = notifier[n].invalidated
      /\ notifier[n].queue \in Seq(Nat)
  BY DEF TopicIInv, TopicTyped, Change
<1>3. /\ TopicElems(notifier'[n].queue) = TopicElems(notifier[n].queue) \cup {source'}
      /\ notifier'[n].queue # <<>>
      /\ notifier[n].queue # <<>> => Head(notifier'[n].queue) = Head(notifier[n].queue)
  BY <1>0, <1>2, AppendElems DEF TopicIInv, TopicTyped
<1>4. Past' \subseteq Past
  <2>1. \A v : Pending(v) => Pending(v)'
    BY <1>2, <1>3 DEF Pending
  <2>2. Pending(source)'
    BY <1>3 DEF Pending
  <2> QED BY <1>0, <2>1, <2>2 DEF Past, TopicIInv, TopicTyped
<1>5. Bounded'
  <2>1. \A m \in Notifiers : \A v \in TopicElems(notifier'[m].queue) : v <= source'
    <3>1. source < source'
      BY <1>0 DEF TopicIInv, TopicTyped
    <3> SUFFICES ASSUME NEW m \in Notifiers, NEW v \in TopicElems(notifier'[m].queue), v # source'
                 PROVE  v <= source'
      BY <1>0 DEF TopicIInv, TopicTyped
    <3>2. v \in TopicElems(notifier[m].queue)
      BY <1>2, <1>3
    <3>3. v \in Nat /\ v <= source
      BY <3>2 DEF TopicIInv, TopicTyped, Bounded, TopicElems
    <3> QED BY <1>0, <3>3 DEF TopicIInv, TopicTyped
  <2> QED BY <1>0, <2>1 DEF TopicIInv, TopicTyped, Bounded, Value
<1>6. Fresh' /\ Ordered'
  BY <1>0 DEF TopicIInv, Fresh, Ordered, Flying
<1>8. Settling'
  <2>1. \A m \in Notifiers : notifier'[m].invalidated =>
          notifier'[m].queue # <<>> /\ Head(notifier'[m].queue) <= announced
    BY <1>2, <1>3 DEF TopicIInv, Settling
  <2> QED BY <1>0, <1>4, <2>1 DEF TopicIInv, Settling, Flying, Due
<1> QED BY <1>1, <1>5, <1>6, <1>8 DEF TopicIInv

\* An announcement reaches the cache, and stays pending.
LEMMA InvalidateKeeps ==
    ASSUME TopicIInv, NEW n \in Notifiers, Invalidate(n)
    PROVE  TopicIInv'
<1> USE ReaderAssumption, BoundAssumption
<1>0. UNCHANGED <<source, read, slot, stream, errors>> /\ cache' = Nothing
  BY DEF Invalidate
<1>1. /\ \A m \in Notifiers : notifier'[m].queue = notifier[m].queue
      /\ \A m \in Notifiers : m # n => notifier'[m] = notifier[m]
      /\ notifier'[n].invalidated
      /\ notifier[n].queue # <<>> /\ notifier[n].queue \in Seq(Nat)
  BY DEF TopicIInv, TopicTyped, Invalidate
<1>2. /\ announced <= announced' /\ Head(notifier[n].queue) <= announced'
      /\ announced' \in Nat /\ announced' <= source
  <2>1. Head(notifier[n].queue) \in TopicElems(notifier[n].queue)
    BY <1>1, TailElems
  <2>2. Head(notifier[n].queue) \in Nat /\ Head(notifier[n].queue) <= source
    BY <1>1, <2>1 DEF TopicIInv, Bounded, TopicElems
  <2> QED BY <2>2 DEF TopicIInv, TopicTyped, Bounded, Invalidate, Larger
<1>3. /\ gate'.by = gate.by /\ gate'.got = gate.got /\ ~gate'.valid
      /\ DOMAIN gate' = DOMAIN gate
  BY DEF TopicIInv, TopicTyped, Invalidate
<1>4. TopicTyped'
  BY <1>0, <1>2, <1>3 DEF TopicIInv, TopicTyped, Value, Invalidate
<1>5. Bounded'
  BY <1>0, <1>1, <1>2, <1>3 DEF TopicIInv, Bounded
<1>6. Fresh'
  BY <1>0, <1>2, <1>3 DEF TopicIInv, TopicTyped, Fresh
<1>7. Ordered'
  BY <1>0, <1>2 DEF TopicIInv, TopicTyped, Ordered, Flying
<1>8. Settling'
  <2>1. Past' = Past
    BY <1>0, <1>1 DEF Past, Pending
  <2>3. \A v \in Past : v <= announced'
    BY <1>2 DEF TopicIInv, Settling, TopicTyped, Past
  <2>4. \A m \in Notifiers : notifier'[m].invalidated =>
          notifier'[m].queue # <<>> /\ Head(notifier'[m].queue) <= announced'
    BY <1>1, <1>2 DEF TopicIInv, TopicTyped, Settling
  <2> QED BY <1>0, <2>1, <2>3, <2>4 DEF TopicIInv, Settling, Flying, Due
<1> QED BY <1>4, <1>5, <1>6, <1>7, <1>8 DEF TopicIInv

\* A touch: the change is announced and known to have been, the slot is stale, and so is
\* every read in flight.
LEMMA TouchKeeps ==
    ASSUME TopicIInv, NEW n \in Notifiers, TouchTopic(n)
    PROVE  TopicIInv'
<1> USE ReaderAssumption, BoundAssumption
<1>0. UNCHANGED <<source, cache, gate, stream, errors, announced>>
  BY DEF TouchTopic
<1>1. /\ \A m \in Notifiers : m # n => notifier'[m] = notifier[m]
      /\ notifier'[n].queue = Tail(notifier[n].queue) /\ ~notifier'[n].invalidated
      /\ notifier[n].queue # <<>> /\ notifier[n].queue \in Seq(Nat)
      /\ Head(notifier[n].queue) <= announced
  BY DEF TopicIInv, TopicTyped, TouchTopic, Settling
<1>2. /\ notifier'[n].queue \in Seq(Nat)
      /\ TopicElems(notifier'[n].queue) \subseteq TopicElems(notifier[n].queue)
      /\ TopicElems(notifier[n].queue) \subseteq TopicElems(notifier'[n].queue) \cup {Head(notifier[n].queue)}
  BY <1>1, TailElems
<1>3. \A r \in Readers : /\ read'[r].pc = read[r].pc /\ read'[r].got = read[r].got
                         /\ read'[r].failed = read[r].failed /\ read'[r].overtaken = read[r].overtaken
                         /\ read'[r].before = read[r].before /\ read'[r].floor = read[r].floor
                         /\ (read'[r].touched <=> Flying(r))
                         /\ DOMAIN read'[r] = ReadFields
  BY DEF TopicIInv, TopicTyped, ReadFields, TouchTopic, Flying
<1>4. /\ slot'.value = slot.value /\ slot'.floor = slot.floor /\ slot'.stale /\ DOMAIN slot' = SlotFields
      /\ DOMAIN read' = Readers /\ DOMAIN notifier' = Notifiers
      /\ DOMAIN notifier'[n] = {"queue", "invalidated"}
  BY DEF TopicIInv, TopicTyped, SlotFields, TouchTopic
<1>5. TopicTyped'
  BY <1>0, <1>1, <1>2, <1>3, <1>4 DEF TopicIInv, TopicTyped
<1>6. Bounded'
  <2>1. \A m \in Notifiers : \A v \in TopicElems(notifier'[m].queue) : v <= source
    BY <1>1, <1>2 DEF TopicIInv, Bounded
  <2> QED BY <1>0, <1>3, <1>4, <2>1 DEF TopicIInv, TopicTyped, Bounded
<1>7. Fresh'
  BY <1>0, <1>3 DEF TopicIInv, TopicTyped, Fresh
<1>8. Ordered'
  BY <1>0, <1>3, <1>4 DEF TopicIInv, TopicTyped, Ordered, Flying
<1>9. Settling'
  <2>1. \A v : Pending(v) => Pending(v)' \/ v = Head(notifier[n].queue)
    BY <1>1, <1>2 DEF Pending
  <2>2. \A v \in Past' : v <= announced
    BY <1>0, <1>1, <2>1 DEF Past, TopicIInv, Settling
  <2>3. \A m \in Notifiers : notifier'[m].invalidated =>
          notifier'[m].queue # <<>> /\ Head(notifier'[m].queue) <= announced
    BY <1>1 DEF TopicIInv, Settling
  <2>4. Due'
    BY <1>4 DEF Due
  <2> QED BY <1>0, <1>3, <1>4, <2>2, <2>3, <2>4 DEF Settling, Flying
<1> QED BY <1>5, <1>6, <1>7, <1>8, <1>9 DEF TopicIInv

-----------------------------------------------------------------------------
(* Reads. *)

\* A read that starts knows what was announced, and comes after those in flight.
LEMMA StartKeeps ==
    ASSUME TopicIInv, NEW r \in Readers, Start(r)
    PROVE  TopicIInv'
<1> USE ReaderAssumption, BoundAssumption
<1>0. UNCHANGED <<source, notifier, cache, gate, slot, stream, errors, announced>> /\ read[r].pc = "idle"
  BY DEF Start
<1>1. /\ read'[r] = [pc |-> "lookup", got |-> Nothing, failed |-> FALSE, touched |-> FALSE,
                     overtaken |-> FALSE, before |-> InFlight, floor |-> announced]
      /\ read' = [q \in Readers |-> IF q = r THEN read'[r] ELSE [read[q] EXCEPT !.before = @ \ {r}]]
  BY DEF Start, NoRead
<1>2. \A q \in Readers : q # r =>
        /\ read'[q].pc = read[q].pc /\ read'[q].got = read[q].got /\ read'[q].failed = read[q].failed
        /\ read'[q].touched = read[q].touched /\ read'[q].overtaken = read[q].overtaken
        /\ read'[q].before = read[q].before \ {r} /\ read'[q].floor = read[q].floor
        /\ DOMAIN read'[q] = ReadFields
  BY <1>1 DEF TopicIInv, TopicTyped, ReadFields
<1>3. TopicTyped'
  <2>1. DOMAIN read' = Readers
    BY DEF Start
  <2>2. DOMAIN read'[r] = ReadFields
    BY <1>1 DEF ReadFields
  <2>3. read'[r].got = Nothing /\ read'[r].floor = announced
    BY <1>1
  <2>4. \A q \in Readers : DOMAIN read'[q] = ReadFields /\ read'[q].got \in Value /\ read'[q].floor \in Nat
    BY <1>2, <2>2, <2>3 DEF TopicIInv, TopicTyped, Value
  <2> QED BY <1>0, <2>1, <2>4 DEF TopicIInv, TopicTyped
<1>4. Bounded'
  BY <1>0, <1>1, <1>2 DEF TopicIInv, Bounded
<1>5. Fresh'
  BY <1>0, <1>1, <1>2 DEF TopicIInv, TopicTyped, Fresh
<1>6. Ordered'
  <2>1. \A q \in Readers : Flying(q)' /\ ~read'[q].overtaken => slot.floor <= read'[q].floor
    BY <1>0, <1>1, <1>2 DEF TopicIInv, Ordered, Flying
  <2>2. \A p, q \in Readers :
          Flying(p)' /\ Flying(q)' /\ p # q => p \in read'[q].before \/ read'[q].floor <= read'[p].floor
    BY <1>0, <1>1, <1>2 DEF TopicIInv, Ordered, Flying, InFlight, Fresh
  <2> QED BY <1>0, <2>1, <2>2 DEF TopicIInv, Ordered
<1>7. Settling'
  <2>1. Past' = Past
    BY <1>0 DEF Past, Pending
  <2>2. \A q \in Readers : Flying(q)' /\ ~read'[q].touched => \A v \in Past : v <= read'[q].floor
    BY <1>0, <1>1, <1>2, <2>1 DEF TopicIInv, Settling, Flying
  <2>3. \A q \in Readers : Flying(q)' /\ read'[q].touched /\ ~read'[q].overtaken => slot.stale
    BY <1>1, <1>2 DEF TopicIInv, Settling, Flying
  <2>4. \A p, q \in Readers :
          Flying(p)' /\ Flying(q)' /\ read'[p].touched /\ ~read'[q].touched => p \in read'[q].before
    BY <1>0, <1>1, <1>2 DEF TopicIInv, Settling, Flying, InFlight
  <2> QED BY <1>0, <2>1, <2>2, <2>3, <2>4 DEF TopicIInv, Settling, Due
<1> QED BY <1>3, <1>4, <1>5, <1>6, <1>7 DEF TopicIInv

\* A step of one read in flight that stays in flight.
GoesOn(r) ==
    /\ Flying(r) /\ Flying(r)'
    /\ \A q \in Readers : /\ q # r => read'[q] = read[q]
                          /\ read'[q].touched = read[q].touched /\ read'[q].overtaken = read[q].overtaken
                          /\ read'[q].before = read[q].before /\ read'[q].floor = read[q].floor
    /\ UNCHANGED <<source, notifier, slot, stream, announced>>

LEMMA GoesOnKeeps ==
    ASSUME TopicIInv, NEW r \in Readers, GoesOn(r)
    PROVE  Ordered' /\ Settling'
<1>1. \A q \in Readers : Flying(q)' <=> Flying(q)
  BY DEF GoesOn, Flying
<1>2. Ordered'
  BY <1>1 DEF TopicIInv, Ordered, GoesOn
<1>3. Past' = Past
  BY DEF Past, Pending, GoesOn
<1>4. Settling'
  BY <1>1, <1>3 DEF TopicIInv, Settling, GoesOn, Due
<1> QED BY <1>2, <1>4

LEMMA HitKeeps ==
    ASSUME TopicIInv, NEW r \in Readers, Hit(r)
    PROVE  TopicIInv'
<1> USE ReaderAssumption, BoundAssumption
<1>1. GoesOn(r)
  BY DEF TopicIInv, TopicTyped, ReadFields, Hit, GoesOn, Flying
<1>2. /\ UNCHANGED <<source, notifier, cache, gate, slot, announced>>
      /\ DOMAIN read' = Readers
      /\ \A q \in Readers : q # r => read'[q] = read[q]
      /\ DOMAIN read'[r] = ReadFields /\ read'[r].floor = read[r].floor
      /\ read[r].pc = "lookup" /\ read'[r].failed = read[r].failed
      /\ \/ read'[r].pc = "done" /\ cache # Nothing /\ read'[r].got = cache
         \/ read'[r].pc = "waiting" /\ read'[r].got = read[r].got
  BY DEF TopicIInv, TopicTyped, ReadFields, Hit
<1>3. TopicTyped'
  BY <1>2 DEF TopicIInv, TopicTyped
<1>4. Bounded'
  BY <1>2 DEF TopicIInv, Bounded
<1>5. Fresh'
  <2>1. gate.by # Nothing => gate.by \in Readers /\ read'[gate.by] = read[gate.by]
    BY <1>2 DEF TopicIInv, TopicTyped, Fresh
  <2>2. /\ read'[r].floor <= announced
        /\ read'[r].got # Nothing => read'[r].got >= read'[r].floor
        /\ read'[r].pc = "done" => read'[r].got # Nothing \/ read'[r].failed
    <3>1. cache # Nothing => cache \in Nat /\ cache >= announced
      BY DEF TopicIInv, TopicTyped, Fresh, Value
    <3>2. read[r].floor \in Nat /\ announced \in Nat /\ read[r].floor <= announced
      BY DEF TopicIInv, TopicTyped, Fresh
    <3>3. read[r].got # Nothing => read[r].got >= read[r].floor
      BY DEF TopicIInv, Fresh
    <3> QED BY <1>2, <3>1, <3>2, <3>3
  <2>3. /\ cache # Nothing => cache >= announced
        /\ gate.got # Nothing => gate.by # Nothing
        /\ gate.by # Nothing => read[gate.by].pc = "fetching"
        /\ gate.got # Nothing => gate.got >= read[gate.by].floor
        /\ gate.got # Nothing /\ gate.valid => gate.got >= announced
    BY DEF TopicIInv, Fresh
  <2>4. \A q \in Readers : q # r =>
          /\ read'[q].floor <= announced
          /\ read'[q].got # Nothing => read'[q].got >= read'[q].floor
          /\ read'[q].pc = "done" => read'[q].got # Nothing \/ read'[q].failed
    BY <1>2 DEF TopicIInv, Fresh
  <2> QED BY <1>2, <2>1, <2>2, <2>3, <2>4 DEF Fresh
<1> QED BY <1>1, <1>3, <1>4, <1>5, GoesOnKeeps DEF TopicIInv

LEMMA EnterKeeps ==
    ASSUME TopicIInv, NEW r \in Readers, Enter(r)
    PROVE  TopicIInv'
<1> USE ReaderAssumption, BoundAssumption
<1>1. GoesOn(r)
  BY DEF TopicIInv, TopicTyped, ReadFields, Enter, GoesOn, Flying
<1>2. TopicTyped'
  <2>1. /\ UNCHANGED <<source, notifier, cache, slot, announced>>
        /\ DOMAIN read' = Readers
        /\ \A q \in Readers : q # r => read'[q] = read[q]
        /\ DOMAIN read'[r] = ReadFields /\ read'[r].floor = read[r].floor
        /\ read'[r].got \in {read[r].got, cache}
    BY DEF TopicIInv, TopicTyped, ReadFields, Enter
  <2>2. /\ DOMAIN gate' = {"by", "valid", "got"}
        /\ gate'.by \in Readers \cup {Nothing} /\ gate'.got \in Value
    BY DEF TopicIInv, TopicTyped, Enter, Value
  <2> QED BY <2>1, <2>2 DEF TopicIInv, TopicTyped
<1>3. Bounded' /\ Fresh'
  <2>1. CASE cache # Nothing /\ read' = [read EXCEPT ![r].pc = "done", ![r].got = cache] /\ UNCHANGED gate
    BY <2>1 DEF TopicIInv, TopicTyped, ReadFields, Enter, Bounded, Fresh
  <2>2. CASE gate' = [by |-> r, valid |-> TRUE, got |-> Nothing] /\ read' = [read EXCEPT ![r].pc = "fetching"]
    BY <2>2 DEF TopicIInv, TopicTyped, ReadFields, Enter, Bounded, Fresh
  <2> QED BY <2>1, <2>2 DEF Enter
<1> QED BY <1>1, <1>2, <1>3, GoesOnKeeps DEF TopicIInv

\* The firmware answers with its state, which every announcement and floor has reached.
LEMMA AnswerKeeps ==
    ASSUME TopicIInv, Answer
    PROVE  TopicIInv'
<1> USE ReaderAssumption, BoundAssumption
<1>0. UNCHANGED <<source, notifier, cache, read, slot, stream, errors, announced>>
  BY DEF Answer
<1>1. gate.by \in Readers /\ gate'.by = gate.by /\ gate'.valid = gate.valid /\ gate'.got = source
  BY DEF TopicIInv, TopicTyped, Answer
<1>2. TopicTyped'
  BY <1>0 DEF TopicIInv, TopicTyped, Answer, Value
<1>3. Bounded' /\ Fresh'
  BY <1>0, <1>1 DEF TopicIInv, TopicTyped, Bounded, Fresh
<1>4. Ordered'
  BY <1>0 DEF TopicIInv, Ordered, Flying
<1>5. Settling'
  BY <1>0 DEF TopicIInv, Settling, Flying, Past, Pending, Due
<1> QED BY <1>2, <1>3, <1>4, <1>5 DEF TopicIInv

LEMMA ReturnKeeps ==
    ASSUME TopicIInv, Return \/ Fail
    PROVE  TopicIInv'
<1> USE ReaderAssumption, BoundAssumption
<1>r. PICK r \in Readers : r = gate.by
  BY DEF TopicIInv, TopicTyped, Fresh, Return, Fail
<1>0. /\ gate' = NoFetch /\ read[r].pc = "fetching"
      /\ UNCHANGED <<source, notifier, slot, stream, announced>>
  BY <1>r DEF TopicIInv, Fresh, Return, Fail
<1>1. /\ DOMAIN read' = Readers /\ DOMAIN read'[r] = ReadFields
      /\ \A q \in Readers : q # r => read'[q] = read[q]
      /\ read'[r].pc = "done"
      /\ read'[r].touched = read[r].touched /\ read'[r].overtaken = read[r].overtaken
      /\ read'[r].before = read[r].before /\ read'[r].floor = read[r].floor
  BY <1>r DEF TopicIInv, TopicTyped, ReadFields, Return, Fail
<1>2. \/ gate.got # Nothing /\ read'[r].got = gate.got /\ cache' \in {cache, IF gate.valid THEN gate.got ELSE cache}
      \/ read'[r].got = read[r].got /\ read'[r].failed /\ cache' = cache
  BY <1>r DEF TopicIInv, TopicTyped, ReadFields, Return, Fail
<1>3. GoesOn(r)
  BY <1>0, <1>1 DEF GoesOn, Flying
<1>4. TopicTyped'
  BY <1>r, <1>0, <1>1, <1>2 DEF TopicIInv, TopicTyped, NoFetch, Value
<1>5. Bounded'
  BY <1>r, <1>0, <1>1, <1>2 DEF TopicIInv, TopicTyped, NoFetch, Bounded
<1>6. Fresh'
  <2>1. gate'.by = Nothing /\ gate'.got = Nothing
    BY <1>0 DEF NoFetch
  <2>2. cache' # Nothing => cache' >= announced
    BY <1>2 DEF TopicIInv, Fresh
  <2>3. /\ read'[r].floor <= announced /\ (read'[r].got # Nothing => read'[r].got >= read'[r].floor)
        /\ read'[r].got # Nothing \/ read'[r].failed
    BY <1>r, <1>1, <1>2 DEF TopicIInv, Fresh
  <2> QED BY <1>0, <1>1, <2>1, <2>2, <2>3 DEF TopicIInv, Fresh
<1> QED BY <1>0, <1>3, <1>4, <1>5, <1>6, GoesOnKeeps DEF TopicIInv

-----------------------------------------------------------------------------
(* The slot. *)

\* A read that a later one has overtaken is dropped.
LEMMA DroppedKeeps ==
    ASSUME TopicIInv, NEW r \in Readers, Store(r), read[r].overtaken
    PROVE  TopicIInv'
<1> USE ReaderAssumption, BoundAssumption
<1>0. /\ UNCHANGED <<source, notifier, cache, gate, errors, announced, slot, stream>> /\ read[r].pc = "done"
      /\ read' = [q \in Readers |-> IF q = r THEN NoRead ELSE [read[q] EXCEPT !.before = @ \ {r}]]
  BY DEF Store
<1>1. read'[r] = NoRead
  BY <1>0
<1>2. \A q \in Readers : q # r =>
        /\ read'[q].pc = read[q].pc /\ read'[q].got = read[q].got /\ read'[q].failed = read[q].failed
        /\ read'[q].touched = read[q].touched /\ read'[q].overtaken = read[q].overtaken
        /\ read'[q].before = read[q].before \ {r} /\ read'[q].floor = read[q].floor
        /\ DOMAIN read'[q] = ReadFields
  BY <1>0 DEF TopicIInv, TopicTyped, ReadFields
<1>3. TopicTyped'
  BY <1>0, <1>1, <1>2 DEF TopicIInv, TopicTyped, ReadFields, NoRead, Value
<1>4. Bounded' /\ Fresh'
  BY <1>0, <1>1, <1>2 DEF TopicIInv, TopicTyped, Bounded, Fresh, NoRead
<1>5. Ordered'
  BY <1>0, <1>1, <1>2 DEF TopicIInv, Ordered, Flying, NoRead
<1>6. Past' = Past
  BY <1>0 DEF Past, Pending
<1>7. Settling'
  BY <1>0, <1>1, <1>2, <1>6 DEF TopicIInv, Settling, Flying, Due, NoRead
<1> QED BY <1>3, <1>4, <1>5, <1>7 DEF TopicIInv

\* A read that was not overtaken is not older than the slot, and overtakes those before it.
LEMMA StoredKeeps ==
    ASSUME TopicIInv, NEW r \in Readers, Store(r), ~read[r].overtaken
    PROVE  TopicIInv'
<1> USE ReaderAssumption, BoundAssumption
<1>0. /\ UNCHANGED <<source, notifier, cache, gate, errors, announced>> /\ read[r].pc = "done"
      /\ read' = Stored(r) /\ slot' = Taken(r)
  BY DEF Store
<1>1. read'[r] = NoRead
  BY <1>0 DEF Stored
<1>2. \A q \in Readers : q # r =>
        /\ read'[q].pc = read[q].pc /\ read'[q].got = read[q].got /\ read'[q].failed = read[q].failed
        /\ read'[q].touched = read[q].touched /\ (read'[q].overtaken <=> read[q].overtaken \/ q \in read[r].before)
        /\ read'[q].before = read[q].before \ {r} /\ read'[q].floor = read[q].floor
        /\ DOMAIN read'[q] = ReadFields
  BY <1>0 DEF TopicIInv, TopicTyped, ReadFields, Stored
<1>3. /\ slot'.hasRead /\ (slot'.stale <=> slot.stale /\ read[r].touched)
      /\ (slot'.retry <=> read[r].failed)
      /\ read[r].failed => slot'.value = slot.value /\ slot'.floor = slot.floor
      /\ ~read[r].failed => slot'.value = read[r].got /\ slot'.floor = Larger(slot.floor, read[r].floor)
  BY <1>0 DEF TopicIInv, TopicTyped, Taken, SlotFields
<1>4. TopicTyped'
  <2>1. DOMAIN slot' = SlotFields /\ slot'.value \in Value /\ slot'.floor \in Nat
    BY <1>0, <1>3 DEF TopicIInv, TopicTyped, Taken, Larger, SlotFields
  <2>2. DOMAIN read' = Readers
    BY <1>0 DEF Stored
  <2> QED BY <1>0, <1>1, <1>2, <2>1, <2>2 DEF TopicIInv, TopicTyped, ReadFields, NoRead, Value
<1>5. Bounded' /\ Fresh'
  <2>1. read[r].got \in Value /\ slot.value \in Value /\ slot'.value \in {slot.value, read[r].got}
    BY <1>3 DEF TopicIInv, TopicTyped
  <2>2. Bounded'
    BY <1>0, <1>1, <1>2, <2>1 DEF TopicIInv, Bounded, NoRead
  <2>3. read'[r].pc = "idle" /\ read'[r].got = Nothing /\ read'[r].floor = 0
    BY <1>1 DEF NoRead
  <2>4. Fresh'
    BY <1>0, <1>1, <1>2, <2>3 DEF TopicIInv, TopicTyped, Fresh
  <2> QED BY <2>2, <2>4
<1>6. Flying(r) /\ read[r].got \in Value /\ (~read[r].failed => read[r].got # Nothing)
  BY <1>0 DEF TopicIInv, Fresh, Flying, TopicTyped
<1>7. Ordered'
  <2>1. slot'.floor <= announced /\ (slot'.value # Nothing => slot'.value >= slot'.floor)
    BY <1>0, <1>3, <1>6 DEF TopicIInv, TopicTyped, Ordered, Fresh, Larger, Value
  <2>2. \A q \in Readers : Flying(q)' /\ ~read'[q].overtaken => slot'.floor <= read'[q].floor
    BY <1>1, <1>2, <1>3, <1>6 DEF TopicIInv, TopicTyped, Ordered, Flying, Larger, NoRead
  <2>3. \A p, q \in Readers :
          Flying(p)' /\ Flying(q)' /\ p # q => p \in read'[q].before \/ read'[q].floor <= read'[p].floor
    BY <1>1, <1>2 DEF TopicIInv, Ordered, Flying, NoRead
  <2> QED BY <1>0, <2>1, <2>2, <2>3 DEF Ordered
<1>8. Past' = Past
  BY <1>0 DEF Past, Pending
<1>9. Settling'
  <2>1. \A q \in Readers : Flying(q)' /\ ~read'[q].touched => \A v \in Past : v <= read'[q].floor
    BY <1>1, <1>2, <1>8 DEF TopicIInv, Settling, Flying, NoRead
  <2>2. \A q \in Readers : Flying(q)' /\ read'[q].touched /\ ~read'[q].overtaken => slot'.stale
    BY <1>1, <1>2, <1>3, <1>6 DEF TopicIInv, Settling, Flying, NoRead
  <2>3. \A p, q \in Readers :
          Flying(p)' /\ Flying(q)' /\ read'[p].touched /\ ~read'[q].touched => p \in read'[q].before
    BY <1>1, <1>2 DEF TopicIInv, Settling, Flying, NoRead
  <2>4. ~Due' => slot'.value # Nothing /\ \A v \in Past : v <= slot'.value
    <3> SUFFICES ASSUME ~Due'
                 PROVE  slot'.value # Nothing /\ \A v \in Past : v <= slot'.value
      OBVIOUS
    <3>1. ~read[r].failed /\ ~read[r].touched
      BY <1>3, <1>6 DEF Due, TopicIInv, Settling
    <3>2. slot'.value = read[r].got /\ read[r].got \in Nat /\ read[r].floor \in Nat
          /\ read[r].floor <= read[r].got
      BY <1>3, <1>6, <3>1 DEF TopicIInv, Fresh, TopicTyped, Value
    <3>3. \A v \in Past : v <= read[r].floor
      BY <1>6, <3>1 DEF TopicIInv, Settling
    <3> QED BY <3>2, <3>3 DEF Past, TopicIInv, TopicTyped
  <2> QED BY <1>0, <1>8, <2>1, <2>2, <2>3, <2>4 DEF TopicIInv, Settling
<1> QED BY <1>4, <1>5, <1>7, <1>9 DEF TopicIInv

\* Subscribers come, are told and go: the slot can only become due.
LEMMA SubscribersKeep ==
    ASSUME TopicIInv,
           (\E tooOld \in BOOLEAN : SubscribeTopic(tooOld)) \/ Deliver \/ Unsubscribe
    PROVE  TopicIInv'
<1> USE ReaderAssumption, BoundAssumption
<1>0. UNCHANGED <<source, notifier, cache, gate, read, errors, announced>>
  BY DEF SubscribeTopic, Deliver, Unsubscribe
<1>1. /\ slot'.value = slot.value /\ slot'.floor = slot.floor /\ slot'.hasRead = slot.hasRead
      /\ slot'.retry = slot.retry /\ (slot.stale => slot'.stale)
      /\ DOMAIN slot' = SlotFields
  BY DEF SubscribeTopic, Deliver, Unsubscribe, TopicIInv, TopicTyped, SlotFields
<1>3. TopicTyped'
  BY <1>0, <1>1 DEF TopicIInv, TopicTyped
<1>4. Bounded' /\ Fresh' /\ Ordered'
  BY <1>0, <1>1 DEF TopicIInv, Bounded, Fresh, Ordered, Flying
<1>5. Past' = Past
  BY <1>0 DEF Past, Pending
<1>6. Settling'
  BY <1>0, <1>1, <1>5 DEF TopicIInv, Settling, Flying, Due
<1> QED BY <1>3, <1>4, <1>6 DEF TopicIInv

-----------------------------------------------------------------------------
(* The invariant. *)

LEMMA TopicInitInvariant == TopicInit => TopicIInv
<1> SUFFICES ASSUME TopicInit PROVE TopicIInv
  OBVIOUS
<1> USE ReaderAssumption, BoundAssumption DEF TopicInit
<1>1. TopicTyped
  <2>1. \A r \in Readers : read[r] = NoRead
    OBVIOUS
  <2>2. DOMAIN NoRead = ReadFields /\ NoRead.got = Nothing /\ NoRead.floor = 0
    BY DEF NoRead, ReadFields
  <2>3. DOMAIN slot = SlotFields /\ slot.value = Nothing /\ slot.floor = 0
    BY DEF SlotFields
  <2>4. \A n \in Notifiers : DOMAIN notifier[n] = {"queue", "invalidated"} /\ notifier[n].queue = <<>>
    OBVIOUS
  <2>5. DOMAIN gate = {"by", "valid", "got"} /\ gate.by = Nothing /\ gate.got = Nothing
    BY DEF NoFetch
  <2>6. source \in Nat /\ announced \in Nat /\ cache \in Value
    BY DEF Value
  <2>7. DOMAIN notifier = Notifiers /\ DOMAIN read = Readers /\ <<>> \in Seq(Nat)
    OBVIOUS
  <2>8. Nothing \in Value /\ 0 \in Nat
    BY DEF Value
  <2>9. \A n \in Notifiers : DOMAIN notifier[n] = {"queue", "invalidated"} /\ notifier[n].queue \in Seq(Nat)
    BY <2>4, <2>7
  <2>10. \A r \in Readers : DOMAIN read[r] = ReadFields /\ read[r].got \in Value /\ read[r].floor \in Nat
    BY <2>1, <2>2, <2>8
  <2> HIDE DEF TopicInit
  <2> QED BY <2>3, <2>5, <2>6, <2>7, <2>8, <2>9, <2>10 DEF TopicTyped
<1>2. \A n \in Notifiers : notifier[n].queue = <<>> /\ ~notifier[n].invalidated
  OBVIOUS
<1>3. Bounded /\ Fresh /\ Ordered
  BY <1>2 DEF Bounded, Fresh, Ordered, Flying, NoRead, NoFetch, TopicElems
<1>4. Settling
  BY <1>2 DEF Settling, Past, Flying, Due, NoRead
<1> QED BY <1>1, <1>3, <1>4 DEF TopicIInv

LEMMA TopicStepInvariant == TopicIInv /\ [TopicNext]_topicVars => TopicIInv'
<1> SUFFICES ASSUME TopicIInv, [TopicNext]_topicVars PROVE TopicIInv'
  OBVIOUS
<1>1. CASE \E n \in Notifiers : Change(n) \/ Invalidate(n) \/ TouchTopic(n)
  BY <1>1, ChangeKeeps, InvalidateKeeps, TouchKeeps
<1>2. CASE \E r \in Readers : Start(r) \/ Hit(r) \/ Enter(r) \/ Store(r)
  BY <1>2, StartKeeps, HitKeeps, EnterKeeps, DroppedKeeps, StoredKeeps
<1>3. CASE Answer \/ Return \/ Fail
  BY <1>3, AnswerKeeps, ReturnKeeps
<1>4. CASE (\E tooOld \in BOOLEAN : SubscribeTopic(tooOld)) \/ Deliver \/ Unsubscribe
  BY <1>4, SubscribersKeep
<1>5. CASE UNCHANGED topicVars
  BY <1>5 DEF topicVars, TopicIInv, TopicTyped, Bounded, Fresh, Ordered, Settling, Flying, Past,
              Pending, Due
<1> QED BY <1>1, <1>2, <1>3, <1>4, <1>5 DEF TopicNext

LEMMA TopicInvariant == TopicSpec => []TopicIInv
BY TopicInitInvariant, TopicStepInvariant, PTL DEF TopicSpec

(* No reader is served the past: a read that starts after a change was announced to the *)
(* cache never answers with the state from before it (cache.rs, get_or_fetch,           *)
(* invalidate).                                                                         *)
THEOREM NoReadOfThePast == TopicSpec => []ReadsAreFresh
<1>1. TopicIInv => ReadsAreFresh
  BY DEF TopicIInv, Fresh, ReadsAreFresh
<1> QED BY TopicInvariant, <1>1, PTL

(* The hub's clock is not turned back: once a read that began with a change announced *)
(* was stored, the slot never holds the state from before it (hub.rs, store).         *)
THEOREM SlotNeverFallsBack == TopicSpec => []NoFallBack
<1>1. TopicIInv => NoFallBack
  BY DEF TopicIInv, Ordered, NoFallBack
<1> QED BY TopicInvariant, <1>1, PTL

(* No change is lost: with all announced and nothing due the slot holds the firmware's *)
(* state, in whatever order touches, reads and errors came (hub.rs, touch, store).     *)
THEOREM SettledSlotIsCurrent == TopicSpec => []SettledIsCurrent
<1>1. TopicIInv => SettledIsCurrent
  <2> SUFFICES ASSUME TopicIInv, \A n \in Notifiers : notifier[n].queue = <<>>, ~Due
               PROVE  slot.value = source
    BY DEF SettledIsCurrent
  <2>1. \A v : ~Pending(v)
    BY DEF Pending, TopicElems
  <2>2. slot.value \in Nat /\ slot.value <= source /\ \A v \in 1 .. source : v <= slot.value
    BY <2>1 DEF TopicIInv, TopicTyped, Value, Bounded, Settling, Past
  <2> QED BY <2>2 DEF TopicIInv, TopicTyped
<1> QED BY TopicInvariant, <1>1, PTL

=============================================================================
