------------------------------- MODULE Streams -------------------------------
(***************************************************************************)
(* Sessions and their event streams: the session table of auth             *)
(* (zte-agent/src/auth), the hub's table of streams (events/hub.rs) and    *)
(* the driver that sends one stream (events/stream.rs).                    *)
(*                                                                         *)
(* The three meet without a common lock.  A request authenticates under    *)
(* the lock of auth and subscribes under the lock of the hub; a session    *)
(* that is revoked leaves the table under the first lock, and only then    *)
(* does the revoke hook end its streams under the second.  A driver looks  *)
(* its session up whenever it wakes.                                       *)
(*                                                                         *)
(* Time is kept as what the code compares: how long ago a session was used *)
(* and issued on the boot clock, in units longer than the keep-alive tick  *)
(* (15 s) and shorter than the idle time of a session (an hour).           *)
(***************************************************************************)
EXTENDS Integers, FiniteSets, Sequences, SequencesExt

CONSTANTS
    Conns,        \* connections that may carry a stream
    Topics,       \* what can be subscribed to
    Keys,         \* replace_same: a page load, or the API
    Idle,         \* kind -> idle time of a session
    Absolute,     \* kind -> life time of a session
    Cap,          \* kind -> sessions of that kind
    MaxStreams,   \* live streams
    MaxPerOwner,  \* live streams of one session
    MaxJump,      \* bound: the longest suspension
    MaxLogins,    \* bound: sessions ever issued
    None

Kinds == {"bearer", "browser"}
Ids == 1 .. MaxLogins

ASSUME PolicyAssumption ==
    /\ Idle \in [Kinds -> Nat \ {0}] /\ Absolute \in [Kinds -> Nat \ {0}]
    /\ Cap \in [Kinds -> Nat \ {0}]
    /\ {MaxStreams, MaxPerOwner, MaxJump, MaxLogins} \subseteq Nat \ {0}

ASSUME ConnsAssumption == IsFiniteSet(Conns)

ASSUME NoneAssumption ==
    None \notin Ids /\ None \notin {"evicted", "logged_out", "standby", "token_expired"}

VARIABLES
    table,    \* SessionTable: id -> entry, for the ids in it
    recent,   \* its ring of ids pruned most recently
    hooks,    \* revocations whose hook has not run yet: sets of ids
    conn,     \* connection -> its stream
    order,    \* the connections with a hub entry, in opening order
    demand,   \* topic -> live streams that want it
    fate      \* history: what became of each session

auth == <<table, recent, hooks, fate>>
hub == <<conn, order, demand>>
vars == <<auth, hub>>

\* A connection without a stream.  looked: the stream has looked at its session since time
\* last passed; misled is history: the last stream's bye gave the wrong reason.
Idling == [pc |-> "idle", owner |-> None, topics |-> {}, key |-> None, ended |-> None,
           looked |-> TRUE, misled |-> FALSE]

-----------------------------------------------------------------------------
(* The session table *)

PastDeadline ==
    {id \in DOMAIN table : \/ table[id].unused >= Idle[table[id].kind]
                           \/ table[id].age >= Absolute[table[id].kind]}
Current == DOMAIN table \ PastDeadline

\* Variant: the ring holds the ids of one kind only.
RingSizeOneKind == Cap["bearer"]

RingSize == Cap["bearer"] + Cap["browser"]

\* prune: what is past its deadline leaves the table, and the ring remembers its id.
PruneRemembers ==
    LET ring == recent \o SetToSeq(PastDeadline)
        first == Len(ring) - RingSize + 1
    IN  recent' = SubSeq(ring, IF first > 1 THEN first ELSE 1, Len(ring))

Fates(revoked) ==
    [id \in Ids |-> IF id \in revoked THEN "revoked"
                    ELSE IF id \in PastDeadline THEN "expired" ELSE fate[id]]

Revoking(revoked) == hooks' = hooks \cup ({revoked} \ {{}})

LeastRecentlyUsed(ids) ==
    {id \in ids : \A other \in ids : table[id].unused >= table[other].unused}

NextId == 1 + Cardinality({id \in Ids : fate[id] # "unborn"})

AtCap(sessions, kind) == Cardinality(sessions) >= Cap[kind]

\* login: a browser's login removes the sessions of the cookies it presented; a kind at
\* its cap loses its least recently used session.
Login(kind, presented) ==
    LET rotated == IF kind = "browser" THEN {id \in presented \cap Current : table[id].kind = kind}
                   ELSE {}
        rest == Current \ rotated
        same == {id \in rest : table[id].kind = kind}
    IN  /\ NextId \in Ids
        /\ \E evicted \in IF AtCap(same, kind) THEN {{id} : id \in LeastRecentlyUsed(same)} ELSE {{}} :
             /\ table' = [id \in (rest \ evicted) \cup {NextId} |->
                            IF id = NextId THEN [kind |-> kind, age |-> 0, unused |-> 0]
                            ELSE table[id]]
             /\ fate' = [Fates(rotated \cup evicted) EXCEPT ![NextId] = "live"]
             /\ Revoking(rotated \cup evicted)
        /\ PruneRemembers
        /\ UNCHANGED hub

\* The table after a call that used the session id (if it is there).
Used(id) ==
    table' = [i \in Current |-> IF i = id THEN [table[i] EXCEPT !.unused = 0] ELSE table[i]]

\* authenticate: any request with a token, of a session that may be gone.
Authenticate(id) ==
    /\ fate[id] # "unborn"
    /\ Used(id) /\ PruneRemembers /\ fate' = Fates({})
    /\ UNCHANGED <<hooks, hub>>

\* logout_id
Logout(id) ==
    /\ fate[id] # "unborn"
    /\ table' = [i \in Current \ {id} |-> table[i]]
    /\ PruneRemembers
    /\ fate' = Fates({id} \cap Current)
    /\ Revoking({id} \cap Current)
    /\ UNCHANGED hub

-----------------------------------------------------------------------------
(* The hub *)

HasEntry(c) == conn[c].pc \in {"queued", "open"}
LiveEntry(c) == HasEntry(c) /\ conn[c].ended = None

\* Variant: ended entries give their demand back once more.
ReleasedTwice(cs) ==
    [t \in Topics |-> demand[t] - Cardinality({c \in cs : HasEntry(c) /\ t \in conn[c].topics})]

\* The demand after the live entries among cs are gone.
Released(cs) ==
    [t \in Topics |-> demand[t] - Cardinality({c \in cs : LiveEntry(c) /\ t \in conn[c].topics})]

\* end_entry, of every live entry among cs.
EndEntries(cs, reason) ==
    /\ conn' = [c \in Conns |-> IF c \in cs /\ LiveEntry(c) THEN [conn[c] EXCEPT !.ended = reason]
                                ELSE conn[c]]
    /\ demand' = Released(cs)
    /\ UNCHANGED order

\* The revoke hook, on the thread of the login or logout: end_sessions.
RunHook(ids) ==
    /\ ids \in hooks
    /\ EndEntries({c \in Conns : conn[c].owner \in ids}, "logged_out")
    /\ hooks' = hooks \ {ids}
    /\ UNCHANGED <<table, recent, fate>>

\* mode_power_off* on the bus: end_all.
Standby ==
    /\ EndEntries(Conns, "standby")
    /\ UNCHANGED auth

\* A stream request is authenticated ...
Ask(c, id) ==
    /\ conn[c].pc = "idle" /\ id \in Current
    /\ Used(id) /\ PruneRemembers /\ fate' = Fates({})
    /\ conn' = [conn EXCEPT ![c] = [Idling EXCEPT !.pc = "asked", !.owner = id]]
    /\ UNCHANGED <<hooks, order, demand>>

\* ... and subscribes: it replaces its own predecessor or else, with MaxPerOwner open,
\* the oldest stream of its session; with MaxStreams left it is refused.
Subscribe(c, topics, key) ==
    LET live == {d \in Conns : LiveEntry(d)}
        own == {d \in live : conn[d].owner = conn[c].owner}
        Place(d) == CHOOSE i \in DOMAIN order : order[i] = d
        oldest == {d \in own : \A e \in own : Place(d) <= Place(e)}
        same == {d \in own : conn[d].key = key /\ conn[d].topics = topics}
        victims == IF same # {} THEN same
                   ELSE IF Cardinality(own) >= MaxPerOwner THEN oldest ELSE {}
    IN  /\ conn[c].pc = "asked"
        /\ \E evict \in IF victims = {} THEN {{}} ELSE {{d} : d \in victims} :
             IF Cardinality(live \ evict) >= MaxStreams
             THEN /\ conn' = [conn EXCEPT ![c] = Idling]
                  /\ UNCHANGED <<order, demand>>
             ELSE /\ conn' = [d \in Conns |->
                       IF d = c THEN [conn[c] EXCEPT !.pc = "queued", !.topics = topics, !.key = key]
                       ELSE IF d \in evict THEN [conn[d] EXCEPT !.ended = "evicted"] ELSE conn[d]]
                  /\ order' = Append(order, c)
                  /\ demand' = [t \in Topics |-> Released(evict)[t] + (IF t \in topics THEN 1 ELSE 0)]
        /\ UNCHANGED auth

-----------------------------------------------------------------------------
(* The driver of a stream *)

\* touch_session: the session is looked up before the table is pruned.
SessionCheck(id) ==
    IF id \in DOMAIN table THEN (IF id \in PastDeadline THEN "expired" ELSE "live")
    ELSE IF id \in ToSet(recent) THEN "expired" ELSE "revoked"

Touch(id) == Used(id) /\ PruneRemembers /\ fate' = Fates({}) /\ UNCHANGED hooks

\* finish, and a driver whose emitter is done (no bye): the entry is given back.
Finish(c, bye) ==
    /\ conn' = [conn EXCEPT ![c] = [Idling EXCEPT !.misled =
                  \/ bye = "token_expired" /\ fate'[conn[c].owner] # "expired"
                  \/ bye = "logged_out" /\ fate'[conn[c].owner] # "revoked"]]
    /\ demand' = Released({c})
    /\ order' = SelectSeq(order, LAMBDA d : d # c)

\* The driver goes on waiting.
Stay(c) ==
    /\ conn' = [conn EXCEPT ![c].pc = "open", ![c].looked = TRUE]
    /\ UNCHANGED <<order, demand>>

\* Variant: the first poll trusts the authentication of the request.
OpenUnchecked(c) ==
    /\ conn[c].pc = "queued"
    /\ UNCHANGED auth
    /\ Stay(c) \/ Finish(c, None)

\* The first poll sends the snapshot, if the session is still there.
Open(c) ==
    LET check == SessionCheck(conn[c].owner)
    IN  /\ conn[c].pc = "queued"
        /\ Touch(conn[c].owner)
        /\ \/ check = "live" /\ (Stay(c) \/ Finish(c, None))
           \/ check = "expired" /\ Finish(c, "token_expired")
           \/ check = "revoked" /\ Finish(c, "logged_out")

\* Every later wake (a change, a tick, a deadline): the session first, then the end the
\* hub has put (which a wake by timer may leave to the next), then the lifetime.
Wake(c) ==
    LET check == SessionCheck(conn[c].owner)
    IN  /\ conn[c].pc = "open"
        /\ Touch(conn[c].owner)
        /\ \/ check = "expired" /\ Finish(c, "token_expired")
           \/ check = "revoked" /\ Finish(c, "logged_out")
           \/ check = "live" /\ conn[c].ended # None /\ Finish(c, conn[c].ended)
           \/ /\ check = "live"
              /\ Stay(c) \/ Finish(c, "lifetime") \/ Finish(c, None)

\* The client goes away, or has read all: the Subscription is dropped.
Drop(c) ==
    /\ conn[c].pc # "idle"
    /\ conn' = [conn EXCEPT ![c] = Idling]
    /\ demand' = Released({c})
    /\ order' = SelectSeq(order, LAMBDA d : d # c)
    /\ UNCHANGED auth

\* Time passes; every stream wakes at its tick, or as the device resumes.
Advance(d) ==
    LET Older(e, field) == IF e[field] + d > Absolute[e.kind] THEN Absolute[e.kind] ELSE e[field] + d
    IN  /\ \A c \in Conns : conn[c].looked
        /\ table' = [id \in DOMAIN table |->
                       [table[id] EXCEPT !.age = Older(table[id], "age"),
                                         !.unused = Older(table[id], "unused")]]
        /\ conn' = [c \in Conns |-> [conn[c] EXCEPT !.looked = @ /\ conn[c].pc = "idle"]]
        /\ UNCHANGED <<recent, hooks, fate, order, demand>>

Init ==
    /\ table = <<>> /\ recent = <<>> /\ hooks = {}
    /\ fate = [id \in Ids |-> "unborn"]
    /\ conn = [c \in Conns |-> Idling]
    /\ order = <<>>
    /\ demand = [t \in Topics |-> 0]

Next ==
    \/ \E kind \in Kinds, presented \in SUBSET DOMAIN table : Login(kind, presented)
    \/ \E id \in Ids : Authenticate(id) \/ Logout(id)
    \/ \E ids \in hooks : RunHook(ids)
    \/ Standby
    \/ \E c \in Conns :
         \/ \E id \in Ids : Ask(c, id)
         \/ \E topics \in SUBSET Topics \ {{}}, key \in Keys : Subscribe(c, topics, key)
         \/ Open(c) \/ Wake(c) \/ Drop(c)
    \/ \E d \in 1 .. MaxJump : Advance(d)

Spec == Init /\ [][Next]_vars

-----------------------------------------------------------------------------
(* Properties *)

\* Every id in the table is live by the record of what happened, the hub's order holds
\* exactly the connections with an entry, and only a closing stream has said its bye.
TypeOK ==
    /\ DOMAIN table = {id \in Ids : fate[id] = "live"}
    /\ ToSet(recent) \subseteq {id \in Ids : fate[id] = "expired"}
    /\ UNION hooks \subseteq {id \in Ids : fate[id] = "revoked"}
    /\ ToSet(order) = {c \in Conns : HasEntry(c)} /\ Len(order) = Cardinality(ToSet(order))
    /\ \A c \in Conns :
         /\ conn[c].pc \in {"idle", "asked", "queued", "open"}
         /\ (conn[c].owner \in Ids) <=> conn[c].pc # "idle"
         /\ (conn[c].topics # {}) <=> HasEntry(c)
         /\ conn[c].ended # None => HasEntry(c)

\* "With no stream open nothing is sampled" (docs/events.md): however streams are
\* evicted, ended, finished and dropped, the demand of a topic is the number of live
\* streams that want it.
DemandIsExact ==
    \A t \in Topics : demand[t] = Cardinality({c \in Conns : LiveEntry(c) /\ t \in conn[c].topics})

\* "A revoked session's stream is ended by the hub" (stream.rs): once the hook of a
\* revocation has run, no stream of the session goes on, even one whose request was
\* authenticated before the revocation and subscribed after the hook.
RevokedStreamsEnd ==
    \A c \in Conns :
        (conn[c].pc = "open" /\ conn[c].ended = None /\ fate[conn[c].owner] = "revoked")
            => \E ids \in hooks : conn[c].owner \in ids

\* The bye tells the client whether to log in again: expiry is never told as a logout
\* nor the reverse, whoever prunes the table first.
ByeTellsWhy == \A c \in Conns : ~conn[c].misled

=============================================================================
