--------------------------- MODULE StreamRegistry ---------------------------
(* repositories/stream_registry.py, command by command, for one subreddit: the
   claim stream:subreddit:{s}, the identity stream:identity:{s}, the hashes
   stream:meta:{id}, the stop requests and the set streams:all, under concurrent
   create_stream, list_streams, request_stop and delete_stream.

   Each Redis command or script is a step.  The manager, whose own steps are the
   subject of StreamManager, appears through the registry calls it makes.  An
   updated_at is fresh at every write, so comparing it means that nobody wrote
   the hash in between.                                                       *)
EXTENDS Naturals, FiniteSets

CONSTANTS
    Client,       \* start_stream requests; each draws its own candidate id
    Legacy,       \* the id of a stream created before identities existed
    Nil,          \* the key does not exist
    Stopper,      \* request_stop calls
    Lister,       \* list_streams calls: GET /streams and the background tasks
    Cleaners,     \* those of DeadStreamCleanup
    Reconcilers,  \* those of reconcile_once
    Mortal,       \* clients whose process may die
    MaxWrites     \* bound: terminal writes that runs of the stream have still to make
                  \* (one run: "error" by the worker, twice, and by its _run task)

ASSUME RegistryAssumption ==
    /\ Legacy \notin Client /\ Nil \notin Client \cup {Legacy}
    /\ Cleaners \cup Reconcilers \subseteq Lister
    /\ Mortal \subseteq Client
    /\ MaxWrites \in Nat

VARIABLES
    \* Redis
    claim, identity,
    status,     \* status field of the hash of each id; "none": no hash
    whole,      \* ids whose hash also has the fields that create_stream writes
    all,        \* streams:all
    stopKeys,   \* ids with a stop request
    \* create_stream and the rest of start_stream
    pc, sid,
    untouched,  \* clients whose entry is still the snapshot they created
    writes,     \* terminal writes that runs of the stream may still make
    \* request_stop
    stopping, target,
    \* list_streams and what its caller does with the rows
    lpc, seen, stale,
    rows,       \* the status of each complete row that is still to be handled
    same        \* ids whose hash is still the one that was read

redis   == <<claim, identity, status, whole, all, stopKeys>>
creates == <<pc, sid>>
stops   == <<stopping, target>>
lists   == <<lpc, seen, stale, rows>>
vars    == <<redis, creates, untouched, writes, stops, lists, same>>

Id == Client \cup {Legacy}
Status == {"none", "starting", "active", "stopping", "stopped", "error"}
Dead == {"stopped", "error"}
NoRows == [id \in Id |-> "none"]

TypeOK ==
    /\ claim \in Id \cup {Nil} /\ identity \in Id \cup {Nil}
    /\ status \in [Id -> Status]
    /\ whole \subseteq Id /\ all \subseteq Id /\ stopKeys \subseteq Id
    /\ pc \in [Client -> {"idle", "backfill", "resolve", "claim", "write",
                          "track", "created", "dead"}]
    /\ sid \in [Client -> Id]
    /\ untouched \subseteq Client
    /\ writes \in 0..MaxWrites
    /\ stopping \in [Stopper -> {"idle", "publish", "mark"}]
    /\ target \in [Stopper -> Id]
    /\ lpc \in [Lister -> {"idle", "fetch", "prune", "handle"}]
    /\ seen \in [Lister -> SUBSET Id] /\ stale \in [Lister -> SUBSET Id]
    /\ rows \in [Lister -> [Id -> Status]]
    /\ same \in [Lister -> SUBSET Id]

\* Redis is empty, or holds an active stream of a version without identities.
Init ==
    /\ identity = Nil /\ stopKeys = {}
    /\ \/ /\ claim = Nil /\ status = NoRows /\ whole = {} /\ all = {}
          /\ writes = 0
       \/ /\ claim = Legacy /\ status = [NoRows EXCEPT ![Legacy] = "active"]
          /\ whole = {Legacy} /\ all = {Legacy}
          /\ writes = MaxWrites
    /\ pc = [c \in Client |-> "idle"] /\ sid = [c \in Client |-> c]
    /\ untouched = {}
    /\ stopping = [s \in Stopper |-> "idle"] /\ target = [s \in Stopper |-> Legacy]
    /\ lpc = [l \in Lister |-> "idle"]
    /\ seen = [l \in Lister |-> {}] /\ stale = [l \in Lister |-> {}]
    /\ rows = [l \in Lister |-> NoRows] /\ same = [l \in Lister |-> {}]

-----------------------------------------------------------------------------
(* Writes of a hash. *)

\* The hash of id changed: no snapshot of it is the current one any more.
Outdate(id) ==
    /\ untouched' = {c \in untouched : sid[c] # id}
    /\ same' = [l \in Lister |-> same[l] \ {id}]

\* HSET of a status, which makes a hash if there is none.
HSet(id, s) == status' = [status EXCEPT ![id] = s] /\ Outdate(id)

\* _DELETE_STREAM_IF_UNCHANGED_SCRIPT, its comparisons having succeeded.
DeleteEntry(id) ==
    /\ claim' = IF claim = id THEN Nil ELSE claim
    /\ identity' = id
    /\ HSet(id, "none")
    /\ whole' = whole \ {id} /\ all' = all \ {id} /\ stopKeys' = stopKeys \ {id}

-----------------------------------------------------------------------------
(* create_stream. *)

At(c, from, to) == pc[c] = from /\ pc' = [pc EXCEPT ![c] = to]

\* start_stream returns or raises; the id it worked on is forgotten.
Done(c, from) == At(c, from, "idle") /\ sid' = [sid EXCEPT ![c] = c]

\* GET of the claim.
Check(c) ==
    /\ At(c, "idle", IF claim = Nil THEN "resolve" ELSE "backfill")
    /\ sid' = [sid EXCEPT ![c] = IF claim = Nil THEN c ELSE claim]
    /\ UNCHANGED <<redis, untouched, writes, stops, lists, same>>

\* SET NX of the identity of an existing stream, then StreamExistsError.
Backfill(c) ==
    /\ Done(c, "backfill")
    /\ identity' = IF identity = Nil THEN sid[c] ELSE identity
    /\ UNCHANGED <<claim, status, whole, all, stopKeys, untouched, writes, stops, lists, same>>

\* Taking the candidate id without looking for an earlier identity.
ResolveAfresh(c) ==
    /\ At(c, "resolve", "claim")
    /\ identity' = c
    /\ sid' = [sid EXCEPT ![c] = identity']
    /\ UNCHANGED <<claim, status, whole, all, stopKeys, untouched, writes, stops, lists, same>>

\* SET NX of the candidate id as identity, or GET of the one that exists (which
\* nothing ever deletes, so the two commands are one step).
Resolve(c) ==
    /\ At(c, "resolve", "claim")
    /\ identity' = IF identity = Nil THEN c ELSE identity
    /\ sid' = [sid EXCEPT ![c] = identity']
    /\ UNCHANGED <<claim, status, whole, all, stopKeys, untouched, writes, stops, lists, same>>

\* SET NX of the claim; another creator may have won.
ClaimSubreddit(c) ==
    /\ \/ claim = Nil /\ claim' = sid[c] /\ At(c, "claim", "write") /\ UNCHANGED sid
       \/ claim # Nil /\ Done(c, "claim") /\ UNCHANGED claim
    /\ UNCHANGED <<identity, status, whole, all, stopKeys, untouched, writes, stops, lists, same>>

\* HSET of the complete hash.
WriteMeta(c) ==
    /\ At(c, "write", "track")
    /\ status' = [status EXCEPT ![sid[c]] = "starting"]
    /\ whole' = whole \cup {sid[c]}
    /\ untouched' = {d \in untouched : sid[d] # sid[c]} \cup {c}
    /\ same' = [l \in Lister |-> same[l] \ {sid[c]}]
    /\ UNCHANGED <<claim, identity, all, stopKeys, sid, writes, stops, lists>>

\* SADD to streams:all; the index and the PostgreSQL row follow.
Track(c) ==
    /\ At(c, "track", "created")
    /\ all' = all \cup {sid[c]}
    /\ UNCHANGED <<claim, identity, status, whole, stopKeys, sid, untouched, writes, stops, lists, same>>

\* start_stream got the lease: update_status("active").
Activate(c) ==
    /\ Done(c, "created")
    /\ HSet(sid[c], "active") /\ writes' = MaxWrites
    /\ UNCHANGED <<claim, identity, whole, all, stopKeys, stops, lists>>

\* start_stream got the lease and lost it again, raised, was told to drain or found
\* an earlier run in _tasks: the entry stays, for a reconciler to adopt.
StartFails(c) ==
    /\ Done(c, "created")
    /\ untouched' = untouched \ {c}
    /\ UNCHANGED <<redis, writes, stops, lists, same>>

\* start_stream did not get the lease: delete_stream with the status and
\* updated_at that create_stream returned.
UndoCreate(c) ==
    /\ Done(c, "created")
    /\ IF c \in untouched
         THEN DeleteEntry(sid[c])
         ELSE UNCHANGED <<redis, untouched, same>>
    /\ UNCHANGED <<writes, stops, lists>>

\* The process dies in create_stream or right after it.
CreatorDies(c) ==
    /\ c \in Mortal /\ pc[c] # "dead"
    /\ pc' = [pc EXCEPT ![c] = "dead"] /\ sid' = [sid EXCEPT ![c] = c]
    /\ untouched' = untouched \ {c}
    /\ UNCHANGED <<redis, writes, stops, lists, same>>

-----------------------------------------------------------------------------
(* request_stop and the guarded status updates. *)

\* stop_stream of app.py and request_stop read a hash that is not dead.
StopBegins(s) ==
    /\ stopping[s] = "idle"
    /\ \E id \in Id :
         /\ status[id] \notin {"none"} \cup Dead
         /\ target' = [target EXCEPT ![s] = id]
    /\ stopping' = [stopping EXCEPT ![s] = "publish"]
    /\ UNCHANGED <<redis, creates, untouched, writes, lists, same>>

\* SET of the stop request.
Publish(s) ==
    /\ stopping[s] = "publish"
    /\ stopKeys' = stopKeys \cup {target[s]}
    /\ stopping' = [stopping EXCEPT ![s] = "mark"]
    /\ UNCHANGED <<claim, identity, status, whole, all, creates, untouched, writes, target, lists, same>>

\* update_status("stopping").
MarkStopping(s) ==
    /\ stopping[s] = "mark"
    /\ HSet(target[s], "stopping")
    /\ stopping' = [stopping EXCEPT ![s] = "idle"]
    /\ target' = [target EXCEPT ![s] = Legacy]
    /\ UNCHANGED <<claim, identity, whole, all, stopKeys, creates, writes, lists>>

\* update_status_if_owner with a terminal status, by the worker or the _run task of
\* a run whose instance the hash names.  The script does not look at the status: a
\* late write may hit an entry that is dead already, or one that was deleted and
\* created again by the same instance.
Settle(id) ==
    /\ writes > 0 /\ status[id] # "none"
    /\ writes' = writes - 1
    /\ \E s \in Dead : HSet(id, s)
    /\ UNCHANGED <<claim, identity, whole, all, stopKeys, creates, stops, lists>>

-----------------------------------------------------------------------------
(* list_streams and its callers. *)

Goes(l, from, to) == lpc[l] = from /\ lpc' = [lpc EXCEPT ![l] = to]

\* SMEMBERS; an empty set returns at once.
ListIds(l) ==
    /\ all # {} /\ Goes(l, "idle", "fetch")
    /\ seen' = [seen EXCEPT ![l] = all]
    /\ UNCHANGED <<redis, creates, untouched, writes, stops, stale, rows, same>>

\* A cleanup that overlooks streams that ended with an error.
ConcernsUnlessError(l, s) ==
    \/ l \in Cleaners /\ s = "stopped"
    \/ l \in Reconcilers /\ s \in {"starting", "active", "stopping"}

\* Whether the caller of list_streams does something about a row.
Concerns(l, s) ==
    \/ l \in Cleaners /\ s \in Dead
    \/ l \in Reconcilers /\ s \in {"starting", "active", "stopping"}

\* The pipeline of HGETALLs, one transaction.  A row without an id is of no use
\* to cleanup or reconciler.
Fetch(l) ==
    /\ Goes(l, "fetch", "prune")
    /\ stale' = [stale EXCEPT ![l] = {id \in seen[l] : status[id] = "none"}]
    /\ LET found == {id \in seen[l] \cap whole : Concerns(l, status[id])} IN
         /\ rows' = [rows EXCEPT ![l] = [id \in Id |-> IF id \in found THEN status[id] ELSE "none"]]
         /\ same' = [same EXCEPT ![l] = found]
    /\ seen' = [seen EXCEPT ![l] = {}]
    /\ UNCHANGED <<redis, creates, untouched, writes, stops>>

\* SREM of the ids that had no hash.
Prune(l) ==
    /\ Goes(l, "prune", "handle")
    /\ all' = all \ stale[l]
    /\ stale' = [stale EXCEPT ![l] = {}]
    /\ UNCHANGED <<claim, identity, status, whole, stopKeys, creates, untouched, writes, stops,
                   seen, rows, same>>

\* A row is dealt with.
Handle(l, id) ==
    /\ lpc[l] = "handle"
    /\ rows' = [rows EXCEPT ![l][id] = "none"]
    /\ UNCHANGED <<creates, stops, lpc, seen, stale>>

\* Deleting whatever is under the id by now.
RetireAnything(l, id) ==
    /\ l \in Cleaners /\ rows[l][id] \in Dead
    /\ Handle(l, id)
    /\ DeleteEntry(id)
    /\ UNCHANGED writes

\* DeadStreamCleanup: delete_stream with the status and updated_at of the row.
Retire(l, id) ==
    /\ l \in Cleaners /\ rows[l][id] \in Dead
    /\ Handle(l, id)
    /\ IF id \in same[l]
         THEN DeleteEntry(id)
         ELSE UNCHANGED <<redis, untouched, same>>
    /\ UNCHANGED writes

\* Finalizing to a status that the registry does not use.
FinalizeInactive(l, id) ==
    /\ l \in Reconcilers /\ rows[l][id] = "stopping"
    /\ Handle(l, id)
    /\ id \in same[l] /\ HSet(id, "inactive")
    /\ UNCHANGED <<claim, identity, whole, all, stopKeys, writes>>

\* reconcile_once: finalize_stop_if_unowned, whose comparisons hold and which
\* finds no lock, or one of them fails.
FinalizeStop(l, id) ==
    /\ l \in Reconcilers /\ rows[l][id] = "stopping"
    /\ Handle(l, id)
    /\ \/ id \in same[l] /\ HSet(id, "stopped")
       \/ UNCHANGED <<status, untouched, same>>
    /\ UNCHANGED <<claim, identity, whole, all, stopKeys, writes>>

\* reconcile_once: resume_stream activates the stream, or refuses.
Adopt(l, id) ==
    /\ l \in Reconcilers /\ rows[l][id] \in {"starting", "active"}
    /\ Handle(l, id)
    /\ \/ HSet(id, "active") /\ writes' = MaxWrites
       \/ UNCHANGED <<status, untouched, writes, same>>
    /\ UNCHANGED <<claim, identity, whole, all, stopKeys>>

\* The rows that concern the caller are dealt with.
Return(l) ==
    /\ rows[l] = NoRows /\ Goes(l, "handle", "idle")
    /\ same' = [same EXCEPT ![l] = {}]
    /\ UNCHANGED <<redis, creates, untouched, writes, stops, seen, stale, rows>>

-----------------------------------------------------------------------------

Create(c) ==
    \/ Check(c) \/ Backfill(c) \/ Resolve(c) \/ ClaimSubreddit(c) \/ WriteMeta(c)
    \/ Track(c) \/ Activate(c) \/ StartFails(c) \/ UndoCreate(c)

Stop(s) == StopBegins(s) \/ Publish(s) \/ MarkStopping(s)

List(l) ==
    \/ ListIds(l) \/ Fetch(l) \/ Prune(l) \/ Return(l)
    \/ \E id \in Id : Retire(l, id) \/ FinalizeStop(l, id) \/ Adopt(l, id)

Next ==
    \/ \E c \in Client : Create(c) \/ CreatorDies(c)
    \/ \E s \in Stopper : Stop(s)
    \/ \E l \in Lister : List(l)
    \/ \E id \in Id : Settle(id)

Spec == Init /\ [][Next]_vars

\* The sweeps of the cleanup task recur, and each of them ends.
FairSpec == Spec /\ \A l \in Cleaners : WF_vars(List(l))

-----------------------------------------------------------------------------
(* Properties. *)

\* "Stable stream_id used across restarts": whatever creators, backfills and
\* cleanups race, all keys of the subreddit speak of one id.
InUse == ({claim, identity} \ {Nil}) \cup {id \in Id : status[id] # "none"} \cup all \cup stopKeys

OneStreamId == \A id1, id2 \in InUse : id1 = id2

\* The slot that the keys spell out.
Slot ==
    IF claim = Nil THEN "free"
    ELSE IF claim \notin whole THEN "claimed"
    ELSE IF status[claim] = "starting" THEN "starting"
    ELSE IF status[claim] \in Dead THEN "dead" ELSE "running"

Entry == INSTANCE StreamSlot WITH slot <- Slot

\* "The registry atomically claims the subreddit" and "A cleanup sweep cannot
\* delete a concurrently restarted stream snapshot": the keys, written by several
\* commands of several processes, implement the slot.
ImplementsSlot == Entry!Spec

\* "Periodically removes ephemeral registry state for terminal streams": a dead
\* entry that is listed is removed, unless it is rewritten.
DeadIsRetired == (Slot = "dead" /\ claim \in all) ~> (Slot # "dead" \/ claim \notin all)

\* "List all streams": a complete entry is in streams:all as soon as the
\* create_stream that wrote it has put it there.
CreatedIsListed ==
    \A id \in whole : id \in all \/ \E c \in Client : pc[c] = "track" /\ sid[c] = id
=============================================================================
