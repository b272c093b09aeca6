------------------------ MODULE StreamRegistryProofs ------------------------
(* Proofs about StreamRegistry for any number of concurrent creators, stoppers,
   cleanups, reconcilers and readers, any of which may die.                    *)
EXTENDS StreamRegistry, TLAPS

-----------------------------------------------------------------------------
(* The inductive invariant. *)

\* The one id that the subreddit's keys may speak of.
Stable == IF identity = Nil THEN Legacy ELSE identity

\* create_stream has settled which id it works on.
HasId == {"backfill", "claim", "write", "track", "created"}

\* Everything in Redis, and everything a coroutine remembers, is under that id.
KeysAreStable ==
    /\ claim \in {Nil, Stable}
    /\ \A id \in Id : status[id] # "none" => id = Stable
    /\ whole \subseteq {Stable} /\ all \subseteq {Stable} /\ stopKeys \subseteq {Stable}

CallersAreStable ==
    /\ \A c \in Client : pc[c] \in HasId => sid[c] = Stable
    /\ \A s \in Stopper : stopping[s] # "idle" => target[s] = Stable
    /\ \A l \in Lister : seen[l] \subseteq {Stable}
    /\ \A l \in Lister, id \in Id : rows[l][id] # "none" => id = Stable

\* Nothing was ever stored, and nobody has anything in hand.
Blank ==
    /\ \A id \in Id : status[id] = "none"
    /\ whole = {} /\ all = {} /\ stopKeys = {}
    /\ \A s \in Stopper : stopping[s] = "idle"
    /\ \A l \in Lister : seen[l] = {} /\ \A id \in Id : rows[l][id] = "none"
    /\ \A c \in Client : pc[c] # "backfill"

\* An identity can still be chosen freely only as long as nothing is stored.
IdentityComesFirst ==
    identity = Nil =>
        /\ claim = Nil => Blank
        /\ claim # Nil => \A c \in Client : pc[c] # "resolve"
        /\ \A c \in Client : pc[c] \notin {"claim", "write", "track", "created"}

\* A complete hash has a status and the claim.
WholeIsClaimed == \A id \in whole : claim = id /\ status[id] # "none"

\* The claim keeps everybody else out until the hash is written.
OneWriter ==
    \A c \in Client : pc[c] = "write" =>
        /\ claim = sid[c] /\ sid[c] \notin whole
        /\ \A d \in Client : pc[d] = "write" => d = c

\* What comparing status and updated_at establishes.
SnapshotsAreCurrent ==
    /\ \A c \in untouched : /\ pc[c] \in {"track", "created"}
                            /\ sid[c] \in whole /\ status[sid[c]] = "starting"
    /\ \A l \in Lister : \A id \in same[l] :
         rows[l][id] # "none" => id \in whole /\ status[id] = rows[l][id]

RegistryInv ==
    /\ TypeOK
    /\ KeysAreStable /\ CallersAreStable /\ IdentityComesFirst
    /\ WholeIsClaimed /\ OneWriter /\ SnapshotsAreCurrent

-----------------------------------------------------------------------------
(* Types. *)

\* HSET and the delete script keep the types.
LEMMA HSetTyped ==
  ASSUME TypeOK, NEW id \in Id, NEW s \in Status, HSet(id, s)
  PROVE  /\ status' \in [Id -> Status]
         /\ untouched' \subseteq Client
         /\ same' \in [Lister -> SUBSET Id]
<1>1. \A l \in Lister : same[l] \ {id} \in SUBSET Id
  BY DEF TypeOK
<1> QED
  BY <1>1 DEF TypeOK, HSet, Outdate

LEMMA DeleteTyped ==
  ASSUME TypeOK, NEW id \in Id, DeleteEntry(id)
  PROVE  /\ claim' \in Id \cup {Nil} /\ identity' \in Id \cup {Nil}
         /\ status' \in [Id -> Status]
         /\ whole' \subseteq Id /\ all' \subseteq Id /\ stopKeys' \subseteq Id
         /\ untouched' \subseteq Client
         /\ same' \in [Lister -> SUBSET Id]
<1>1. "none" \in Status
  BY DEF Status
<1>2. HSet(id, "none")
  BY DEF DeleteEntry
<1> QED
  BY <1>1, <1>2, HSetTyped DEF TypeOK, DeleteEntry

\* A row is dealt with: the lister keeps its types.
LEMMA HandleTyped ==
  ASSUME TypeOK, NEW l \in Lister, NEW id \in Id, Handle(l, id)
  PROVE  rows' \in [Lister -> [Id -> Status]]
BY DEF TypeOK, Handle, Status

\* Every step keeps the types.
LEMMA TypesInductive == TypeOK /\ [Next]_vars => TypeOK'
<1> SUFFICES ASSUME TypeOK, [Next]_vars PROVE TypeOK'
  OBVIOUS
<1> USE DEF redis, creates, stops, lists, At, Done
<1>s. {"none", "starting", "active", "stopping", "stopped", "error"} = Status
  BY DEF Status
<1>i. Client \subseteq Id /\ Legacy \in Id
  BY DEF Id
<1>1. ASSUME NEW c \in Client, Create(c) \/ CreatorDies(c) PROVE TypeOK'
  <2>0. sid[c] \in Id
    BY DEF TypeOK
  <2>1. CASE Check(c)
    BY <2>1, <1>i DEF TypeOK, Check
  <2>2. CASE Backfill(c)
    BY <2>0, <2>2, <1>i DEF TypeOK, Backfill
  <2>3. CASE Resolve(c)
    BY <2>3, <1>i DEF TypeOK, Resolve
  <2>4. CASE ClaimSubreddit(c)
    BY <2>0, <2>4, <1>i DEF TypeOK, ClaimSubreddit
  <2>5. CASE WriteMeta(c)
    <3>1. \A l \in Lister : same[l] \ {sid[c]} \in SUBSET Id
      BY DEF TypeOK
    <3> QED
      BY <2>0, <2>5, <3>1, <1>s DEF TypeOK, WriteMeta
  <2>6. CASE Track(c)
    BY <2>0, <2>6 DEF TypeOK, Track
  <2>7. CASE Activate(c)
    BY <2>0, <2>7, <1>s, <1>i, HSetTyped, RegistryAssumption DEF TypeOK, Activate
  <2>8. CASE UndoCreate(c)
    BY <2>0, <2>8, <1>i, DeleteTyped DEF TypeOK, UndoCreate
  <2>9. CASE CreatorDies(c)
    BY <2>9, <1>i DEF TypeOK, CreatorDies
  <2>10. CASE StartFails(c)
    BY <2>10, <1>i DEF TypeOK, StartFails
  <2> QED
    BY <1>1, <2>1, <2>2, <2>3, <2>4, <2>5, <2>6, <2>7, <2>8, <2>9, <2>10 DEF Create
<1>2. ASSUME NEW s \in Stopper, Stop(s) PROVE TypeOK'
  <2>0. target[s] \in Id
    BY DEF TypeOK
  <2>1. CASE StopBegins(s)
    BY <2>1 DEF TypeOK, StopBegins
  <2>2. CASE Publish(s)
    BY <2>0, <2>2 DEF TypeOK, Publish
  <2>3. CASE MarkStopping(s)
    BY <2>0, <2>3, <1>s, <1>i, HSetTyped DEF TypeOK, MarkStopping
  <2> QED
    BY <1>2, <2>1, <2>2, <2>3 DEF Stop
<1>3. ASSUME NEW l \in Lister, List(l) PROVE TypeOK'
  <2> USE DEF Goes
  <2>1. CASE ListIds(l)
    BY <2>1 DEF TypeOK, ListIds
  <2>2. CASE Fetch(l)
    <3>1. PICK found \in SUBSET Id :
            /\ rows' = [rows EXCEPT ![l] = [id \in Id |-> IF id \in found THEN status[id] ELSE "none"]]
            /\ same' = [same EXCEPT ![l] = found]
      BY <2>2 DEF Fetch, TypeOK
    <3>2. [id \in Id |-> IF id \in found THEN status[id] ELSE "none"] \in [Id -> Status]
      BY <1>s DEF TypeOK
    <3>3. rows' \in [Lister -> [Id -> Status]] /\ same' \in [Lister -> SUBSET Id]
      BY <3>1, <3>2 DEF TypeOK
    <3>4. {id \in seen[l] : status[id] = "none"} \subseteq Id
      BY DEF TypeOK
    <3> QED
      BY <2>2, <3>3, <3>4 DEF TypeOK, Fetch
  <2>3. CASE Prune(l)
    BY <2>3 DEF TypeOK, Prune
  <2>4. CASE Return(l)
    BY <2>4 DEF TypeOK, Return
  <2>5. ASSUME NEW id \in Id, Retire(l, id) PROVE TypeOK'
    BY <2>5, DeleteTyped, HandleTyped DEF TypeOK, Retire, Handle
  <2>6. ASSUME NEW id \in Id, FinalizeStop(l, id) PROVE TypeOK'
    BY <2>6, <1>s, HSetTyped, HandleTyped DEF TypeOK, FinalizeStop, Handle
  <2>7. ASSUME NEW id \in Id, Adopt(l, id) PROVE TypeOK'
    BY <2>7, <1>s, HSetTyped, HandleTyped, RegistryAssumption DEF TypeOK, Adopt, Handle
  <2> QED
    BY <1>3, <2>1, <2>2, <2>3, <2>4, <2>5, <2>6, <2>7 DEF List
<1>4. ASSUME NEW id \in Id, Settle(id) PROVE TypeOK'
  <2>1. PICK s \in Dead : HSet(id, s)
    BY <1>4 DEF Settle
  <2>2. s \in Status
    BY <1>s DEF Dead
  <2>3. writes' \in 0..MaxWrites
    BY <1>4, RegistryAssumption DEF TypeOK, Settle
  <2> QED
    BY <1>4, <2>1, <2>2, <2>3, HSetTyped DEF TypeOK, Settle
<1>5. CASE UNCHANGED vars
  BY <1>5 DEF TypeOK, vars
<1> QED
  BY <1>1, <1>2, <1>3, <1>4, <1>5 DEF Next

-----------------------------------------------------------------------------
(* One id, one entry. *)

\* Every step keeps the invariant.
LEMMA RegistryInvInductive == RegistryInv /\ [Next]_vars => RegistryInv'
<1> SUFFICES ASSUME RegistryInv, [Next]_vars PROVE RegistryInv'
  OBVIOUS
<1>0. TypeOK /\ TypeOK'
  BY TypesInductive DEF RegistryInv
<1>i. Client \subseteq Id /\ Legacy \in Id /\ Nil \notin Id
  BY RegistryAssumption DEF Id
<1> USE <1>0, <1>i DEF redis, creates, stops, lists, At, Done, Goes, HasId
<1>1. ASSUME NEW c \in Client, Create(c) \/ CreatorDies(c) PROVE RegistryInv'
  <2>1. CASE Check(c)
    <3>1. KeysAreStable' /\ CallersAreStable'
      BY <2>1 DEF Check, RegistryInv, TypeOK, Stable, KeysAreStable, CallersAreStable
    <3>2. IdentityComesFirst'
      BY <2>1 DEF Check, RegistryInv, IdentityComesFirst, Blank
    <3>3. WholeIsClaimed' /\ OneWriter'
      BY <2>1 DEF Check, RegistryInv, WholeIsClaimed, OneWriter
    <3>4. SnapshotsAreCurrent'
      BY <2>1 DEF Check, RegistryInv, TypeOK, WholeIsClaimed, OneWriter, SnapshotsAreCurrent
    <3> QED
      BY <3>1, <3>2, <3>3, <3>4 DEF RegistryInv
  <2>2. CASE Backfill(c)
    <3>1. KeysAreStable' /\ CallersAreStable'
      BY <2>2 DEF Backfill, RegistryInv, TypeOK, Stable, KeysAreStable, CallersAreStable
    <3>2. IdentityComesFirst'
      BY <2>2 DEF Backfill, TypeOK, IdentityComesFirst
    <3>3. WholeIsClaimed' /\ OneWriter'
      BY <2>2 DEF Backfill, RegistryInv, WholeIsClaimed, OneWriter
    <3>4. SnapshotsAreCurrent'
      BY <2>2 DEF Backfill, RegistryInv, TypeOK, WholeIsClaimed, OneWriter,
         SnapshotsAreCurrent
    <3> QED
      BY <3>1, <3>2, <3>3, <3>4 DEF RegistryInv
  <2>3. CASE Resolve(c)
    <3>1. KeysAreStable' /\ CallersAreStable'
      BY <2>3 DEF Resolve, RegistryInv, TypeOK, Stable, KeysAreStable, CallersAreStable,
         IdentityComesFirst, Blank
    <3>2. IdentityComesFirst'
      BY <2>3 DEF Resolve, IdentityComesFirst
    <3>3. WholeIsClaimed' /\ OneWriter'
      BY <2>3 DEF Resolve, RegistryInv, WholeIsClaimed, OneWriter
    <3>4. SnapshotsAreCurrent'
      BY <2>3 DEF Resolve, RegistryInv, TypeOK, WholeIsClaimed, OneWriter,
         SnapshotsAreCurrent
    <3> QED
      BY <3>1, <3>2, <3>3, <3>4 DEF RegistryInv
  <2>4. CASE ClaimSubreddit(c)
    <3>1. KeysAreStable' /\ CallersAreStable'
      BY <2>4 DEF ClaimSubreddit, RegistryInv, TypeOK, Stable, KeysAreStable,
         CallersAreStable
    <3>2. IdentityComesFirst'
      BY <2>4 DEF ClaimSubreddit, RegistryInv, IdentityComesFirst
    <3>3. WholeIsClaimed' /\ OneWriter'
      <4>1. CASE claim = Nil
        <5>1. whole = {} /\ \A d \in Client : pc[d] # "write"
          BY <4>1 DEF RegistryInv, TypeOK, WholeIsClaimed, OneWriter
        <5> QED
          BY <2>4, <4>1, <5>1 DEF ClaimSubreddit, TypeOK, WholeIsClaimed, OneWriter
      <4>2. CASE claim # Nil
        <5>1. claim' = claim /\ whole' = whole /\ status' = status
          BY <2>4, <4>2 DEF ClaimSubreddit
        <5>2. ASSUME NEW d \in Client, pc'[d] = "write"
              PROVE  pc[d] = "write" /\ sid'[d] = sid[d]
          BY <2>4, <4>2, <5>2 DEF ClaimSubreddit, RegistryInv, TypeOK
        <5>3. WholeIsClaimed'
          BY <5>1 DEF RegistryInv, WholeIsClaimed
        <5>4. OneWriter'
          BY <5>1, <5>2 DEF RegistryInv, OneWriter
        <5> QED
          BY <5>3, <5>4
      <4> QED
        BY <4>1, <4>2
    <3>4. SnapshotsAreCurrent'
      BY <2>4 DEF ClaimSubreddit, RegistryInv, TypeOK, WholeIsClaimed, SnapshotsAreCurrent
    <3> QED
      BY <3>1, <3>2, <3>3, <3>4 DEF RegistryInv
  <2>5. CASE WriteMeta(c)
    <3>1. KeysAreStable' /\ CallersAreStable'
      BY <2>5 DEF WriteMeta, RegistryInv, Stable, KeysAreStable, CallersAreStable
    <3>2. IdentityComesFirst'
      BY <2>5 DEF WriteMeta, RegistryInv, IdentityComesFirst
    <3>3. WholeIsClaimed' /\ OneWriter'
      BY <2>5 DEF WriteMeta, RegistryInv, TypeOK, WholeIsClaimed, OneWriter
    <3>4. SnapshotsAreCurrent'
      BY <2>5 DEF WriteMeta, RegistryInv, TypeOK, WholeIsClaimed, OneWriter,
         SnapshotsAreCurrent
    <3> QED
      BY <3>1, <3>2, <3>3, <3>4 DEF RegistryInv
  <2>6. CASE Track(c)
    <3>1. KeysAreStable' /\ CallersAreStable'
      BY <2>6 DEF Track, RegistryInv, Stable, KeysAreStable, CallersAreStable
    <3>2. IdentityComesFirst'
      BY <2>6 DEF Track, RegistryInv, IdentityComesFirst
    <3>3. WholeIsClaimed' /\ OneWriter'
      BY <2>6 DEF Track, RegistryInv, WholeIsClaimed, OneWriter
    <3>4. SnapshotsAreCurrent'
      BY <2>6 DEF Track, RegistryInv, TypeOK, WholeIsClaimed, OneWriter, SnapshotsAreCurrent
    <3> QED
      BY <3>1, <3>2, <3>3, <3>4 DEF RegistryInv
  <2>7. CASE Activate(c)
    <3>1. KeysAreStable' /\ CallersAreStable'
      BY <2>7 DEF Activate, HSet, RegistryInv, TypeOK, Stable, KeysAreStable,
         CallersAreStable
    <3>2. IdentityComesFirst'
      BY <2>7 DEF Activate, RegistryInv, IdentityComesFirst
    <3>3. WholeIsClaimed' /\ OneWriter'
      BY <2>7 DEF Activate, HSet, RegistryInv, WholeIsClaimed, OneWriter
    <3>4. SnapshotsAreCurrent'
      BY <2>7 DEF Activate, HSet, Outdate, RegistryInv, SnapshotsAreCurrent
    <3> QED
      BY <3>1, <3>2, <3>3, <3>4 DEF RegistryInv
  <2>8. CASE UndoCreate(c)
    <3>1. KeysAreStable' /\ CallersAreStable'
      BY <2>8 DEF UndoCreate, DeleteEntry, HSet, RegistryInv, TypeOK, Stable, KeysAreStable,
         CallersAreStable
    <3>2. IdentityComesFirst'
      BY <2>8 DEF UndoCreate, DeleteEntry, RegistryInv, Stable, CallersAreStable,
         IdentityComesFirst
    <3>3. WholeIsClaimed' /\ OneWriter'
      BY <2>8 DEF UndoCreate, DeleteEntry, RegistryInv, WholeIsClaimed, OneWriter,
         SnapshotsAreCurrent
    <3>4. SnapshotsAreCurrent'
      BY <2>8 DEF UndoCreate, DeleteEntry, HSet, Outdate, RegistryInv, WholeIsClaimed,
         SnapshotsAreCurrent
    <3> QED
      BY <3>1, <3>2, <3>3, <3>4 DEF RegistryInv
  <2>9. CASE CreatorDies(c)
    <3>1. KeysAreStable' /\ CallersAreStable'
      BY <2>9 DEF CreatorDies, RegistryInv, TypeOK, Stable, KeysAreStable, CallersAreStable
    <3>2. IdentityComesFirst'
      BY <2>9 DEF CreatorDies, RegistryInv, IdentityComesFirst, Blank
    <3>3. WholeIsClaimed' /\ OneWriter'
      BY <2>9 DEF CreatorDies, RegistryInv, TypeOK, WholeIsClaimed, OneWriter
    <3>4. SnapshotsAreCurrent'
      BY <2>9 DEF CreatorDies, RegistryInv, TypeOK, WholeIsClaimed, OneWriter,
         SnapshotsAreCurrent
    <3> QED
      BY <3>1, <3>2, <3>3, <3>4 DEF RegistryInv
  <2>10. CASE StartFails(c)
    <3>1. KeysAreStable' /\ CallersAreStable'
      BY <2>10 DEF StartFails, RegistryInv, TypeOK, Stable, KeysAreStable, CallersAreStable
    <3>2. IdentityComesFirst'
      BY <2>10 DEF StartFails, RegistryInv, IdentityComesFirst, Blank
    <3>3. WholeIsClaimed' /\ OneWriter'
      BY <2>10 DEF StartFails, RegistryInv, TypeOK, WholeIsClaimed, OneWriter
    <3>4. SnapshotsAreCurrent'
      BY <2>10 DEF StartFails, RegistryInv, TypeOK, WholeIsClaimed, OneWriter,
         SnapshotsAreCurrent
    <3> QED
      BY <3>1, <3>2, <3>3, <3>4 DEF RegistryInv
  <2> QED
    BY <1>1, <2>1, <2>2, <2>3, <2>4, <2>5, <2>6, <2>7, <2>8, <2>9, <2>10 DEF Create
<1>2. ASSUME NEW s \in Stopper, Stop(s) PROVE RegistryInv'
  <2>1. CASE StopBegins(s)
    <3>1. KeysAreStable' /\ CallersAreStable'
      BY <2>1 DEF StopBegins, RegistryInv, TypeOK, Stable, KeysAreStable, CallersAreStable
    <3>2. IdentityComesFirst'
      BY <2>1 DEF StopBegins, RegistryInv, IdentityComesFirst, Blank
    <3>3. WholeIsClaimed' /\ OneWriter'
      BY <2>1 DEF StopBegins, RegistryInv, WholeIsClaimed, OneWriter
    <3>4. SnapshotsAreCurrent'
      BY <2>1 DEF StopBegins, RegistryInv, SnapshotsAreCurrent
    <3> QED
      BY <3>1, <3>2, <3>3, <3>4 DEF RegistryInv
  <2>2. CASE Publish(s)
    <3>1. KeysAreStable' /\ CallersAreStable'
      BY <2>2 DEF Publish, RegistryInv, Stable, KeysAreStable, CallersAreStable
    <3>2. IdentityComesFirst'
      BY <2>2 DEF Publish, RegistryInv, IdentityComesFirst, Blank
    <3>3. WholeIsClaimed' /\ OneWriter'
      BY <2>2 DEF Publish, RegistryInv, WholeIsClaimed, OneWriter
    <3>4. SnapshotsAreCurrent'
      BY <2>2 DEF Publish, RegistryInv, TypeOK, WholeIsClaimed, OneWriter,
         SnapshotsAreCurrent
    <3> QED
      BY <3>1, <3>2, <3>3, <3>4 DEF RegistryInv
  <2>3. CASE MarkStopping(s)
    <3>1. KeysAreStable' /\ CallersAreStable'
      BY <2>3 DEF MarkStopping, HSet, RegistryInv, TypeOK, Stable, KeysAreStable,
         CallersAreStable
    <3>2. IdentityComesFirst'
      BY <2>3 DEF MarkStopping, RegistryInv, IdentityComesFirst, Blank
    <3>3. WholeIsClaimed' /\ OneWriter'
      BY <2>3 DEF MarkStopping, HSet, RegistryInv, WholeIsClaimed, OneWriter
    <3>4. SnapshotsAreCurrent'
      BY <2>3 DEF MarkStopping, HSet, Outdate, RegistryInv, SnapshotsAreCurrent
    <3> QED
      BY <3>1, <3>2, <3>3, <3>4 DEF RegistryInv
  <2> QED
    BY <1>2, <2>1, <2>2, <2>3 DEF Stop
<1>3. ASSUME NEW l \in Lister, List(l) PROVE RegistryInv'
  <2>1. CASE ListIds(l)
    <3>1. KeysAreStable' /\ CallersAreStable'
      BY <2>1 DEF ListIds, RegistryInv, Stable, KeysAreStable, CallersAreStable
    <3>2. IdentityComesFirst'
      BY <2>1 DEF ListIds, RegistryInv, IdentityComesFirst, Blank
    <3>3. WholeIsClaimed' /\ OneWriter'
      BY <2>1 DEF ListIds, RegistryInv, WholeIsClaimed, OneWriter
    <3>4. SnapshotsAreCurrent'
      BY <2>1 DEF ListIds, RegistryInv, TypeOK, WholeIsClaimed, OneWriter,
         SnapshotsAreCurrent
    <3> QED
      BY <3>1, <3>2, <3>3, <3>4 DEF RegistryInv
  <2>2. CASE Fetch(l)
    <3>1. KeysAreStable' /\ CallersAreStable'
      BY <2>2 DEF Fetch, RegistryInv, Stable, KeysAreStable, CallersAreStable
    <3>2. IdentityComesFirst'
      BY <2>2 DEF Fetch, RegistryInv, IdentityComesFirst, Blank
    <3>3. WholeIsClaimed' /\ OneWriter'
      BY <2>2 DEF Fetch, RegistryInv, WholeIsClaimed, OneWriter
    <3>4. SnapshotsAreCurrent'
      BY <2>2 DEF Fetch, RegistryInv, TypeOK, WholeIsClaimed, OneWriter, SnapshotsAreCurrent
    <3> QED
      BY <3>1, <3>2, <3>3, <3>4 DEF RegistryInv
  <2>3. CASE Prune(l)
    <3>1. KeysAreStable' /\ CallersAreStable'
      BY <2>3 DEF Prune, RegistryInv, Stable, KeysAreStable, CallersAreStable
    <3>2. IdentityComesFirst'
      BY <2>3 DEF Prune, RegistryInv, IdentityComesFirst, Blank
    <3>3. WholeIsClaimed' /\ OneWriter'
      BY <2>3 DEF Prune, RegistryInv, WholeIsClaimed, OneWriter
    <3>4. SnapshotsAreCurrent'
      BY <2>3 DEF Prune, RegistryInv, TypeOK, WholeIsClaimed, OneWriter, SnapshotsAreCurrent
    <3> QED
      BY <3>1, <3>2, <3>3, <3>4 DEF RegistryInv
  <2>4. CASE Return(l)
    <3>1. KeysAreStable' /\ CallersAreStable'
      BY <2>4 DEF Return, RegistryInv, Stable, KeysAreStable, CallersAreStable
    <3>2. IdentityComesFirst'
      BY <2>4 DEF Return, RegistryInv, IdentityComesFirst, Blank
    <3>3. WholeIsClaimed' /\ OneWriter'
      BY <2>4 DEF Return, RegistryInv, WholeIsClaimed, OneWriter
    <3>4. SnapshotsAreCurrent'
      BY <2>4 DEF Return, RegistryInv, SnapshotsAreCurrent
    <3> QED
      BY <3>1, <3>2, <3>3, <3>4 DEF RegistryInv
  <2>5. ASSUME NEW id \in Id, Retire(l, id) PROVE RegistryInv'
    <3>1. KeysAreStable' /\ CallersAreStable'
      BY <2>5 DEF Retire, Handle, DeleteEntry, HSet, Dead, RegistryInv, TypeOK, Stable,
         KeysAreStable, CallersAreStable
    <3>2. IdentityComesFirst'
      BY <2>5 DEF Retire, Handle, DeleteEntry, RegistryInv, IdentityComesFirst, Blank
    <3>3. WholeIsClaimed' /\ OneWriter'
      BY <2>5 DEF Retire, Handle, DeleteEntry, Dead, RegistryInv, WholeIsClaimed, OneWriter,
         SnapshotsAreCurrent
    <3>4. SnapshotsAreCurrent'
      BY <2>5 DEF Retire, Handle, DeleteEntry, HSet, Outdate, Dead, RegistryInv,
         WholeIsClaimed, SnapshotsAreCurrent
    <3> QED
      BY <3>1, <3>2, <3>3, <3>4 DEF RegistryInv
  <2>6. ASSUME NEW id \in Id, FinalizeStop(l, id) PROVE RegistryInv'
    <3>1. KeysAreStable' /\ CallersAreStable'
      BY <2>6 DEF FinalizeStop, Handle, HSet, RegistryInv, TypeOK, Stable, KeysAreStable,
         CallersAreStable
    <3>2. IdentityComesFirst'
      BY <2>6 DEF FinalizeStop, Handle, RegistryInv, IdentityComesFirst, Blank
    <3>3. WholeIsClaimed' /\ OneWriter'
      BY <2>6 DEF FinalizeStop, Handle, HSet, RegistryInv, TypeOK, WholeIsClaimed, OneWriter
    <3>4. SnapshotsAreCurrent'
      BY <2>6 DEF FinalizeStop, Handle, HSet, Outdate, RegistryInv, WholeIsClaimed,
         SnapshotsAreCurrent
    <3> QED
      BY <3>1, <3>2, <3>3, <3>4 DEF RegistryInv
  <2>7. ASSUME NEW id \in Id, Adopt(l, id) PROVE RegistryInv'
    <3>1. KeysAreStable' /\ CallersAreStable'
      BY <2>7 DEF Adopt, Handle, HSet, RegistryInv, TypeOK, Stable, KeysAreStable,
         CallersAreStable
    <3>2. IdentityComesFirst'
      BY <2>7 DEF Adopt, Handle, RegistryInv, IdentityComesFirst, Blank
    <3>3. WholeIsClaimed' /\ OneWriter'
      BY <2>7 DEF Adopt, Handle, HSet, RegistryInv, TypeOK, WholeIsClaimed, OneWriter
    <3>4. SnapshotsAreCurrent'
      BY <2>7 DEF Adopt, Handle, HSet, Outdate, RegistryInv, TypeOK, SnapshotsAreCurrent
    <3> QED
      BY <3>1, <3>2, <3>3, <3>4 DEF RegistryInv
  <2> QED
    BY <1>3, <2>1, <2>2, <2>3, <2>4, <2>5, <2>6, <2>7 DEF List
<1>4. ASSUME NEW id \in Id, Settle(id) PROVE RegistryInv'
  <2>1. KeysAreStable' /\ CallersAreStable'
    BY <1>4 DEF Settle, HSet, RegistryInv, Stable, KeysAreStable, CallersAreStable
  <2>2. IdentityComesFirst'
    BY <1>4 DEF Settle, RegistryInv, IdentityComesFirst, Blank
  <2>3. WholeIsClaimed' /\ OneWriter'
    BY <1>4 DEF Settle, HSet, Dead, RegistryInv, WholeIsClaimed, OneWriter
  <2>4. SnapshotsAreCurrent'
    BY <1>4 DEF Settle, HSet, Outdate, RegistryInv, SnapshotsAreCurrent
  <2> QED
    BY <2>1, <2>2, <2>3, <2>4 DEF RegistryInv
<1>5. CASE UNCHANGED vars
  BY <1>5 DEF vars, RegistryInv, TypeOK, Stable, KeysAreStable, CallersAreStable,
     IdentityComesFirst, Blank, WholeIsClaimed, OneWriter, SnapshotsAreCurrent
<1> QED
  BY <1>1, <1>2, <1>3, <1>4, <1>5 DEF Next

\* The initial states satisfy the invariant.
LEMMA RegistryInvInitially == Init => RegistryInv
<1> SUFFICES ASSUME Init PROVE RegistryInv
  OBVIOUS
<1>1. TypeOK
  <2>1. writes \in 0..MaxWrites
    BY RegistryAssumption DEF Init
  <2> QED
    BY <2>1 DEF Init, TypeOK, Id, NoRows, Status
<1>2. KeysAreStable /\ CallersAreStable
  BY DEF Init, KeysAreStable, CallersAreStable, Stable, NoRows, HasId, Id
<1>3. IdentityComesFirst
  BY RegistryAssumption DEF Init, IdentityComesFirst, Blank, NoRows
<1>4. WholeIsClaimed /\ OneWriter /\ SnapshotsAreCurrent
  BY DEF Init, WholeIsClaimed, OneWriter, SnapshotsAreCurrent, NoRows, Id
<1> QED
  BY <1>1, <1>2, <1>3, <1>4 DEF RegistryInv

\* The invariant holds in every reachable state.
LEMMA RegistryInvAlways == Spec => []RegistryInv
BY RegistryInvInitially, RegistryInvInductive, PTL DEF Spec

\* Every reachable state of the registry is well typed.
THEOREM RegistryTypeCorrect == Spec => []TypeOK
<1>1. RegistryInv => TypeOK
  BY DEF RegistryInv
<1> QED
  BY <1>1, RegistryInvAlways, PTL

\* "Stable stream_id used across restarts": creators, backfills and cleanups that
\* race in any number never bring a second id into the keys of a subreddit.
THEOREM IdentityIsStable == Spec => []OneStreamId
<1>1. RegistryInv => OneStreamId
  <2> SUFFICES ASSUME RegistryInv PROVE InUse \subseteq {Stable}
    BY DEF OneStreamId
  <2> QED
    BY DEF RegistryInv, KeysAreStable, InUse, Stable
<1> QED
  BY <1>1, RegistryInvAlways, PTL

-----------------------------------------------------------------------------
(* The keys implement a slot. *)

\* A write of a status under which the stream may be at work.
LEMMA RunningStep ==
  ASSUME RegistryInv, NEW id \in Id, NEW s \in {"active", "stopping"},
         HSet(id, s), UNCHANGED <<claim, whole>>
  PROVE  [Entry!Next]_Slot
<1>1. status' = [status EXCEPT ![id] = s] /\ status \in [Id -> Status]
  BY DEF HSet, RegistryInv, TypeOK
<1>2. CASE claim # id \/ claim \notin whole
  <2>1. claim \in whole => status'[claim] = status[claim]
    BY <1>1, <1>2 DEF RegistryInv, TypeOK
  <2> QED
    BY <1>2, <2>1 DEF Slot
<1>3. CASE claim = id /\ claim \in whole
  <2>1. claim # Nil /\ status'[claim] = s
    BY <1>1, <1>3, RegistryAssumption DEF Id
  <2>2. Slot' = "running"
    BY <1>3, <2>1 DEF Slot, Dead
  <2>3. Slot \in {"starting", "dead", "running"}
    BY <1>3, <2>1 DEF Slot
  <2> QED
    BY <2>2, <2>3 DEF Entry!Next, Entry!Run, Entry!Move
<1> QED
  BY <1>2, <1>3

\* A write of a terminal status, whatever was there.
LEMMA DyingStep ==
  ASSUME RegistryInv, NEW id \in Id, NEW s \in Dead,
         HSet(id, s), UNCHANGED <<claim, whole>>
  PROVE  [Entry!Next]_Slot
<1>1. status' = [status EXCEPT ![id] = s] /\ status \in [Id -> Status]
  BY DEF HSet, RegistryInv, TypeOK
<1>2. CASE claim # id \/ claim \notin whole
  <2>1. claim \in whole => status'[claim] = status[claim]
    BY <1>1, <1>2 DEF RegistryInv, TypeOK
  <2> QED
    BY <1>2, <2>1 DEF Slot
<1>3. CASE claim = id /\ claim \in whole
  <2>1. claim # Nil /\ status'[claim] = s
    BY <1>1, <1>3, RegistryAssumption DEF Id
  <2>2. Slot \in {"starting", "running", "dead"} /\ Slot' = "dead"
    BY <1>3, <2>1 DEF Slot, Dead
  <2> QED
    BY <2>2 DEF Entry!Next, Entry!Die, Entry!Move
<1> QED
  BY <1>2, <1>3

\* The delete script, on an entry that is dead or that nobody touched.
LEMMA DeletingStep ==
  ASSUME RegistryInv, NEW id \in whole, DeleteEntry(id),
         status[id] \in Dead \cup {"starting"}
  PROVE  [Entry!Next]_Slot
<1>1. claim = id /\ id # Nil
  BY RegistryAssumption DEF RegistryInv, WholeIsClaimed, TypeOK, Id
<1>2. Slot \in {"dead", "starting"}
  BY <1>1 DEF Slot, Dead
<1>3. Slot' = "free"
  BY <1>1 DEF DeleteEntry, Slot
<1> QED
  BY <1>2, <1>3 DEF Entry!Next, Entry!Retire, Entry!Undo, Entry!Move

\* Every step of the registry is a step of the slot or leaves it alone.
LEMMA StepsImplementSlot == RegistryInv /\ [Next]_vars => [Entry!Next]_Slot
<1> SUFFICES ASSUME RegistryInv, [Next]_vars PROVE [Entry!Next]_Slot
  OBVIOUS
<1> USE DEF redis, creates, stops, lists, At, Done, Goes
<1>0. ASSUME UNCHANGED <<claim, whole, status>> PROVE [Entry!Next]_Slot
  BY <1>0 DEF Slot
<1>1. ASSUME NEW c \in Client, Create(c) \/ CreatorDies(c) PROVE [Entry!Next]_Slot
  <2>0. sid[c] \in Id
    BY DEF RegistryInv, TypeOK
  <2>1. CASE Check(c) \/ Backfill(c) \/ Resolve(c) \/ Track(c)
           \/ StartFails(c) \/ CreatorDies(c)
    BY <1>0, <2>1 DEF Check, Backfill, Resolve, Track, StartFails, CreatorDies
  <2>2. CASE ClaimSubreddit(c)
    <3>1. CASE claim = Nil
      <4>1. whole = {} /\ sid[c] # Nil
        BY <2>0, <3>1, RegistryAssumption DEF RegistryInv, WholeIsClaimed, TypeOK, Id
      <4>2. Slot = "free" /\ Slot' = "claimed"
        BY <2>2, <3>1, <4>1 DEF ClaimSubreddit, Slot
      <4> QED
        BY <4>2 DEF Entry!Next, Entry!Claim, Entry!Move
    <3>2. CASE claim # Nil
      BY <1>0, <2>2, <3>2 DEF ClaimSubreddit
    <3> QED
      BY <3>1, <3>2
  <2>3. CASE WriteMeta(c)
    <3>1. claim = sid[c] /\ sid[c] \notin whole /\ claim # Nil
      BY <2>0, <2>3, RegistryAssumption DEF WriteMeta, RegistryInv, OneWriter, Id
    <3>2. Slot = "claimed"
      BY <3>1 DEF Slot
    <3>3. status'[sid[c]] = "starting" /\ claim' = claim /\ sid[c] \in whole'
      BY <2>0, <2>3 DEF WriteMeta, RegistryInv, TypeOK
    <3>4. Slot' = "starting"
      BY <3>1, <3>3 DEF Slot
    <3> QED
      BY <3>2, <3>4 DEF Entry!Next, Entry!Open, Entry!Move
  <2>4. CASE Activate(c)
    BY <2>0, <2>4, RunningStep DEF Activate
  <2>5. CASE UndoCreate(c)
    <3>1. CASE c \in untouched
      BY <2>5, <3>1, DeletingStep DEF UndoCreate, RegistryInv, SnapshotsAreCurrent
    <3>2. CASE c \notin untouched
      BY <1>0, <2>5, <3>2 DEF UndoCreate
    <3> QED
      BY <3>1, <3>2
  <2> QED
    BY <1>1, <2>1, <2>2, <2>3, <2>4, <2>5 DEF Create
<1>2. ASSUME NEW s \in Stopper, Stop(s) PROVE [Entry!Next]_Slot
  <2>1. CASE StopBegins(s) \/ Publish(s)
    BY <1>0, <2>1 DEF StopBegins, Publish
  <2>2. CASE MarkStopping(s)
    <3>1. target[s] \in Id
      BY DEF RegistryInv, TypeOK
    <3> QED
      BY <2>2, <3>1, RunningStep DEF MarkStopping
  <2> QED
    BY <1>2, <2>1, <2>2 DEF Stop
<1>3. ASSUME NEW l \in Lister, List(l) PROVE [Entry!Next]_Slot
  <2>1. CASE ListIds(l) \/ Fetch(l) \/ Prune(l) \/ Return(l)
    BY <1>0, <2>1 DEF ListIds, Fetch, Prune, Return
  <2>2. ASSUME NEW id \in Id, Retire(l, id) PROVE [Entry!Next]_Slot
    <3>1. CASE id \in same[l]
      <4>1. rows[l][id] \in Dead /\ DeleteEntry(id)
        BY <2>2, <3>1 DEF Retire
      <4>2. id \in whole /\ status[id] \in Dead
        BY <3>1, <4>1 DEF RegistryInv, SnapshotsAreCurrent, Dead
      <4> QED
        BY <4>1, <4>2, DeletingStep
    <3>2. CASE id \notin same[l]
      BY <1>0, <2>2, <3>2 DEF Retire
    <3> QED
      BY <3>1, <3>2
  <2>3. ASSUME NEW id \in Id, FinalizeStop(l, id) PROVE [Entry!Next]_Slot
    <3>1. CASE id \in same[l] /\ HSet(id, "stopped")
      <4>1. UNCHANGED <<claim, whole>> /\ "stopped" \in Dead
        BY <2>3 DEF FinalizeStop, Dead
      <4> QED
        BY <3>1, <4>1, DyingStep
    <3>2. CASE UNCHANGED <<status, untouched, same>>
      BY <1>0, <2>3, <3>2 DEF FinalizeStop
    <3> QED
      BY <2>3, <3>1, <3>2 DEF FinalizeStop
  <2>4. ASSUME NEW id \in Id, Adopt(l, id) PROVE [Entry!Next]_Slot
    BY <1>0, <2>4, RunningStep DEF Adopt
  <2> QED
    BY <1>3, <2>1, <2>2, <2>3, <2>4 DEF List
<1>4. ASSUME NEW id \in Id, Settle(id) PROVE [Entry!Next]_Slot
  BY <1>4, DyingStep DEF Settle
<1>5. CASE UNCHANGED vars
  BY <1>0, <1>5 DEF vars
<1> QED
  BY <1>1, <1>2, <1>3, <1>4, <1>5 DEF Next

\* "The registry atomically claims the subreddit" and "A cleanup sweep cannot
\* delete a concurrently restarted stream snapshot", for any number of replicas:
\* the keys implement the slot.
THEOREM RegistryImplementsSlot == Spec => ImplementsSlot
<1>1. Init => Entry!Init
  BY RegistryAssumption DEF Init, Entry!Init, Slot, Dead, NoRows, Id
<1> QED
  BY <1>1, RegistryInvAlways, StepsImplementSlot, PTL
     DEF Spec, ImplementsSlot, Entry!Spec
=============================================================================
