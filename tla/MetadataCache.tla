----------------------------- MODULE MetadataCache -----------------------------
(***************************************************************************)
(* The cache of the external API (external/cache.py), the requests that    *)
(* read through it (external/service.py), the administration of it         *)
(* (external/router.py) and the catalogue it caches, which changes without *)
(* ever telling it.                                                        *)
(*                                                                         *)
(* A request by URN resolves the URN to a dataset id, through the cache,   *)
(* and then builds or finds the metadata, through the cache.  The database *)
(* is awaited in between, the cache is not: what a request does from one   *)
(* answer of the database to its next question is one step.  Avro schemas  *)
(* are read through the cache as the metadata is, and not modelled apart.  *)
(***************************************************************************)
EXTENDS Integers, Sequences, FiniteSets, SequencesExt

CONSTANTS
    Urns,        \* URNs a dataset may have
    Requests,    \* concurrent requests
    MaxSizes,    \* values of cache_max_size
    Ttls,        \* values of cache_ttl_seconds, in ticks
    MaxChanges,  \* bound: datasets created and contents written
    MaxFlight,   \* bound: ticks a request takes
    Ancient      \* bound: ticks after which a content is as good as never there

\* schemas.py:60-61, both settings are bounded from below and from above.
ASSUME SettingsAssumption ==
    /\ MaxSizes \subseteq Nat \ {0}
    /\ Ttls \subseteq Nat /\ \E t \in Ttls : \A s \in Ttls : s <= t
ASSUME BoundsAssumption == MaxChanges \in Nat /\ MaxFlight \in Nat /\ Ancient \in Nat

VARIABLES
    \* the catalogue
    id,       \* the id of the dataset that has a URN, 0 when none has
    content,  \* what that dataset's metadata says, 0 when there is none
    changes,  \* ids and contents given out so far
    owners,   \* history: the ids of the datasets that have or had a URN
    past,     \* history: ticks since one of these last said this; for 0, ticks
              \* since no dataset had the URN
    \* the process
    cache,    \* OrderedDict: the entry used longest ago first
    maxSize, ttl,
    req,      \* the requests
    answer    \* history: what this step answered to whom

catalogue == <<id, content, changes, owners, past>>
settings == <<maxSize, ttl>>
vars == <<catalogue, cache, settings, req, answer>>
-----------------------------------------------------------------------------
Contents == 0 .. MaxChanges

\* Keys are strings "<kind>:<name>"; the names are URNs, and ids where
\* invalidate_by_id takes them for such.
MapKey(u) == <<"urn_map", u>>
DataKey(n) == <<"metadata", n>>
OldestTtl == CHOOSE t \in Ttls : \A s \in Ttls : s <= t

IdleRequest == [pc |-> "idle", urn |-> 0, id |-> 0, val |-> 0, noCache |-> FALSE, flight |-> 0]
NoAnswer == [kind |-> "none", urn |-> 0, val |-> 0]

Init ==
    /\ id = [u \in Urns |-> 0]
    /\ content = [u \in Urns |-> 0]
    /\ changes = 0
    /\ owners = [u \in Urns |-> {}]
    /\ past = [u \in Urns |-> [c \in Contents |-> IF c = 0 THEN 0 ELSE Ancient]]
    /\ cache = <<>>
    /\ maxSize \in MaxSizes
    /\ ttl \in Ttls
    /\ req = [r \in Requests |-> IdleRequest]
    /\ answer = NoAnswer
-----------------------------------------------------------------------------
(* The operations of the cache, on its content c. *)

Has(c, k) == \E i \in DOMAIN c : c[i].key = k
Place(c, k) == CHOOSE i \in DOMAIN c : c[i].key = k
EntryOf(c, k) == c[Place(c, k)]
Without(c, k) == IF Has(c, k) THEN RemoveAt(c, Place(c, k)) ELSE c
Newest(c, n) == SubSeq(c, Len(c) - n + 1, Len(c))

Hit(c, k) == Has(c, k) /\ EntryOf(c, k).age <= ttl

\* Mutant: an entry lives on as long as it is asked for.
GetSliding(c, k) ==
    IF Hit(c, k) THEN Append(Without(c, k), [EntryOf(c, k) EXCEPT !.age = 0])
    ELSE Without(c, k)

\* get: a hit makes the entry the newest, an expired entry goes.
Get(c, k) ==
    IF Hit(c, k) THEN Append(Without(c, k), EntryOf(c, k))
    ELSE Without(c, k)

\* Mutant: one entry too many is kept.
PutOneMore(c, k, v) ==
    LET rest == IF Has(c, k) THEN Without(c, k)
                ELSE IF Len(c) > maxSize THEN Newest(c, maxSize) ELSE c
    IN  Append(rest, [key |-> k, val |-> v, age |-> 0])

\* put: the oldest entries make room.
Put(c, k, v) ==
    LET rest == IF Has(c, k) THEN Without(c, k)
                ELSE IF Len(c) >= maxSize THEN Newest(c, maxSize - 1) ELSE c
    IN  Append(rest, [key |-> k, val |-> v, age |-> 0])
-----------------------------------------------------------------------------
(* The catalogue. *)

\* What is said of a URN at this moment: by the datasets that have or had it.
Said(ids, owned, said, u) ==
    {said[v] : v \in {v \in Urns : ids[v] \in owned[u]}}
        \cup (IF ids[u] = 0 THEN {0} ELSE {})

\* The catalogue commits; nothing tells the cache.
Changed(ids, said, n) ==
    LET owned == [u \in Urns |-> owners[u] \cup ({ids[u]} \ {0})] IN
    /\ id' = ids
    /\ content' = said
    /\ changes' = n
    /\ owners' = owned
    /\ past' = [u \in Urns |-> [c \in Contents |->
                   IF c \in Said(ids, owned, said, u) THEN 0 ELSE past[u][c]]]
    /\ answer' = NoAnswer
    /\ UNCHANGED <<cache, settings, req>>

Create(u) ==
    LET n == changes + 1 IN
    /\ id[u] = 0
    /\ changes < MaxChanges
    /\ Changed([id EXCEPT ![u] = n], [content EXCEPT ![u] = n], n)

Update(u) ==
    LET n == changes + 1 IN
    /\ id[u] # 0
    /\ changes < MaxChanges
    /\ Changed(id, [content EXCEPT ![u] = n], n)

Delete(u) ==
    /\ id[u] # 0
    /\ Changed([id EXCEPT ![u] = 0], [content EXCEPT ![u] = 0], changes)

\* update_dataset with another qualified_name: the URN follows.
Rename(u, v) ==
    /\ id[u] # 0 /\ id[v] = 0
    /\ Changed([id EXCEPT ![v] = id[u], ![u] = 0],
               [content EXCEPT ![v] = content[u], ![u] = 0], changes)
-----------------------------------------------------------------------------
(* The requests. *)

\* The answer 0 is a 404.
Answered(r, v) ==
    /\ answer' = [kind |-> "metadata", urn |-> req[r].urn, val |-> v]
    /\ req' = [req EXCEPT ![r] = IdleRequest]

\* The dataset is known to be i: its metadata is in the cache, or to be built.
Lookup(r, q, c) ==
    LET k == DataKey(q.urn) IN
    IF q.noCache
    THEN /\ req' = [req EXCEPT ![r] = [q EXCEPT !.pc = "build"]]
         /\ cache' = c
         /\ answer' = NoAnswer
    ELSE /\ cache' = Get(c, k)
         /\ IF Hit(c, k)
            THEN /\ answer' = [kind |-> "metadata", urn |-> q.urn, val |-> EntryOf(c, k).val]
                 /\ req' = [req EXCEPT ![r] = IdleRequest]
            ELSE /\ answer' = NoAnswer
                 /\ req' = [req EXCEPT ![r] = [q EXCEPT !.pc = "build"]]

\* GET /external/metadata?urn=u: first the mapping.
AskByUrn(r, u, noCache) ==
    LET q == [IdleRequest EXCEPT !.urn = u, !.noCache = noCache]
        k == MapKey(u)
    IN
    /\ req[r].pc = "idle"
    /\ IF Hit(cache, k)
       THEN Lookup(r, [q EXCEPT !.id = EntryOf(cache, k).val], Get(cache, k))
       ELSE /\ req' = [req EXCEPT ![r] = [q EXCEPT !.pc = "query"]]
            /\ cache' = Get(cache, k)
            /\ answer' = NoAnswer
    /\ UNCHANGED <<catalogue, settings>>

\* The database says which dataset has the URN; an unknown URN is a 404.
Query(r) ==
    LET q == req[r] IN
    /\ q.pc = "query"
    /\ IF id[q.urn] = 0
       THEN Answered(r, 0)
       ELSE /\ req' = [req EXCEPT ![r].pc = "found", ![r].id = id[q.urn]]
            /\ answer' = NoAnswer
    /\ UNCHANGED <<catalogue, cache, settings>>

\* The mapping is cached.
Found(r) ==
    /\ req[r].pc = "found"
    /\ Lookup(r, req[r], Put(cache, MapKey(req[r].urn), req[r].id))
    /\ UNCHANGED <<catalogue, settings>>

\* GET /external/datasets/{id}/metadata: the URN is read from the database.
AskById(r, i, noCache) ==
    /\ req[r].pc = "idle"
    /\ req' = [req EXCEPT ![r] = [IdleRequest EXCEPT !.pc = "byid", !.id = i, !.noCache = noCache]]
    /\ answer' = NoAnswer
    /\ UNCHANGED <<catalogue, cache, settings>>

FindById(r) ==
    LET q == req[r] IN
    /\ q.pc = "byid"
    /\ \/ \E u \in Urns : id[u] = q.id /\ Lookup(r, [q EXCEPT !.urn = u], cache)
       \/ /\ \A u \in Urns : id[u] # q.id
          /\ answer' = NoAnswer
          /\ req' = [req EXCEPT ![r] = IdleRequest]
          /\ UNCHANGED cache
    /\ UNCHANGED <<catalogue, settings>>

\* _build_metadata reads the dataset by its id, whatever URN it has by now.
Build(r) ==
    LET q == req[r] IN
    /\ q.pc = "build"
    /\ \/ \E u \in Urns :
             /\ id[u] = q.id
             /\ req' = [req EXCEPT ![r].pc = "built", ![r].val = content[u]]
             /\ answer' = NoAnswer
       \/ (\A u \in Urns : id[u] # q.id) /\ Answered(r, 0)
    /\ UNCHANGED <<catalogue, cache, settings>>

\* The metadata is cached, also for a request with no_cache, and returned.
Built(r) ==
    /\ req[r].pc = "built"
    /\ cache' = Put(cache, DataKey(req[r].urn), req[r].val)
    /\ Answered(r, req[r].val)
    /\ UNCHANGED <<catalogue, settings>>
-----------------------------------------------------------------------------
(* The administration, and time. *)

\* DELETE /external/datasets/{id}/cache removes the keys metadata:<id>, avro:<id>.
InvalidateById(i) ==
    /\ i # 0
    /\ cache' = Without(cache, DataKey(i))
    /\ answer' = [kind |-> "invalidated", urn |-> 0, val |-> i]
    /\ UNCHANGED <<catalogue, settings, req>>

\* DELETE /external/cache.
Clear ==
    /\ cache' = <<>>
    /\ answer' = NoAnswer
    /\ UNCHANGED <<catalogue, settings, req>>

\* PUT /external/cache/config.
Reconfigure(size, seconds) ==
    /\ maxSize' = size
    /\ ttl' = seconds
    /\ cache' = IF Len(cache) > size THEN Newest(cache, size) ELSE cache
    /\ answer' = NoAnswer
    /\ UNCHANGED <<catalogue, req>>

Older(n, limit) == IF n < limit THEN n + 1 ELSE n

\* A second passes; no request in flight outlives MaxFlight.
Tick ==
    /\ \A r \in Requests : req[r].pc = "idle" \/ req[r].flight < MaxFlight
    /\ past' = [u \in Urns |-> [c \in Contents |->
                   IF c \in Said(id, owners, content, u) THEN 0 ELSE Older(past[u][c], Ancient)]]
    /\ cache' = [i \in DOMAIN cache |->
                   [cache[i] EXCEPT !.age = Older(@, OldestTtl + 1)]]
    /\ req' = [r \in Requests |->
                  IF req[r].pc = "idle" THEN req[r]
                  ELSE [req[r] EXCEPT !.flight = @ + 1]]
    /\ answer' = NoAnswer
    /\ UNCHANGED <<id, content, changes, owners, settings>>

Next ==
    \/ \E u \in Urns :
          \/ Create(u) \/ Update(u) \/ Delete(u)
          \/ \E v \in Urns : Rename(u, v)
    \/ \E r \in Requests :
          \/ \E noCache \in BOOLEAN :
                \/ \E u \in Urns : AskByUrn(r, u, noCache)
                \/ \E i \in 1 .. changes : AskById(r, i, noCache)
          \/ Query(r) \/ Found(r) \/ FindById(r) \/ Build(r) \/ Built(r)
    \/ \E i \in 1 .. changes : InvalidateById(i)
    \/ Clear
    \/ \E size \in MaxSizes, seconds \in Ttls : Reconfigure(size, seconds)
    \/ Tick

Spec == Init /\ [][Next]_vars
-----------------------------------------------------------------------------
\* The cache never holds more than the configured number of entries, also after
\* the limit is lowered while requests are in flight.
SizeWithinLimit == Len(cache) <= maxSize

\* How old an answer may be: a mapping or a content may be read a request before
\* it is cached, and be used by a request as long as the TTL allows.
Staleness == OldestTtl + 2 * MaxFlight

\* Whatever is answered for a URN was true at some moment of the last TTL and of
\* the two requests involved: metadata of a dataset that has or had the URN, a 404
\* of the URN itself.
AnswerWasTrue ==
    answer.kind = "metadata" => past[answer.urn][answer.val] <= Staleness

\* router.py:125, the endpoint invalidates the cached data of the dataset it is
\* given by id.
InvalidatedIsGone ==
    answer.kind = "invalidated" =>
        \A u \in Urns : id[u] = answer.val => ~Has(cache, DataKey(u))
================================================================================
