-------------------------- MODULE MetadataCacheProofs --------------------------
(***************************************************************************)
(* The cache of the external API answers nothing that has not been true    *)
(* for a TTL and two requests, and stays within its limit: for any number  *)
(* of URNs and requests, any settings and however long it runs.  It is a   *)
(* dictionary: no key has two entries.                                     *)
(*                                                                         *)
(* An entry, a request and an answer each stand for a fact about the       *)
(* catalogue that was read some ticks ago.  The invariant says how many    *)
(* at most: no step but Tick makes a fact older, and Tick ages whatever    *)
(* stands for it as well.                                                  *)
(***************************************************************************)
EXTENDS MetadataCache, SequenceTheorems, TLAPS

\* URN u has dataset i; or it had it, and no dataset at some time since that is
\* no more than n ticks ago.
Mapped(u, i, n) == i \in owners[u] /\ (id[u] = i \/ past[u][0] <= n)
\* A dataset of URN u said c no more than n ticks ago.
Told(u, c, n) == c \in Contents /\ past[u][c] <= n

CatalogueInv ==
    /\ id \in [Urns -> Nat]
    /\ content \in [Urns -> Contents]
    /\ changes \in Contents
    /\ owners \in [Urns -> SUBSET (Nat \ {0})]
    /\ past \in [Urns -> [Contents -> Nat]]
    /\ \A u \in Urns : id[u] # 0 => id[u] \in owners[u]
    /\ \A u \in Urns : \A c \in Said(id, owners, content, u) : past[u][c] = 0

SettingsInv == maxSize \in MaxSizes /\ ttl \in Ttls

\* Entries, the ones that have not expired for any TTL with a fact that was read
\* by the request that wrote them.
Entry == [key : {"urn_map", "metadata"} \X Urns, val : Nat, age : Nat]
TrueOf(e) ==
    \A u \in Urns :
        /\ e.key = MapKey(u) => Mapped(u, e.val, e.age + MaxFlight)
        /\ e.key = DataKey(u) => Told(u, e.val, e.age + MaxFlight)
Kept == {e \in Entry : e.age <= OldestTtl => TrueOf(e)}
CacheInv == cache \in Seq(Kept) /\ Len(cache) <= maxSize

\* Requests: a dataset id may come from an entry as old as the TTL.
Request ==
    [pc : {"idle", "query", "found", "byid", "build", "built"}, urn : Urns \cup {0},
     id : Nat, val : Nat, noCache : BOOLEAN, flight : 0 .. MaxFlight]
Grounded(q) ==
    /\ q.pc \in {"query", "found", "build", "built"} => q.urn \in Urns
    /\ q.pc = "byid" => q.id # 0
    /\ q.pc = "found" => Mapped(q.urn, q.id, q.flight)
    /\ q.pc = "build" => Mapped(q.urn, q.id, OldestTtl + MaxFlight + q.flight)
    /\ q.pc = "built" => Told(q.urn, q.val, q.flight)
Sound == {q \in Request : Grounded(q)}
RequestInv == req \in [Requests -> Sound]

AnswerInv ==
    answer.kind = "metadata" => answer.urn \in Urns /\ Told(answer.urn, answer.val, Staleness)

Inv == CatalogueInv /\ SettingsInv /\ CacheInv /\ RequestInv /\ AnswerInv
-----------------------------------------------------------------------------
(* The operators of the cache, for entries of any set S. *)

LEMMA OldestIsNat == OldestTtl \in Nat /\ \A t \in Ttls : t \in Nat /\ t <= OldestTtl
BY SettingsAssumption DEF OldestTtl

LEMMA FoundEntry ==
    ASSUME NEW S, NEW c \in Seq(S), NEW k, Has(c, k)
    PROVE  /\ Place(c, k) \in 1 .. Len(c)
           /\ EntryOf(c, k) \in S
           /\ EntryOf(c, k).key = k
<1>1. DOMAIN c = 1 .. Len(c) /\ \A i \in 1 .. Len(c) : c[i] \in S
  BY LenProperties, ElementOfSeq
<1>2. Place(c, k) \in 1 .. Len(c) /\ c[Place(c, k)].key = k
  BY <1>1 DEF Has, Place
<1> QED
  BY <1>1, <1>2 DEF EntryOf

\* Without takes at most one entry away.
LEMMA WithoutKeeps ==
    ASSUME NEW S, NEW c \in Seq(S), NEW k
    PROVE  /\ Without(c, k) \in Seq(S)
           /\ Len(Without(c, k)) = IF Has(c, k) THEN Len(c) - 1 ELSE Len(c)
<1>1. CASE ~Has(c, k)
  BY <1>1 DEF Without
<1>2. CASE Has(c, k)
  <2> DEFINE i == Place(c, k)
             left == SubSeq(c, 1, i - 1)
             right == SubSeq(c, i + 1, Len(c))
  <2>1. Len(c) \in Nat /\ i \in 1 .. Len(c) /\ \A j \in 1 .. Len(c) : c[j] \in S
    BY <1>2, FoundEntry, LenProperties, ElementOfSeq
  <2> HIDE DEF i
  <2>2. left \in Seq(S) /\ Len(left) = i - 1
    <3>1. i - 1 \in Int /\ \A j \in 1 .. i - 1 : c[j] \in S
      BY <2>1
    <3> QED
      BY <3>1, <2>1, SubSeqProperties
  <2>3. right \in Seq(S) /\ Len(right) = Len(c) - i
    <3>1. i + 1 \in Int /\ Len(c) \in Int /\ \A j \in i + 1 .. Len(c) : c[j] \in S
      BY <2>1
    <3> QED
      BY <3>1, <2>1, SubSeqProperties
  <2>4. Without(c, k) = left \o right
    BY <1>2 DEF Without, RemoveAt, i
  <2> HIDE DEF left, right
  <2>5. left \o right \in Seq(S) /\ Len(left \o right) = Len(left) + Len(right)
    BY <2>2, <2>3, ConcatProperties
  <2> QED
    BY <1>2, <2>1, <2>2, <2>3, <2>4, <2>5
<1> QED
  BY <1>1, <1>2

LEMMA NewestKeeps ==
    ASSUME NEW S, NEW c \in Seq(S), NEW n \in 0 .. Len(c)
    PROVE  Newest(c, n) \in Seq(S) /\ Len(Newest(c, n)) = n
<1>1. Len(c) \in Nat /\ \A j \in 1 .. Len(c) : c[j] \in S
  BY LenProperties, ElementOfSeq
<1>2. Len(c) - n + 1 \in Int /\ Len(c) \in Int /\ \A j \in Len(c) - n + 1 .. Len(c) : c[j] \in S
  BY <1>1
<1>3. /\ SubSeq(c, Len(c) - n + 1, Len(c)) \in Seq(S)
      /\ Len(SubSeq(c, Len(c) - n + 1, Len(c)))
            = IF Len(c) - n + 1 <= Len(c) THEN Len(c) - (Len(c) - n + 1) + 1 ELSE 0
  BY <1>2, SubSeqProperties
<1> QED
  BY <1>1, <1>3 DEF Newest

LEMMA GetKeeps ==
    ASSUME NEW S, NEW c \in Seq(S), NEW k
    PROVE  Get(c, k) \in Seq(S) /\ Len(Get(c, k)) <= Len(c)
<1>1. /\ Without(c, k) \in Seq(S) /\ Len(c) \in Nat
      /\ Len(Without(c, k)) = IF Has(c, k) THEN Len(c) - 1 ELSE Len(c)
  BY WithoutKeeps, LenProperties
<1>2. CASE Hit(c, k)
  <2>1. Has(c, k) /\ EntryOf(c, k) \in S
    BY <1>2, FoundEntry DEF Hit
  <2> QED
    BY <1>1, <1>2, <2>1, AppendProperties DEF Get
<1>3. CASE ~Hit(c, k)
  BY <1>1, <1>3 DEF Get
<1> QED
  BY <1>2, <1>3

LEMMA PutKeeps ==
    ASSUME NEW S, NEW c \in Seq(S), NEW k, NEW v, [key |-> k, val |-> v, age |-> 0] \in S,
           maxSize \in Nat \ {0}, Len(c) <= maxSize
    PROVE  Put(c, k, v) \in Seq(S) /\ Len(Put(c, k, v)) <= maxSize
<1> DEFINE rest == IF Has(c, k) THEN Without(c, k)
                   ELSE IF Len(c) >= maxSize THEN Newest(c, maxSize - 1) ELSE c
<1>1. Len(c) \in Nat
  BY LenProperties
<1>2. rest \in Seq(S) /\ Len(rest) \in Nat /\ Len(rest) < maxSize
  <2>1. CASE Has(c, k)
    BY <1>1, <2>1, WithoutKeeps
  <2>2. CASE ~Has(c, k) /\ Len(c) >= maxSize
    <3>1. maxSize - 1 \in 0 .. Len(c)
      BY <1>1, <2>2
    <3>2. Newest(c, maxSize - 1) \in Seq(S) /\ Len(Newest(c, maxSize - 1)) = maxSize - 1
      BY <3>1, NewestKeeps
    <3> QED
      BY <2>2, <3>2
  <2>3. CASE ~Has(c, k) /\ ~(Len(c) >= maxSize)
    BY <1>1, <2>3
  <2> QED
    BY <2>1, <2>2, <2>3
<1>3. Put(c, k, v) = Append(rest, [key |-> k, val |-> v, age |-> 0])
  BY DEF Put
<1> HIDE DEF rest
<1> QED
  BY <1>2, <1>3, AppendProperties
-----------------------------------------------------------------------------
(* Facts about the catalogue, and how they age. *)

\* In this step no fact about the catalogue grows older by more than n ticks.
Ages(n) ==
    \A u \in Urns :
        /\ owners[u] \subseteq owners'[u]
        /\ id[u] \in owners[u] => id'[u] = id[u] \/ past'[u][0] = 0
        /\ \A c \in Contents : past'[u][c] <= past[u][c] + n

LEMMA ZeroIsContent == 0 \in Contents /\ Contents \subseteq Nat
BY BoundsAssumption DEF Contents

LEMMA MappedAges ==
    ASSUME CatalogueInv, CatalogueInv', NEW n \in Nat, Ages(n),
           NEW u \in Urns, NEW i, NEW m \in Nat, Mapped(u, i, m)
    PROVE  Mapped(u, i, m + n)'
<1>1. past[u][0] \in Nat /\ past'[u][0] \in Nat
  BY ZeroIsContent DEF CatalogueInv
<1>2. i \in owners'[u]
  BY DEF Ages, Mapped
<1>3. CASE id[u] = i
  BY <1>1, <1>2, <1>3 DEF Ages, Mapped
<1>4. CASE past[u][0] <= m
  BY <1>1, <1>2, <1>4, ZeroIsContent DEF Ages, Mapped
<1> QED
  BY <1>3, <1>4 DEF Mapped

LEMMA ToldAges ==
    ASSUME CatalogueInv, CatalogueInv', NEW n \in Nat, Ages(n),
           NEW u \in Urns, NEW c, NEW m \in Nat, Told(u, c, m)
    PROVE  Told(u, c, m + n)'
<1>1. c \in Contents /\ past[u][c] \in Nat /\ past'[u][c] \in Nat
  BY DEF CatalogueInv, Told
<1> QED
  BY <1>1 DEF Ages, Told

\* Where nothing ages, entries stay true and requests grounded.
LEMMA NothingLost ==
    ASSUME CatalogueInv, CatalogueInv', Ages(0)
    PROVE  Kept \subseteq Kept' /\ Sound \subseteq Sound'
<1>1. MaxFlight \in Nat /\ OldestTtl \in Nat
  BY BoundsAssumption, OldestIsNat
<1>2. ASSUME NEW e \in Kept
      PROVE  e \in Kept'
  <2>1. e \in Entry /\ e.age \in Nat /\ e.age + MaxFlight \in Nat
    BY <1>1 DEF Kept, Entry
  <2>2. SUFFICES ASSUME e.age <= OldestTtl
                 PROVE  TrueOf(e)'
    BY <2>1 DEF Kept, Entry
  <2>3. TrueOf(e)
    BY <2>2 DEF Kept
  <2>4. ASSUME NEW u \in Urns, e.key = MapKey(u)
        PROVE  Mapped(u, e.val, e.age + MaxFlight)'
    <3>1. Mapped(u, e.val, e.age + MaxFlight)
      BY <2>3, <2>4 DEF TrueOf
    <3>2. Mapped(u, e.val, e.age + MaxFlight + 0)'
      BY <2>1, <3>1, MappedAges
    <3> QED
      BY <2>1, <3>2
  <2>5. ASSUME NEW u \in Urns, e.key = DataKey(u)
        PROVE  Told(u, e.val, e.age + MaxFlight)'
    <3>1. Told(u, e.val, e.age + MaxFlight)
      BY <2>3, <2>5 DEF TrueOf
    <3>2. Told(u, e.val, e.age + MaxFlight + 0)'
      BY <2>1, <3>1, ToldAges
    <3> QED
      BY <2>1, <3>2
  <2> QED
    BY <2>4, <2>5 DEF TrueOf, MapKey, DataKey
<1>3. ASSUME NEW q \in Sound
      PROVE  q \in Sound'
  <2>1. q \in Request /\ q.flight \in Nat /\ OldestTtl + MaxFlight + q.flight \in Nat
    BY <1>1 DEF Sound, Request
  <2>2. Grounded(q)
    BY DEF Sound
  <2>3. ASSUME q.pc = "found"
        PROVE  Mapped(q.urn, q.id, q.flight)'
    <3>1. q.urn \in Urns /\ Mapped(q.urn, q.id, q.flight)
      BY <2>2, <2>3 DEF Grounded
    <3>2. Mapped(q.urn, q.id, q.flight + 0)'
      BY <2>1, <3>1, MappedAges
    <3> QED
      BY <2>1, <3>2
  <2>4. ASSUME q.pc = "build"
        PROVE  Mapped(q.urn, q.id, OldestTtl + MaxFlight + q.flight)'
    <3>1. q.urn \in Urns /\ Mapped(q.urn, q.id, OldestTtl + MaxFlight + q.flight)
      BY <2>2, <2>4 DEF Grounded
    <3>2. Mapped(q.urn, q.id, OldestTtl + MaxFlight + q.flight + 0)'
      BY <2>1, <3>1, MappedAges
    <3> QED
      BY <2>1, <3>2
  <2>5. ASSUME q.pc = "built"
        PROVE  Told(q.urn, q.val, q.flight)'
    <3>1. q.urn \in Urns /\ Told(q.urn, q.val, q.flight)
      BY <2>2, <2>5 DEF Grounded
    <3>2. Told(q.urn, q.val, q.flight + 0)'
      BY <2>1, <3>1, ToldAges
    <3> QED
      BY <2>1, <3>2
  <2>6. Grounded(q)'
    BY <2>2, <2>3, <2>4, <2>5 DEF Grounded
  <2> QED
    BY <2>1, <2>6 DEF Sound, Request
<1> QED
  BY <1>2, <1>3
-----------------------------------------------------------------------------
(* The catalogue changes. *)

\* What a commit must keep to for no fact to be lost: a URN keeps its dataset,
\* or loses it and has none, or had none.
LEMMA CommitKeeps ==
    ASSUME Inv, NEW ids \in [Urns -> Nat], NEW said \in [Urns -> Contents], NEW n \in Contents,
           Changed(ids, said, n),
           \A u \in Urns : ids[u] = id[u] \/ ids[u] = 0 \/ id[u] = 0
    PROVE  Inv'
<1> DEFINE owned == [u \in Urns |-> owners[u] \cup ({ids[u]} \ {0})]
           since == [u \in Urns |-> [c \in Contents |->
                        IF c \in Said(ids, owned, said, u) THEN 0 ELSE past[u][c]]]
<1>1. /\ id' = ids /\ content' = said /\ changes' = n /\ owners' = owned /\ past' = since
      /\ answer' = NoAnswer /\ cache' = cache /\ maxSize' = maxSize /\ ttl' = ttl /\ req' = req
  BY DEF Changed, settings
<1>2. CatalogueInv
  BY DEF Inv
<1>3. CatalogueInv'
  <2>1. owned \in [Urns -> SUBSET (Nat \ {0})] /\ \A u \in Urns : ids[u] # 0 => ids[u] \in owned[u]
    BY <1>2 DEF CatalogueInv
  <2>2. since \in [Urns -> [Contents -> Nat]]
    BY <1>2 DEF CatalogueInv
  <2>3. ASSUME NEW u \in Urns, NEW c \in Said(ids, owned, said, u)
        PROVE  since[u][c] = 0
    <3>1. c \in Contents
      BY ZeroIsContent DEF Said
    <3> QED
      BY <2>3, <3>1
  <2> HIDE DEF owned, since
  <2> QED
    BY <1>1, <2>1, <2>2, <2>3 DEF CatalogueInv
<1>4. Ages(0)
  <2> SUFFICES ASSUME NEW u \in Urns
               PROVE  /\ owners[u] \subseteq owned[u]
                      /\ id[u] \in owners[u] => ids[u] = id[u] \/ since[u][0] = 0
                      /\ \A c \in Contents : since[u][c] <= past[u][c] + 0
    BY <1>1 DEF Ages
  <2>1. owners[u] \subseteq owned[u]
    OBVIOUS
  <2>2. id[u] \in owners[u] => ids[u] = id[u] \/ since[u][0] = 0
    <3> SUFFICES ASSUME id[u] \in owners[u], ids[u] # id[u]
                 PROVE  since[u][0] = 0
      OBVIOUS
    <3>1. id[u] # 0
      BY <1>2 DEF CatalogueInv
    <3>2. ids[u] = 0
      BY <3>1
    <3>3. 0 \in Said(ids, owned, said, u)
      BY <3>2 DEF Said
    <3> QED
      BY <3>3, ZeroIsContent
  <2>3. ASSUME NEW c \in Contents
        PROVE  since[u][c] <= past[u][c] + 0
    <3>1. past[u][c] \in Nat
      BY <1>2 DEF CatalogueInv
    <3> QED
      BY <3>1
  <2> QED
    BY <2>1, <2>2, <2>3
<1> HIDE DEF owned, since
<1>5. Kept \subseteq Kept' /\ Sound \subseteq Sound'
  BY <1>2, <1>3, <1>4, NothingLost
<1>6. CacheInv'
  <2>1. cache \in Seq(Kept')
    BY <1>5, SeqMonotonic DEF Inv, CacheInv
  <2> QED
    BY <1>1, <2>1 DEF Inv, CacheInv
<1>7. RequestInv'
  BY <1>1, <1>5 DEF Inv, RequestInv
<1> QED
  BY <1>1, <1>3, <1>6, <1>7 DEF Inv, SettingsInv, AnswerInv, NoAnswer

LEMMA CreateKeeps == ASSUME Inv, NEW u \in Urns, Create(u) PROVE Inv'
<1> DEFINE n == changes + 1
<1>1. n \in Contents /\ Changed([id EXCEPT ![u] = n], [content EXCEPT ![u] = n], n) /\ id[u] = 0
  BY BoundsAssumption DEF Create, Inv, CatalogueInv, Contents
<1>2. n \in Nat
  BY <1>1, ZeroIsContent
<1> HIDE DEF n
<1>3. /\ [id EXCEPT ![u] = n] \in [Urns -> Nat]
      /\ [content EXCEPT ![u] = n] \in [Urns -> Contents]
      /\ \A v \in Urns : [id EXCEPT ![u] = n][v] = id[v] \/ id[v] = 0
  BY <1>1, <1>2 DEF Inv, CatalogueInv
<1> QED
  BY <1>1, <1>3, CommitKeeps

LEMMA UpdateKeeps == ASSUME Inv, NEW u \in Urns, Update(u) PROVE Inv'
<1> DEFINE n == changes + 1
<1>1. n \in Contents /\ Changed(id, [content EXCEPT ![u] = n], n)
  BY BoundsAssumption DEF Update, Inv, CatalogueInv, Contents
<1> HIDE DEF n
<1>2. id \in [Urns -> Nat] /\ [content EXCEPT ![u] = n] \in [Urns -> Contents]
  BY <1>1 DEF Inv, CatalogueInv
<1> QED
  BY <1>1, <1>2, CommitKeeps

LEMMA DeleteKeeps == ASSUME Inv, NEW u \in Urns, Delete(u) PROVE Inv'
<1>1. Changed([id EXCEPT ![u] = 0], [content EXCEPT ![u] = 0], changes)
  BY DEF Delete
<1>2. /\ [id EXCEPT ![u] = 0] \in [Urns -> Nat] /\ changes \in Contents
      /\ [content EXCEPT ![u] = 0] \in [Urns -> Contents]
      /\ \A v \in Urns : [id EXCEPT ![u] = 0][v] = id[v] \/ [id EXCEPT ![u] = 0][v] = 0
  BY ZeroIsContent DEF Inv, CatalogueInv
<1> QED
  BY <1>1, <1>2, CommitKeeps

LEMMA RenameKeeps == ASSUME Inv, NEW u \in Urns, NEW v \in Urns, Rename(u, v) PROVE Inv'
<1> DEFINE ids == [id EXCEPT ![v] = id[u], ![u] = 0]
           said == [content EXCEPT ![v] = content[u], ![u] = 0]
<1>1. Changed(ids, said, changes) /\ id[v] = 0
  BY DEF Rename
<1>2. ids \in [Urns -> Nat] /\ said \in [Urns -> Contents] /\ changes \in Contents
  BY ZeroIsContent DEF Inv, CatalogueInv
<1>3. \A w \in Urns : ids[w] = id[w] \/ ids[w] = 0 \/ id[w] = 0
  BY <1>1 DEF Inv, CatalogueInv
<1> HIDE DEF ids, said
<1> QED
  BY <1>1, <1>2, <1>3, CommitKeeps
-----------------------------------------------------------------------------
(* The requests, and the administration: the catalogue stays. *)

LEMMA Frame ==
    ASSUME Inv, UNCHANGED catalogue, maxSize' \in MaxSizes, ttl' \in Ttls,
           cache' \in Seq(Kept), Len(cache') <= maxSize', RequestInv',
           answer'.kind = "metadata" =>
              answer'.urn \in Urns /\ Told(answer'.urn, answer'.val, Staleness)
    PROVE  Inv'
<1>1. CatalogueInv'
  BY DEF Inv, CatalogueInv, catalogue, Said
<1>2. Kept' = Kept
  BY DEF Kept, TrueOf, Mapped, Told, catalogue
<1>3. AnswerInv'
  BY DEF AnswerInv, Told, catalogue
<1> QED
  BY <1>1, <1>2, <1>3 DEF Inv, SettingsInv, CacheInv

LEMMA RequestsKept ==
    ASSUME Inv, UNCHANGED catalogue, NEW r \in Requests, NEW q \in Sound,
           req' = [req EXCEPT ![r] = q]
    PROVE  RequestInv'
<1>1. Sound' = Sound
  BY DEF Sound, Grounded, Mapped, Told, catalogue
<1> QED
  BY <1>1 DEF Inv, RequestInv

LEMMA IdleIsSound == IdleRequest \in Sound
BY BoundsAssumption DEF IdleRequest, Sound, Request, Grounded

LEMMA ToldInTime ==
    ASSUME Inv, NEW u, NEW c, NEW n \in Nat, u \in Urns, Told(u, c, n), n <= Staleness
    PROVE  Told(u, c, Staleness)
<1>1. past[u][c] \in Nat /\ Staleness \in Nat
  BY BoundsAssumption, OldestIsNat DEF Inv, CatalogueInv, Told, Staleness
<1> QED
  BY <1>1 DEF Told

\* What a hit answers: a fact as old as the TTL and one request.
LEMMA HitIsTrue ==
    ASSUME Inv, NEW c \in Seq(Kept), NEW k, Hit(c, k)
    PROVE  /\ EntryOf(c, k) \in Entry /\ EntryOf(c, k).key = k /\ EntryOf(c, k).age \in Nat
           /\ EntryOf(c, k).age <= OldestTtl
           /\ TrueOf(EntryOf(c, k))
<1> DEFINE e == EntryOf(c, k)
<1>1. e \in Kept /\ e.key = k /\ e.age <= ttl
  BY FoundEntry DEF Hit
<1> HIDE DEF e
<1>2. e \in Entry /\ e.age \in Nat /\ ttl \in Nat /\ ttl <= OldestTtl /\ OldestTtl \in Nat
  BY <1>1, OldestIsNat DEF Kept, Entry, Inv, SettingsInv
<1>3. e.age <= OldestTtl
  BY <1>1, <1>2
<1> QED
  BY <1>1, <1>2, <1>3 DEF e, Kept

LEMMA LookupKeeps ==
    ASSUME Inv, UNCHANGED <<catalogue, settings>>, NEW r \in Requests, NEW q \in Request,
           q.urn \in Urns, Mapped(q.urn, q.id, OldestTtl + MaxFlight + q.flight),
           NEW c \in Seq(Kept), Len(c) <= maxSize, Lookup(r, q, c)
    PROVE  Inv'
<1> DEFINE k == DataKey(q.urn)
           e == EntryOf(c, k)
           b == [q EXCEPT !.pc = "build"]
<1>1. /\ UNCHANGED catalogue /\ maxSize' = maxSize
      /\ maxSize' \in MaxSizes /\ ttl' \in Ttls /\ maxSize \in Nat
  BY SettingsAssumption DEF settings, Inv, SettingsInv
<1>2. b \in Sound
  BY DEF Sound, Request, Grounded
<1>3. Get(c, k) \in Seq(Kept) /\ Len(Get(c, k)) <= maxSize
  <2>1. Get(c, k) \in Seq(Kept) /\ Len(Get(c, k)) <= Len(c) /\ Len(c) \in Nat /\ Len(Get(c, k)) \in Nat
    BY GetKeeps, LenProperties
  <2> QED
    BY <1>1, <2>1
<1>4. CASE q.noCache
  <2>1. req' = [req EXCEPT ![r] = b] /\ cache' = c /\ answer' = NoAnswer
    BY <1>4 DEF Lookup
  <2> QED
    BY <1>1, <1>2, <2>1, RequestsKept, Frame DEF NoAnswer
<1>5. CASE ~q.noCache /\ ~Hit(c, k)
  <2>1. req' = [req EXCEPT ![r] = b] /\ cache' = Get(c, k) /\ answer' = NoAnswer
    BY <1>5 DEF Lookup
  <2> QED
    BY <1>1, <1>2, <1>3, <2>1, RequestsKept, Frame DEF NoAnswer
<1>6. CASE ~q.noCache /\ Hit(c, k)
  <2>1. /\ req' = [req EXCEPT ![r] = IdleRequest] /\ cache' = Get(c, k)
        /\ answer' = [kind |-> "metadata", urn |-> q.urn, val |-> e.val]
    BY <1>6 DEF Lookup
  <2>2. Told(q.urn, e.val, e.age + MaxFlight) /\ e.age \in Nat /\ e.age <= OldestTtl
    BY <1>6, HitIsTrue DEF TrueOf
  <2> HIDE DEF e, k
  <2>3. e.age + MaxFlight \in Nat /\ e.age + MaxFlight <= Staleness
    BY <2>2, BoundsAssumption, OldestIsNat DEF Staleness
  <2>4. Told(q.urn, e.val, Staleness)
    BY <2>2, <2>3, ToldInTime
  <2>5. answer'.urn = q.urn /\ answer'.val = e.val
    BY <2>1
  <2> QED
    BY <1>1, <1>3, <2>1, <2>4, <2>5, RequestsKept, IdleIsSound, Frame
<1> QED
  BY <1>4, <1>5, <1>6

LEMMA MappedInTime ==
    ASSUME Inv, NEW u \in Urns, NEW i, NEW m \in Nat, NEW n \in Nat, m <= n, Mapped(u, i, m)
    PROVE  Mapped(u, i, n)
<1>1. past[u][0] \in Nat
  BY ZeroIsContent DEF Inv, CatalogueInv
<1> QED
  BY <1>1 DEF Mapped

\* What is said of a URN now is true of it now.
LEMMA SaidNow ==
    ASSUME Inv, NEW u \in Urns, NEW c \in Said(id, owners, content, u), NEW n \in Nat
    PROVE  Told(u, c, n)
<1>1. c \in Contents
  BY ZeroIsContent DEF Said, Inv, CatalogueInv
<1> QED
  BY <1>1 DEF Told, Inv, CatalogueInv

\* The requests as they are made.
LEMMA AskedById ==
    ASSUME NEW q \in Request, NEW i \in Nat \ {0}, NEW b \in BOOLEAN
    PROVE  [q EXCEPT !.pc = "byid", !.id = i, !.noCache = b] \in Sound
BY DEF Request, Sound, Grounded

LEMMA IdleIsRequest == IdleRequest \in Request /\ IdleRequest.flight = 0 /\ IdleRequest.pc = "idle"
BY BoundsAssumption DEF IdleRequest, Request

LEMMA AskByUrnKeeps ==
    ASSUME Inv, NEW r \in Requests, NEW u \in Urns, NEW noCache \in BOOLEAN,
           AskByUrn(r, u, noCache)
    PROVE  Inv'
<1> DEFINE q == [IdleRequest EXCEPT !.urn = u, !.noCache = noCache]
           k == MapKey(u)
           e == EntryOf(cache, k)
<1>1. /\ UNCHANGED <<catalogue, settings>>
      /\ maxSize' = maxSize /\ maxSize' \in MaxSizes /\ ttl' \in Ttls
      /\ cache \in Seq(Kept) /\ Len(cache) <= maxSize
  BY DEF AskByUrn, settings, Inv, SettingsInv, CacheInv
<1>2. maxSize \in Nat /\ Len(cache) \in Nat /\ OldestTtl \in Nat /\ MaxFlight \in Nat
  BY <1>1, LenProperties, SettingsAssumption, BoundsAssumption, OldestIsNat
<1>3. q \in Request /\ q.urn = u /\ q.flight = 0 /\ q.pc = "idle"
  <2>1. PICK x \in Request : x = IdleRequest /\ x.flight = 0 /\ x.pc = "idle"
    BY IdleIsRequest
  <2>2. q = [x EXCEPT !.urn = u, !.noCache = noCache]
    BY <2>1
  <2> HIDE DEF q
  <2> QED
    BY <2>1, <2>2 DEF Request
<1>4. Get(cache, k) \in Seq(Kept) /\ Len(Get(cache, k)) <= maxSize
  <2>1. Get(cache, k) \in Seq(Kept) /\ Len(Get(cache, k)) <= Len(cache) /\ Len(Get(cache, k)) \in Nat
    BY <1>1, GetKeeps, LenProperties
  <2> QED
    BY <1>1, <1>2, <2>1
<1>5. CASE Hit(cache, k)
  <2> DEFINE p == [q EXCEPT !.id = e.val]
  <2>1. Lookup(r, p, Get(cache, k))
    BY <1>5 DEF AskByUrn
  <2>2. e \in Entry /\ e.key = k /\ e.age \in Nat /\ e.age <= OldestTtl /\ TrueOf(e)
    BY <1>1, <1>5, HitIsTrue
  <2>3. Mapped(u, e.val, e.age + MaxFlight) /\ e.val \in Nat
    BY <2>2 DEF TrueOf, Entry
  <2> HIDE DEF e, k
  <2>4. e.age + MaxFlight \in Nat /\ OldestTtl + MaxFlight + 0 \in Nat
        /\ e.age + MaxFlight <= OldestTtl + MaxFlight + 0
    BY <1>2, <2>2
  <2>5. Mapped(u, e.val, OldestTtl + MaxFlight + 0)
    BY <2>3, <2>4, MappedInTime
  <2>6. p \in Request /\ p.urn = u /\ p.id = e.val /\ p.flight = 0
    BY <1>3, <2>3 DEF Request
  <2>7. p.urn \in Urns /\ Mapped(p.urn, p.id, OldestTtl + MaxFlight + p.flight)
    BY <2>5, <2>6
  <2> HIDE DEF p, q
  <2> QED
    BY <1>1, <1>4, <2>1, <2>6, <2>7, LookupKeeps
<1>6. CASE ~Hit(cache, k)
  <2> DEFINE p == [q EXCEPT !.pc = "query"]
  <2>1. req' = [req EXCEPT ![r] = p] /\ cache' = Get(cache, k) /\ answer' = NoAnswer
    BY <1>6 DEF AskByUrn
  <2>2. p \in Sound
    BY <1>3 DEF Sound, Request, Grounded
  <2> QED
    BY <1>1, <1>4, <2>1, <2>2, RequestsKept, Frame DEF NoAnswer
<1> QED
  BY <1>5, <1>6

\* The cache and the settings stay as they are.
LEMMA CacheStays ==
    ASSUME Inv, UNCHANGED <<catalogue, cache, settings>>, RequestInv',
           answer'.kind = "metadata" =>
              answer'.urn \in Urns /\ Told(answer'.urn, answer'.val, Staleness)
    PROVE  Inv'
BY Frame DEF Inv, CacheInv, SettingsInv, settings

LEMMA QueryKeeps == ASSUME Inv, NEW r \in Requests, Query(r) PROVE Inv'
<1> DEFINE q == req[r]
<1>1. q \in Request /\ q.pc = "query" /\ q.urn \in Urns /\ q.flight \in Nat
  BY BoundsAssumption DEF Query, Inv, RequestInv, Sound, Grounded, Request
<1>2. UNCHANGED catalogue /\ UNCHANGED <<catalogue, cache, settings>>
  BY DEF Query
<1>3. CASE id[q.urn] = 0
  <2>1. req' = [req EXCEPT ![r] = IdleRequest]
        /\ answer' = [kind |-> "metadata", urn |-> q.urn, val |-> 0]
    BY <1>3 DEF Query, Answered
  <2>2. 0 \in Said(id, owners, content, q.urn) /\ Staleness \in Nat
    BY <1>3, BoundsAssumption, OldestIsNat DEF Said, Staleness
  <2>3. Told(q.urn, 0, Staleness)
    BY <1>1, <2>2, SaidNow
  <2> QED
    BY <1>1, <1>2, <2>1, <2>3, RequestsKept, IdleIsSound, CacheStays
<1>4. CASE id[q.urn] # 0
  <2> DEFINE p == [q EXCEPT !.pc = "found", !.id = id[q.urn]]
  <2>1. req' = [req EXCEPT ![r] = p] /\ answer' = NoAnswer
    BY <1>4 DEF Query, Inv, RequestInv
  <2>2. id[q.urn] \in Nat /\ Mapped(q.urn, id[q.urn], q.flight)
    BY <1>1, <1>4 DEF Inv, CatalogueInv, Mapped
  <2>3. p \in Sound
    BY <1>1, <2>2 DEF Sound, Request, Grounded
  <2> QED
    BY <1>2, <2>1, <2>3, RequestsKept, CacheStays DEF NoAnswer
<1> QED
  BY <1>3, <1>4

LEMMA FoundKeeps == ASSUME Inv, NEW r \in Requests, Found(r) PROVE Inv'
<1> DEFINE q == req[r]
           e == [key |-> MapKey(q.urn), val |-> q.id, age |-> 0]
           c == Put(cache, MapKey(q.urn), q.id)
<1>1. /\ q \in Request /\ q.urn \in Urns /\ q.flight \in Nat /\ q.flight <= MaxFlight
      /\ q.id \in Nat /\ Mapped(q.urn, q.id, q.flight)
  BY BoundsAssumption DEF Found, Inv, RequestInv, Sound, Grounded, Request
<1>2. UNCHANGED <<catalogue, settings>> /\ Lookup(r, q, c)
  BY DEF Found
<1>3. MaxFlight \in Nat /\ OldestTtl \in Nat
  BY BoundsAssumption, OldestIsNat
<1>4. Mapped(q.urn, q.id, MaxFlight) /\ Mapped(q.urn, q.id, OldestTtl + MaxFlight + q.flight)
  <2>1. OldestTtl + MaxFlight + q.flight \in Nat /\ q.flight <= OldestTtl + MaxFlight + q.flight
    BY <1>1, <1>3
  <2> QED
    BY <1>1, <1>3, <2>1, MappedInTime
<1>5. e \in Kept
  <2>1. e \in Entry /\ e.age + MaxFlight = MaxFlight
    BY <1>1, <1>3 DEF Entry, MapKey
  <2>2. \A u \in Urns : (e.key = MapKey(u) => u = q.urn) /\ e.key # DataKey(u)
    BY DEF MapKey, DataKey
  <2> QED
    BY <1>4, <2>1, <2>2 DEF Kept, TrueOf
<1>6. c \in Seq(Kept) /\ Len(c) <= maxSize
  BY <1>5, PutKeeps, SettingsAssumption DEF Inv, CacheInv, SettingsInv
<1> HIDE DEF c, q
<1> QED
  BY <1>1, <1>2, <1>4, <1>6, LookupKeeps

LEMMA AskByIdKeeps ==
    ASSUME Inv, NEW r \in Requests, NEW i \in 1 .. changes, NEW noCache \in BOOLEAN,
           AskById(r, i, noCache)
    PROVE  Inv'
<1> DEFINE q == [IdleRequest EXCEPT !.pc = "byid", !.id = i, !.noCache = noCache]
<1>1. UNCHANGED catalogue /\ UNCHANGED <<catalogue, cache, settings>>
      /\ req' = [req EXCEPT ![r] = q] /\ answer' = NoAnswer
  BY DEF AskById
<1>2. i \in Nat /\ i # 0
  BY ZeroIsContent DEF Inv, CatalogueInv
<1>3. q \in Sound
  BY <1>2, AskedById, IdleIsRequest
<1> QED
  BY <1>1, <1>3, RequestsKept, CacheStays DEF NoAnswer

LEMMA FindByIdKeeps == ASSUME Inv, NEW r \in Requests, FindById(r) PROVE Inv'
<1> DEFINE q == req[r]
<1>1. q \in Request /\ q.id \in Nat /\ q.id # 0 /\ q.flight \in Nat
  BY BoundsAssumption DEF FindById, Inv, RequestInv, Sound, Grounded, Request
<1>2. UNCHANGED <<catalogue, settings>> /\ UNCHANGED catalogue
  BY DEF FindById
<1>3. ASSUME NEW u \in Urns, id[u] = q.id, Lookup(r, [q EXCEPT !.urn = u], cache)
      PROVE  Inv'
  <2> DEFINE p == [q EXCEPT !.urn = u]
  <2>1. p \in Request /\ p.urn = u /\ p.id = q.id /\ p.flight = q.flight
    BY <1>1 DEF Request
  <2>2. Mapped(u, q.id, OldestTtl + MaxFlight + q.flight)
    BY <1>1, <1>3 DEF Mapped, Inv, CatalogueInv
  <2>3. cache \in Seq(Kept) /\ Len(cache) <= maxSize
    BY DEF Inv, CacheInv
  <2>4. p.urn \in Urns /\ Mapped(p.urn, p.id, OldestTtl + MaxFlight + p.flight)
    BY <2>1, <2>2
  <2>5. Lookup(r, p, cache)
    BY <1>3
  <2> HIDE DEF p, q
  <2> QED
    BY <1>2, <2>1, <2>3, <2>4, <2>5, LookupKeeps
<1>4. ASSUME answer' = NoAnswer, req' = [req EXCEPT ![r] = IdleRequest], UNCHANGED cache
      PROVE  Inv'
  BY <1>2, <1>4, RequestsKept, IdleIsSound, CacheStays DEF NoAnswer
<1> QED
  BY <1>3, <1>4 DEF FindById

LEMMA BuildKeeps == ASSUME Inv, NEW r \in Requests, Build(r) PROVE Inv'
<1> DEFINE q == req[r]
<1>1. /\ q \in Request /\ q.urn \in Urns /\ q.flight \in Nat /\ q.flight <= MaxFlight
      /\ Mapped(q.urn, q.id, OldestTtl + MaxFlight + q.flight)
  BY BoundsAssumption DEF Build, Inv, RequestInv, Sound, Grounded, Request
<1>2. UNCHANGED <<catalogue, cache, settings>> /\ UNCHANGED catalogue
  BY DEF Build
<1>3. ASSUME NEW u \in Urns, id[u] = q.id,
             req' = [req EXCEPT ![r].pc = "built", ![r].val = content[u]], answer' = NoAnswer
      PROVE  Inv'
  <2> DEFINE p == [q EXCEPT !.pc = "built", !.val = content[u]]
  <2>1. req' = [req EXCEPT ![r] = p]
    BY <1>3 DEF Inv, RequestInv
  <2>2. content[u] \in Said(id, owners, content, q.urn)
    BY <1>1, <1>3 DEF Said, Mapped
  <2>3. Told(q.urn, content[u], q.flight)
    BY <1>1, <2>2, SaidNow
  <2>4. content[u] \in Nat
    BY ZeroIsContent DEF Inv, CatalogueInv
  <2>5. p \in Sound
    BY <1>1, <2>3, <2>4 DEF Sound, Request, Grounded
  <2> QED
    BY <1>2, <1>3, <2>1, <2>5, RequestsKept, CacheStays DEF NoAnswer
<1>4. ASSUME \A u \in Urns : id[u] # q.id, Answered(r, 0)
      PROVE  Inv'
  <2>1. req' = [req EXCEPT ![r] = IdleRequest]
        /\ answer' = [kind |-> "metadata", urn |-> q.urn, val |-> 0]
    BY <1>4 DEF Answered
  <2>2. past[q.urn][0] <= OldestTtl + MaxFlight + q.flight
    BY <1>1, <1>4 DEF Mapped
  <2>3. past[q.urn][0] \in Nat
    BY <1>1, ZeroIsContent DEF Inv, CatalogueInv
  <2>4. past[q.urn][0] <= Staleness
    BY <1>1, <2>2, <2>3, BoundsAssumption, OldestIsNat DEF Staleness
  <2>5. Told(q.urn, 0, Staleness)
    BY <2>4, ZeroIsContent DEF Told
  <2> QED
    BY <1>1, <1>2, <2>1, <2>5, RequestsKept, IdleIsSound, CacheStays
<1> QED
  BY <1>3, <1>4 DEF Build

LEMMA BuiltKeeps == ASSUME Inv, NEW r \in Requests, Built(r) PROVE Inv'
<1> DEFINE q == req[r]
           e == [key |-> DataKey(q.urn), val |-> q.val, age |-> 0]
<1>1. /\ q \in Request /\ q.urn \in Urns /\ q.flight \in Nat /\ q.flight <= MaxFlight
      /\ q.val \in Nat /\ Told(q.urn, q.val, q.flight)
  BY BoundsAssumption DEF Built, Inv, RequestInv, Sound, Grounded, Request
<1>2. /\ UNCHANGED <<catalogue, settings>> /\ UNCHANGED catalogue
      /\ cache' = Put(cache, DataKey(q.urn), q.val)
      /\ req' = [req EXCEPT ![r] = IdleRequest]
      /\ answer' = [kind |-> "metadata", urn |-> q.urn, val |-> q.val]
  BY DEF Built, Answered
<1>3. past[q.urn][q.val] \in Nat /\ MaxFlight \in Nat /\ OldestTtl \in Nat
  BY <1>1, BoundsAssumption, OldestIsNat DEF Told, Inv, CatalogueInv
<1>4. Told(q.urn, q.val, MaxFlight) /\ Told(q.urn, q.val, Staleness)
  BY <1>1, <1>3 DEF Told, Staleness
<1>5. e \in Kept
  <2>1. e \in Entry /\ e.age + MaxFlight = MaxFlight
    BY <1>1, <1>3 DEF Entry, DataKey
  <2>2. \A u \in Urns : (e.key = DataKey(u) => u = q.urn) /\ e.key # MapKey(u)
    BY DEF MapKey, DataKey
  <2> QED
    BY <1>4, <2>1, <2>2 DEF Kept, TrueOf
<1>6. cache' \in Seq(Kept) /\ Len(cache') <= maxSize
  BY <1>2, <1>5, PutKeeps, SettingsAssumption DEF Inv, CacheInv, SettingsInv
<1>7. maxSize' = maxSize /\ maxSize' \in MaxSizes /\ ttl' \in Ttls
  BY <1>2 DEF settings, Inv, SettingsInv
<1> QED
  BY <1>1, <1>2, <1>4, <1>6, <1>7, RequestsKept, IdleIsSound, Frame

LEMMA InvalidateByIdKeeps == ASSUME Inv, NEW i \in 1 .. changes, InvalidateById(i) PROVE Inv'
<1> DEFINE k == DataKey(i)
<1>1. UNCHANGED <<catalogue, settings>> /\ UNCHANGED catalogue /\ UNCHANGED req
      /\ cache' = Without(cache, k) /\ answer'.kind = "invalidated"
  BY DEF InvalidateById
<1>2. /\ cache \in Seq(Kept) /\ Len(cache) <= maxSize /\ Len(cache) \in Nat
      /\ maxSize' = maxSize /\ maxSize \in MaxSizes /\ maxSize \in Nat /\ ttl' \in Ttls
  BY <1>1, LenProperties, SettingsAssumption DEF Inv, CacheInv, SettingsInv, settings
<1>3. cache' \in Seq(Kept) /\ Len(cache') <= maxSize
  <2>1. /\ Without(cache, k) \in Seq(Kept)
        /\ Len(Without(cache, k)) = IF Has(cache, k) THEN Len(cache) - 1 ELSE Len(cache)
    BY <1>2, WithoutKeeps
  <2> QED
    BY <1>1, <1>2, <2>1
<1>4. RequestInv'
  BY <1>1 DEF Inv, RequestInv, Sound, Grounded, Mapped, Told, catalogue
<1> QED
  BY <1>1, <1>2, <1>3, <1>4, Frame

LEMMA ClearKeeps == ASSUME Inv, Clear PROVE Inv'
<1>1. UNCHANGED catalogue /\ UNCHANGED <<settings, req>> /\ cache' = <<>> /\ answer' = NoAnswer
  BY DEF Clear
<1>2. maxSize' = maxSize /\ maxSize' \in MaxSizes /\ maxSize \in Nat /\ ttl' \in Ttls
  BY <1>1, SettingsAssumption DEF Inv, SettingsInv, settings
<1>3. cache' \in Seq(Kept) /\ Len(cache') <= maxSize'
  BY <1>1, <1>2, EmptySeq
<1>4. RequestInv'
  BY <1>1 DEF Inv, RequestInv, Sound, Grounded, Mapped, Told, catalogue
<1> QED
  BY <1>1, <1>2, <1>3, <1>4, Frame DEF NoAnswer

LEMMA ReconfigureKeeps ==
    ASSUME Inv, NEW size \in MaxSizes, NEW seconds \in Ttls, Reconfigure(size, seconds)
    PROVE  Inv'
<1>1. /\ UNCHANGED catalogue /\ UNCHANGED req /\ answer' = NoAnswer
      /\ maxSize' = size /\ maxSize' \in MaxSizes /\ ttl' \in Ttls
      /\ cache' = IF Len(cache) > size THEN Newest(cache, size) ELSE cache
  BY DEF Reconfigure
<1>2. cache \in Seq(Kept) /\ Len(cache) \in Nat /\ size \in Nat
  BY LenProperties, SettingsAssumption DEF Inv, CacheInv
<1>3. cache' \in Seq(Kept) /\ Len(cache') <= size
  <2>1. CASE Len(cache) > size
    <3>1. size \in 0 .. Len(cache)
      BY <1>2, <2>1
    <3>2. Newest(cache, size) \in Seq(Kept) /\ Len(Newest(cache, size)) = size
      BY <1>2, <3>1, NewestKeeps
    <3> QED
      BY <1>1, <1>2, <2>1, <3>2
  <2>2. CASE ~(Len(cache) > size)
    BY <1>1, <1>2, <2>2
  <2> QED
    BY <2>1, <2>2
<1>4. RequestInv'
  BY <1>1 DEF Inv, RequestInv, Sound, Grounded, Mapped, Told, catalogue
<1> QED
  BY <1>1, <1>3, <1>4, Frame DEF NoAnswer
-----------------------------------------------------------------------------
(* Time: facts, entries and requests grow older together. *)

LEMMA TickAges == ASSUME CatalogueInv, Tick PROVE CatalogueInv' /\ Ages(1)
<1> DEFINE since == [u \in Urns |-> [c \in Contents |->
                       IF c \in Said(id, owners, content, u) THEN 0 ELSE Older(past[u][c], Ancient)]]
<1>1. /\ id' = id /\ content' = content /\ changes' = changes /\ owners' = owners /\ past' = since
  BY DEF Tick
<1>2. \A u \in Urns, c \in Contents : since[u][c] \in Nat /\ since[u][c] <= past[u][c] + 1
  <2> SUFFICES ASSUME NEW u \in Urns, NEW c \in Contents
               PROVE  since[u][c] \in Nat /\ since[u][c] <= past[u][c] + 1
    OBVIOUS
  <2>1. past[u][c] \in Nat
    BY DEF CatalogueInv
  <2> QED
    BY <2>1, BoundsAssumption DEF Older
<1>3. \A u \in Urns : \A c \in Said(id, owners, content, u) : since[u][c] = 0
  BY ZeroIsContent DEF Said, CatalogueInv
<1>4. since \in [Urns -> [Contents -> Nat]]
  <2>1. \A u \in Urns : since[u] \in [Contents -> Nat]
    BY <1>2
  <2> QED
    BY <2>1
<1> HIDE DEF since
<1> QED
  BY <1>1, <1>2, <1>3, <1>4 DEF CatalogueInv, Ages

\* A request in flight, a tick later.
LEMMA RequestAges ==
    ASSUME CatalogueInv, CatalogueInv', Ages(1), NEW q \in Sound, q.flight < MaxFlight
    PROVE  [q EXCEPT !.flight = @ + 1] \in Sound'
<1> DEFINE p == [q EXCEPT !.flight = @ + 1]
<1>1. q \in Request /\ q.flight \in Nat /\ Grounded(q) /\ MaxFlight \in Nat /\ OldestTtl \in Nat
  BY BoundsAssumption, OldestIsNat DEF Sound, Request
<1>2. p \in Request /\ p.pc = q.pc /\ p.urn = q.urn /\ p.id = q.id /\ p.val = q.val
      /\ p.flight = q.flight + 1
  BY <1>1 DEF Request
<1> HIDE DEF p
<1>3. ASSUME p.pc = "found"
      PROVE  Mapped(p.urn, p.id, p.flight)'
  <2>1. q.urn \in Urns /\ Mapped(q.urn, q.id, q.flight)
    BY <1>1, <1>2, <1>3 DEF Grounded
  <2>2. Mapped(q.urn, q.id, q.flight + 1)'
    BY <1>1, <2>1, MappedAges
  <2> QED
    BY <1>2, <2>2
<1>4. ASSUME p.pc = "build"
      PROVE  Mapped(p.urn, p.id, OldestTtl + MaxFlight + p.flight)'
  <2>1. q.urn \in Urns /\ Mapped(q.urn, q.id, OldestTtl + MaxFlight + q.flight)
    BY <1>1, <1>2, <1>4 DEF Grounded
  <2>2. OldestTtl + MaxFlight + q.flight \in Nat
    BY <1>1
  <2>3. Mapped(q.urn, q.id, OldestTtl + MaxFlight + q.flight + 1)'
    BY <2>1, <2>2, MappedAges
  <2>4. OldestTtl + MaxFlight + p.flight = OldestTtl + MaxFlight + q.flight + 1
    BY <1>1, <1>2
  <2> QED
    BY <1>2, <2>3, <2>4
<1>5. ASSUME p.pc = "built"
      PROVE  Told(p.urn, p.val, p.flight)'
  <2>1. q.urn \in Urns /\ Told(q.urn, q.val, q.flight)
    BY <1>1, <1>2, <1>5 DEF Grounded
  <2>2. Told(q.urn, q.val, q.flight + 1)'
    BY <1>1, <2>1, ToldAges
  <2> QED
    BY <1>2, <2>2
<1>6. Grounded(p)'
  BY <1>1, <1>2, <1>3, <1>4, <1>5 DEF Grounded
<1> QED
  BY <1>2, <1>6 DEF Sound, Request, p

LEMMA TickKeeps == ASSUME Inv, Tick PROVE Inv'
<1>1. CatalogueInv /\ CatalogueInv' /\ Ages(1)
  BY TickAges DEF Inv
<1>2. MaxFlight \in Nat /\ OldestTtl \in Nat
  BY BoundsAssumption, OldestIsNat
<1>3. ASSUME NEW e \in Kept
      PROVE  [e EXCEPT !.age = Older(@, OldestTtl + 1)] \in Kept'
  <2> DEFINE f == [e EXCEPT !.age = Older(@, OldestTtl + 1)]
  <2>1. e \in Entry /\ e.age \in Nat /\ e.age + MaxFlight \in Nat
    BY <1>2 DEF Kept, Entry
  <2>2. f \in Entry /\ f.key = e.key /\ f.val = e.val /\ f.age = Older(e.age, OldestTtl + 1)
    BY <1>2, <2>1 DEF Entry, Older
  <2> HIDE DEF f
  <2>3. SUFFICES ASSUME f.age <= OldestTtl
                 PROVE  TrueOf(f)'
    BY <2>2 DEF Kept, f, Entry
  <2>4. e.age <= OldestTtl /\ f.age + MaxFlight = e.age + MaxFlight + 1
    BY <1>2, <2>1, <2>2, <2>3 DEF Older
  <2>5. TrueOf(e)
    BY <2>4 DEF Kept
  <2>6. ASSUME NEW u \in Urns, f.key = MapKey(u)
        PROVE  Mapped(u, f.val, f.age + MaxFlight)'
    <3>1. Mapped(u, e.val, e.age + MaxFlight)
      BY <2>2, <2>5, <2>6 DEF TrueOf
    <3>2. Mapped(u, e.val, e.age + MaxFlight + 1)'
      BY <1>1, <2>1, <3>1, MappedAges
    <3> QED
      BY <2>2, <2>4, <3>2
  <2>7. ASSUME NEW u \in Urns, f.key = DataKey(u)
        PROVE  Told(u, f.val, f.age + MaxFlight)'
    <3>1. Told(u, e.val, e.age + MaxFlight)
      BY <2>2, <2>5, <2>7 DEF TrueOf
    <3>2. Told(u, e.val, e.age + MaxFlight + 1)'
      BY <1>1, <2>1, <3>1, ToldAges
    <3> QED
      BY <2>2, <2>4, <3>2
  <2> QED
    BY <2>6, <2>7 DEF TrueOf, MapKey, DataKey
<1>4. CacheInv'
  <2>1. cache \in Seq(Kept) /\ Len(cache) \in Nat /\ DOMAIN cache = 1 .. Len(cache)
        /\ \A i \in 1 .. Len(cache) : cache[i] \in Kept
    BY LenProperties, ElementOfSeq DEF Inv, CacheInv
  <2>2. cache' = [i \in 1 .. Len(cache) |-> [cache[i] EXCEPT !.age = Older(@, OldestTtl + 1)]]
    BY <2>1 DEF Tick
  <2>3. \A i \in 1 .. Len(cache) : [cache[i] EXCEPT !.age = Older(@, OldestTtl + 1)] \in Kept'
    BY <1>3, <2>1
  <2>4. cache' \in [1 .. Len(cache) -> Kept']
    BY <2>2, <2>3
  <2>5. cache' \in Seq(Kept') /\ Len(cache') = Len(cache)
    BY <2>1, <2>4
  <2> QED
    BY <2>5 DEF CacheInv, Inv, Tick, settings
<1>5. RequestInv'
  <2>1. ASSUME NEW r \in Requests
        PROVE  req'[r] \in Sound'
    <3>1. req[r] \in Sound
      BY DEF Inv, RequestInv
    <3>2. CASE req[r].pc = "idle"
      <4>1. req'[r] = req[r]
        BY <3>2 DEF Tick
      <4> QED
        BY <3>1, <3>2, <4>1 DEF Sound, Grounded, Request
    <3>3. CASE req[r].pc # "idle"
      <4>1. req'[r] = [req[r] EXCEPT !.flight = @ + 1] /\ req[r].flight < MaxFlight
        BY <3>3 DEF Tick
      <4> QED
        BY <1>1, <3>1, <4>1, RequestAges
    <3> QED
      BY <3>2, <3>3
  <2>2. DOMAIN req' = Requests /\ req' = [r \in Requests |-> req'[r]]
    BY DEF Tick
  <2> QED
    BY <2>1, <2>2 DEF RequestInv
<1>6. SettingsInv' /\ AnswerInv'
  BY DEF Tick, settings, Inv, SettingsInv, AnswerInv, NoAnswer
<1> QED
  BY <1>1, <1>4, <1>5, <1>6 DEF Inv
-----------------------------------------------------------------------------
LEMMA InvInit == Init => Inv
<1> SUFFICES ASSUME Init PROVE Inv
  OBVIOUS
<1>1. CatalogueInv
  BY ZeroIsContent, BoundsAssumption DEF Init, CatalogueInv, Said
<1>2. SettingsInv /\ maxSize \in Nat
  BY SettingsAssumption DEF Init, SettingsInv
<1>3. CacheInv
  BY <1>2, EmptySeq DEF Init, CacheInv
<1>4. RequestInv
  BY IdleIsSound DEF Init, RequestInv
<1> QED
  BY <1>1, <1>2, <1>3, <1>4 DEF Inv, AnswerInv, Init, NoAnswer

LEMMA InvNext == Inv /\ [Next]_vars => Inv'
<1> SUFFICES ASSUME Inv, [Next]_vars PROVE Inv'
  OBVIOUS
<1>1. CASE UNCHANGED vars
  <2>1. UNCHANGED <<catalogue, cache, settings>> /\ UNCHANGED catalogue /\ req' = req /\ answer' = answer
    BY <1>1 DEF vars
  <2>2. RequestInv'
    BY <2>1 DEF Inv, RequestInv, Sound, Grounded, Mapped, Told, catalogue
  <2> QED
    BY <2>1, <2>2, CacheStays DEF Inv, AnswerInv
<1>2. CASE \E u \in Urns : Create(u) \/ Update(u) \/ Delete(u) \/ \E v \in Urns : Rename(u, v)
  BY <1>2, CreateKeeps, UpdateKeeps, DeleteKeeps, RenameKeeps
<1>3. CASE \E r \in Requests : \E noCache \in BOOLEAN :
              \/ \E u \in Urns : AskByUrn(r, u, noCache)
              \/ \E i \in 1 .. changes : AskById(r, i, noCache)
  BY <1>3, AskByUrnKeeps, AskByIdKeeps
<1>4. CASE \E r \in Requests : Query(r) \/ Found(r) \/ FindById(r) \/ Build(r) \/ Built(r)
  BY <1>4, QueryKeeps, FoundKeeps, FindByIdKeeps, BuildKeeps, BuiltKeeps
<1>5. CASE \E i \in 1 .. changes : InvalidateById(i)
  BY <1>5, InvalidateByIdKeeps
<1>6. CASE Clear \/ Tick
  BY <1>6, ClearKeeps, TickKeeps
<1>7. CASE \E size \in MaxSizes, seconds \in Ttls : Reconfigure(size, seconds)
  BY <1>7, ReconfigureKeeps
<1> QED
  BY <1>1, <1>2, <1>3, <1>4, <1>5, <1>6, <1>7 DEF Next

\* The state of the cache, the requests and the catalogue, with how old the facts
\* are that each entry and request stands for.
THEOREM CacheInvariant == Spec => []Inv
BY InvInit, InvNext, PTL DEF Spec

\* No answer of the external API is older than the TTL and the two requests that
\* had a part in it, whatever the catalogue did meanwhile (external/service.py).
THEOREM AnswersWereTrue == Spec => []AnswerWasTrue
<1>1. Inv => AnswerWasTrue
  BY DEF Inv, AnswerInv, AnswerWasTrue, Told
<1> QED
  BY <1>1, CacheInvariant, PTL

\* The cache holds no more entries than the limit in force, also right after the
\* limit was lowered (external/cache.py).
THEOREM StaysWithinLimit == Spec => []SizeWithinLimit
<1>1. Inv => SizeWithinLimit
  BY DEF Inv, CacheInv, SizeWithinLimit
<1> QED
  BY <1>1, CacheInvariant, PTL
-----------------------------------------------------------------------------
(* The cache is a dictionary: what Without takes out is all there was.     *)

Apart(c) == \A i, j \in DOMAIN c : c[i].key = c[j].key => i = j
Dictionary == Apart(cache)

LEMMA WithoutLeavesNone ==
    ASSUME NEW S, NEW c \in Seq(S), Apart(c), NEW k
    PROVE  Apart(Without(c, k)) /\ ~Has(Without(c, k), k)
<1>1. CASE ~Has(c, k)
  BY <1>1 DEF Without
<1>2. CASE Has(c, k)
  <2> DEFINE n == Place(c, k)
             left == SubSeq(c, 1, n - 1)
             right == SubSeq(c, n + 1, Len(c))
             rest == left \o right
  <2>1. Len(c) \in Nat /\ n \in 1 .. Len(c) /\ c[n].key = k /\ DOMAIN c = 1 .. Len(c)
        /\ \A j \in 1 .. Len(c) : c[j] \in S
    BY <1>2, FoundEntry, LenProperties, ElementOfSeq DEF EntryOf
  <2> HIDE DEF n
  <2>2. left \in Seq(S) /\ Len(left) = n - 1 /\ \A j \in 1 .. n - 1 : left[j] = c[j]
    <3>1. n - 1 \in Int /\ \A j \in 1 .. n - 1 : c[j] \in S
      BY <2>1
    <3> QED
      BY <3>1, <2>1, SubSeqProperties
  <2>3. right \in Seq(S) /\ Len(right) = Len(c) - n /\ \A j \in 1 .. Len(c) - n : right[j] = c[n + j]
    <3>1. n + 1 \in Int /\ Len(c) \in Int /\ \A j \in n + 1 .. Len(c) : c[j] \in S
      BY <2>1
    <3>2. /\ right \in Seq(S)
          /\ Len(right) = IF n + 1 <= Len(c) THEN Len(c) - (n + 1) + 1 ELSE 0
          /\ \A j \in 1 .. Len(c) - (n + 1) + 1 : right[j] = c[n + 1 + j - 1]
      BY <3>1, SubSeqProperties
    <3> HIDE DEF right
    <3>3. ASSUME NEW j \in 1 .. Len(c) - n
          PROVE  right[j] = c[n + j]
      <4>1. j \in 1 .. Len(c) - (n + 1) + 1 /\ n + 1 + j - 1 = n + j
        BY <2>1
      <4> QED
        BY <3>2, <4>1
    <3>4. Len(right) = Len(c) - n
      <4>1. Len(right) = IF n + 1 <= Len(c) THEN Len(c) - (n + 1) + 1 ELSE 0
        BY <3>2
      <4>2. Len(c) \in Nat /\ n \in Nat /\ n <= Len(c)
        BY <2>1
      <4>3. CASE n = Len(c)
        BY <4>1, <4>2, <4>3
      <4>4. CASE n < Len(c)
        BY <4>1, <4>2, <4>4
      <4> QED
        BY <4>2, <4>3, <4>4
    <3> QED
      BY <3>2, <3>3, <3>4
  <2>4. Without(c, k) = rest
    BY <1>2 DEF Without, RemoveAt, n
  <2> HIDE DEF left, right
  <2>5. /\ rest \in Seq(S) /\ Len(rest) = Len(c) - 1
        /\ \A j \in 1 .. Len(c) - 1 : rest[j] = IF j < n THEN c[j] ELSE c[j + 1]
    <3>1. /\ rest \in Seq(S) /\ Len(rest) = Len(left) + Len(right)
          /\ \A j \in 1 .. Len(left) + Len(right) :
                rest[j] = IF j <= Len(left) THEN left[j] ELSE right[j - Len(left)]
      BY <2>2, <2>3, ConcatProperties
    <3>2. Len(left) + Len(right) = Len(c) - 1
      BY <2>1, <2>2, <2>3
    <3> HIDE DEF rest
    <3>3. ASSUME NEW j \in 1 .. Len(c) - 1
          PROVE  rest[j] = IF j < n THEN c[j] ELSE c[j + 1]
      <4>1. CASE j < n
        BY <2>1, <2>2, <3>1, <3>2, <4>1
      <4>2. CASE ~(j < n)
        <5>1. rest[j] = right[j - (n - 1)] /\ j - (n - 1) \in 1 .. Len(c) - n
          BY <2>1, <2>2, <3>1, <3>2, <4>2
        <5>2. n + (j - (n - 1)) = j + 1
          BY <2>1
        <5> QED
          BY <2>3, <4>2, <5>1, <5>2
      <4> QED
        BY <4>1, <4>2
    <3> QED
      BY <3>1, <3>2, <3>3
  <2> HIDE DEF rest
  <2>6. DOMAIN rest = 1 .. Len(c) - 1
    BY <2>5, LenProperties
  <2>7. Apart(rest)
    <3> SUFFICES ASSUME NEW i \in 1 .. Len(c) - 1, NEW j \in 1 .. Len(c) - 1, rest[i].key = rest[j].key
                 PROVE  i = j
      BY <2>6 DEF Apart
    <3> DEFINE p == IF i < n THEN i ELSE i + 1
               q == IF j < n THEN j ELSE j + 1
    <3>1. rest[i] = c[p] /\ rest[j] = c[q] /\ p \in 1 .. Len(c) /\ q \in 1 .. Len(c)
      BY <2>1, <2>5
    <3>2. p = q
      BY <2>1, <3>1 DEF Apart
    <3> QED
      BY <2>1, <3>2
  <2>8. ~Has(rest, k)
    <3> SUFFICES ASSUME NEW i \in 1 .. Len(c) - 1, rest[i].key = k
                 PROVE  FALSE
      BY <2>6 DEF Has
    <3> DEFINE p == IF i < n THEN i ELSE i + 1
    <3>1. rest[i] = c[p] /\ p \in 1 .. Len(c) /\ p # n
      BY <2>1, <2>5
    <3> QED
      BY <2>1, <3>1 DEF Apart
  <2> QED
    BY <2>4, <2>7, <2>8
<1> QED
  BY <1>1, <1>2

LEMMA NewestApart ==
    ASSUME NEW S, NEW c \in Seq(S), Apart(c), NEW n \in 0 .. Len(c)
    PROVE  Apart(Newest(c, n)) /\ \A k : Has(Newest(c, n), k) => Has(c, k)
<1> DEFINE l == Len(c)
           d == SubSeq(c, l - n + 1, l)
<1>1. l \in Nat /\ DOMAIN c = 1 .. l /\ \A j \in 1 .. l : c[j] \in S
  BY LenProperties, ElementOfSeq
<1> HIDE DEF l
<1>2. l - n + 1 \in Int /\ l \in Int /\ n \in 0 .. l /\ \A j \in l - n + 1 .. l : c[j] \in S
  BY <1>1 DEF l
<1>3. d \in Seq(S) /\ Len(d) = n /\ \A j \in 1 .. n : d[j] = c[l - n + j]
  BY <1>1, <1>2, SubSeqProperties
<1>4. Newest(c, n) = d
  BY DEF Newest, l
<1> HIDE DEF d
<1>5. DOMAIN d = 1 .. n /\ \A j \in 1 .. n : l - n + j \in 1 .. l
  BY <1>1, <1>2, <1>3, LenProperties
<1>6. Apart(d)
  <2> SUFFICES ASSUME NEW i \in 1 .. n, NEW j \in 1 .. n, d[i].key = d[j].key
               PROVE  i = j
    BY <1>5 DEF Apart
  <2>1. c[l - n + i].key = c[l - n + j].key /\ l - n + i \in 1 .. l /\ l - n + j \in 1 .. l
    BY <1>3, <1>5
  <2>2. l - n + i = l - n + j
    BY <1>1, <2>1 DEF Apart
  <2> QED
    BY <1>2, <2>2
<1>7. ASSUME NEW k, Has(d, k)
      PROVE  Has(c, k)
  BY <1>1, <1>3, <1>5, <1>7 DEF Has
<1> QED
  BY <1>4, <1>6, <1>7

LEMMA AppendApart ==
    ASSUME NEW S, NEW c \in Seq(S), Apart(c), NEW e \in S, ~Has(c, e.key)
    PROVE  Apart(Append(c, e))
<1> DEFINE l == Len(c)
           d == Append(c, e)
<1>1. l \in Nat /\ DOMAIN c = 1 .. l
  BY LenProperties
<1>2. d \in Seq(S) /\ Len(d) = l + 1 /\ d[l + 1] = e /\ \A i \in 1 .. l : d[i] = c[i]
  BY AppendProperties
<1>3. DOMAIN d = 1 .. l + 1
  BY <1>2, LenProperties
<1> HIDE DEF l, d
<1> SUFFICES ASSUME NEW i \in 1 .. l + 1, NEW j \in 1 .. l + 1, d[i].key = d[j].key
             PROVE  i = j
  BY <1>3 DEF Apart, d
<1> QED
  BY <1>1, <1>2 DEF Apart, Has

LEMMA GetApart ==
    ASSUME NEW S, NEW c \in Seq(S), Apart(c), NEW k
    PROVE  Apart(Get(c, k))
<1>1. Without(c, k) \in Seq(S) /\ Apart(Without(c, k)) /\ ~Has(Without(c, k), k)
  BY WithoutKeeps, WithoutLeavesNone
<1>2. CASE Hit(c, k)
  <2>1. EntryOf(c, k) \in S /\ EntryOf(c, k).key = k
    BY <1>2, FoundEntry DEF Hit
  <2> QED
    BY <1>1, <1>2, <2>1, AppendApart DEF Get
<1>3. CASE ~Hit(c, k)
  BY <1>1, <1>3 DEF Get
<1> QED
  BY <1>2, <1>3

LEMMA PutApart ==
    ASSUME NEW S, NEW c \in Seq(S), Apart(c), NEW k, NEW v, [key |-> k, val |-> v, age |-> 0] \in S,
           maxSize \in Nat \ {0}, Len(c) <= maxSize
    PROVE  Apart(Put(c, k, v))
<1> DEFINE rest == IF Has(c, k) THEN Without(c, k)
                   ELSE IF Len(c) >= maxSize THEN Newest(c, maxSize - 1) ELSE c
           e == [key |-> k, val |-> v, age |-> 0]
<1>1. Len(c) \in Nat
  BY LenProperties
<1>2. rest \in Seq(S) /\ Apart(rest) /\ ~Has(rest, k)
  <2>1. CASE Has(c, k)
    BY <2>1, WithoutKeeps, WithoutLeavesNone
  <2>2. CASE ~Has(c, k) /\ Len(c) >= maxSize
    <3>1. maxSize - 1 \in 0 .. Len(c)
      BY <1>1, <2>2
    <3>2. Newest(c, maxSize - 1) \in Seq(S) /\ Apart(Newest(c, maxSize - 1))
          /\ ~Has(Newest(c, maxSize - 1), k)
      BY <2>2, <3>1, NewestKeeps, NewestApart
    <3> QED
      BY <2>2, <3>2
  <2>3. CASE ~Has(c, k) /\ ~(Len(c) >= maxSize)
    BY <2>3
  <2> QED
    BY <2>1, <2>2, <2>3
<1>3. Put(c, k, v) = Append(rest, e) /\ e.key = k
  BY DEF Put
<1> HIDE DEF rest, e
<1>4. e \in S
  BY DEF e
<1> QED
  BY <1>2, <1>3, <1>4, AppendApart

LEMMA LookupApart ==
    ASSUME NEW S, NEW c \in Seq(S), Apart(c), NEW r, NEW q, Lookup(r, q, c)
    PROVE  Dictionary'
<1>1. cache' = c \/ cache' = Get(c, DataKey(q.urn))
  BY DEF Lookup
<1> QED
  BY <1>1, GetApart DEF Dictionary, Apart

LEMMA PutsApart ==
    ASSUME Inv, Dictionary, NEW k, NEW v
    PROVE  /\ Apart(Put(cache, k, v))
           /\ \E S : Put(cache, k, v) \in Seq(S)
<1> DEFINE S == Kept \cup {[key |-> k, val |-> v, age |-> 0]}
<1>1. cache \in Seq(S) /\ Len(cache) <= maxSize /\ maxSize \in Nat \ {0}
      /\ [key |-> k, val |-> v, age |-> 0] \in S
  BY SeqMonotonic, SettingsAssumption DEF Inv, CacheInv, SettingsInv
<1> HIDE DEF S
<1> QED
  BY <1>1, PutApart, PutKeeps DEF Dictionary

LEMMA DictionaryNext == Inv /\ Dictionary /\ [Next]_vars => Dictionary'
<1> SUFFICES ASSUME Inv, Dictionary, [Next]_vars PROVE Dictionary'
  OBVIOUS
<1>1. cache \in Seq(Kept) /\ Apart(cache) /\ Len(cache) \in Nat /\ DOMAIN cache = 1 .. Len(cache)
  BY LenProperties DEF Inv, CacheInv, Dictionary
<1>2. CASE cache' = cache
  BY <1>1, <1>2 DEF Dictionary, Apart
<1>3. ASSUME NEW k, cache' = Without(cache, k)
      PROVE  Dictionary'
  BY <1>1, <1>3, WithoutLeavesNone DEF Dictionary, Apart
<1>4. ASSUME NEW r \in Requests, NEW u \in Urns, NEW noCache \in BOOLEAN, AskByUrn(r, u, noCache)
      PROVE  Dictionary'
  <2> DEFINE c == Get(cache, MapKey(u))
  <2>1. c \in Seq(Kept) /\ Apart(c)
    BY <1>1, GetKeeps, GetApart
  <2>2. (\E q : Lookup(r, q, c)) \/ cache' = c
    BY <1>4 DEF AskByUrn
  <2> HIDE DEF c
  <2> QED
    BY <2>1, <2>2, LookupApart DEF Dictionary, Apart
<1>5. ASSUME NEW r \in Requests, Found(r) \/ FindById(r) \/ Built(r)
      PROVE  Dictionary'
  <2>1. CASE Found(r)
    <3> DEFINE c == Put(cache, MapKey(req[r].urn), req[r].id)
    <3>1. Apart(c) /\ \E S : c \in Seq(S)
      BY PutsApart
    <3>2. Lookup(r, req[r], c)
      BY <2>1 DEF Found
    <3> HIDE DEF c
    <3> QED
      BY <3>1, <3>2, LookupApart
  <2>2. CASE FindById(r)
    <3>1. (\E q : Lookup(r, q, cache)) \/ cache' = cache
      BY <2>2 DEF FindById
    <3> QED
      BY <1>1, <1>2, <3>1, LookupApart
  <2>3. CASE Built(r)
    <3>1. cache' = Put(cache, DataKey(req[r].urn), req[r].val)
      BY <2>3 DEF Built
    <3>2. Apart(Put(cache, DataKey(req[r].urn), req[r].val))
      BY PutsApart
    <3> QED
      BY <3>1, <3>2 DEF Dictionary, Apart
  <2> QED
    BY <1>5, <2>1, <2>2, <2>3
<1>6. ASSUME NEW size \in MaxSizes, NEW seconds \in Ttls, Reconfigure(size, seconds)
      PROVE  Dictionary'
  <2>1. CASE Len(cache) > size
    <3>1. cache' = Newest(cache, size) /\ size \in 0 .. Len(cache)
      BY <1>1, <1>6, <2>1, SettingsAssumption DEF Reconfigure
    <3> QED
      BY <1>1, <3>1, NewestApart DEF Dictionary, Apart
  <2>2. CASE ~(Len(cache) > size)
    BY <1>2, <1>6, <2>2 DEF Reconfigure
  <2> QED
    BY <2>1, <2>2
<1>7. CASE Tick
  <2>1. /\ cache' = [i \in DOMAIN cache |-> [cache[i] EXCEPT !.age = Older(@, OldestTtl + 1)]]
        /\ \A i \in DOMAIN cache : cache[i] \in Entry
    BY <1>1, <1>7, ElementOfSeq DEF Tick, Kept
  <2>2. \A e \in Entry : [e EXCEPT !.age = Older(@, OldestTtl + 1)].key = e.key
    BY DEF Entry
  <2>3. DOMAIN cache' = DOMAIN cache /\ \A i \in DOMAIN cache : cache'[i].key = cache[i].key
    BY <2>1, <2>2
  <2> QED
    BY <1>1, <2>3 DEF Dictionary, Apart
<1>8. CASE Clear
  BY <1>8 DEF Clear, Dictionary, Apart
<1>9. ASSUME NEW u \in Urns, Create(u) \/ Update(u) \/ Delete(u) \/ \E v \in Urns : Rename(u, v)
      PROVE  Dictionary'
  BY <1>2, <1>9 DEF Create, Update, Delete, Rename, Changed
<1>10. ASSUME NEW r \in Requests, Query(r) \/ Build(r)
       PROVE  Dictionary'
  BY <1>2, <1>10 DEF Query, Build
<1>11. ASSUME NEW i, InvalidateById(i)
       PROVE  Dictionary'
  BY <1>3, <1>11 DEF InvalidateById
<1>12. CASE UNCHANGED vars
  BY <1>2, <1>12 DEF vars
<1>13. CASE \E u \in Urns : Create(u) \/ Update(u) \/ Delete(u) \/ \E v \in Urns : Rename(u, v)
  BY <1>13, <1>9
<1>14. ASSUME NEW r \in Requests, NEW noCache \in BOOLEAN,
              \/ \E u \in Urns : AskByUrn(r, u, noCache)
              \/ \E i \in 1 .. changes : AskById(r, i, noCache)
       PROVE  Dictionary'
  <2>1. CASE \E u \in Urns : AskByUrn(r, u, noCache)
    BY <2>1, <1>4
  <2>2. CASE \E i \in 1 .. changes : AskById(r, i, noCache)
    BY <1>2, <2>2 DEF AskById
  <2> QED
    BY <1>14, <2>1, <2>2
<1>15. CASE \E r \in Requests : Query(r) \/ Found(r) \/ FindById(r) \/ Build(r) \/ Built(r)
  BY <1>15, <1>5, <1>10
<1>16. CASE \E i \in 1 .. changes : InvalidateById(i)
  BY <1>16, <1>11
<1>17. CASE \E size \in MaxSizes, seconds \in Ttls : Reconfigure(size, seconds)
  BY <1>17, <1>6
<1> QED
  BY <1>7, <1>8, <1>12, <1>13, <1>14, <1>15, <1>16, <1>17 DEF Next

\* The cache has one entry for a key, as the dictionary of external/cache.py that
\* it models: an entry that is dropped or invalidated was the only one.
THEOREM OneEntryPerKey == Spec => []Dictionary
<1>1. Init => Dictionary
  BY DEF Init, Dictionary, Apart
<1> QED
  BY <1>1, DictionaryNext, CacheInvariant, PTL DEF Spec
================================================================================
