--------------------------- MODULE FederationProofs ---------------------------
(***************************************************************************)
(* Theorems about a federation: the breaker of a LIVE peer, for any tasks, *)
(* threshold and cooldown, and the harvest of a peer, for any number of    *)
(* datasets, pages of any size and any number of changes.                  *)
(***************************************************************************)
EXTENDS CircuitBreaker, FederationHarvest, FiniteSetTheorems, TLAPS

-----------------------------------------------------------------------------
(* The breaker. *)

\* The saturating count and the remaining cooldown stay in their ranges, and the
\* circuit is open only at the threshold: the two facts every step preserves.
BreakerInv == TypeOK /\ OpenMeansThreshold

\* A fresh breaker is closed, with nothing counted.
LEMMA BreakerInvInit == BreakerInit => BreakerInv
  BY SettingsAssumption DEF BreakerInit, BreakerInv, TypeOK, OpenMeansThreshold, IsOpen

\* No outcome of a call, in whatever order the calls end, and no passing of
\* time opens the circuit below the threshold.
LEMMA BreakerInvNext == BreakerInv /\ [BreakerNext]_breakerVars => BreakerInv'
<1> SUFFICES ASSUME BreakerInv, [BreakerNext]_breakerVars PROVE BreakerInv'
  OBVIOUS
<1> USE SettingsAssumption DEF BreakerInv, TypeOK, OpenMeansThreshold, IsOpen
<1>1. CASE UNCHANGED breakerVars
  BY <1>1 DEF breakerVars
<1>2. ASSUME NEW c \in Callers, CallBegins(c) PROVE BreakerInv'
  BY <1>2 DEF CallBegins
<1>3. ASSUME NEW c \in Callers, CallSucceeds(c) PROVE BreakerInv'
  BY <1>3 DEF CallSucceeds, CallEnds
<1>4. ASSUME NEW c \in Callers, CallFails(c) PROVE BreakerInv'
  <2>1. failures' \in 0 .. Threshold /\ failures' >= failures
    BY <1>4 DEF CallFails
  <2>2. CASE failures' >= Threshold
    BY <1>4, <2>1, <2>2 DEF CallFails, CallEnds
  <2>3. CASE ~(failures' >= Threshold)
    BY <1>4, <2>1, <2>3 DEF CallFails, CallEnds
  <2> QED
    BY <2>2, <2>3
<1>5. ASSUME NEW c \in Callers, CallIsCancelled(c) PROVE BreakerInv'
  BY <1>5 DEF CallIsCancelled, CallEnds
<1>6. CASE Tick
  BY <1>6 DEF Tick
<1>7. CASE Reset
  BY <1>7 DEF Reset
<1>8. CASE Restart
  BY <1>8 DEF Restart
<1> QED
  BY <1>1, <1>2, <1>3, <1>4, <1>5, <1>6, <1>7, <1>8 DEF BreakerNext

\* Both facts hold of every reachable state.
LEMMA BreakerInvAlways == BreakerSpec => []BreakerInv
  BY BreakerInvInit, BreakerInvNext, PTL DEF BreakerSpec

\* The state of the breaker and of its callers is well typed, whatever the
\* configured threshold and cooldown, zero included.
THEOREM BreakerTypeCorrect == BreakerSpec => []TypeOK
<1>1. BreakerInv => TypeOK
  BY DEF BreakerInv
<1> QED
  BY <1>1, BreakerInvAlways, PTL

\* The circuit is open only while Threshold failures stand with no success
\* after them, in every interleaving of calls, cooldown, reset and restart.
THEOREM OpenIsJustified == BreakerSpec => []OpenMeansThreshold
<1>1. BreakerInv => OpenMeansThreshold
  BY DEF BreakerInv
<1> QED
  BY <1>1, BreakerInvAlways, PTL
-----------------------------------------------------------------------------
(* Places in a queue. *)

\* A dataset's place in a set of them is below their number.
LEMMA RankIn ==
  ASSUME NEW S \in SUBSET Int, IsFiniteSet(S), NEW d \in Int
  PROVE  /\ Rank(d, S) \in 0 .. Cardinality(S)
         /\ d \in S => Rank(d, S) \in 0 .. Cardinality(S) - 1
<1> DEFINE Low == {e \in S : e < d}
<1>1. IsFiniteSet(Low) /\ Cardinality(Low) \in Nat /\ Cardinality(Low) <= Cardinality(S)
  BY Low \subseteq S, FS_Subset, FS_CardinalityType
<1>2. ASSUME d \in S PROVE Cardinality(Low) < Cardinality(S)
  <2>1. Low \in SUBSET S /\ Low # S
    BY <1>2
  <2>2. Cardinality(Low) # Cardinality(S)
    BY <2>1, FS_Subset
  <2> QED
    BY <1>1, <2>2, FS_CardinalityType
<1> QED
  BY <1>1, <1>2, FS_CardinalityType DEF Rank

\* The higher of two has the higher place, so no two share one.
LEMMA RankApart ==
  ASSUME NEW S \in SUBSET Int, IsFiniteSet(S), NEW d \in S, NEW e \in S, d < e
  PROVE  Rank(d, S) < Rank(e, S)
<1> DEFINE Low == {c \in S : c < d}
           High == {c \in S : c < e}
<1>1. Low \in SUBSET High /\ High \in SUBSET S /\ Low # High
  <2>1. d \in High /\ d \notin Low
    OBVIOUS
  <2>2. ASSUME NEW c \in Low PROVE c \in High
    OBVIOUS
  <2> QED
    BY <2>1, <2>2
<1> HIDE DEF Low, High
<1>2. IsFiniteSet(High) /\ IsFiniteSet(Low)
  BY <1>1, FS_Subset
<1>3. Cardinality(Low) <= Cardinality(High) /\ Cardinality(Low) # Cardinality(High)
  BY <1>1, <1>2, FS_Subset
<1>4. Cardinality(Low) \in Nat /\ Cardinality(High) \in Nat
  BY <1>2, FS_CardinalityType
<1> QED
  BY <1>3, <1>4 DEF Rank, Low, High

\* A place is one dataset's.
LEMMA RankOfOne ==
  ASSUME NEW S \in SUBSET Int, IsFiniteSet(S), NEW d \in S, NEW e \in S, Rank(d, S) = Rank(e, S)
  PROVE  d = e
<1>1. CASE d < e
  BY <1>1, RankApart, RankIn
<1>2. CASE e < d
  BY <1>2, RankApart, RankIn
<1> QED
  BY <1>1, <1>2

\* Every place is somebody's.
LEMMA RankOnto ==
  ASSUME NEW S \in SUBSET Int, IsFiniteSet(S), NEW r \in 0 .. Cardinality(S) - 1
  PROVE  \E d \in S : Rank(d, S) = r
<1> DEFINE T == 0 .. Cardinality(S) - 1
           f == [d \in S |-> Rank(d, S)]
<1>1. Cardinality(S) \in Nat
  BY FS_CardinalityType
<1>2. IsFiniteSet(T) /\ Cardinality(T) = Cardinality(S)
  BY <1>1, FS_Interval
<1>3. f \in [S -> T]
  BY RankIn
<1>4. \A d, e \in S : f[d] = f[e] => d = e
  BY RankOfOne
<1>5. f \in Injection(S, T)
  BY <1>3, <1>4 DEF Injection, IsInjective
<1>6. f \in Surjection(S, T)
  BY <1>2, <1>5, FS_Injection
<1> QED
  BY <1>6 DEF Surjection

\* More datasets give no lower place.
LEMMA RankGrows ==
  ASSUME NEW S \in SUBSET Int, NEW T \in SUBSET S, IsFiniteSet(S), NEW d \in Int
  PROVE  Rank(d, T) <= Rank(d, S) /\ Rank(d, T) \in Nat /\ Rank(d, S) \in Nat
<1> DEFINE Low == {c \in T : c < d}
           High == {c \in S : c < d}
<1>1. Low \in SUBSET High
  OBVIOUS
<1>2. IsFiniteSet(High) /\ IsFiniteSet(Low)
  BY FS_Subset, High \in SUBSET S, Low \in SUBSET S
<1> QED
  BY <1>1, <1>2, FS_Subset, FS_CardinalityType DEF Rank

\* A page holds no more than the places it is asked for.
LEMMA PageHolds ==
  ASSUME NEW S \in SUBSET Int, IsFiniteSet(S), NEW a \in Nat, NEW n \in Nat,
         NEW P, P = {d \in S : Rank(d, S) \in a .. a + n - 1}
  PROVE  IsFiniteSet(P) /\ Cardinality(P) \in Nat /\ Cardinality(P) <= n
<1> DEFINE f == [d \in P |-> Rank(d, S)]
           T == a .. a + n - 1
<1>1. f \in [P -> T]
  OBVIOUS
<1>2. \A d, e \in P : f[d] = f[e] => d = e
  BY RankOfOne
<1>3. f \in Injection(P, T)
  BY <1>1, <1>2 DEF Injection, IsInjective
<1>4. IsFiniteSet(T) /\ Cardinality(T) = n
  BY FS_Interval
<1> QED
  BY <1>3, <1>4, FS_Injection, FS_CardinalityType

\* A finite set of numbers has a greatest.
LEMMA MaxIn ==
  ASSUME NEW S \in SUBSET Int, IsFiniteSet(S), S # {}
  PROVE  Max(S) \in S /\ \A y \in S : Max(S) >= y
<1>1. Cardinality(S) \in Nat /\ Cardinality(S) # 0
  BY FS_CardinalityType, FS_EmptySet
<1>2. PICK d \in S : Rank(d, S) = Cardinality(S) - 1
  BY <1>1, RankOnto
<1>3. \A y \in S : d >= y
  BY <1>1, <1>2, RankApart, RankIn
<1> QED
  BY <1>3 DEF Max
-----------------------------------------------------------------------------
(***************************************************************************)
(* The harvest.  One task at a time harvests the peer, and what the peer   *)
(* exports fits in the pages of one run: the two conditions under which    *)
(* the mirror can be relied on.                                            *)
(***************************************************************************)
OneJob == \A i, j \in Jobs : i = j
Fits == Size <= MaxPages * PageSize

(* Types. *)
Rows == [text : Nat, stamp : Nat]
Pages == UNION {[S -> Rows] : S \in SUBSET Datasets}
Scans == UNION {[S -> Nat] : S \in SUBSET Datasets}
Phases == {"idle", "fetch", "store", "scan", "embed", "prune", "lineage"}
JobRecords == [pc : Phases, full : BOOLEAN, since : Nat, offset : Nat, page : Pages,
               last : BOOLEAN, seen : SUBSET Datasets, scan : Scans]
RunStates == {"NONE", "RUNNING", "SUCCESS", "FAILED"}

HarvestTypes ==
    /\ clock \in Nat
    /\ text \in [Datasets -> Nat]
    /\ stamp \in [Datasets -> Nat]
    /\ mirror \in [Datasets -> Rows]
    /\ emb \in [Datasets -> Nat]
    /\ run \in [Jobs -> RunStates]
    /\ job \in [Jobs -> JobRecords]
    /\ changed \in [Jobs -> SUBSET Datasets]
    /\ shrunk \in [Jobs -> BOOLEAN]
    /\ sound \in BOOLEAN

(* Stamps, and the variables of a task. *)
\* Nothing is stamped later than the peer's clock, and a row has a text.
Stamped ==
    /\ \A d \in Datasets : stamp[d] \in 1 .. clock
    /\ \A d \in Datasets : mirror[d].stamp <= clock /\ (mirror[d] = NoRow \/ mirror[d].text # 0)
    /\ \A j \in Jobs : \A d \in DOMAIN job[j].page :
          job[j].page[d].stamp <= clock /\ job[j].page[d].text # 0

\* A page is held while it waits to be stored; a run starts at zero or at the
\* stamp of a row that is mirrored; who saw a dataset vanish has noted it.
Steady ==
    \A j \in Jobs :
        /\ job[j].pc = "store" => job[j].page # <<>>
        /\ job[j].pc # "store" => job[j].page = <<>>
        /\ job[j].full => job[j].since = 0
        /\ job[j].pc \in {"fetch", "store"} /\ job[j].offset = 0 =>
              job[j].since = 0 \/ \E d \in Datasets : job[j].since = mirror[d].stamp
        /\ shrunk[j] => job[j].pc # "idle" /\ changed[j] # {}

\* What the peer says of a dataset, whether the mirror says so, and whether it was
\* stamped after everything that is mirrored.
Now(d) == [text |-> text[d], stamp |-> stamp[d]]
Current(d) == mirror[d] = Now(d)
Ahead(d) == \A e \in Datasets : mirror[e].stamp < stamp[d]

(* Embeddings. *)
NoRowNoEmbedding == \A d \in Datasets : mirror[d] = NoRow => emb[d] = 0
\* What was scanned and is still to be embedded is what the mirror says.
ScanIsFresh ==
    \A j \in Jobs : job[j].pc = "embed" =>
       \A d \in Datasets :
          IF d \in DOMAIN job[j].scan
          THEN job[j].scan[d] = mirror[d].text /\ mirror[d] # NoRow
          ELSE emb[d] = mirror[d].text
AllEmbedded ==
    \A j \in Jobs : job[j].pc \in {"prune", "lineage"} =>
       \A d \in Datasets : emb[d] = mirror[d].text
EmbedInv == NoRowNoEmbedding /\ ScanIsFresh /\ AllEmbedded

(* Full runs. *)
\* What task j has still to read, the place of dataset d there, and how far it is.
Queue(j) == {d \in Exported : stamp[d] > job[j].since}
Turn(j, d) == Cardinality({e \in Queue(j) : e < d})
Reached(j) == job[j].offset + Cardinality(DOMAIN job[j].page)
Has(j, d) == d \in job[j].seen \/ d \in DOMAIN job[j].page
Clean(j) == job[j].full /\ ~shrunk[j]

\* What was read and has not changed since is still so.
Faithful(j) ==
    job[j].pc # "idle" => \A d \in Datasets \ changed[j] :
       /\ d \in DOMAIN job[j].page => job[j].page[d] = Now(d) /\ text[d] # 0
       /\ d \in job[j].seen => Current(d) /\ text[d] # 0
\* A full run has read what the peer lists before the place it has reached, the
\* whole of it after its last page, and leaves the mirror exact.
Swept(j) ==
    Clean(j) /\ job[j].pc \in {"fetch", "store"} =>
       \A d \in Exported \ changed[j] : Turn(j, d) < Reached(j) => Has(j, d)
Whole(j) ==
    Clean(j) /\ (job[j].pc \in {"scan", "embed", "prune"} \/ (job[j].pc = "store" /\ job[j].last)) =>
       \A d \in Exported \ changed[j] : Has(j, d)
Exact(j) ==
    Clean(j) /\ job[j].pc = "lineage" =>
       \A d \in Datasets \ changed[j] : mirror[d] = IF text[d] = 0 THEN NoRow ELSE Now(d)
FullInv == \A j \in Jobs : Faithful(j) /\ Swept(j) /\ Whole(j) /\ Exact(j)

(* Runs that nothing disturbs. *)
\* A dataset is in the page that is held; is mirrored as it is; was changed since
\* the run began, after what is mirrored and held; or its turn is still to come.
Stored(j, d) == d \in DOMAIN job[j].page /\ job[j].page[d] = Now(d)
There(j, d) == d \notin DOMAIN job[j].page /\ Current(d) /\ (job[j].full => d \in job[j].seen)
Newer(j, d) ==
    /\ d \in changed[j] /\ Ahead(d)
    /\ \A e \in DOMAIN job[j].page : job[j].page[e].stamp < stamp[d]
Due(j, d) == d \notin DOMAIN job[j].page /\ d \in Queue(j) /\ Turn(j, d) >= Reached(j)

\* As long as a run has stored no page, the watermark tells what is not mirrored.
Known(j) ==
    sound /\ (job[j].pc = "idle" \/ (job[j].pc \in {"fetch", "store"} /\ job[j].offset = 0)) =>
       \A d \in Exported : Current(d) \/ Ahead(d)
Caught(j) ==
    sound => \A d \in Exported :
       /\ (job[j].pc = "fetch" /\ job[j].offset > 0) \/ (job[j].pc = "store" /\ ~job[j].last) =>
             Stored(j, d) \/ There(j, d) \/ Due(j, d)
       /\ job[j].pc = "store" /\ job[j].last => Stored(j, d) \/ There(j, d) \/ Newer(j, d)
       /\ job[j].pc \in {"scan", "embed", "prune", "lineage"} => There(j, d) \/ Newer(j, d)
CaughtInv == \A j \in Jobs : Known(j) /\ Caught(j)
-----------------------------------------------------------------------------
(* The types are kept. *)

\* What a page and a scan are.
LEMMA PageIs ==
  /\ <<>> \in Pages /\ <<>> \in Scans
  /\ \A S \in SUBSET Datasets : [S -> Rows] \subseteq Pages /\ [S -> Nat] \subseteq Scans
  /\ \A f \in Pages : /\ DOMAIN f \subseteq Datasets
                      /\ \A d \in DOMAIN f : f[d] \in Rows
                      /\ f = <<>> <=> DOMAIN f = {}
  /\ \A f \in Scans : /\ DOMAIN f \subseteq Datasets
                      /\ \A d \in DOMAIN f : f[d] \in Nat
                      /\ f = <<>> <=> DOMAIN f = {}
<1>1. <<>> \in [{} -> Rows] /\ <<>> \in [{} -> Nat]
  OBVIOUS
<1>2. <<>> \in Pages /\ <<>> \in Scans
  BY <1>1, {} \in SUBSET Datasets DEF Pages, Scans
<1>3. \A S \in SUBSET Datasets : [S -> Rows] \subseteq Pages /\ [S -> Nat] \subseteq Scans
  BY DEF Pages, Scans
<1>4. ASSUME NEW T, NEW f \in UNION {[S -> T] : S \in SUBSET Datasets}
      PROVE  /\ DOMAIN f \subseteq Datasets
             /\ \A d \in DOMAIN f : f[d] \in T
             /\ f = <<>> <=> DOMAIN f = {}
  <2>1. PICK S \in SUBSET Datasets : f \in [S -> T]
    BY <1>4
  <2> QED
    BY <2>1
<1> QED
  BY <1>2, <1>3, <1>4 DEF Pages, Scans

\* The numbers of the datasets, and the parts of them.
LEMMA DatasetsAre ==
  /\ Datasets \in SUBSET Nat /\ IsFiniteSet(Datasets)
  /\ Cardinality(Datasets) = Size
  /\ \A S \in SUBSET Datasets : S \in SUBSET Int /\ IsFiniteSet(S) /\ Cardinality(S) \in 0 .. Size
<1>1. Datasets \in SUBSET Nat /\ IsFiniteSet(Datasets) /\ Cardinality(Datasets) = Size
  BY BoundsAssumption, FS_Interval DEF Datasets
<1>2. ASSUME NEW S \in SUBSET Datasets
      PROVE  S \in SUBSET Int /\ IsFiniteSet(S) /\ Cardinality(S) \in 0 .. Size
  <2>1. IsFiniteSet(S) /\ Cardinality(S) <= Size
    BY <1>1, FS_Subset
  <2>2. Cardinality(S) \in Nat
    BY <2>1, FS_CardinalityType
  <2> QED
    BY <1>1, <2>1, <2>2, BoundsAssumption
<1> QED
  BY <1>1, <1>2

\* A new page.
LEMMA PageType ==
  ASSUME HarvestTypes, NEW since \in Nat, NEW offset \in Nat
  PROVE  /\ Page(since, offset) \in Pages
         /\ DOMAIN Page(since, offset) =
               {d \in Matching(since) :
                  Rank(d, Matching(since)) \in offset .. offset + PageSize - 1}
         /\ \A d \in DOMAIN Page(since, offset) :
               Page(since, offset)[d] = [text |-> text[d], stamp |-> stamp[d]]
<1> DEFINE S == {d \in Matching(since) :
                    Rank(d, Matching(since)) \in offset .. offset + PageSize - 1}
<1>1. S \in SUBSET Datasets
  BY DEF Matching, Exported
<1>2. \A d \in Datasets : [text |-> text[d], stamp |-> stamp[d]] \in Rows
  BY DEF HarvestTypes, Rows
<1>3. Page(since, offset) = [d \in S |-> [text |-> text[d], stamp |-> stamp[d]]]
  BY DEF Page
<1> HIDE DEF S
<1>4. Page(since, offset) \in [S -> Rows]
  BY <1>1, <1>2, <1>3
<1>5. Page(since, offset) \in Pages
  BY <1>1, <1>4, PageIs
<1>6. DOMAIN Page(since, offset) = S
  BY <1>3
<1> QED
  BY <1>3, <1>5, <1>6 DEF S

\* The watermark is the stamp of a row.
LEMMA WatermarkIs ==
  ASSUME HarvestTypes
  PROVE  /\ Watermark \in Nat
         /\ Watermark = 0 \/ \E d \in Datasets : Watermark = mirror[d].stamp
<1> DEFINE S == {0} \cup {mirror[d].stamp : d \in Datasets}
<1>1. S \in SUBSET Int /\ S \in SUBSET Nat
  BY DEF HarvestTypes, Rows
<1>2. IsFiniteSet(S)
  <2> DEFINE f == [d \in Datasets |-> mirror[d].stamp]
             T == {mirror[d].stamp : d \in Datasets}
  <2>1. f \in Surjection(Datasets, T)
    BY DEF Surjection
  <2> HIDE DEF f, T
  <2>2. IsFiniteSet(T)
    BY <2>1, DatasetsAre, FS_Surjection
  <2>3. S = T \cup {0}
    BY DEF T
  <2> QED
    BY <2>2, <2>3, FS_AddElement
<1>3. Watermark \in S
  BY <1>1, <1>2, MaxIn DEF Watermark
<1> QED
  BY <1>1, <1>3

\* A task that has nothing to do is of the type of the others.
LEMMA IdleJobType == IdleJob \in JobRecords
BY PageIs DEF IdleJob, JobRecords, Phases

\* What a step writes into the local variables of a task leaves them of their types.
LEMMA OneUpdated ==
  ASSUME NEW f \in [Jobs -> JobRecords], NEW j \in Jobs
  PROVE  /\ \A p \in Phases : [f EXCEPT ![j].pc = p] \in [Jobs -> JobRecords]
         /\ \A n \in Nat : [f EXCEPT ![j].offset = n] \in [Jobs -> JobRecords]
         /\ \A q \in Pages : [f EXCEPT ![j].page = q] \in [Jobs -> JobRecords]
         /\ \A S \in SUBSET Datasets : [f EXCEPT ![j].seen = S] \in [Jobs -> JobRecords]
BY DEF JobRecords

\* The same of what a fetch, a scan and a stored page write.
LEMMA FetchUpdates ==
  ASSUME NEW f \in [Jobs -> JobRecords], NEW j \in Jobs, NEW q \in Pages, NEW p \in Phases,
         NEW b \in BOOLEAN
  PROVE  [f EXCEPT ![j].page = q, ![j].pc = p, ![j].last = b] \in [Jobs -> JobRecords]
BY DEF JobRecords

\* What a scan writes.
LEMMA ScanUpdates ==
  ASSUME NEW f \in [Jobs -> JobRecords], NEW j \in Jobs, NEW p \in Phases, NEW s \in Scans
  PROVE  [f EXCEPT ![j].pc = p, ![j].scan = s] \in [Jobs -> JobRecords]
BY DEF JobRecords

\* What the step that stores a page writes, one variable after the other.
LEMMA StoreUpdates ==
  ASSUME NEW f \in [Jobs -> JobRecords], NEW j \in Jobs, NEW S \in SUBSET Datasets,
         NEW n \in Nat, NEW q \in Pages, NEW p \in Phases
  PROVE  [f EXCEPT ![j].seen = S, ![j].offset = n, ![j].page = q, ![j].pc = p]
            \in [Jobs -> JobRecords]
<1> DEFINE f1 == [f EXCEPT ![j].seen = S]
           f2 == [f1 EXCEPT ![j].offset = n]
           f3 == [f2 EXCEPT ![j].page = q]
           f4 == [f3 EXCEPT ![j].pc = p]
<1>1. [f EXCEPT ![j].seen = S, ![j].offset = n, ![j].page = q, ![j].pc = p] = f4
  BY DEF JobRecords
<1>2. f1 \in [Jobs -> JobRecords]
  BY OneUpdated
<1> HIDE DEF f1
<1>3. f2 \in [Jobs -> JobRecords]
  BY <1>2, OneUpdated
<1> HIDE DEF f2
<1>4. f3 \in [Jobs -> JobRecords]
  BY <1>3, OneUpdated
<1> HIDE DEF f3
<1>5. f4 \in [Jobs -> JobRecords]
  BY <1>4, OneUpdated
<1> HIDE DEF f4
<1> QED
  BY <1>1, <1>5

\* The peer, the mirror and the tasks start well typed.
LEMMA TypesInit == Init => HarvestTypes
<1> SUFFICES ASSUME Init PROVE HarvestTypes
  OBVIOUS
<1>1. Datasets \subseteq Nat /\ Size \in Nat
  BY DatasetsAre, BoundsAssumption
<1>2. NoRow \in Rows
  BY DEF NoRow, Rows
<1> QED
  BY <1>1, <1>2, IdleJobType DEF Init, HarvestTypes, RunStates

\* Every step of the peer and of the tasks keeps the types.
LEMMA TypesNext == HarvestTypes /\ [Next]_vars => HarvestTypes'
<1> SUFFICES ASSUME HarvestTypes, [Next]_vars PROVE HarvestTypes'
  OBVIOUS
<1>0. Datasets \subseteq Nat
  BY DatasetsAre
<1>a. \A d \in Datasets : Noted(d) => changed' \in [Jobs -> SUBSET Datasets]
  BY DEF HarvestTypes, Noted
<1>b. \A j \in Jobs : Ends(j) => /\ job' \in [Jobs -> JobRecords]
                                 /\ changed' \in [Jobs -> SUBSET Datasets]
                                 /\ shrunk' \in [Jobs -> BOOLEAN]
  BY IdleJobType DEF HarvestTypes, Ends
<1> USE DEF HarvestTypes
<1>1. CASE UNCHANGED vars
  BY <1>1 DEF vars, peer, hub, history
<1>2. ASSUME NEW d \in Datasets, EditSchema(d) PROVE HarvestTypes'
  <2>1. clock' \in Nat /\ text' \in [Datasets -> Nat]
    BY <1>2 DEF EditSchema
  <2> QED
    BY <1>a, <1>2, <2>1 DEF EditSchema, hub
<1>3. ASSUME NEW d \in Datasets, Remove(d) PROVE HarvestTypes'
  BY <1>a, <1>3 DEF Remove, hub, Midway
<1>4. ASSUME NEW d \in Datasets, NEW s \in Ticks, Edit(d, s) PROVE HarvestTypes'
  <2>1. s \in Nat
    BY BoundsAssumption DEF Ticks
  <2> QED
    BY <1>a, <1>4, <2>1 DEF Edit, hub, Midway
<1>5. ASSUME NEW j \in Jobs, Fetch(j) PROVE HarvestTypes'
  <2>1. job[j].since \in Nat /\ job[j].offset \in Nat
    BY DEF JobRecords
  <2>2. Page(job[j].since, job[j].offset) \in Pages
    BY <2>1, PageType
  <2> DEFINE page == Page(job[j].since, job[j].offset)
             p == IF page = <<>> THEN "scan" ELSE "store"
             b == \/ job[j].offset + Cardinality(DOMAIN page) >= Cardinality(Matching(job[j].since))
                  \/ job[j].offset + Cardinality(DOMAIN page) >= MaxPages * PageSize
  <2>3. job' = [job EXCEPT ![j].page = page, ![j].pc = p, ![j].last = b]
    BY <1>5 DEF Fetch
  <2>4. p \in Phases /\ b \in BOOLEAN
    BY DEF Phases
  <2> HIDE DEF p, b, page
  <2>5. job' \in [Jobs -> JobRecords]
    BY <2>2, <2>3, <2>4, FetchUpdates DEF page
  <2> QED
    BY <1>5, <2>5 DEF Fetch, peer, hub, history
<1>6. ASSUME NEW j \in Jobs, Store(j) PROVE HarvestTypes'
  <2> DEFINE k == job[j]
  <2>0. k.page \in Pages
    BY DEF JobRecords
  <2>1. /\ DOMAIN k.page \subseteq Datasets
        /\ \A d \in DOMAIN k.page : k.page[d] \in Rows
        /\ Cardinality(DOMAIN k.page) \in Nat
    <3>1. DOMAIN k.page \subseteq Datasets /\ \A d \in DOMAIN k.page : k.page[d] \in Rows
      BY <2>0, PageIs
    <3>2. Cardinality(DOMAIN k.page) \in 0 .. Size
      BY <3>1, DatasetsAre
    <3> QED
      BY <3>1, <3>2
  <2>2. mirror' \in [Datasets -> Rows]
    BY <1>6, <2>1 DEF Store
  <2>3. job' \in [Jobs -> JobRecords]
    <3> DEFINE p == IF k.last THEN "scan" ELSE "fetch"
               S == k.seen \cup DOMAIN k.page
               n == k.offset + Cardinality(DOMAIN k.page)
    <3>1. job' = [job EXCEPT ![j].seen = S, ![j].offset = n, ![j].page = <<>>, ![j].pc = p]
      BY <1>6 DEF Store
    <3>2. p \in Phases /\ S \in SUBSET Datasets /\ n \in Nat
      BY <2>1 DEF Phases, JobRecords
    <3> HIDE DEF p, S, n
    <3>3. <<>> \in Pages
      BY PageIs
    <3>4. job \in [Jobs -> JobRecords]
      OBVIOUS
    <3>5. [job EXCEPT ![j].seen = S, ![j].offset = n, ![j].page = <<>>, ![j].pc = p]
             \in [Jobs -> JobRecords]
      BY <3>2, <3>3, <3>4, StoreUpdates, Zenon
    <3> QED
      BY <3>1, <3>5
  <2> QED
    BY <1>6, <2>2, <2>3 DEF Store, peer, history
<1>7. ASSUME NEW j \in Jobs, Scan(j) PROVE HarvestTypes'
  <2>0. Mirrored \in SUBSET Datasets
    BY DEF Mirrored
  <2>1. [d \in Mirrored |-> mirror[d].text] \in [Mirrored -> Nat]
    BY <2>0 DEF Rows
  <2>2. [d \in Mirrored |-> mirror[d].text] \in Scans
    BY <2>0, <2>1, PageIs
  <2> DEFINE scan == [d \in Mirrored |-> mirror[d].text]
  <2>3. job' = [job EXCEPT ![j].pc = "embed", ![j].scan = scan]
    BY <1>7 DEF Scan
  <2>4. "embed" \in Phases
    BY DEF Phases
  <2> HIDE DEF scan
  <2>5. job' \in [Jobs -> JobRecords]
    BY <2>2, <2>3, <2>4, ScanUpdates DEF scan
  <2> QED
    BY <1>7, <2>5 DEF Scan, peer, hub, history
<1>8. ASSUME NEW j \in Jobs, Embed(j) PROVE HarvestTypes'
  <2>1. PICK d \in DOMAIN job[j].scan \cap Mirrored :
           /\ emb' = [emb EXCEPT ![d] = job[j].scan[d]]
           /\ job' = [job EXCEPT ![j].scan = Restrict(@, DOMAIN @ \ {d})]
    BY <1>8 DEF Embed
  <2> DEFINE f == job[j].scan
             S == DOMAIN f \ {d}
  <2>2. /\ S \in SUBSET Datasets
        /\ \A e \in DOMAIN f : f[e] \in Nat
    BY PageIs DEF JobRecords
  <2>3. Restrict(f, S) \in [S -> Nat]
    BY <2>2 DEF Restrict
  <2>4. Restrict(f, S) \in Scans
    BY <2>2, <2>3, PageIs
  <2>5. job' \in [Jobs -> JobRecords]
    BY <2>1, <2>4 DEF JobRecords
  <2>6. emb' \in [Datasets -> Nat]
    BY <2>1, <2>2
  <2> QED
    BY <1>8, <2>5, <2>6 DEF Embed, peer, history
<1>9. ASSUME NEW j \in Jobs, EmbedEnds(j) PROVE HarvestTypes'
  BY <1>9 DEF EmbedEnds, peer, hub, history, JobRecords, Phases
<1>10. ASSUME NEW j \in Jobs, Prune(j) PROVE HarvestTypes'
  <2>1. NoRow \in Rows
    BY DEF NoRow, Rows
  <2>2. mirror' \in [Datasets -> Rows] /\ emb' \in [Datasets -> Nat]
    BY <1>10, <2>1 DEF Prune
  <2> QED
    BY <1>10, <2>2 DEF Prune, peer, history, JobRecords, Phases
<1>11. ASSUME NEW j \in Jobs, Finish(j) PROVE HarvestTypes'
  BY <1>b, <1>11 DEF Finish, peer, RunStates
<1>12. ASSUME NEW j \in Jobs, Fail(j) PROVE HarvestTypes'
  BY <1>b, <1>12 DEF Fail, peer, RunStates, Midway
<1>13. ASSUME NEW j \in Jobs, NEW full \in BOOLEAN, Begin(j, full) PROVE HarvestTypes'
  <2> DEFINE since == IF full THEN 0 ELSE Watermark
  <2>1. since \in Nat
    BY WatermarkIs
  <2>2. [IdleJob EXCEPT !.pc = "fetch", !.since = since, !.full = (since = 0)] \in JobRecords
    BY <2>1, PageIs DEF IdleJob, JobRecords, Phases
  <2> QED
    BY <1>13, <2>2 DEF Begin, peer, history, RunStates
<1>14. CASE Crash
  BY <1>14, IdleJobType DEF Crash, peer, hub, Midway
<1> QED
  BY <1>1, <1>2, <1>3, <1>4, <1>5, <1>6, <1>7, <1>8, <1>9, <1>10, <1>11, <1>12, <1>13, <1>14
  DEF Next, Works
-----------------------------------------------------------------------------
(* What a step does to the local variables of the task that takes it. *)

\* A fetch: the page, where the run goes next, and whether the page is the last.
LEMMA FetchDoes ==
  ASSUME HarvestTypes, NEW j \in Jobs, Fetch(j),
         NEW page, page = Page(job[j].since, job[j].offset)
  PROVE  /\ job'[j].page = page
         /\ job'[j].pc = IF page = <<>> THEN "scan" ELSE "store"
         /\ job'[j].last = \/ job[j].offset + Cardinality(DOMAIN page) >= Cardinality(Matching(job[j].since))
                           \/ job[j].offset + Cardinality(DOMAIN page) >= MaxPages * PageSize
         /\ job'[j].full = job[j].full /\ job'[j].since = job[j].since
         /\ job'[j].offset = job[j].offset /\ job'[j].seen = job[j].seen
<1> DEFINE p == IF page = <<>> THEN "scan" ELSE "store"
           b == \/ job[j].offset + Cardinality(DOMAIN page) >= Cardinality(Matching(job[j].since))
                \/ job[j].offset + Cardinality(DOMAIN page) >= MaxPages * PageSize
<1>1. job' = [job EXCEPT ![j].page = page, ![j].pc = p, ![j].last = b]
  BY DEF Fetch
<1> HIDE DEF p, b
<1>2. job'[j].page = page /\ job'[j].pc = p /\ job'[j].last = b
  BY <1>1 DEF HarvestTypes, JobRecords
<1>3. /\ job'[j].full = job[j].full /\ job'[j].since = job[j].since
      /\ job'[j].offset = job[j].offset /\ job'[j].seen = job[j].seen
  BY <1>1 DEF HarvestTypes, JobRecords
<1> QED
  BY <1>2, <1>3 DEF p, b

\* A page is stored: the run has seen it and is past it.
LEMMA StoreDoes ==
  ASSUME HarvestTypes, NEW j \in Jobs, Store(j)
  PROVE  /\ job'[j].page = <<>>
         /\ job'[j].pc = IF job[j].last THEN "scan" ELSE "fetch"
         /\ job'[j].offset = job[j].offset + Cardinality(DOMAIN job[j].page)
         /\ job'[j].seen = job[j].seen \cup DOMAIN job[j].page
         /\ job'[j].full = job[j].full /\ job'[j].since = job[j].since
<1> DEFINE p == IF job[j].last THEN "scan" ELSE "fetch"
           S == job[j].seen \cup DOMAIN job[j].page
           n == job[j].offset + Cardinality(DOMAIN job[j].page)
<1>1. job' = [job EXCEPT ![j].seen = S, ![j].offset = n, ![j].page = <<>>, ![j].pc = p]
  BY DEF Store
<1> HIDE DEF p, S, n
<1>2. job'[j].page = <<>> /\ job'[j].pc = p /\ job'[j].offset = n /\ job'[j].seen = S
  BY <1>1 DEF HarvestTypes, JobRecords
<1>3. job'[j].full = job[j].full /\ job'[j].since = job[j].since
  BY <1>1 DEF HarvestTypes, JobRecords
<1> QED
  BY <1>2, <1>3 DEF p, S, n

\* The other steps of a run leave all but the place it is at and its scan.
LEMMA RestDoes ==
  ASSUME HarvestTypes, NEW j \in Jobs, Scan(j) \/ Embed(j) \/ EmbedEnds(j) \/ Prune(j)
  PROVE  /\ job[j].pc \in {"scan", "embed", "prune"}
         /\ Scan(j) => job'[j].pc = "embed" /\ job'[j].scan = [d \in Mirrored |-> mirror[d].text]
         /\ Embed(j) => job'[j].pc = "embed"
         /\ EmbedEnds(j) => job'[j].pc = "prune" /\ job'[j].scan = job[j].scan
         /\ Prune(j) => job'[j].pc = "lineage"
         /\ job'[j].page = job[j].page /\ job'[j].last = job[j].last
         /\ job'[j].full = job[j].full /\ job'[j].since = job[j].since
         /\ job'[j].offset = job[j].offset /\ job'[j].seen = job[j].seen
<1> USE DEF HarvestTypes, JobRecords
<1>1. CASE Scan(j)
  <2> DEFINE scan == [d \in Mirrored |-> mirror[d].text]
  <2>1. job' = [job EXCEPT ![j].pc = "embed", ![j].scan = scan] /\ job[j].pc = "scan"
    BY <1>1 DEF Scan
  <2> HIDE DEF scan
  <2>2. job'[j].scan = scan /\ job'[j].pc = "embed"
    BY <2>1
  <2>3. /\ job'[j].page = job[j].page /\ job'[j].last = job[j].last
        /\ job'[j].full = job[j].full /\ job'[j].since = job[j].since
        /\ job'[j].offset = job[j].offset /\ job'[j].seen = job[j].seen
    BY <2>1
  <2>4. ~Embed(j) /\ ~EmbedEnds(j) /\ ~Prune(j)
    BY <2>1 DEF Embed, EmbedEnds, Prune
  <2> QED
    BY <2>1, <2>2, <2>3, <2>4 DEF scan
<1>2. CASE Embed(j)
  <2>1. PICK s : job' = [job EXCEPT ![j].scan = s]
    BY <1>2 DEF Embed
  <2>2. job[j].pc = "embed" /\ ~Scan(j) /\ ~EmbedEnds(j) /\ ~Prune(j)
    <3>1. job[j].pc = "embed" /\ job[j].scan # <<>>
      <4>1. PICK d \in DOMAIN job[j].scan : TRUE
        BY <1>2 DEF Embed
      <4>2. job[j].scan \in Scans
        OBVIOUS
      <4> QED
        BY <1>2, <4>1, <4>2, PageIs DEF Embed
    <3> QED
      BY <3>1 DEF Scan, EmbedEnds, Prune
  <2>3. /\ job'[j].page = job[j].page /\ job'[j].last = job[j].last
        /\ job'[j].full = job[j].full /\ job'[j].since = job[j].since
        /\ job'[j].offset = job[j].offset /\ job'[j].seen = job[j].seen
        /\ job'[j].pc = job[j].pc
    BY <2>1
  <2> QED
    BY <2>2, <2>3
<1>3. CASE EmbedEnds(j)
  <2>1. job' = [job EXCEPT ![j].pc = "prune"] /\ job[j].pc = "embed" /\ job[j].scan = <<>>
    BY <1>3 DEF EmbedEnds
  <2>2. /\ job'[j].page = job[j].page /\ job'[j].last = job[j].last
        /\ job'[j].full = job[j].full /\ job'[j].since = job[j].since
        /\ job'[j].offset = job[j].offset /\ job'[j].seen = job[j].seen
        /\ job'[j].pc = "prune" /\ job'[j].scan = job[j].scan
    BY <2>1
  <2>3. ~Scan(j) /\ ~Prune(j)
    BY <2>1 DEF Scan, Prune
  <2>4. ~Embed(j)
    <3>1. DOMAIN job[j].scan = {}
      BY <2>1, PageIs
    <3> QED
      BY <3>1 DEF Embed
  <2> QED
    BY <2>1, <2>2, <2>3, <2>4
<1>4. CASE Prune(j)
  <2>1. job' = [job EXCEPT ![j].pc = "lineage"] /\ job[j].pc = "prune"
    BY <1>4 DEF Prune
  <2>2. /\ job'[j].page = job[j].page /\ job'[j].last = job[j].last
        /\ job'[j].full = job[j].full /\ job'[j].since = job[j].since
        /\ job'[j].offset = job[j].offset /\ job'[j].seen = job[j].seen
        /\ job'[j].pc = "lineage"
    BY <2>1
  <2>3. ~Scan(j) /\ ~Embed(j) /\ ~EmbedEnds(j)
    BY <2>1 DEF Scan, Embed, EmbedEnds
  <2> QED
    BY <2>1, <2>2, <2>3
<1> QED
  BY <1>1, <1>2, <1>3, <1>4

\* A run begins with nothing read, at zero or at the stamp of a row.
LEMMA BeginDoes ==
  ASSUME HarvestTypes, NEW j \in Jobs, NEW full \in BOOLEAN, Begin(j, full)
  PROVE  /\ job[j].pc = "idle" /\ job'[j].pc = "fetch" /\ job'[j].page = <<>>
         /\ job'[j].offset = 0 /\ job'[j].seen = {}
         /\ job'[j].full => job'[j].since = 0
         /\ job'[j].since = 0 \/ \E d \in Datasets : job'[j].since = mirror[d].stamp
<1> DEFINE since == IF full THEN 0 ELSE Watermark
           k == [IdleJob EXCEPT !.pc = "fetch", !.since = since, !.full = (since = 0)]
<1>1. job' = [job EXCEPT ![j] = k] /\ job[j].pc = "idle"
  BY DEF Begin
<1>2. since = 0 \/ \E d \in Datasets : since = mirror[d].stamp
  BY WatermarkIs
<1>3. /\ k.pc = "fetch" /\ k.page = <<>> /\ k.offset = 0 /\ k.seen = {}
      /\ k.full = (since = 0) /\ k.since = since
  BY DEF IdleJob
<1> HIDE DEF since, k
<1>4. job'[j] = k
  BY <1>1 DEF HarvestTypes
<1> QED
  BY <1>1, <1>2, <1>3, <1>4

\* A run that ends, in whatever way.
LEMMA EndDoes ==
  ASSUME HarvestTypes, NEW j \in Jobs, Finish(j) \/ Fail(j) \/ Crash
  PROVE  /\ job'[j].pc = "idle" /\ job'[j].page = <<>> /\ job'[j].full = FALSE
         /\ shrunk'[j] = FALSE
         /\ UNCHANGED <<clock, text, stamp, mirror, emb>>
<1>1. job'[j] = IdleJob /\ shrunk'[j] = FALSE
  BY DEF HarvestTypes, Finish, Fail, Crash, Ends
<1>2. UNCHANGED <<clock, text, stamp, mirror, emb>>
  BY DEF Finish, Fail, Crash, peer, hub
<1> QED
  BY <1>1, <1>2 DEF IdleJob
-----------------------------------------------------------------------------
(* Stamps, pages and watermarks. *)

\* Before the first run the mirror is empty and nothing is held.
LEMMA SteadyInit == Init => Stamped /\ Steady
<1> SUFFICES ASSUME Init PROVE Stamped /\ Steady
  OBVIOUS
<1>1. \A j \in Jobs : job[j] = IdleJob /\ shrunk[j] = FALSE
  BY DEF Init
<1>2. IdleJob.pc = "idle" /\ IdleJob.page = <<>> /\ IdleJob.full = FALSE
  BY DEF IdleJob
<1>3. DOMAIN <<>> = {}
  OBVIOUS
<1>4. Stamped
  BY <1>1, <1>2, <1>3, DatasetsAre, BoundsAssumption DEF Init, Stamped, NoRow, Datasets
<1>5. Steady
  BY <1>1, <1>2 DEF Steady
<1> QED
  BY <1>4, <1>5

\* What a change of the peer notes.
LEMMA NotedIs ==
  ASSUME HarvestTypes, NEW d \in Datasets, Noted(d), NEW j \in Jobs, job[j].pc # "idle"
  PROVE  changed'[j] = changed[j] \cup {d}
BY DEF HarvestTypes, Noted, AtWork

\* A change is stamped no later than the clock it moves, and rows hold stamps that were read.
LEMMA StampedNext ==
  ASSUME OneJob, HarvestTypes, Stamped, [Next]_vars
  PROVE  Stamped'
<1>0. HarvestTypes' /\ clock \in Nat /\ clock' \in Nat
  BY TypesNext DEF HarvestTypes
<1>1. ASSUME UNCHANGED <<clock, stamp, mirror>>, NEW j \in Jobs, job'[j].page = job[j].page \/ job'[j].page = <<>>
      PROVE  Stamped'
  <2>1. \A i \in Jobs : job'[i].page = job[i].page \/ job'[i].page = <<>>
    BY <1>1 DEF OneJob
  <2>2. DOMAIN <<>> = {}
    OBVIOUS
  <2> QED
    BY <1>1, <2>1, <2>2 DEF Stamped
<1>2. ASSUME clock' >= clock, \A d \in Datasets : stamp'[d] = stamp[d] \/ stamp'[d] \in 1 .. clock',
             UNCHANGED <<mirror, job>>
      PROVE  Stamped'
  <2>1. \A d \in Datasets : stamp[d] \in Nat /\ mirror[d].stamp \in Nat
    BY DEF HarvestTypes, Rows
  <2>2. \A j \in Jobs : \A d \in DOMAIN job[j].page : job[j].page[d].stamp \in Nat
    <3> TAKE j \in Jobs
    <3> TAKE d \in DOMAIN job[j].page
    <3>1. job[j].page \in Pages
      BY DEF HarvestTypes, JobRecords
    <3>2. job[j].page[d] \in Rows
      BY <3>1, PageIs
    <3> QED
      BY <3>2 DEF Rows
  <2> QED
    BY <1>0, <1>2, <2>1, <2>2 DEF Stamped
<1>3. CASE UNCHANGED vars
  BY <1>0, <1>2, <1>3 DEF vars, peer, hub
<1>4. ASSUME NEW d \in Datasets, EditSchema(d) PROVE Stamped'
  <2>1. clock' = clock + 1 /\ UNCHANGED <<stamp, mirror, job>>
    BY <1>4 DEF EditSchema, hub
  <2> QED
    BY <1>0, <1>2, <2>1
<1>5. ASSUME NEW d \in Datasets, Remove(d) PROVE Stamped'
  <2>1. UNCHANGED <<clock, stamp, mirror, job>>
    BY <1>5 DEF Remove, hub
  <2> QED
    BY <1>0, <1>2, <2>1
<1>6. ASSUME NEW d \in Datasets, NEW s \in Ticks, Edit(d, s) PROVE Stamped'
  <2>1. clock' = clock + 1 /\ stamp' = [stamp EXCEPT ![d] = s] /\ UNCHANGED <<mirror, job>>
    BY <1>6 DEF Edit, hub
  <2>2. s \in 1 .. clock'
    BY <1>0, <1>6, BoundsAssumption DEF Edit, Ticks
  <2>3. \A e \in Datasets : stamp'[e] = stamp[e] \/ stamp'[e] \in 1 .. clock'
    BY <2>1, <2>2 DEF HarvestTypes
  <2> QED
    BY <1>0, <1>2, <2>1, <2>3
<1>7. ASSUME NEW j \in Jobs, Fetch(j) PROVE Stamped'
  <2> DEFINE page == Page(job[j].since, job[j].offset)
  <2>1. job[j].since \in Nat /\ job[j].offset \in Nat
    BY DEF HarvestTypes, JobRecords
  <2>2. job'[j].page = page
    BY <1>7, FetchDoes
  <2>3. \A d \in DOMAIN page : d \in Exported /\ page[d] = [text |-> text[d], stamp |-> stamp[d]]
    BY <2>1, PageType DEF Matching
  <2>4. UNCHANGED <<clock, stamp, mirror>>
    BY <1>7 DEF Fetch, peer, hub
  <2> HIDE DEF page
  <2>5. \A d \in DOMAIN page : page[d].stamp <= clock /\ page[d].text # 0
    BY <2>3 DEF Stamped, Exported
  <2>6. \A i \in Jobs : job'[i].page = page
    BY <2>2 DEF OneJob
  <2> QED
    BY <2>4, <2>5, <2>6 DEF Stamped
<1>8. ASSUME NEW j \in Jobs, Store(j) PROVE Stamped'
  <2> DEFINE page == job[j].page
  <2>1. \A d \in Datasets : mirror'[d] = IF d \in DOMAIN page THEN page[d] ELSE mirror[d]
    BY <1>8 DEF Store
  <2>2. \A d \in DOMAIN page : page[d].stamp <= clock /\ page[d].text # 0
    BY DEF Stamped
  <2>3. job'[j].page = <<>> /\ UNCHANGED <<clock, stamp>>
    BY <1>8, StoreDoes DEF Store, peer
  <2>4. \A i \in Jobs : DOMAIN job'[i].page = {}
    BY <2>3 DEF OneJob
  <2> HIDE DEF page
  <2> QED
    BY <2>1, <2>2, <2>3, <2>4 DEF Stamped
<1>9. ASSUME NEW j \in Jobs, Scan(j) \/ Embed(j) \/ EmbedEnds(j) PROVE Stamped'
  <2>1. UNCHANGED <<clock, stamp, mirror>>
    BY <1>9 DEF Scan, Embed, EmbedEnds, peer, hub
  <2> QED
    BY <1>1, <1>9, <2>1, RestDoes
<1>10. ASSUME NEW j \in Jobs, Prune(j) PROVE Stamped'
  <2>1. \A d \in Datasets : mirror'[d] = NoRow \/ mirror'[d] = mirror[d]
    BY <1>10 DEF Prune
  <2>2. UNCHANGED <<clock, stamp>> /\ job'[j].page = job[j].page
    BY <1>10, RestDoes DEF Prune, peer
  <2>3. \A i \in Jobs : job'[i].page = job[i].page
    BY <2>2 DEF OneJob
  <2> QED
    BY <1>0, <2>1, <2>2, <2>3 DEF Stamped, NoRow
<1>11. ASSUME NEW j \in Jobs, Finish(j) \/ Fail(j) PROVE Stamped'
  BY <1>1, <1>11, EndDoes
<1>12. ASSUME NEW j \in Jobs, NEW full \in BOOLEAN, Begin(j, full) PROVE Stamped'
  <2>1. UNCHANGED <<clock, stamp, mirror>>
    BY <1>12 DEF Begin, peer
  <2> QED
    BY <1>1, <1>12, <2>1, BeginDoes
<1>13. CASE Crash
  <2>1. PICK j \in Jobs : TRUE
    BY <1>13 DEF Crash, AtWork
  <2> QED
    BY <1>1, <1>13, <2>1, EndDoes
<1> QED
  BY <1>3, <1>4, <1>5, <1>6, <1>7, <1>8, <1>9, <1>10, <1>11, <1>12, <1>13 DEF Next, Works

\* A page that is stored takes the run further.
LEMMA StoreAdvances ==
  ASSUME HarvestTypes, Steady, NEW j \in Jobs, Store(j)
  PROVE  job'[j].offset \in Nat \ {0}
<1>1. job[j].page \in Pages /\ job[j].offset \in Nat
  BY DEF HarvestTypes, JobRecords
<1>2. DOMAIN job[j].page \in SUBSET Datasets /\ DOMAIN job[j].page # {}
  BY <1>1, PageIs DEF Steady, Store
<1>3. Cardinality(DOMAIN job[j].page) \in Nat /\ Cardinality(DOMAIN job[j].page) # 0
  BY <1>2, DatasetsAre, FS_EmptySet
<1> QED
  BY <1>1, <1>3, StoreDoes

\* A step keeps the watermark of a run that has stored nothing: only a store and a
\* prune change the mirror, and they come later.
LEMMA SteadyNext ==
  ASSUME OneJob, HarvestTypes, Steady, [Next]_vars
  PROVE  Steady'
<1> DEFINE Fine(j) ==
      /\ job[j].pc = "store" => job[j].page # <<>>
      /\ job[j].pc # "store" => job[j].page = <<>>
      /\ job[j].full => job[j].since = 0
      /\ job[j].pc \in {"fetch", "store"} /\ job[j].offset = 0 =>
            job[j].since = 0 \/ \E d \in Datasets : job[j].since = mirror[d].stamp
      /\ shrunk[j] => job[j].pc # "idle" /\ changed[j] # {}
<1>0. \A j \in Jobs : Fine(j)
  BY DEF Steady
<1>a. ASSUME NEW j \in Jobs, Fine(j)' PROVE Steady'
  BY <1>a DEF Steady, OneJob
<1>1. CASE UNCHANGED vars
  BY <1>1 DEF Steady, vars, peer, hub, history
<1>2. ASSUME NEW d \in Datasets, EditSchema(d) \/ Remove(d) \/ (\E s \in Ticks : Edit(d, s)) PROVE Steady'
  <2>1. UNCHANGED <<mirror, job>> /\ Noted(d)
    BY <1>2 DEF EditSchema, Remove, Edit, hub
  <2>2. \A j \in Jobs : shrunk'[j] => shrunk[j] \/ job[j].pc # "idle"
    BY <1>2 DEF EditSchema, Remove, Edit, AtWork
  <2>3. ASSUME NEW j \in Jobs, shrunk'[j] PROVE job[j].pc # "idle" /\ changed'[j] # {}
    <3>1. job[j].pc # "idle"
      BY <2>2, <2>3 DEF Steady
    <3> QED
      BY <2>1, <3>1, NotedIs
  <2> QED
    BY <2>1, <2>3 DEF Steady
<1>3. ASSUME NEW j \in Jobs, Fetch(j) PROVE Steady'
  <2> DEFINE page == Page(job[j].since, job[j].offset)
  <2>1. /\ job'[j].page = page /\ job'[j].pc = IF page = <<>> THEN "scan" ELSE "store"
        /\ job'[j].full = job[j].full /\ job'[j].since = job[j].since /\ job'[j].offset = job[j].offset
    BY <1>3, FetchDoes
  <2>2. job[j].pc = "fetch" /\ UNCHANGED <<mirror, shrunk, changed>>
    BY <1>3 DEF Fetch, hub, history
  <2> HIDE DEF page
  <2>3. Fine(j)'
    BY <1>0, <2>1, <2>2
  <2> QED
    BY <1>a, <2>3
<1>4. ASSUME NEW j \in Jobs, Store(j) PROVE Steady'
  <2>1. /\ job'[j].page = <<>> /\ job'[j].pc = IF job[j].last THEN "scan" ELSE "fetch"
        /\ job'[j].offset = job[j].offset + Cardinality(DOMAIN job[j].page)
        /\ job'[j].full = job[j].full /\ job'[j].since = job[j].since
    BY <1>4, StoreDoes
  <2>2. job[j].pc = "store" /\ UNCHANGED <<shrunk, changed>>
    BY <1>4 DEF Store, history
  <2>3. job'[j].offset # 0
    BY <1>4, StoreAdvances
  <2>4. Fine(j)'
    BY <1>0, <2>1, <2>2, <2>3
  <2> QED
    BY <1>a, <2>4
<1>5. ASSUME NEW j \in Jobs, Scan(j) \/ Embed(j) \/ EmbedEnds(j) \/ Prune(j) PROVE Steady'
  <2>1. UNCHANGED <<shrunk, changed>>
    BY <1>5 DEF Scan, Embed, EmbedEnds, Prune, history
  <2>2. /\ job[j].pc \in {"scan", "embed", "prune"} /\ job'[j].pc \in {"embed", "prune", "lineage"}
        /\ job'[j].page = job[j].page /\ job'[j].full = job[j].full /\ job'[j].since = job[j].since
    BY <1>5, RestDoes
  <2>3. Fine(j)'
    BY <1>0, <2>1, <2>2
  <2> QED
    BY <1>a, <2>3
<1>6. ASSUME NEW j \in Jobs, Finish(j) \/ Fail(j) \/ Crash PROVE Steady'
  <2>1. job'[j].pc = "idle" /\ job'[j].page = <<>> /\ job'[j].full = FALSE /\ shrunk'[j] = FALSE
    BY <1>6, EndDoes
  <2>2. Fine(j)'
    BY <2>1
  <2> QED
    BY <1>a, <2>2
<1>7. ASSUME NEW j \in Jobs, NEW full \in BOOLEAN, Begin(j, full) PROVE Steady'
  <2>1. /\ job'[j].pc = "fetch" /\ job'[j].page = <<>>
        /\ job'[j].full => job'[j].since = 0
        /\ job'[j].since = 0 \/ \E d \in Datasets : job'[j].since = mirror[d].stamp
        /\ job[j].pc = "idle"
    BY <1>7, BeginDoes
  <2>2. UNCHANGED <<mirror, changed, shrunk>>
    BY <1>7 DEF Begin, history
  <2>3. Fine(j)'
    BY <1>0, <2>1, <2>2
  <2> QED
    BY <1>a, <2>3
<1>8. CASE Crash
  <2>1. PICK j \in Jobs : TRUE
    BY <1>8 DEF Crash, AtWork
  <2> QED
    BY <1>6, <1>8, <2>1
<1> QED
  BY <1>1, <1>2, <1>3, <1>4, <1>5, <1>6, <1>7, <1>8 DEF Next, Works
-----------------------------------------------------------------------------
(* Embeddings follow. *)

\* An empty mirror has no embeddings.
LEMMA EmbedInit == Init => EmbedInv
<1> SUFFICES ASSUME Init PROVE EmbedInv
  OBVIOUS
<1>1. \A j \in Jobs : job[j].pc = "idle"
  BY DEF Init, IdleJob
<1> QED
  BY <1>1 DEF Init, EmbedInv, NoRowNoEmbedding, ScanIsFresh, AllEmbedded

\* Between the scan and the end of a run nobody else writes the mirror, and what is
\* no longer to be embedded has its embedding.
LEMMA EmbedNext ==
  ASSUME OneJob, HarvestTypes, Stamped, EmbedInv, [Next]_vars
  PROVE  EmbedInv'
<1> USE DEF EmbedInv, NoRowNoEmbedding, ScanIsFresh, AllEmbedded
<1>a. \A d \in Datasets : mirror[d] \in Rows /\ emb[d] \in Nat
  BY DEF HarvestTypes
<1>1. ASSUME UNCHANGED <<mirror, emb, job>> PROVE EmbedInv'
  BY <1>1
<1>2. ASSUME UNCHANGED <<mirror, emb>>, NEW j \in Jobs, job'[j].pc \in {"idle", "fetch", "store", "scan"}
      PROVE  EmbedInv'
  <2>1. \A i \in Jobs : job'[i].pc \in {"idle", "fetch", "store", "scan"}
    BY <1>2 DEF OneJob
  <2> QED
    BY <1>2, <2>1
<1>3. ASSUME NEW d \in Datasets, EditSchema(d) \/ Remove(d) \/ (\E s \in Ticks : Edit(d, s)) PROVE EmbedInv'
  <2>1. UNCHANGED <<mirror, emb, job>>
    BY <1>3 DEF EditSchema, Remove, Edit, hub
  <2> QED
    BY <1>1, <2>1
<1>4. ASSUME NEW j \in Jobs, Fetch(j) PROVE EmbedInv'
  <2>1. job'[j].pc \in {"store", "scan"} /\ UNCHANGED <<mirror, emb>>
    BY <1>4, FetchDoes DEF Fetch, hub
  <2> QED
    BY <1>2, <2>1
<1>5. ASSUME NEW j \in Jobs, Store(j) PROVE EmbedInv'
  <2> DEFINE page == job[j].page
  <2>1. \A i \in Jobs : job'[i].pc \in {"scan", "fetch"}
    BY <1>5, StoreDoes DEF OneJob
  <2>2. \A d \in DOMAIN page : page[d] # NoRow
    BY DEF Stamped, NoRow
  <2>3. \A d \in Datasets : mirror'[d] = IF d \in DOMAIN page THEN page[d] ELSE mirror[d]
    BY <1>5 DEF Store
  <2>4. emb' = emb
    BY <1>5 DEF Store
  <2> QED
    BY <2>1, <2>2, <2>3, <2>4
<1>6. ASSUME NEW j \in Jobs, Scan(j) PROVE EmbedInv'
  <2>1. job'[j].pc = "embed" /\ job'[j].scan = [d \in Mirrored |-> mirror[d].text]
    BY <1>6, RestDoes
  <2>2. UNCHANGED <<mirror, emb>>
    BY <1>6 DEF Scan, hub
  <2>3. DOMAIN job'[j].scan = Mirrored
    BY <2>1
  <2>4. ASSUME NEW d \in Datasets
        PROVE  IF d \in DOMAIN job'[j].scan
               THEN job'[j].scan[d] = mirror[d].text /\ mirror[d] # NoRow
               ELSE emb[d] = mirror[d].text
    BY <2>1, <2>3 DEF Mirrored, NoRow
  <2>5. \A i \in Jobs : i = j
    BY DEF OneJob
  <2> QED
    BY <2>1, <2>2, <2>4, <2>5
<1>7. ASSUME NEW j \in Jobs, Embed(j) PROVE EmbedInv'
  <2> DEFINE f == job[j].scan
  <2>1. PICK d \in DOMAIN f \cap Mirrored :
           /\ emb' = [emb EXCEPT ![d] = f[d]]
           /\ job' = [job EXCEPT ![j].scan = Restrict(@, DOMAIN @ \ {d})]
    BY <1>7 DEF Embed
  <2>2. job[j].pc = "embed" /\ mirror' = mirror /\ job'[j].pc = "embed"
    BY <1>7, RestDoes DEF Embed
  <2>3. job'[j].scan = [e \in DOMAIN f \ {d} |-> f[e]]
    BY <2>1 DEF HarvestTypes, JobRecords, Restrict
  <2>4. DOMAIN job'[j].scan = DOMAIN f \ {d}
    BY <2>3
  <2>5. d \in Datasets /\ mirror[d] # NoRow /\ f[d] = mirror[d].text
    BY <2>1, <2>2 DEF Mirrored
  <2>6. \A e \in Datasets : emb'[e] = IF e = d THEN mirror[d].text ELSE emb[e]
    BY <2>1, <2>5 DEF HarvestTypes
  <2>7. ASSUME NEW e \in Datasets
        PROVE  IF e \in DOMAIN job'[j].scan
               THEN job'[j].scan[e] = mirror[e].text /\ mirror[e] # NoRow
               ELSE emb'[e] = mirror[e].text
    BY <2>2, <2>3, <2>4, <2>6
  <2>8. \A e \in Datasets : mirror[e] = NoRow => emb'[e] = 0
    BY <2>5, <2>6
  <2> HIDE DEF f
  <2>9. \A i \in Jobs : i = j
    BY DEF OneJob
  <2> QED
    BY <2>2, <2>7, <2>8, <2>9
<1>8. ASSUME NEW j \in Jobs, EmbedEnds(j) PROVE EmbedInv'
  <2>1. job[j].pc = "embed" /\ job[j].scan = <<>> /\ UNCHANGED <<mirror, emb>>
    BY <1>8 DEF EmbedEnds, hub
  <2>2. job'[j].pc = "prune" /\ \A i \in Jobs : i = j
    BY <1>8, RestDoes DEF OneJob
  <2>3. DOMAIN job[j].scan = {}
    BY <2>1
  <2> QED
    BY <2>1, <2>2, <2>3
<1>9. ASSUME NEW j \in Jobs, Prune(j) PROVE EmbedInv'
  <2>1. job[j].pc = "prune" /\ job'[j].pc = "lineage" /\ \A i \in Jobs : i = j
    BY <1>9, RestDoes DEF Prune, OneJob
  <2>2. \A d \in Datasets : \/ mirror'[d] = mirror[d] /\ emb'[d] = emb[d]
                            \/ mirror'[d] = NoRow /\ emb'[d] = 0
    BY <1>9 DEF Prune
  <2> QED
    BY <2>1, <2>2 DEF NoRow
<1>10. ASSUME NEW j \in Jobs, Finish(j) \/ Fail(j) \/ Crash PROVE EmbedInv'
  BY <1>2, <1>10, EndDoes
<1>11. ASSUME NEW j \in Jobs, NEW full \in BOOLEAN, Begin(j, full) PROVE EmbedInv'
  <2>1. UNCHANGED <<mirror, emb>>
    BY <1>11 DEF Begin
  <2> QED
    BY <1>2, <1>11, <2>1, BeginDoes
<1>12. CASE Crash
  <2>1. PICK j \in Jobs : TRUE
    BY <1>12 DEF Crash, AtWork
  <2> QED
    BY <1>10, <1>12, <2>1
<1>13. CASE UNCHANGED vars
  BY <1>1, <1>13 DEF vars, hub
<1> QED
  BY <1>3, <1>4, <1>5, <1>6, <1>7, <1>8, <1>9, <1>10, <1>11, <1>12, <1>13 DEF Next, Works
-----------------------------------------------------------------------------
(* Pages. *)

\* The place of a dataset in what is to be read.
LEMMA TurnIs ==
  ASSUME HarvestTypes, NEW j \in Jobs, NEW d \in Datasets
  PROVE  /\ Queue(j) = Matching(job[j].since)
         /\ Queue(j) \in SUBSET Datasets
         /\ Turn(j, d) = Rank(d, Queue(j))
         /\ Turn(j, d) \in Nat
         /\ d \in Queue(j) => Turn(j, d) < Cardinality(Queue(j))
<1>1. Queue(j) = Matching(job[j].since)
  BY DEF Queue, Matching
<1>2. Queue(j) \in SUBSET Datasets
  BY DEF Queue, Exported
<1>3. Turn(j, d) = Rank(d, Queue(j))
  BY DEF Turn, Rank
<1>4. Queue(j) \in SUBSET Int /\ IsFiniteSet(Queue(j)) /\ d \in Int
  BY <1>2, DatasetsAre
<1> HIDE DEF Queue, Turn
<1>5. /\ Rank(d, Queue(j)) \in 0 .. Cardinality(Queue(j))
      /\ d \in Queue(j) => Rank(d, Queue(j)) \in 0 .. Cardinality(Queue(j)) - 1
  BY <1>4, RankIn
<1>6. Cardinality(Queue(j)) \in Nat
  BY <1>4, FS_CardinalityType
<1> QED
  BY <1>1, <1>2, <1>3, <1>5, <1>6

\* What a page takes of a queue: nothing that it leaves out comes before its end,
\* an empty one is past all, and one that is the last has reached all.
LEMMA PageTakes ==
  ASSUME HarvestTypes, Fits, NEW j \in Jobs, NEW d \in Queue(j),
         NEW page, page = Page(job[j].since, job[j].offset),
         NEW next, next = job[j].offset + Cardinality(DOMAIN page)
  PROVE  /\ job[j].offset \in Nat /\ next \in Nat
         /\ d \notin DOMAIN page /\ Turn(j, d) >= job[j].offset => Turn(j, d) >= next
         /\ d \in DOMAIN page => Turn(j, d) >= job[j].offset /\ page[d] = Now(d)
         /\ page = <<>> => Turn(j, d) < job[j].offset
         /\ (next >= Cardinality(Matching(job[j].since)) \/ next >= MaxPages * PageSize)
               => Turn(j, d) < next
<1> DEFINE a == job[j].offset
           Q == Queue(j)
<1>1. a \in Nat /\ job[j].since \in Nat
  BY DEF HarvestTypes, JobRecords
<1>2. /\ d \in Datasets /\ Q = Matching(job[j].since) /\ Q \in SUBSET Datasets
      /\ Turn(j, d) = Rank(d, Q) /\ Turn(j, d) \in Nat /\ Turn(j, d) < Cardinality(Q)
  <2>1. d \in Datasets
    BY DEF Queue, Exported
  <2> QED
    BY <2>1, TurnIs
<1>3. Q \in SUBSET Int /\ IsFiniteSet(Q) /\ Cardinality(Q) \in 0 .. Size
  BY <1>2, DatasetsAre
<1> HIDE DEF Q
<1>4. /\ page \in Pages
      /\ DOMAIN page = {e \in Q : Rank(e, Q) \in a .. a + PageSize - 1}
      /\ \A e \in DOMAIN page : page[e] = Now(e)
  <2> DEFINE M == Matching(job[j].since)
             p == Page(job[j].since, job[j].offset)
  <2>1. /\ p \in Pages
        /\ DOMAIN p = {e \in M : Rank(e, M) \in a .. a + PageSize - 1}
        /\ \A e \in DOMAIN p : p[e] = [text |-> text[e], stamp |-> stamp[e]]
    BY <1>1, PageType
  <2>2. M = Q /\ p = page
    BY <1>2
  <2> HIDE DEF M, p
  <2> QED
    BY <2>1, <2>2 DEF Now
<1>5. Cardinality(DOMAIN page) \in Nat /\ Cardinality(DOMAIN page) <= PageSize
  <2>1. PageSize \in Nat
    BY BoundsAssumption
  <2> QED
    BY <1>1, <1>3, <1>4, <2>1, PageHolds
<1>6. next \in Nat /\ next <= a + PageSize
  BY <1>1, <1>5, BoundsAssumption
<1>7. ASSUME d \notin DOMAIN page, Turn(j, d) >= a PROVE Turn(j, d) >= next
  <2>1. Rank(d, Q) \notin a .. a + PageSize - 1
    BY <1>4, <1>7 DEF Q
  <2> QED
    BY <1>1, <1>2, <1>6, <1>7, <2>1, BoundsAssumption
<1>8. ASSUME d \in DOMAIN page PROVE Turn(j, d) >= a /\ page[d] = Now(d)
  BY <1>1, <1>2, <1>4, <1>8
<1>9. ASSUME page = <<>> PROVE Turn(j, d) < a
  <2> SUFFICES ASSUME Turn(j, d) >= a PROVE FALSE
    BY <1>1, <1>2
  <2>1. a \in 0 .. Cardinality(Q) - 1
    BY <1>1, <1>2, <1>3
  <2>2. PICK e \in Q : Rank(e, Q) = a
    BY <1>3, <2>1, RankOnto
  <2>3. e \in DOMAIN page
    BY <1>1, <1>4, <2>2, BoundsAssumption
  <2>4. DOMAIN page = {}
    BY <1>4, <1>9, PageIs
  <2> QED
    BY <2>3, <2>4
<1>10. ASSUME next >= Cardinality(Matching(job[j].since)) \/ next >= MaxPages * PageSize
       PROVE  Turn(j, d) < next
  <2>1. next >= Cardinality(Q)
    <3>1. CASE next >= Cardinality(Matching(job[j].since))
      BY <1>2, <3>1
    <3>2. CASE next >= MaxPages * PageSize
      <4>1. MaxPages * PageSize \in Nat
        BY BoundsAssumption
      <4> QED
        BY <1>3, <1>6, <3>2, <4>1, BoundsAssumption DEF Fits
    <3> QED
      BY <1>10, <3>1, <3>2
  <2> QED
    BY <1>2, <1>3, <1>6, <2>1
<1> QED
  BY <1>1, <1>6, <1>7, <1>8, <1>9, <1>10

\* What task j has read does not move when the peer lists more.
LEMMA TurnGrows ==
  ASSUME HarvestTypes, HarvestTypes', NEW j \in Jobs, NEW d \in Datasets, Queue(j) \subseteq Queue(j)'
  PROVE  Turn(j, d) <= Turn(j, d)'
<1> DEFINE Q == Queue(j)
           R == Queue(j)'
<1>1. R \in SUBSET Datasets
  BY DEF Queue, Exported
<1>2. R \in SUBSET Int /\ IsFiniteSet(R) /\ d \in Int
  BY <1>1, DatasetsAre
<1>3. Turn(j, d) = Rank(d, Q) /\ Turn(j, d)' = Rank(d, R)
  BY DEF Turn, Rank
<1> HIDE DEF Q, R
<1>4. Q \in SUBSET R
  BY DEF Q, R
<1> QED
  BY <1>2, <1>3, <1>4, RankGrows
-----------------------------------------------------------------------------
(* Full runs. *)

\* No run is at work at first.
LEMMA FullInit == Init => FullInv
<1>1. Init => \A j \in Jobs : job[j].pc = "idle"
  BY DEF Init, IdleJob
<1> QED
  BY <1>1 DEF FullInv, Faithful, Swept, Whole, Exact

\* A change of the peer is noted by the run it comes into, a new dataset moves none
\* forward, and one that vanishes is noted as well.
LEMMA FullPeer ==
  ASSUME HarvestTypes, HarvestTypes', Stamped, Steady, FullInv,
         NEW d \in Datasets, EditSchema(d) \/ Remove(d) \/ (\E s \in Ticks : Edit(d, s)),
         NEW j \in Jobs
  PROVE  (Faithful(j) /\ Swept(j) /\ Whole(j) /\ Exact(j))'
<1>1. CASE job[j].pc = "idle"
  <2>1. job'[j].pc = "idle"
    BY <1>1 DEF EditSchema, Remove, Edit, hub
  <2> QED
    BY <2>1 DEF Faithful, Swept, Whole, Exact
<1>2. CASE job[j].pc # "idle"
  <2>1. UNCHANGED <<mirror, job>> /\ changed'[j] = changed[j] \cup {d}
    BY <1>2, NotedIs DEF EditSchema, Remove, Edit, hub
  <2>2. \A e \in Datasets \ {d} : text'[e] = text[e] /\ stamp'[e] = stamp[e]
    BY DEF EditSchema, Remove, Edit, HarvestTypes
  <2>3. Faithful(j)'
    BY <1>2, <2>1, <2>2 DEF Faithful, FullInv, Now, Current
  <2>4. \A e \in Datasets \ changed'[j] : e \in Exported' <=> e \in Exported
    BY <2>1, <2>2 DEF Exported
  <2>5. Clean(j)' => Clean(j)
    <3>1. shrunk'[j] \/ UNCHANGED shrunk
      BY <1>2 DEF EditSchema, Remove, Edit, AtWork
    <3> QED
      BY <2>1, <3>1 DEF Clean, HarvestTypes
  <2>6. Whole(j)'
    BY <2>1, <2>4, <2>5 DEF Whole, FullInv, Has, Exported
  <2>7. Exact(j)'
    BY <2>1, <2>2, <2>5 DEF Exact, FullInv, Now
  <2>8. ASSUME Clean(j)', job[j].pc \in {"fetch", "store"} PROVE Queue(j) \subseteq Queue(j)'
    <3>1. job[j].since = 0 /\ job'[j].since = 0
      BY <2>1, <2>5, <2>8 DEF Clean, Steady
    <3>2. ~Remove(d)
      BY <1>2, <2>8 DEF Remove, AtWork, Clean, HarvestTypes
    <3>3. text'[d] # 0 /\ stamp'[d] > 0
      <4>1. clock' = clock + 1 /\ text' = [text EXCEPT ![d] = clock'] /\ clock \in Nat
        BY <3>2 DEF EditSchema, Edit, HarvestTypes
      <4>2. text'[d] # 0
        BY <4>1 DEF HarvestTypes
      <4>3. CASE EditSchema(d)
        BY <4>2, <4>3 DEF EditSchema, Stamped
      <4>4. ASSUME NEW s \in Ticks, Edit(d, s) PROVE text'[d] # 0 /\ stamp'[d] > 0
        BY <4>2, <4>4, BoundsAssumption DEF Edit, Ticks, HarvestTypes
      <4> QED
        BY <3>2, <4>3, <4>4
    <3> QED
      BY <2>2, <3>1, <3>3 DEF Queue, Exported
  <2>9. Swept(j)'
    <3> SUFFICES ASSUME Clean(j)', job[j].pc \in {"fetch", "store"},
                        NEW e \in Datasets, e \in Exported', e \notin changed'[j],
                        Turn(j, e)' < Reached(j)'
                 PROVE  Has(j, e)'
      BY <2>1 DEF Swept, Exported
    <3>1. Turn(j, e) <= Turn(j, e)'
      BY <2>8, TurnGrows
    <3>2. Turn(j, e) \in Nat /\ (Turn(j, e) \in Nat)'
      <4>1. Turn(j, e) \in Nat
        BY TurnIs
      <4>2. Queue(j)' \in SUBSET Datasets
        BY DEF Queue, Exported
      <4>3. {c \in Queue(j)' : c < e} \in SUBSET Datasets
        BY <4>2
      <4>4. Cardinality({c \in Queue(j)' : c < e}) \in Nat
        BY <4>3, DatasetsAre
      <4>5. Turn(j, e)' = Cardinality({c \in Queue(j)' : c < e})
        BY DEF Turn
      <4> QED
        BY <4>1, <4>4, <4>5
    <3>3. Reached(j)' = Reached(j)
      BY <2>1 DEF Reached
    <3>4. Reached(j) \in Int
      <4>1. job[j].page \in Pages /\ job[j].offset \in Nat
        BY DEF HarvestTypes, JobRecords
      <4>2. DOMAIN job[j].page \in SUBSET Datasets
        BY <4>1, PageIs
      <4>3. Cardinality(DOMAIN job[j].page) \in Nat
        BY <4>2, DatasetsAre
      <4> QED
        BY <4>1, <4>3 DEF Reached
    <3>5. Turn(j, e) < Reached(j)
      BY <3>1, <3>2, <3>3, <3>4
    <3>6. Has(j, e)
      BY <2>1, <2>4, <2>5, <3>5 DEF Swept, FullInv
    <3> QED
      BY <2>1, <3>6 DEF Has
  <2> QED
    BY <2>3, <2>6, <2>7, <2>9
<1> QED
  BY <1>1, <1>2

\* A page takes all that is next in the queue, and the last one what is left of it.
LEMMA FullFetch ==
  ASSUME HarvestTypes, Fits, Stamped, Steady, FullInv, NEW j \in Jobs, Fetch(j)
  PROVE  (Faithful(j) /\ Swept(j) /\ Whole(j) /\ Exact(j))'
<1> DEFINE page == Page(job[j].since, job[j].offset)
           next == job[j].offset + Cardinality(DOMAIN page)
<1>1. /\ job'[j].page = page /\ job'[j].pc = IF page = <<>> THEN "scan" ELSE "store"
      /\ job'[j].last = (next >= Cardinality(Matching(job[j].since)) \/ next >= MaxPages * PageSize)
      /\ job'[j].full = job[j].full /\ job'[j].since = job[j].since
      /\ job'[j].offset = job[j].offset /\ job'[j].seen = job[j].seen
  BY FetchDoes
<1>2. job[j].pc = "fetch" /\ UNCHANGED <<text, stamp, mirror, changed, shrunk>>
  BY DEF Fetch, peer, hub, history
<1>3. job[j].page = <<>> /\ DOMAIN <<>> = {} /\ Reached(j) = job[j].offset
  <2>1. job[j].page = <<>> /\ DOMAIN <<>> = {}
    BY <1>2 DEF Steady
  <2>2. job[j].offset \in Nat
    BY DEF HarvestTypes, JobRecords
  <2> QED
    BY <2>1, <2>2, FS_EmptySet DEF Reached
<1>4. \A d \in Queue(j) :
         /\ job[j].offset \in Nat /\ next \in Nat /\ Turn(j, d) \in Nat
         /\ d \notin DOMAIN page /\ Turn(j, d) >= job[j].offset => Turn(j, d) >= next
         /\ page = <<>> => Turn(j, d) < job[j].offset
         /\ (next >= Cardinality(Matching(job[j].since)) \/ next >= MaxPages * PageSize)
               => Turn(j, d) < next
  <2> TAKE d \in Queue(j)
  <2>1. d \in Datasets
    BY DEF Queue, Exported
  <2> HIDE DEF page, next
  <2>2. page = Page(job[j].since, job[j].offset) /\ next = job[j].offset + Cardinality(DOMAIN page)
    BY DEF page, next
  <2>3. Turn(j, d) \in Nat
    BY <2>1, TurnIs
  <2> QED
    BY <2>2, <2>3, PageTakes
<1>5. \A d \in DOMAIN page : d \in Exported /\ page[d] = Now(d)
  <2>1. job[j].since \in Nat /\ job[j].offset \in Nat
    BY DEF HarvestTypes, JobRecords
  <2> QED
    BY <2>1, PageType DEF Matching, Now
<1>6. Queue(j)' = Queue(j) /\ \A d : Turn(j, d)' = Turn(j, d)
  BY <1>1, <1>2 DEF Queue, Exported, Turn
<1>7. Reached(j)' = next
  BY <1>1 DEF Reached
<1> HIDE DEF page, next
<1>8. Faithful(j)'
  <2> SUFFICES ASSUME NEW d \in Datasets, d \notin changed[j]
               PROVE  /\ d \in DOMAIN page => page[d] = Now(d) /\ text[d] # 0
                      /\ d \in job[j].seen => Current(d) /\ text[d] # 0
    BY <1>1, <1>2 DEF Faithful, Now, Current
  <2> QED
    BY <1>2, <1>5 DEF Faithful, FullInv, Exported
<1>9. ASSUME Clean(j), NEW d \in Exported, d \notin changed[j]
      PROVE  /\ d \in Queue(j)
             /\ Turn(j, d) < next => d \in job[j].seen \/ d \in DOMAIN page
             /\ page = <<>> => d \in job[j].seen
  <2>1. d \in Queue(j)
    BY <1>9 DEF Clean, Steady, Stamped, Queue, Exported
  <2>2. ASSUME Turn(j, d) < job[j].offset PROVE d \in job[j].seen
    BY <1>2, <1>3, <1>9, <2>2 DEF FullInv, Swept, Has
  <2>3. ASSUME Turn(j, d) < next PROVE d \in job[j].seen \/ d \in DOMAIN page
    BY <1>4, <2>1, <2>2, <2>3
  <2> QED
    BY <1>4, <2>1, <2>2, <2>3
<1>10. Swept(j)'
  <2> SUFFICES ASSUME Clean(j), NEW d \in Exported, d \notin changed[j], Turn(j, d) < next
               PROVE  d \in job[j].seen \/ d \in DOMAIN page
    BY <1>1, <1>2, <1>6, <1>7 DEF Swept, Clean, Exported, Has
  <2> QED
    BY <1>9
<1>11. Whole(j)'
  <2> SUFFICES ASSUME Clean(j), NEW d \in Exported, d \notin changed[j],
                      page = <<>> \/ job'[j].last
               PROVE  d \in job[j].seen \/ d \in DOMAIN page
    BY <1>1, <1>2 DEF Whole, Clean, Exported, Has
  <2> QED
    BY <1>1, <1>4, <1>9
<1>12. Exact(j)'
  BY <1>1 DEF Exact
<1> QED
  BY <1>8, <1>10, <1>11, <1>12

\* What the page held is mirrored now.
LEMMA FullStore ==
  ASSUME HarvestTypes, FullInv, NEW j \in Jobs, Store(j)
  PROVE  (Faithful(j) /\ Swept(j) /\ Whole(j) /\ Exact(j))'
<1> DEFINE page == job[j].page
<1>1. /\ job'[j].page = <<>> /\ job'[j].pc = IF job[j].last THEN "scan" ELSE "fetch"
      /\ job'[j].offset = job[j].offset + Cardinality(DOMAIN page)
      /\ job'[j].seen = job[j].seen \cup DOMAIN page
      /\ job'[j].full = job[j].full /\ job'[j].since = job[j].since
  BY StoreDoes
<1>2. job[j].pc = "store" /\ UNCHANGED <<text, stamp, changed, shrunk>>
  BY DEF Store, peer, history
<1>3. \A d \in Datasets : mirror'[d] = IF d \in DOMAIN page THEN page[d] ELSE mirror[d]
  BY DEF Store
<1>4. DOMAIN <<>> = {}
  OBVIOUS
<1>5. Queue(j)' = Queue(j) /\ \A d : Turn(j, d)' = Turn(j, d)
  BY <1>1, <1>2 DEF Queue, Exported, Turn
<1>6. Reached(j)' = Reached(j)
  <2>1. page \in Pages /\ job[j].offset \in Nat
    BY DEF HarvestTypes, JobRecords
  <2>2. DOMAIN page \in SUBSET Datasets
    BY <2>1, PageIs
  <2>3. Cardinality(DOMAIN page) \in Nat
    BY <2>2, DatasetsAre
  <2>4. Reached(j)' = job'[j].offset + Cardinality({})
    BY <1>1, <1>4 DEF Reached
  <2> QED
    BY <1>1, <2>1, <2>3, <2>4, FS_EmptySet DEF Reached
<1>7. \A d : Has(j, d)' <=> Has(j, d)
  BY <1>1, <1>4 DEF Has
<1>8. Faithful(j)'
  <2> SUFFICES ASSUME NEW d \in Datasets, d \notin changed[j], d \in job[j].seen \cup DOMAIN page
               PROVE  mirror'[d] = Now(d) /\ text[d] # 0
    BY <1>1, <1>2, <1>4 DEF Faithful, Now, Current
  <2> QED
    BY <1>2, <1>3 DEF FullInv, Faithful, Current
<1>9. Swept(j)'
  BY <1>1, <1>2, <1>5, <1>6, <1>7 DEF FullInv, Swept, Clean, Exported
<1>10. Whole(j)'
  BY <1>1, <1>2, <1>7 DEF FullInv, Whole, Clean, Exported
<1>11. Exact(j)'
  BY <1>1 DEF Exact
<1> QED
  BY <1>8, <1>9, <1>10, <1>11

\* A prune leaves what the run has seen, and nothing else when it is a full one.
LEMMA FullRest ==
  ASSUME HarvestTypes, Steady, FullInv, NEW j \in Jobs,
         Scan(j) \/ Embed(j) \/ EmbedEnds(j) \/ Prune(j)
  PROVE  (Faithful(j) /\ Swept(j) /\ Whole(j) /\ Exact(j))'
<1>1. /\ job[j].pc \in {"scan", "embed", "prune"}
      /\ job'[j].page = job[j].page /\ job'[j].full = job[j].full /\ job'[j].seen = job[j].seen
      /\ job'[j].pc \in {"embed", "prune", "lineage"}
  BY RestDoes
<1>2. UNCHANGED <<text, stamp, changed, shrunk>>
  BY DEF Scan, Embed, EmbedEnds, Prune, peer, history
<1>3. job[j].page = <<>> /\ DOMAIN <<>> = {}
  BY <1>1 DEF Steady
<1>4. CASE Scan(j) \/ Embed(j) \/ EmbedEnds(j)
  <2>1. mirror' = mirror /\ job'[j].pc \in {"embed", "prune"}
    BY <1>4, RestDoes DEF Scan, Embed, EmbedEnds, hub
  <2> QED
    BY <1>1, <1>2, <2>1
    DEF FullInv, Faithful, Swept, Whole, Exact, Clean, Exported, Has, Now, Current
<1>5. CASE Prune(j)
  <2>1. \A d \in Datasets : mirror'[d] = IF job[j].full /\ d \notin job[j].seen THEN NoRow ELSE mirror[d]
    BY <1>5 DEF Prune
  <2>2. job[j].pc = "prune" /\ job'[j].pc = "lineage"
    BY <1>5, RestDoes DEF Prune
  <2>3. Faithful(j)'
    BY <1>1, <1>2, <1>3, <2>1, <2>2 DEF FullInv, Faithful, Now, Current
  <2>4. Exact(j)'
    <3> SUFFICES ASSUME Clean(j), NEW d \in Datasets, d \notin changed[j]
                 PROVE  mirror'[d] = IF text[d] = 0 THEN NoRow ELSE Now(d)
      BY <1>1, <1>2 DEF Exact, Clean, Now
    <3>1. CASE text[d] = 0
      <4>1. d \notin job[j].seen
        BY <2>2, <3>1 DEF FullInv, Faithful
      <4> QED
        BY <2>1, <3>1, <4>1 DEF Clean
    <3>2. CASE text[d] # 0
      <4>1. d \in job[j].seen
        BY <1>3, <2>2, <3>2 DEF FullInv, Whole, Has, Exported
      <4> QED
        BY <2>1, <2>2, <3>2, <4>1 DEF FullInv, Faithful, Current
    <3> QED
      BY <3>1, <3>2
  <2> QED
    BY <2>2, <2>3, <2>4 DEF Swept, Whole
<1> QED
  BY <1>4, <1>5

\* Every step keeps what a full run is to find at its end.
LEMMA FullNext ==
  ASSUME OneJob, Fits, HarvestTypes, Stamped, Steady, FullInv, [Next]_vars
  PROVE  FullInv'
<1>0. HarvestTypes'
  BY TypesNext
<1>a. ASSUME NEW j \in Jobs, (Faithful(j) /\ Swept(j) /\ Whole(j) /\ Exact(j))' PROVE FullInv'
  BY <1>a DEF FullInv, OneJob
<1>b. ASSUME NEW j \in Jobs, job'[j].pc = "idle" PROVE FullInv'
  <2>1. (Faithful(j) /\ Swept(j) /\ Whole(j) /\ Exact(j))'
    BY <1>b DEF Faithful, Swept, Whole, Exact
  <2> QED
    BY <1>a, <2>1
<1>1. CASE UNCHANGED vars
  BY <1>1 DEF vars, peer, hub, history, FullInv, Faithful, Swept, Whole, Exact, Clean, Exported,
              Has, Now, Current, Turn, Queue, Reached
<1>2. ASSUME NEW d \in Datasets, EditSchema(d) \/ Remove(d) \/ (\E s \in Ticks : Edit(d, s))
      PROVE  FullInv'
  <2>1. ASSUME NEW j \in Jobs PROVE (Faithful(j) /\ Swept(j) /\ Whole(j) /\ Exact(j))'
    BY <1>0, <1>2, FullPeer
  <2> QED
    BY <2>1 DEF FullInv
<1>3. ASSUME NEW j \in Jobs, Fetch(j) PROVE FullInv'
  BY <1>a, <1>3, FullFetch
<1>4. ASSUME NEW j \in Jobs, Store(j) PROVE FullInv'
  BY <1>a, <1>4, FullStore
<1>5. ASSUME NEW j \in Jobs, Scan(j) \/ Embed(j) \/ EmbedEnds(j) \/ Prune(j) PROVE FullInv'
  BY <1>a, <1>5, FullRest
<1>6. ASSUME NEW j \in Jobs, Finish(j) \/ Fail(j) PROVE FullInv'
  BY <1>b, <1>6, EndDoes
<1>7. CASE Crash
  <2>1. PICK j \in Jobs : TRUE
    BY <1>7 DEF Crash, AtWork
  <2> QED
    BY <1>b, <1>7, <2>1, EndDoes
<1>8. ASSUME NEW j \in Jobs, NEW full \in BOOLEAN, Begin(j, full) PROVE FullInv'
  <2>1. job'[j].pc = "fetch" /\ job'[j].page = <<>> /\ job'[j].offset = 0 /\ job'[j].seen = {}
    BY <1>8, BeginDoes
  <2>2. DOMAIN <<>> = {}
    OBVIOUS
  <2>3. Reached(j)' = 0
    BY <2>1, <2>2, FS_EmptySet DEF Reached
  <2>4. \A d \in Datasets : (Turn(j, d) \in Nat)'
    <3> TAKE d \in Datasets
    <3>1. Queue(j)' \in SUBSET Datasets
      BY DEF Queue, Exported
    <3>2. {c \in Queue(j)' : c < d} \in SUBSET Datasets
      BY <3>1
    <3>3. Cardinality({c \in Queue(j)' : c < d}) \in Nat
      BY <3>2, DatasetsAre
    <3>4. Turn(j, d)' = Cardinality({c \in Queue(j)' : c < d})
      BY DEF Turn
    <3> QED
      BY <3>3, <3>4
  <2>5. Faithful(j)' /\ Whole(j)' /\ Exact(j)'
    BY <2>1, <2>2 DEF Faithful, Whole, Exact
  <2>6. Swept(j)'
    BY <2>3, <2>4 DEF Swept, Exported
  <2> QED
    BY <1>a, <2>5, <2>6
<1> QED
  BY <1>1, <1>2, <1>3, <1>4, <1>5, <1>6, <1>7, <1>8 DEF Next, Works
-----------------------------------------------------------------------------
(* Runs that nothing disturbs. *)

\* Everything is stamped after an empty mirror.
LEMMA CaughtInit == Init => CaughtInv
<1> SUFFICES ASSUME Init, NEW j \in Jobs PROVE Known(j) /\ Caught(j)
  BY DEF CaughtInv
<1>1. job[j].pc = "idle"
  BY DEF Init, IdleJob
<1>2. \A d \in Datasets : mirror[d].stamp = 0 /\ stamp[d] = d /\ d > 0
  BY BoundsAssumption DEF Init, NoRow, Datasets
<1>3. \A d \in Datasets : Ahead(d)
  BY <1>2 DEF Ahead
<1> QED
  BY <1>1, <1>3 DEF Known, Caught, Exported

\* A change that does not come between two pages, and is stamped with its tick.
LEMMA CaughtPeer ==
  ASSUME HarvestTypes, Stamped, CaughtInv, NEW j \in Jobs,
         NEW d \in Datasets, EditSchema(d) \/ Remove(d) \/ (\E s \in Ticks : Edit(d, s))
  PROVE  (Known(j) /\ Caught(j))'
<1>1. CASE ~sound'
  BY <1>1 DEF Known, Caught
<1>2. CASE sound'
  <2>1. ~EditSchema(d)
    BY <1>2 DEF EditSchema
  <2>2. /\ sound /\ ~Midway /\ UNCHANGED <<mirror, job>>
        /\ job[j].pc # "idle" => changed'[j] = changed[j] \cup {d}
    BY <1>2, <2>1, NotedIs DEF Remove, Edit, hub
  <2>3. \A e \in Datasets \ {d} : text'[e] = text[e] /\ stamp'[e] = stamp[e]
    BY <2>1 DEF Remove, Edit, HarvestTypes
  <2>4. ASSUME d \in Exported' PROVE stamp'[d] = clock + 1 /\ clock \in Nat
    <3>1. ~Remove(d)
      BY <2>4 DEF Remove, Exported, HarvestTypes
    <3>2. PICK s \in Ticks : Edit(d, s)
      BY <2>1, <3>1
    <3>3. s = clock' /\ clock' = clock + 1
      BY <1>2, <3>2 DEF Edit
    <3> QED
      BY <3>2, <3>3 DEF Edit, HarvestTypes
  <2>5. \A e \in Datasets : mirror[e].stamp \in Nat /\ mirror[e].stamp <= clock
    BY DEF HarvestTypes, Rows, Stamped
  <2>6. \A e \in DOMAIN job[j].page : job[j].page[e].stamp \in Nat /\ job[j].page[e].stamp <= clock
    <3> TAKE e \in DOMAIN job[j].page
    <3>1. job[j].page \in Pages
      BY DEF HarvestTypes, JobRecords
    <3>2. job[j].page[e] \in Rows
      BY <3>1, PageIs
    <3> QED
      BY <3>2 DEF Rows, Stamped
  <2>7. \A e \in Exported' : e # d => e \in Exported /\ Now(e)' = Now(e)
    BY <2>3 DEF Exported, Now
  <2>8. d \in Exported' => Ahead(d)' /\ (job[j].pc # "idle" => Newer(j, d)')
    BY <2>2, <2>4, <2>5, <2>6 DEF Ahead, Newer
  <2>9. ASSUME NEW e \in Exported', e # d
        PROVE  /\ e \in Exported
               /\ Current(e)' <=> Current(e)
               /\ Ahead(e)' <=> Ahead(e)
               /\ Stored(j, e)' <=> Stored(j, e)
               /\ There(j, e)' <=> There(j, e)
               /\ job[j].pc # "idle" /\ Newer(j, e) => Newer(j, e)'
    <3>1. e \in Exported /\ Now(e)' = Now(e) /\ stamp'[e] = stamp[e]
      BY <2>3, <2>7, <2>9 DEF Exported
    <3> QED
      BY <2>2, <3>1 DEF Current, Ahead, Stored, There, Newer
  <2>10. Known(j)'
    BY <2>2, <2>8, <2>9 DEF CaughtInv, Known
  <2>11. /\ ~(job[j].pc = "fetch" /\ job[j].offset > 0)
         /\ ~(job[j].pc = "store" /\ ~job[j].last)
    BY <2>2 DEF Midway
  <2>12. Caught(j)'
    BY <2>2, <2>8, <2>9, <2>11 DEF CaughtInv, Caught
  <2> QED
    BY <2>10, <2>12
<1> QED
  BY <1>1, <1>2

\* What is not mirrored as it is is stamped after the watermark, so it is in the queue.
LEMMA CaughtFetch ==
  ASSUME HarvestTypes, Fits, Stamped, Steady, CaughtInv, NEW j \in Jobs, Fetch(j)
  PROVE  (Known(j) /\ Caught(j))'
<1> DEFINE page == Page(job[j].since, job[j].offset)
           next == job[j].offset + Cardinality(DOMAIN page)
<1>1. /\ job'[j].page = page /\ job'[j].pc = IF page = <<>> THEN "scan" ELSE "store"
      /\ job'[j].last = (next >= Cardinality(Matching(job[j].since)) \/ next >= MaxPages * PageSize)
      /\ job'[j].full = job[j].full /\ job'[j].since = job[j].since
      /\ job'[j].offset = job[j].offset /\ job'[j].seen = job[j].seen
  BY FetchDoes
<1>2. job[j].pc = "fetch" /\ UNCHANGED <<text, stamp, mirror, changed, sound>>
  BY DEF Fetch, peer, hub, history
<1>3. job[j].page = <<>> /\ DOMAIN <<>> = {} /\ Reached(j) = job[j].offset /\ job[j].offset \in Nat
  <2>1. job[j].page = <<>> /\ DOMAIN <<>> = {}
    BY <1>2 DEF Steady
  <2>2. job[j].offset \in Nat
    BY DEF HarvestTypes, JobRecords
  <2> QED
    BY <2>1, <2>2, FS_EmptySet DEF Reached
<1>4. Queue(j)' = Queue(j) /\ (\A d : Turn(j, d)' = Turn(j, d)) /\ Reached(j)' = next
  BY <1>1, <1>2 DEF Queue, Exported, Turn, Reached
<1>5. page = Page(job[j].since, job[j].offset) /\ next = job[j].offset + Cardinality(DOMAIN page)
  OBVIOUS
<1> HIDE DEF page, next
<1>6. \A d \in Exported : Current(d)' = Current(d) /\ Ahead(d)' = Ahead(d) /\ Now(d)' = Now(d)
  BY <1>2 DEF Current, Ahead, Now
<1>7. Known(j)'
  BY <1>1, <1>2, <1>6 DEF CaughtInv, Known, Exported
<1>8. ASSUME sound, NEW d \in Exported
      PROVE  There(j, d) \/ (d \in Queue(j) /\ Turn(j, d) >= job[j].offset)
  <2>1. CASE job[j].offset > 0
    BY <1>2, <1>3, <1>8, <2>1 DEF CaughtInv, Caught, Stored, Due
  <2>2. CASE job[j].offset = 0
    <3>1. d \in Datasets /\ Turn(j, d) \in Nat
      BY TurnIs DEF Exported
    <3>2. CASE d \in Queue(j)
      BY <2>2, <3>1, <3>2
    <3>3. CASE d \notin Queue(j)
      <4>1. ~(stamp[d] > job[j].since)
        BY <3>3 DEF Queue
      <4>2. stamp[d] > 0
        BY <3>1 DEF Stamped
      <4>3. PICK e \in Datasets : job[j].since = mirror[e].stamp
        BY <1>2, <2>2, <4>1, <4>2 DEF Steady
      <4>4. stamp[d] \in Nat /\ mirror[e].stamp \in Nat
        BY <3>1 DEF HarvestTypes, Rows
      <4>5. ~Ahead(d)
        BY <4>1, <4>3, <4>4 DEF Ahead
      <4>6. Current(d)
        BY <1>2, <1>8, <2>2, <4>5 DEF CaughtInv, Known
      <4>7. ~job[j].full
        BY <4>1, <4>2 DEF Steady
      <4> QED
        BY <1>3, <4>6, <4>7 DEF There
    <3> QED
      BY <3>2, <3>3
  <2> QED
    BY <1>3, <2>1, <2>2
<1>9. Caught(j)'
  <2> SUFFICES ASSUME sound, NEW d \in Exported
               PROVE  /\ job'[j].pc = "store" /\ ~job'[j].last =>
                            Stored(j, d)' \/ There(j, d)' \/ Due(j, d)'
                      /\ job'[j].pc = "store" /\ job'[j].last => Stored(j, d)' \/ There(j, d)'
                      /\ job'[j].pc = "scan" => There(j, d)'
    BY <1>1, <1>2 DEF Caught, Exported
  <2>1. CASE d \in DOMAIN page
    <3>1. page[d] = Now(d)
      <4>1. job[j].since \in Nat /\ job[j].offset \in Nat
        BY DEF HarvestTypes, JobRecords
      <4> QED
        BY <1>5, <2>1, <4>1, PageType DEF Now
    <3>2. Stored(j, d)'
      BY <1>1, <1>6, <2>1, <3>1 DEF Stored
    <3>3. job'[j].pc # "scan"
      BY <1>1, <1>3, <2>1
    <3> QED
      BY <3>2, <3>3
  <2>2. CASE d \notin DOMAIN page /\ There(j, d)
    <3>1. There(j, d)'
      BY <1>1, <1>6, <2>2 DEF There
    <3> QED
      BY <3>1
  <2>3. CASE d \notin DOMAIN page /\ d \in Queue(j) /\ Turn(j, d) >= job[j].offset
    <3>1. /\ next \in Nat /\ Turn(j, d) >= next
          /\ page # <<>>
          /\ ~(next >= Cardinality(Matching(job[j].since)) \/ next >= MaxPages * PageSize)
      <4>1. Turn(j, d) \in Nat
        BY TurnIs DEF Exported
      <4> QED
        BY <1>3, <1>5, <2>3, <4>1, PageTakes
    <3>2. Due(j, d)'
      BY <1>1, <1>4, <2>3, <3>1 DEF Due
    <3> QED
      BY <1>1, <3>1, <3>2
  <2> QED
    BY <1>8, <2>1, <2>2, <2>3
<1> QED
  BY <1>7, <1>9

\* What the page held is there now, and what was changed since is newer still.
LEMMA CaughtStore ==
  ASSUME HarvestTypes, Steady, CaughtInv, NEW j \in Jobs, Store(j)
  PROVE  (Known(j) /\ Caught(j))'
<1> DEFINE page == job[j].page
<1>1. /\ job'[j].page = <<>> /\ job'[j].pc = IF job[j].last THEN "scan" ELSE "fetch"
      /\ job'[j].offset = job[j].offset + Cardinality(DOMAIN page)
      /\ job'[j].seen = job[j].seen \cup DOMAIN page
      /\ job'[j].full = job[j].full /\ job'[j].since = job[j].since
  BY StoreDoes
<1>2. job[j].pc = "store" /\ UNCHANGED <<text, stamp, changed, sound>>
  BY DEF Store, peer, history
<1>3. \A d \in Datasets : mirror'[d] = IF d \in DOMAIN page THEN page[d] ELSE mirror[d]
  BY DEF Store
<1>4. DOMAIN <<>> = {} /\ job'[j].offset \in Nat \ {0}
  BY StoreAdvances
<1>5. Queue(j)' = Queue(j) /\ \A d : Turn(j, d)' = Turn(j, d)
  BY <1>1, <1>2 DEF Queue, Exported, Turn
<1>6. Reached(j)' = Reached(j)
  <2>1. job'[j].offset \in Nat
    BY <1>4
  <2>2. Reached(j)' = job'[j].offset + Cardinality({})
    BY <1>1, <1>4 DEF Reached
  <2> QED
    BY <1>1, <2>1, <2>2, FS_EmptySet DEF Reached
<1>7. Known(j)'
  BY <1>1, <1>4 DEF Known
<1>8. ASSUME NEW d \in Exported, Stored(j, d) \/ There(j, d) PROVE There(j, d)'
  <2>1. mirror'[d] = Now(d)
    BY <1>3, <1>8 DEF Stored, There, Current, Exported
  <2> QED
    BY <1>1, <1>2, <1>4, <1>8, <2>1 DEF Stored, There, Current, Now
<1>9. ASSUME NEW d \in Exported, Newer(j, d) PROVE Newer(j, d)'
  <2>1. \A e \in Datasets : mirror'[e].stamp < stamp[d]
    BY <1>3, <1>9 DEF Newer, Ahead
  <2> QED
    BY <1>1, <1>2, <1>4, <1>9, <2>1 DEF Newer, Ahead
<1>10. ASSUME NEW d \in Exported, Due(j, d) PROVE Due(j, d)'
  BY <1>1, <1>4, <1>5, <1>6, <1>10 DEF Due
<1>11. Caught(j)'
  <2> SUFFICES ASSUME sound, NEW d \in Exported
               PROVE  /\ ~job[j].last => There(j, d)' \/ Due(j, d)'
                      /\ job[j].last => There(j, d)' \/ Newer(j, d)'
    BY <1>1, <1>2 DEF Caught, Exported
  <2> QED
    BY <1>2, <1>8, <1>9, <1>10 DEF CaughtInv, Caught
<1> QED
  BY <1>7, <1>11

\* A prune deletes nothing that the peer exports and the run has seen.
LEMMA CaughtRest ==
  ASSUME HarvestTypes, Stamped, CaughtInv, NEW j \in Jobs,
         Scan(j) \/ Embed(j) \/ EmbedEnds(j) \/ Prune(j)
  PROVE  (Known(j) /\ Caught(j))'
<1>1. /\ job[j].pc \in {"scan", "embed", "prune"}
      /\ job'[j].page = job[j].page /\ job'[j].full = job[j].full /\ job'[j].seen = job[j].seen
      /\ job'[j].pc \in {"embed", "prune", "lineage"}
  BY RestDoes
<1>2. UNCHANGED <<text, stamp, changed, sound>>
  BY DEF Scan, Embed, EmbedEnds, Prune, peer, history
<1>3. \A d \in Datasets : \/ mirror'[d] = mirror[d]
                          \/ mirror'[d] = NoRow /\ job[j].full /\ d \notin job[j].seen
  <2>1. CASE Scan(j) \/ Embed(j) \/ EmbedEnds(j)
    BY <2>1 DEF Scan, Embed, EmbedEnds, hub
  <2>2. CASE Prune(j)
    BY <2>2 DEF Prune
  <2> QED
    BY <2>1, <2>2
<1>4. ASSUME NEW d \in Exported, There(j, d) PROVE There(j, d)'
  BY <1>1, <1>2, <1>3, <1>4 DEF There, Current, Now, Exported
<1>5. ASSUME NEW d \in Exported, Newer(j, d) PROVE Newer(j, d)'
  <2>1. NoRow.stamp < stamp[d]
    BY DEF NoRow, Stamped, Exported
  <2>2. \A e \in Datasets : mirror'[e].stamp < stamp[d]
    BY <1>3, <1>5, <2>1 DEF Newer, Ahead
  <2> QED
    BY <1>1, <1>2, <1>5, <2>2 DEF Newer, Ahead
<1>6. Caught(j)'
  <2> SUFFICES ASSUME sound, NEW d \in Exported PROVE There(j, d)' \/ Newer(j, d)'
    BY <1>1, <1>2 DEF Caught, Exported
  <2> QED
    BY <1>1, <1>4, <1>5 DEF CaughtInv, Caught
<1> QED
  BY <1>1, <1>6 DEF Known

\* However a run ends, the watermark tells what is not mirrored, or it is known
\* not to.
LEMMA CaughtEnd ==
  ASSUME HarvestTypes, Steady, FullInv, CaughtInv, NEW j \in Jobs, Finish(j) \/ Fail(j) \/ Crash
  PROVE  (Known(j) /\ Caught(j))'
<1>1. job'[j].pc = "idle" /\ UNCHANGED <<text, stamp, mirror>>
  BY EndDoes
<1>2. job[j].pc \in Phases /\ job[j].offset \in Nat
  BY DEF HarvestTypes, JobRecords
<1>3. ASSUME sound, NEW d \in Exported,
             \/ job[j].pc \in {"scan", "embed", "prune", "lineage"}
             \/ job[j].pc = "idle"
             \/ job[j].pc \in {"fetch", "store"} /\ job[j].offset = 0
      PROVE  Current(d) \/ Ahead(d)
  BY <1>3 DEF CaughtInv, Known, Caught, There, Newer
<1>4. ASSUME sound', NEW d \in Exported PROVE Current(d) \/ Ahead(d)
  <2>1. CASE sound /\ (Finish(j) \/ ~Midway)
    <3>1. Finish(j) => job[j].pc = "lineage"
      BY DEF Finish
    <3> QED
      BY <1>2, <1>3, <2>1, <3>1 DEF Midway, Phases
  <2>2. CASE Finish(j) /\ job[j].full /\ changed[j] = {}
    <3>1. Clean(j) /\ job[j].pc = "lineage"
      BY <2>2 DEF Clean, Steady, Finish
    <3> QED
      BY <1>4, <2>2, <3>1 DEF FullInv, Exact, Current, Exported
  <2> QED
    BY <1>4, <2>1, <2>2 DEF Finish, Fail, Crash
<1>5. Known(j)'
  BY <1>1, <1>4 DEF Known, Exported, Current, Ahead, Now
<1> QED
  BY <1>1, <1>5 DEF Caught

\* Every step keeps what a run that nothing disturbs is to find at its end.
LEMMA CaughtNext ==
  ASSUME OneJob, Fits, HarvestTypes, Stamped, Steady, FullInv, CaughtInv, [Next]_vars
  PROVE  CaughtInv'
<1>a. ASSUME NEW j \in Jobs, (Known(j) /\ Caught(j))' PROVE CaughtInv'
  BY <1>a DEF CaughtInv, OneJob
<1>1. CASE UNCHANGED vars
  <2> USE <1>1 DEF vars, peer, hub, history
  <2>1. Exported' = Exported
    BY DEF Exported
  <2>2. \A d \in Datasets : (Current(d)' <=> Current(d)) /\ (Ahead(d)' <=> Ahead(d))
    BY DEF Current, Ahead, Now
  <2>3. ASSUME NEW j \in Jobs, NEW d \in Exported
        PROVE  /\ Stored(j, d)' <=> Stored(j, d)
               /\ There(j, d)' <=> There(j, d)
               /\ Newer(j, d)' <=> Newer(j, d)
               /\ Due(j, d)' <=> Due(j, d)
    BY DEF Stored, There, Newer, Due, Turn, Queue, Reached, Exported, Current, Ahead, Now
  <2>4. ASSUME NEW j \in Jobs PROVE Known(j)'
    BY <2>1, <2>2 DEF CaughtInv, Known, Exported
  <2>5. ASSUME NEW j \in Jobs PROVE Caught(j)'
    BY <2>1, <2>3 DEF CaughtInv, Caught
  <2> QED
    BY <2>4, <2>5 DEF CaughtInv
<1>2. ASSUME NEW d \in Datasets, EditSchema(d) \/ Remove(d) \/ (\E s \in Ticks : Edit(d, s))
      PROVE  CaughtInv'
  <2>1. ASSUME NEW j \in Jobs PROVE (Known(j) /\ Caught(j))'
    BY <1>2, CaughtPeer
  <2> QED
    BY <2>1 DEF CaughtInv
<1>3. ASSUME NEW j \in Jobs, Fetch(j) PROVE CaughtInv'
  BY <1>a, <1>3, CaughtFetch
<1>4. ASSUME NEW j \in Jobs, Store(j) PROVE CaughtInv'
  BY <1>a, <1>4, CaughtStore
<1>5. ASSUME NEW j \in Jobs, Scan(j) \/ Embed(j) \/ EmbedEnds(j) \/ Prune(j) PROVE CaughtInv'
  BY <1>a, <1>5, CaughtRest
<1>6. ASSUME NEW j \in Jobs, Finish(j) \/ Fail(j) \/ Crash PROVE CaughtInv'
  BY <1>a, <1>6, CaughtEnd
<1>7. CASE Crash
  <2>1. PICK j \in Jobs : TRUE
    BY <1>7 DEF Crash, AtWork
  <2> QED
    BY <1>6, <1>7, <2>1
<1>8. ASSUME NEW j \in Jobs, NEW full \in BOOLEAN, Begin(j, full) PROVE CaughtInv'
  <2>1. job[j].pc = "idle" /\ job'[j].pc = "fetch" /\ job'[j].offset = 0
    BY <1>8, BeginDoes
  <2>2. UNCHANGED <<text, stamp, mirror, sound>>
    BY <1>8 DEF Begin, peer, history
  <2>3. Known(j)'
    BY <2>1, <2>2 DEF CaughtInv, Known, Exported, Current, Ahead, Now
  <2>4. Caught(j)'
    BY <2>1 DEF Caught
  <2> QED
    BY <1>a, <2>3, <2>4
<1> QED
  BY <1>1, <1>2, <1>3, <1>4, <1>5, <1>6, <1>7, <1>8 DEF Next, Works
-----------------------------------------------------------------------------
(* The theorems about the harvest. *)

\* The peer, the mirror, the runs and their local variables are well typed, however
\* many tasks harvest at once.
THEOREM HarvestTypesHold == Spec => []HarvestTypes
BY TypesInit, TypesNext, PTL DEF Spec

\* What every reachable state satisfies when one task at a time harvests the peer.
LEMMA HarvestSteady ==
  ASSUME OneJob PROVE Spec => [](HarvestTypes /\ Stamped /\ Steady /\ EmbedInv)
<1> DEFINE Inv == HarvestTypes /\ Stamped /\ Steady /\ EmbedInv
<1>1. Init => Inv
  BY TypesInit, SteadyInit, EmbedInit
<1>2. Inv /\ [Next]_vars => Inv'
  BY TypesNext, StampedNext, SteadyNext, EmbedNext
<1> QED
  BY <1>1, <1>2, PTL DEF Spec

\* Semantic search finds what the mirror says, after every run that ends well, also
\* one that finds rows that an earlier run wrote and did not come to embed.
THEOREM EmbeddingsFollowAlways ==
  ASSUME OneJob PROVE Spec => EmbeddingsFollow
<1>1. EmbedInv => [\A j \in Jobs : Succeeds(j) => \A d \in Datasets : emb[d] = mirror[d].text]_vars
  BY DEF EmbedInv, AllEmbedded, Succeeds
<1> QED
  BY <1>1, HarvestSteady, PTL DEF EmbeddingsFollow

\* What every reachable state satisfies when, moreover, the peer fits in one run.
LEMMA HarvestCaught ==
  ASSUME OneJob, Fits
  PROVE  Spec => [](HarvestTypes /\ Stamped /\ Steady /\ FullInv /\ CaughtInv)
<1> DEFINE Inv == HarvestTypes /\ Stamped /\ Steady /\ FullInv /\ CaughtInv
<1>1. Init => Inv
  BY TypesInit, SteadyInit, FullInit, CaughtInit
<1>2. Inv /\ [Next]_vars => Inv'
  BY TypesNext, StampedNext, SteadyNext, FullNext, CaughtNext
<1> QED
  BY <1>1, <1>2, PTL DEF Spec

\* A full run leaves the mirror as the peer is, but for what changed meanwhile,
\* whatever failed, was killed or was missed before it.
THEOREM FullSyncRepairsAlways ==
  ASSUME OneJob, Fits PROVE Spec => FullSyncRepairs
<1>1. FullInv => [\A j \in Jobs : Succeeds(j) /\ job[j].full /\ ~shrunk[j] =>
                     \A d \in Datasets \ changed[j] : mirror[d].text = text[d]]_vars
  <2> SUFFICES ASSUME FullInv, NEW j \in Jobs, Succeeds(j), Clean(j), NEW d \in Datasets, d \notin changed[j]
               PROVE  mirror[d].text = text[d]
    BY DEF Clean
  <2>1. mirror[d] = IF text[d] = 0 THEN NoRow ELSE Now(d)
    BY DEF FullInv, Exact, Succeeds
  <2> QED
    BY <2>1 DEF Now, NoRow
<1> QED
  BY <1>1, HarvestCaught, PTL DEF FullSyncRepairs

\* An incremental run misses nothing that the watermark can tell it of.
THEOREM CaughtUpAlways ==
  ASSUME OneJob, Fits PROVE Spec => CaughtUp
<1>1. CaughtInv => [\A j \in Jobs : Succeeds(j) /\ sound =>
                       \A d \in Exported \ changed[j] : mirror[d].text = text[d]]_vars
  <2> SUFFICES ASSUME CaughtInv, NEW j \in Jobs, Succeeds(j), sound,
                      NEW d \in Exported, d \notin changed[j]
               PROVE  mirror[d].text = text[d]
    OBVIOUS
  <2>1. There(j, d)
    BY DEF CaughtInv, Caught, Newer, Succeeds
  <2> QED
    BY <2>1 DEF There, Current, Now
<1> QED
  BY <1>1, HarvestCaught, PTL DEF CaughtUp
=============================================================================
