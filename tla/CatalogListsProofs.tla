--------------------------- MODULE CatalogListsProofs ---------------------------
(***************************************************************************)
(* What the list pages promise holds for any items the server lists in any *)
(* order, and any number of requests, timers and confirmations.            *)
(***************************************************************************)
EXTENDS CatalogLists, FiniteSetTheorems, SequenceTheorems, TLAPS

Kinds == {"users", "models", "datasets", "apis", "agents"}
Names == {"add", "change", "delete", "activate", "edit"}
Filters == [text : BOOLEAN, status : BOOLEAN]
Positive == Nat \ {0}
Requests == [n : Nat, page : Positive, size : Positive, filter : Filters, stale : BOOLEAN,
             flip : Names \cup {None}, leads : SUBSET (Items \cup {None})]
Searches == [filter : Filters, size : Positive]
Answers == [n : Nat, page : Positive, size : Positive, filter : Filters, stale : BOOLEAN,
            rows : Seq(Items), total : Nat]

PagerTypes ==
    /\ kind \in Kinds /\ exist \subseteq Items /\ detail \in Items \cup {None}
    /\ page \in Positive /\ size \in Positive
FormTypes ==
    /\ box \in Filters /\ applied \in Filters /\ pause \in Searches \cup {None}
    /\ strays \in Seq(Searches) /\ astray \in BOOLEAN
LoadTypes == loading \in BOOLEAN /\ reqs \subseteq Requests /\ sent \in Nat /\ shown \in Answers
DialogTypes ==
    /\ picked \subseteq Nat /\ targets \subseteq Items /\ row \in Items \cup {None}
    /\ open \in Names \cup {None} /\ clearing \in Nat
    /\ \A w \in work : /\ w.op \in Names /\ w.ids \subseteq Items
                       /\ w.page \in Positive /\ w.size \in Positive

TypeOK == PagerTypes /\ FormTypes /\ LoadTypes /\ DialogTypes

\* The last request asks for what the pager shows, whether it is answered or not.
Matches(r) == r.n <= sent /\ (r.n = sent /\ ~r.stale => r.page = page /\ r.size = size)
Latest == Matches(shown) /\ \A r \in reqs : Matches(r)

\* The search that will be applied last of those that wait, or the one that is applied.
Due ==
    IF pause # None THEN pause.filter
    ELSE IF strays # <<>> THEN strays[Len(strays)].filter ELSE applied

\* Only a table that shows has a pause, and only one without a button waits at all.
\* What is due has the text of the form; in the tables that drop the pause, what waits
\* or is applied is the whole form, unless it was typed in a table that is gone; the
\* selects of datasets are applied.
Follows(f) == f.text = box.text /\ f.status = box.status
Pausing ==
    /\ detail # None => pause = None
    /\ kind \in {"users", "datasets"} => pause = None /\ strays = <<>>
    /\ kind \in {"apis", "agents"} => Due.text = box.text
    /\ kind = "models" /\ detail = None =>
           IF pause # None THEN Follows(pause.filter) ELSE astray \/ Follows(applied)
    /\ kind = "datasets" => applied.status = box.status

\* Where dialogs do not flip, no timer and no answer opens or empties one.
Steady ==
    ~Has("flips") =>
        /\ open \in Has("byRow") => row # None
        /\ clearing = 0
        /\ \A r \in reqs : r.flip = None

\* Only the refreshes of the APIs lead to a detail, or from one.
Leading == \A r \in reqs : r.leads # {} => kind = "apis"

FormInv == FormTypes /\ Pausing
LoadInv == LoadTypes /\ Latest /\ Leading
DialogInv == DialogTypes /\ Steady
ListInv == PagerTypes /\ FormInv /\ LoadInv /\ DialogInv
-----------------------------------------------------------------------------
(* What the pages have. *)

\* A provider has the dialogs it is made of, by what they act on.
LEMMA Offers ==
    ASSUME NEW dialogs, NEW flips \in BOOLEAN, NEW once \in BOOLEAN
    PROVE  /\ Provider(dialogs, flips, once).flips = flips
           /\ Provider(dialogs, flips, once).byRow = {d.op : d \in {e \in dialogs : e.on = "row"}}
           /\ Provider(dialogs, flips, once).byTicks = {d.op : d \in {e \in dialogs : e.on = "ticked"}}
           /\ Provider(dialogs, flips, once).plain = {d.op : d \in {e \in dialogs : e.on = "nothing"}}
BY DEF Provider

\* The dialogs that act on a row are not those that act on something else.
Apart(provider) ==
    /\ provider.byRow \subseteq Names /\ provider.byTicks \subseteq Names /\ provider.plain \subseteq Names
    /\ provider.byRow \cap (provider.byTicks \cup provider.plain) = {}

LEMMA ProviderApart ==
    ASSUME NEW dialogs, NEW flips \in BOOLEAN, NEW once \in BOOLEAN,
           \A d \in dialogs : d.op \in Names,
           \A d, e \in dialogs : d.on = "row" /\ e.on # "row" => d.op # e.op
    PROVE  Apart(Provider(dialogs, flips, once))
<1> DEFINE p == Provider(dialogs, flips, once)
<1>1. /\ p.byRow = {d.op : d \in {e \in dialogs : e.on = "row"}}
      /\ p.byTicks = {d.op : d \in {e \in dialogs : e.on = "ticked"}}
      /\ p.plain = {d.op : d \in {e \in dialogs : e.on = "nothing"}}
  BY Offers
<1> HIDE DEF p
<1>2. Apart(p)
  BY <1>1 DEF Apart
<1> QED BY <1>2 DEF p

LEMMA DialogsApart ==
    /\ Apart(UsersProvider) /\ Apart(ModelsProvider) /\ Apart(DatasetsProvider)
    /\ Apart(ApisProvider) /\ Apart(AIAgentsProvider)
<1>1. Apart(UsersProvider)
  <2> DEFINE dialogs == {UsersDeleteDialog, UsersChangePasswordDialog, UsersStatusDialog}
                          \cup UsersActionDialog
  <2>1. /\ \A d \in dialogs : d.op \in Names
        /\ \A d, e \in dialogs : d.on = "row" /\ e.on # "row" => d.op # e.op
    BY DEF UsersDeleteDialog, UsersChangePasswordDialog, UsersStatusDialog, UsersActionDialog, Names,
       ForRow, ForTicked, Plain
  <2> HIDE DEF dialogs
  <2>2. Apart(Provider(dialogs, TRUE, FALSE))
    BY <2>1, ProviderApart
  <2> QED BY <2>2 DEF UsersProvider, dialogs
<1>2. Apart(ModelsProvider)
  <2> DEFINE dialogs == {ModelsDeleteDialog}
  <2>1. /\ \A d \in dialogs : d.op \in Names
        /\ \A d, e \in dialogs : d.on = "row" /\ e.on # "row" => d.op # e.op
    BY DEF ModelsDeleteDialog, Names, ForRow, ForTicked, Plain
  <2> HIDE DEF dialogs
  <2>2. Apart(Provider(dialogs, FALSE, TRUE))
    BY <2>1, ProviderApart
  <2> QED BY <2>2 DEF ModelsProvider, dialogs
<1>3. Apart(DatasetsProvider)
  <2> DEFINE dialogs == {DatasetsAddDialog, DatasetsDeleteDialog}
  <2>1. /\ \A d \in dialogs : d.op \in Names
        /\ \A d, e \in dialogs : d.on = "row" /\ e.on # "row" => d.op # e.op
    BY DEF DatasetsAddDialog, DatasetsDeleteDialog, Names, ForRow, ForTicked, Plain
  <2> HIDE DEF dialogs
  <2>2. Apart(Provider(dialogs, FALSE, TRUE))
    BY <2>1, ProviderApart
  <2> QED BY <2>2 DEF DatasetsProvider, dialogs
<1>4. Apart(ApisProvider)
  <2> DEFINE dialogs == {ApisAddDialog}
  <2>1. /\ \A d \in dialogs : d.op \in Names
        /\ \A d, e \in dialogs : d.on = "row" /\ e.on # "row" => d.op # e.op
    BY DEF ApisAddDialog, Names, ForRow, ForTicked, Plain
  <2> HIDE DEF dialogs
  <2>2. Apart(Provider(dialogs, FALSE, TRUE))
    BY <2>1, ProviderApart
  <2> QED BY <2>2 DEF ApisProvider, dialogs
<1>5. Apart(AIAgentsProvider)
  <2> DEFINE dialogs == {AIAgentsAddDialog, AIAgentsDeleteDialog}
  <2>1. /\ \A d \in dialogs : d.op \in Names
        /\ \A d, e \in dialogs : d.on = "row" /\ e.on # "row" => d.op # e.op
    BY DEF AIAgentsAddDialog, AIAgentsDeleteDialog, Names, ForRow, ForTicked, Plain
  <2> HIDE DEF dialogs
  <2>2. Apart(Provider(dialogs, FALSE, TRUE))
    BY <2>1, ProviderApart
  <2> QED BY <2>2 DEF AIAgentsProvider, dialogs
<1> QED BY <1>1, <1>2, <1>3, <1>4, <1>5

\* Only the users page flips its dialogs; only its form and that of the datasets have a
\* button, only its own has no selects, and only the models' drops the pause.
LEMMA PagesHave ==
    ASSUME kind \in Kinds
    PROVE  /\ Apart(Providers[kind])
           /\ Has("flips") \in BOOLEAN /\ (Has("flips") <=> kind = "users")
           /\ FormHas("byButton") <=> kind \in {"users", "datasets"}
           /\ FormHas("drops") <=> kind = "models"
           /\ FormHas("selects") <=> kind # "users"
           /\ FormHas("onMount") <=> kind = "models"
<1>1. \A k \in Kinds : Apart(Providers[k])
  BY DialogsApart DEF Kinds, Providers
<1>2. Has("flips") \in BOOLEAN /\ (Has("flips") <=> kind = "users")
  <2>1. /\ UsersProvider.flips = TRUE
        /\ ModelsProvider.flips = FALSE /\ DatasetsProvider.flips = FALSE
        /\ ApisProvider.flips = FALSE /\ AIAgentsProvider.flips = FALSE
    BY Offers DEF UsersProvider, ModelsProvider, DatasetsProvider, ApisProvider, AIAgentsProvider
  <2>2. /\ kind = "users" => Providers[kind] = UsersProvider
        /\ kind = "models" => Providers[kind] = ModelsProvider
        /\ kind = "datasets" => Providers[kind] = DatasetsProvider
        /\ kind = "apis" => Providers[kind] = ApisProvider
        /\ kind = "agents" => Providers[kind] = AIAgentsProvider
    BY DEF Providers
  <2> QED BY <2>1, <2>2 DEF Has, Kinds
<1>3. /\ FormHas("byButton") <=> kind \in {"users", "datasets"}
      /\ FormHas("drops") <=> kind = "models"
      /\ FormHas("selects") <=> kind # "users"
      /\ FormHas("onMount") <=> kind = "models"
  BY DEF FormHas, Kinds, Tables, Form, UsersTable, ModelsTable, DatasetsTable, ApisTable, AIAgentsTable
<1> QED BY <1>1, <1>2, <1>3
-----------------------------------------------------------------------------
(* The server and its answers. *)

\* What is selected is finite, and a page of it lists items.
LEMMA RowsListed ==
    ASSUME PagerTypes, NEW r \in Requests
    PROVE  Rows(r) \in Seq(Items) /\ Cardinality(Selected(r.filter)) \in Nat
<1> DEFINE S == Selected(r.filter)
           all == Ordered[S]
           first == (r.page - 1) * r.size + 1
           last == IF r.page * r.size < Len(all) THEN r.page * r.size ELSE Len(all)
<1>1. S \in SUBSET Items
  BY DEF PagerTypes, Selected
<1>2. all \in Seq(S) /\ ToSet(all) = S
  BY <1>1, ServerLists
<1>3. Len(all) \in Nat /\ DOMAIN all = 1..Len(all) /\ \A i \in 1..Len(all) : all[i] \in S
  BY <1>2
<1>4. Cardinality(S) \in Nat
  <2> HIDE DEF all, S
  <2>0. all \in [1..Len(all) -> S]
    BY <1>2, LenProperties
  <2>1. \A x \in ToSet(all) : \E i \in 1..Len(all) : all[i] = x
    BY <1>3 DEF ToSet
  <2>2. all \in Surjection(1..Len(all), S)
    BY <1>2, <2>0, <2>1 DEF Surjection
  <2>4. ExistsSurjection(1..Len(all), S)
    BY <2>2 DEF ExistsSurjection
  <2>3. IsFiniteSet(S)
    BY <1>3, <2>4, FS_NatSurjection
  <2> QED BY <2>3, FS_CardinalityType
<1>5. r.page - 1 \in Nat /\ r.page \in Nat /\ r.size \in Nat
  BY DEF Requests, Positive
<1>6. (r.page - 1) * r.size \in Nat /\ r.page * r.size \in Nat
  BY <1>5
<1>7. first \in Nat \ {0} /\ last \in Nat /\ last <= Len(all)
  BY <1>3, <1>6
<1>8. \A i \in first..last : all[i] \in Items
  BY <1>1, <1>3, <1>7
<1>9. Rows(r) = IF first > last THEN <<>> ELSE SubSeq(all, first, last)
  BY DEF Rows
<1> HIDE DEF all, first, last, S
<1>10. SubSeq(all, first, last) \in Seq(Items)
  BY <1>7, <1>8, SubSeqProperties
<1>11. <<>> \in Seq(Items)
  OBVIOUS
<1> QED BY <1>4, <1>9, <1>10, <1>11 DEF S

\* Requests are sent that ask for what the pager will show, unless they are stale.
LEMMA Loads ==
    ASSUME LoadInv, NEW rs \in SUBSET Requests, NEW k \in Nat \ {0}, Cardinality(rs) = k, load(rs),
           \A r \in rs : r.n <= sent + k /\ (~r.stale => r.page = page' /\ r.size = size'),
           kind' = kind, \A r \in rs : r.leads # {} => kind = "apis"
    PROVE  LoadInv'
<1>1. sent' = sent + k /\ shown' = shown /\ loading' = TRUE /\ reqs' = reqs \cup rs
  BY DEF load
<1>2. sent \in Nat /\ reqs \subseteq Requests /\ shown \in Answers
  BY DEF LoadInv, LoadTypes
<1>3. LoadTypes'
  BY <1>1, <1>2 DEF LoadTypes
<1>4. \A n \in Nat : n <= sent => n <= sent + k /\ n # sent + k
  BY <1>2
<1>5. shown.n \in Nat /\ shown.n <= sent /\ \A r \in reqs : r.n \in Nat /\ r.n <= sent
  BY <1>2 DEF Answers, Requests, LoadInv, Latest, Matches
<1>6. Matches(shown)'
  BY <1>1, <1>4, <1>5 DEF Matches
<1>7. ASSUME NEW r \in reqs' PROVE Matches(r)'
  <2>1. CASE r \in rs
    BY <1>1, <2>1 DEF Matches
  <2>2. CASE r \in reqs
    BY <1>1, <1>4, <1>5, <2>2 DEF Matches
  <2> QED BY <1>1, <2>1, <2>2
<1>8. Leading'
  BY <1>1 DEF LoadInv, Leading
<1> QED BY <1>3, <1>6, <1>7, <1>8 DEF LoadInv, Latest

\* One request is sent.
LEMMA LoadsOne ==
    ASSUME LoadInv, NEW p \in Positive, NEW s \in Positive, NEW f \in Filters,
           NEW from \in BOOLEAN, NEW d \in Names \cup {None}, NEW to \in SUBSET (Items \cup {None}),
           load({Request(sent + 1, p, s, f, from, d, to)}), ~from => p = page' /\ s = size',
           kind' = kind, to # {} => kind = "apis"
    PROVE  LoadInv' /\ \A r \in reqs' : r \in reqs \/ r.flip = d
<1> DEFINE q == Request(sent + 1, p, s, f, from, d, to)
<1>1. Cardinality({q}) = 1
  BY FS_Singleton
<1>2. sent \in Nat
  BY DEF LoadInv, LoadTypes
<1>3. /\ q \in Requests /\ q.n = sent + 1 /\ q.page = p /\ q.size = s /\ q.stale = from
      /\ q.flip = d /\ q.leads = to
  BY <1>2 DEF Request, Requests
<1>4. reqs' = reqs \cup {q}
  BY DEF load
<1>5. load({q})
  OBVIOUS
<1> HIDE DEF q
<1>6. \A r \in {q} : r.n <= sent + 1 /\ (~r.stale => r.page = page' /\ r.size = size')
  BY <1>2, <1>3
<1>7. {q} \in SUBSET Requests /\ \A r \in {q} : r.leads # {} => kind = "apis"
  BY <1>3
<1>8. LoadInv'
  BY <1>1, <1>5, <1>6, <1>7, Loads
<1> QED BY <1>3, <1>4, <1>8

\* Two are, for the first page.
LEMMA LoadsTwo ==
    ASSUME LoadInv, NEW s \in Positive, NEW f \in Filters, NEW g \in Filters,
           load({Simple(sent + 1, s, f), Simple(sent + 2, s, g)}),
           page' = 1, size' = s, kind' = kind
    PROVE  LoadInv' /\ \A r \in reqs' : r \in reqs \/ r.flip = None
<1> DEFINE q == Simple(sent + 1, s, f)
           t == Simple(sent + 2, s, g)
<1>1. sent \in Nat
  BY DEF LoadInv, LoadTypes
<1>2. /\ q \in Requests /\ q.n = sent + 1 /\ q.page = 1 /\ q.size = s /\ q.flip = None
      /\ q.leads = {} /\ t.leads = {}
      /\ t \in Requests /\ t.n = sent + 2 /\ t.page = 1 /\ t.size = s /\ t.flip = None
  BY <1>1 DEF Simple, Request, Requests, Positive
<1>3. reqs' = reqs \cup {q, t}
  BY DEF load
<1>4. load({q, t})
  OBVIOUS
<1> HIDE DEF q, t
<1>5. Cardinality({q, t}) = 2
  <2>1. q # t
    BY <1>1, <1>2
  <2>2. IsFiniteSet({q}) /\ Cardinality({q}) = 1 /\ {q, t} = {q} \cup {t} /\ t \notin {q}
    BY <2>1, FS_Singleton
  <2>3. Cardinality({q} \cup {t}) = Cardinality({q}) + 1
    BY <2>2, FS_AddElement
  <2> QED BY <2>2, <2>3
<1>6. \A r \in {q, t} : r.n <= sent + 2 /\ r.page = page' /\ r.size = size'
  BY <1>1, <1>2
<1>7. {q, t} \in SUBSET Requests /\ \A r \in {q, t} : r.leads # {} => kind = "apis"
  BY <1>2
<1>8. LoadInv'
  BY <1>4, <1>5, <1>6, <1>7, Loads
<1> QED BY <1>2, <1>3, <1>8
-----------------------------------------------------------------------------
(* The steps. *)

\* The pager keeps a page and a size, the server lists items.
LEMMA PagerStep == PagerTypes /\ LoadTypes /\ DialogTypes /\ [ListNext]_listVars => PagerTypes'
<1> SUFFICES ASSUME PagerTypes, LoadTypes, DialogTypes, [ListNext]_listVars PROVE PagerTypes'
  OBVIOUS
<1> USE DEF PagerTypes
<1>1. UNCHANGED <<kind, exist, detail, pager>> => PagerTypes'
  BY DEF pager
<1>2. ASSUME NEW p \in 1..Cardinality(Items), handleSetPage(p) PROVE PagerTypes'
  BY <1>2 DEF handleSetPage, Positive
<1>3. ASSUME NEW s \in Sizes, handleSetPageSize(s) PROVE PagerTypes'
  BY <1>3 DEF handleSetPageSize, Sizes, Positive
<1>4. ASSUME PauseOver \/ handleSearchKeyDown \/ selectFilter \/ handleSearch PROVE PagerTypes'
  BY <1>4 DEF PauseOver, handleSearchKeyDown, selectFilter, handleSearch, search, apply, Positive
<1>5. CASE handleClear
  <2>1. kind' = kind /\ exist' = exist /\ detail' = detail /\ size' = size
    BY <1>5 DEF handleClear
  <2>2. page' \in {1, page}
    <3>1. CASE kind = "users"
      BY <1>5, <3>1 DEF handleClear
    <3>2. CASE kind = "datasets"
      BY <1>5, <3>2 DEF handleClear, search, apply
    <3>3. CASE kind = "models"
      BY <1>5, <3>3 DEF handleClear
    <3> QED BY <1>5, <3>1, <3>2, <3>3 DEF handleClear
  <2> QED BY <2>1, <2>2 DEF Positive
<1>6. ASSUME NEW w \in work, WorkDone(w) PROVE PagerTypes'
  <2>1. kind' = kind /\ page' = page /\ size' = size /\ detail' \in {detail, None}
    BY <1>6 DEF WorkDone, pager
  <2>2. (\E i \in Items : Effect(w, i)) /\ w.ids \subseteq Items
    BY <1>6 DEF WorkDone, DialogTypes
  <2>3. exist' \subseteq Items
    BY <2>2 DEF Effect
  <2> QED BY <2>1, <2>3
<1>7. ASSUME NEW r \in reqs, Answer(r) PROVE PagerTypes'
  <2>1. kind' = kind /\ exist' = exist /\ page' = page /\ size' = size
        /\ detail' \in IF r.leads = {} THEN {detail} ELSE r.leads
    BY <1>7 DEF Answer, Show, pager
  <2>2. r.leads \subseteq Items \cup {None}
    BY DEF LoadTypes, Requests
  <2> QED BY <2>1, <2>2
<1>8. ASSUME NEW i \in Sizes, toggleRow(i) PROVE PagerTypes'
  BY <1>1, <1>8 DEF toggleRow
<1>9. ASSUME NEW d \in Dialogs, OpenPlain(d) \/ OpenTicked(d) \/ \E i \in Items : OpenRow(d, i)
      PROVE  PagerTypes'
  BY <1>1, <1>9 DEF OpenPlain, OpenTicked, OpenRow
<1>10. ASSUME handleSearchChange \/ resetRowSelection \/ Dismiss \/ ClearRow \/ Confirm
       PROVE  PagerTypes'
  BY <1>1, <1>10 DEF handleSearchChange, resetRowSelection, Dismiss, ClearRow, Confirm
<1>11. ASSUME NEW w \in work, WorkFailed(w) PROVE PagerTypes'
  BY <1>1, <1>11 DEF WorkFailed
<1>12. CASE UNCHANGED listVars
  BY <1>1, <1>12 DEF listVars
<1>13. ASSUME NEW i \in Items, openDetail(i) PROVE PagerTypes'
  BY <1>13 DEF openDetail, Show, pager
<1>14. CASE closeDetail
  BY <1>14 DEF closeDetail, search, apply, Positive
<1>15. ASSUME NEW op \in {"edit", "delete"}, DetailCall(op) PROVE PagerTypes'
  BY <1>1, <1>15 DEF DetailCall
<1> QED BY <1>2, <1>3, <1>4, <1>5, <1>6, <1>7, <1>8, <1>9, <1>10, <1>11, <1>12, <1>13, <1>14,
           <1>15 DEF ListNext

\* The ends of a sequence that grows at one and shrinks at the other.
LEMMA Ends ==
    ASSUME NEW S, NEW q \in Seq(S)
    PROVE  /\ \A e \in S : /\ Append(q, e) \in Seq(S) /\ Append(q, e) # <<>>
                           /\ Append(q, e)[Len(Append(q, e))] = e
           /\ q # <<>> => /\ Head(q) \in S /\ Tail(q) \in Seq(S)
                          /\ q[Len(q)] = IF Tail(q) = <<>> THEN Head(q) ELSE Tail(q)[Len(Tail(q))]
<1>1. ASSUME NEW e \in S
      PROVE  /\ Append(q, e) \in Seq(S) /\ Append(q, e) # <<>>
             /\ Append(q, e)[Len(Append(q, e))] = e
  BY AppendProperties
<1>2. ASSUME q # <<>>
      PROVE  /\ Head(q) \in S /\ Tail(q) \in Seq(S)
             /\ q[Len(q)] = IF Tail(q) = <<>> THEN Head(q) ELSE Tail(q)[Len(Tail(q))]
  <2>1. Head(q) \in S /\ Tail(q) \in Seq(S) /\ Len(q) \in Nat /\ Len(q) >= 1
    BY <1>2, HeadTailProperties, EmptySeq, LenProperties
  <2>2. Len(Tail(q)) = Len(q) - 1 /\ Head(q) = q[1]
        /\ \A k \in 1..Len(Tail(q)) : Tail(q)[k] = q[k + 1]
    BY <1>2, HeadTailProperties
  <2>3. CASE Tail(q) = <<>>
    <3> DEFINE t == Tail(q)
    <3> HIDE DEF t
    <3>1. t = <<>> /\ Len(<<>>) = 0
      BY <2>3, EmptySeq DEF t
    <3>2. Len(t) = 0 /\ Len(t) = Len(q) - 1
      BY <2>2, <3>1 DEF t
    <3>3. Len(q) = 1
      BY <2>1, <3>2
    <3> QED BY <2>2, <2>3, <3>3
  <2>4. CASE Tail(q) # <<>>
    <3>1. Len(Tail(q)) # 0
      BY <2>1, <2>4, EmptySeq
    <3>2. Len(Tail(q)) \in 1..Len(Tail(q)) /\ Len(Tail(q)) + 1 = Len(q)
      BY <2>1, <2>2, <3>1
    <3> QED BY <2>2, <2>4, <3>2
  <2> QED BY <2>1, <2>3, <2>4
<1> QED BY <1>1, <1>2

\* What a form applies, at once or after the pause, is what it shows.
LEMMA FormStep ==
    PagerTypes /\ LoadTypes /\ Leading /\ FormInv /\ [ListNext]_listVars => FormInv'
<1> SUFFICES ASSUME PagerTypes, LoadTypes, Leading, FormInv, [ListNext]_listVars PROVE FormInv'
  OBVIOUS
<1>0. /\ box \in Filters /\ applied \in Filters /\ pause \in Searches \cup {None}
      /\ strays \in Seq(Searches) /\ astray \in BOOLEAN /\ Pausing /\ kind \in Kinds
      /\ size \in Positive /\ None \notin Searches /\ None \notin Items
      /\ FormHas("byButton") <=> kind \in {"users", "datasets"}
      /\ FormHas("drops") <=> kind = "models"
      /\ FormHas("selects") <=> kind # "users"
      /\ FormHas("onMount") <=> kind = "models"
      /\ FormHas("onMount") \in BOOLEAN
  <2>1. None \notin Searches
    <3>1. Searches \subseteq [filter : [text : BOOLEAN, status : BOOLEAN], size : Nat]
      BY DEF Searches, Filters, Positive
    <3> QED BY <3>1, NoneIsNothing
  <2>2. FormHas("onMount") \in BOOLEAN
    <3>1. /\ Tables["users"].onMount = FALSE /\ Tables["models"].onMount = TRUE
          /\ Tables["datasets"].onMount = FALSE /\ Tables["apis"].onMount = FALSE
          /\ Tables["agents"].onMount = FALSE
      BY DEF Tables, Form, UsersTable, ModelsTable, DatasetsTable, ApisTable, AIAgentsTable
    <3>2. FormHas("onMount") = TRUE \/ FormHas("onMount") = FALSE
      BY <3>1 DEF PagerTypes, Kinds, FormHas
    <3> QED BY <3>2
  <2> QED BY <2>1, <2>2, PagesHave, NoneIsNothing DEF FormInv, FormTypes, PagerTypes
<1>1. kind' = kind
  BY DEF ListNext, listVars, Answer, handleSetPage, handleSetPageSize, handleSearchChange,
     PauseOver, handleSearchKeyDown, selectFilter, handleSearch, handleClear, toggleRow,
     resetRowSelection, OpenPlain, OpenTicked, OpenRow, Dismiss, ClearRow, Confirm, WorkDone,
     WorkFailed, openDetail, closeDetail, DetailCall
<1>2. ASSUME UNCHANGED form, detail' = detail \/ (kind = "agents" /\ detail' = None) PROVE FormInv'
  BY <1>0, <1>1, <1>2 DEF form, FormInv, FormTypes, Pausing, Follows, Due
<1>3. CASE handleSearchChange
  <2> DEFINE q == [filter |-> box', size |-> size]
  <2>1. /\ box' \in Filters /\ box'.status = box.status /\ applied' = applied /\ strays' = strays
        /\ astray' = astray /\ detail' = detail /\ detail = None
    BY <1>0, <1>3 DEF handleSearchChange, AtTable, Filters
  <2>2. pause' = IF FormHas("byButton") THEN None ELSE q
    BY <1>3 DEF handleSearchChange
  <2>3. q \in Searches /\ q.filter = box'
    BY <1>0, <2>1 DEF Searches
  <2> HIDE DEF q
  <2>4. FormTypes'
    BY <1>0, <2>1, <2>2, <2>3 DEF FormTypes
  <2>5. pause' # None <=> ~FormHas("byButton")
    BY <1>0, <2>2, <2>3
  <2>6. kind \in {"apis", "agents"} => Due'.text = box'.text
    BY <1>0, <2>2, <2>3, <2>5 DEF Due
  <2> QED BY <1>0, <1>1, <2>1, <2>2, <2>3, <2>4, <2>5, <2>6 DEF FormInv, Pausing, Follows
<1>4. CASE PauseOver
  <2>1. box' = box /\ detail' = detail
    BY <1>4 DEF PauseOver
  <2>2. CASE strays # <<>>
    <3>1. /\ applied' = Head(strays).filter /\ strays' = Tail(strays) /\ pause' = pause
          /\ astray' = FormHas("onMount")
      BY <1>4, <2>2 DEF PauseOver, apply
    <3>2. /\ Head(strays) \in Searches /\ Tail(strays) \in Seq(Searches)
          /\ strays[Len(strays)] = IF Tail(strays) = <<>> THEN Head(strays)
                                   ELSE Tail(strays)[Len(Tail(strays))]
      BY <1>0, <2>2, Ends
    <3>3. FormTypes'
      BY <1>0, <2>1, <3>1, <3>2 DEF FormTypes, Searches
    <3>4. Due' = Due
      BY <2>2, <3>1, <3>2 DEF Due
    <3>5. kind \notin {"users", "datasets"}
      BY <1>0, <2>2 DEF Pausing
    <3> QED BY <1>0, <1>1, <2>1, <3>1, <3>3, <3>4, <3>5 DEF FormInv, Pausing, Follows
  <2>3. CASE strays = <<>>
    <3>1. /\ pause # None /\ applied' = pause.filter /\ pause' = None /\ strays' = strays
          /\ astray' = FALSE
      BY <1>4, <2>3 DEF PauseOver, apply
    <3>2. FormTypes'
      BY <1>0, <2>1, <3>1 DEF FormTypes, Searches
    <3>3. Due' = Due
      BY <2>3, <3>1 DEF Due
    <3>4. kind \notin {"users", "datasets"}
      BY <1>0, <3>1 DEF Pausing
    <3> QED BY <1>0, <1>1, <2>1, <3>1, <3>2, <3>3, <3>4 DEF FormInv, Pausing, Follows
  <2> QED BY <2>2, <2>3
<1>5. CASE handleSearchKeyDown
  <2>1. /\ box' = box /\ applied' = box /\ strays' = strays /\ detail' = detail /\ astray' = FALSE
        /\ pause' = IF FormHas("drops") THEN None ELSE pause
        /\ kind \notin {"users", "datasets"}
    BY <1>0, <1>5 DEF handleSearchKeyDown, search, apply
  <2>2. FormTypes'
    BY <1>0, <2>1 DEF FormTypes
  <2>3. kind \in {"apis", "agents"} => Due'.text = box'.text
    BY <1>0, <2>1 DEF Due, Pausing
  <2> QED BY <1>0, <1>1, <2>1, <2>2, <2>3 DEF FormInv, Pausing, Follows
<1>6. CASE selectFilter
  <2>1. /\ box' \in Filters /\ box'.text = box.text /\ applied' = box' /\ strays' = strays
        /\ detail' = detail /\ astray' = FALSE
        /\ pause' = IF FormHas("drops") THEN None ELSE pause
    BY <1>0, <1>6 DEF selectFilter, search, apply, Filters
  <2>2. FormTypes'
    BY <1>0, <2>1 DEF FormTypes
  <2>3. kind \in {"apis", "agents"} => Due'.text = box'.text
    BY <1>0, <2>1 DEF Due, Pausing
  <2> QED BY <1>0, <1>1, <2>1, <2>2, <2>3 DEF FormInv, Pausing, Follows
<1>7. CASE handleSearch
  <2>1. /\ kind \in {"users", "datasets"} /\ box' = box /\ applied' = box /\ pause' = pause
        /\ strays' = strays /\ detail' = detail /\ astray' = FALSE
    BY <1>0, <1>7 DEF handleSearch, search, apply
  <2> QED BY <1>0, <1>1, <2>1 DEF FormInv, FormTypes, Pausing
<1>8. CASE handleClear
  <2>1. NoFilter \in Filters
    BY DEF NoFilter, Filters
  <2>2. /\ box' = NoFilter /\ pause' = None /\ strays' = strays /\ detail' = detail
        /\ kind \in {"users", "datasets", "models"}
    BY <1>8 DEF handleClear
  <2>3. kind = "users" => applied' = applied /\ astray' = astray
    BY <1>8 DEF handleClear
  <2>4. kind = "datasets" => applied' = NoFilter /\ astray' = FALSE
    BY <1>8 DEF handleClear, search, apply
  <2>5. kind = "models" => applied' = NoFilter /\ astray' = FALSE
    BY <1>8 DEF handleClear
  <2>6. FormTypes'
    BY <1>0, <2>1, <2>2, <2>3, <2>4, <2>5 DEF FormTypes
  <2> QED BY <1>0, <1>1, <2>2, <2>3, <2>4, <2>5, <2>6 DEF FormInv, Pausing, Follows
<1>9. ASSUME NEW d \in Items \cup {None}, Show(d), UNCHANGED <<box, applied, astray>>,
             kind = "models" => (detail = None /\ d # None) \/ d = detail,
             kind \in {"users", "datasets"} => d = detail \/ pause = None
      PROVE  FormInv'
  <2>1. detail' = d
    BY <1>9 DEF Show
  <2>2. CASE detail = None /\ d # None /\ pause # None
    <3>1. strays' = Append(strays, pause) /\ pause' = None
      BY <1>9, <2>2 DEF Show
    <3>2. /\ strays' \in Seq(Searches) /\ strays' # <<>> /\ strays'[Len(strays')] = pause
      BY <1>0, <2>2, <3>1, Ends
    <3>3. FormTypes'
      BY <1>0, <1>9, <3>1, <3>2 DEF FormTypes
    <3>4. Due' = Due
      BY <2>2, <3>1, <3>2 DEF Due
    <3>5. kind \notin {"users", "datasets"}
      BY <1>0, <2>2 DEF Pausing
    <3> QED BY <1>0, <1>1, <1>9, <2>1, <2>2, <3>1, <3>3, <3>4, <3>5 DEF FormInv, Pausing, Follows
  <2>3. CASE ~(detail = None /\ d # None /\ pause # None)
    <3>1. strays' = strays /\ pause' = pause
      BY <1>9, <2>3 DEF Show
    <3>2. FormTypes'
      BY <1>0, <1>9, <3>1 DEF FormTypes
    <3>3. Due' = Due
      BY <1>9, <3>1 DEF Due
    <3>4. detail' # None => pause' = None
      BY <1>0, <2>1, <2>3, <3>1 DEF Pausing
    <3> QED BY <1>0, <1>1, <1>9, <2>1, <3>1, <3>2, <3>3, <3>4 DEF FormInv, Pausing, Follows
  <2> QED BY <2>2, <2>3
<1>10. ASSUME NEW r \in reqs, Answer(r) PROVE FormInv'
  <2>1. PICK d \in IF r.leads = {} THEN {detail} ELSE r.leads : Show(d)
    BY <1>10 DEF Answer
  <2>2. r.leads \subseteq Items \cup {None} /\ (r.leads # {} => kind = "apis")
    BY DEF LoadTypes, Requests, Leading
  <2>3. d \in Items \cup {None} /\ UNCHANGED <<box, applied, astray>>
    BY <1>10, <2>1, <2>2 DEF Answer, PagerTypes
  <2> QED BY <1>9, <2>1, <2>2, <2>3
<1>11. ASSUME NEW i \in Items, openDetail(i) PROVE FormInv'
  BY <1>0, <1>9, <1>11 DEF openDetail, AtTable
<1>12. CASE closeDetail
  <2>1. pause' = pause /\ strays' = strays /\ detail' = None /\ detail # None
    BY <1>12 DEF closeDetail
  <2>2. CASE kind = "models"
    <3>1. box' = NoFilter /\ applied' = NoFilter /\ astray' = FALSE /\ NoFilter \in Filters
      BY <1>0, <1>12, <2>2 DEF closeDetail, search, apply, NoFilter, Filters
    <3> QED BY <1>0, <1>1, <2>1, <2>2, <3>1 DEF FormInv, FormTypes, Pausing, Follows
  <2>3. CASE kind # "models"
    <3>1. UNCHANGED <<box, applied, astray>>
      BY <1>0, <1>12, <2>3 DEF closeDetail
    <3> QED BY <1>0, <1>1, <2>1, <2>3, <3>1 DEF FormInv, FormTypes, Pausing, Due
  <2> QED BY <2>2, <2>3
<1>13. ASSUME (\E p \in 1..Cardinality(Items) : handleSetPage(p))
                 \/ (\E s \in Sizes : handleSetPageSize(s)) \/ (\E i \in Sizes : toggleRow(i))
                 \/ resetRowSelection \/ Dismiss \/ ClearRow \/ Confirm
                 \/ \E op \in {"edit", "delete"} : DetailCall(op)
       PROVE  FormInv'
  BY <1>2, <1>13 DEF handleSetPage, handleSetPageSize, toggleRow, resetRowSelection, Dismiss,
     ClearRow, Confirm, DetailCall
<1>14. ASSUME NEW d \in Dialogs, OpenPlain(d) \/ OpenTicked(d) \/ \E i \in Items : OpenRow(d, i)
       PROVE  FormInv'
  BY <1>2, <1>14 DEF OpenPlain, OpenTicked, OpenRow
<1>15. ASSUME NEW w \in work, WorkDone(w) \/ WorkFailed(w) PROVE FormInv'
  BY <1>2, <1>15 DEF WorkDone, WorkFailed
<1>16. CASE UNCHANGED listVars
  BY <1>2, <1>16 DEF listVars
<1> QED BY <1>3, <1>4, <1>5, <1>6, <1>7, <1>8, <1>10, <1>11, <1>12, <1>13, <1>14, <1>15, <1>16
        DEF ListNext

\* The last request asks for the page and the size that the pager shows.
LEMMA LoadStep ==
    PagerTypes /\ FormTypes /\ LoadInv /\ DialogTypes /\ [ListNext]_listVars => LoadInv'
<1> SUFFICES ASSUME PagerTypes, FormTypes, LoadInv, DialogTypes, [ListNext]_listVars PROVE LoadInv'
  OBVIOUS
<1>0. /\ page \in Positive /\ size \in Positive /\ applied \in Filters /\ box \in Filters
      /\ pause \in Searches \cup {None} /\ strays \in Seq(Searches)
      /\ NoFilter \in Filters /\ 1 \in Positive
      /\ sent \in Nat /\ reqs \subseteq Requests /\ shown \in Answers
  BY DEF PagerTypes, FormTypes, LoadInv, LoadTypes, Positive, NoFilter, Filters
<1>k. kind' = kind
  BY DEF ListNext, listVars, Answer, handleSetPage, handleSetPageSize, handleSearchChange,
     PauseOver, handleSearchKeyDown, selectFilter, handleSearch, handleClear, toggleRow,
     resetRowSelection, OpenPlain, OpenTicked, OpenRow, Dismiss, ClearRow, Confirm, WorkDone,
     WorkFailed, openDetail, closeDetail, DetailCall
<1>1. UNCHANGED <<pager, list>> => LoadInv'
  BY <1>k DEF pager, list, LoadInv, LoadTypes, Latest, Matches, Leading
<1>2. ASSUME NEW p \in Positive, NEW s \in Positive, NEW f \in Filters, loadNow(p, s, f),
             page' = p, size' = size
      PROVE  LoadInv'
  <2>1. (s # size) \in BOOLEAN /\ {} \in SUBSET (Items \cup {None}) /\ None \in Names \cup {None}
    OBVIOUS
  <2> QED BY <1>0, <1>2, <1>k, <2>1, LoadsOne DEF loadNow
<1>a. ASSUME NEW s \in Positive, NEW f \in Filters, apply(f, s), size' = size PROVE LoadInv'
  BY <1>0, <1>2, <1>a DEF apply
<1>3. ASSUME NEW r \in reqs, Answer(r) PROVE LoadInv'
  <2>1. loading' = FALSE /\ reqs' = reqs \ {r} /\ sent' = sent /\ page' = page /\ size' = size
    BY <1>3 DEF Answer, pager
  <2>2. Matches(r) /\ Matches(shown) /\ r \in Requests
    BY <1>0 DEF LoadInv, Latest
  <2>3. shown' \in Answers /\ Matches(shown)'
    <3>1. CASE Answered(r)
      <4>1. Rows(r) \in Seq(Items) /\ Cardinality(Selected(r.filter)) \in Nat
        BY <2>2, RowsListed
      <4>2. shown' = [n |-> r.n, page |-> r.page, size |-> r.size, filter |-> r.filter,
                      stale |-> r.stale, rows |-> Rows(r),
                      total |-> Cardinality(Selected(r.filter))]
        BY <3>1 DEF Answered
      <4>3. shown' \in Answers /\ shown'.n = r.n /\ shown'.page = r.page /\ shown'.size = r.size
            /\ shown'.stale = r.stale
        BY <2>2, <4>1, <4>2 DEF Answers, Requests
      <4> QED BY <2>1, <2>2, <4>3 DEF Matches
    <3>2. CASE shown' = shown
      BY <1>0, <2>1, <2>2, <3>2 DEF Matches
    <3> QED BY <1>3, <3>1, <3>2 DEF Answer
  <2> QED BY <1>0, <1>k, <2>1, <2>3 DEF LoadInv, LoadTypes, Latest, Matches, Leading
<1>4. ASSUME NEW p \in 1..Cardinality(Items), handleSetPage(p) PROVE LoadInv'
  BY <1>0, <1>2, <1>4 DEF handleSetPage, Positive
<1>5. ASSUME NEW s \in Sizes, handleSetPageSize(s) PROVE LoadInv'
  <2>1. s \in Positive
    BY DEF Sizes, Positive
  <2> QED BY <1>0, <1>5, <1>k, <2>1, LoadsTwo DEF handleSetPageSize
<1>6. ASSUME handleSearchKeyDown \/ handleSearch PROVE LoadInv'
  BY <1>0, <1>6, <1>a DEF handleSearchKeyDown, handleSearch, search
<1>p. CASE PauseOver
  <2>1. size' = size /\ \E q \in Searches : apply(q.filter, q.size)
    <3>1. strays # <<>> => Head(strays) \in Searches
      BY <1>0, Ends
    <3> QED BY <1>0, <1>p, <3>1 DEF PauseOver
  <2>2. \A q \in Searches : q.filter \in Filters /\ q.size \in Positive
    BY DEF Searches
  <2> QED BY <1>a, <2>1, <2>2
<1>7. CASE selectFilter
  <2>1. box' \in Filters
    BY <1>0, <1>7 DEF selectFilter, Filters
  <2> QED BY <1>0, <1>7, <1>a, <2>1 DEF selectFilter, search
<1>d. CASE closeDetail
  <2>1. CASE FormHas("onMount")
    BY <1>0, <1>a, <1>d, <2>1 DEF closeDetail, search
  <2>2. CASE ~FormHas("onMount")
    BY <1>1, <1>d, <2>2 DEF closeDetail, pager
  <2> QED BY <2>1, <2>2
<1>8. CASE handleClear
  <2>1. CASE kind = "users"
    BY <1>1, <1>8, <2>1 DEF handleClear, pager
  <2>2. CASE kind = "datasets"
    BY <1>0, <1>8, <1>a, <2>2 DEF handleClear, search
  <2>3. CASE kind = "models"
    <3>1. /\ page' = 1 /\ size' = size
          /\ load({Simple(sent + i, size, NoFilter) : i \in IF box.status THEN 1..2 ELSE 1..1})
      BY <1>8, <2>3 DEF handleClear
    <3>2. CASE box.status
      <4>1. {Simple(sent + i, size, NoFilter) : i \in 1..2}
              = {Simple(sent + 1, size, NoFilter), Simple(sent + 2, size, NoFilter)}
        OBVIOUS
      <4> QED BY <1>0, <1>k, <3>1, <3>2, <4>1, LoadsTwo
    <3>3. CASE ~box.status
      <4>1. {Simple(sent + i, size, NoFilter) : i \in 1..1} = {Simple(sent + 1, size, NoFilter)}
        OBVIOUS
      <4>2. load({Request(sent + 1, 1, size, NoFilter, FALSE, None, {})})
        BY <3>1, <3>3, <4>1 DEF Simple
      <4>3. {} \in SUBSET (Items \cup {None}) /\ None \in Names \cup {None} /\ FALSE \in BOOLEAN
        OBVIOUS
      <4> QED BY <1>0, <1>k, <3>1, <4>2, <4>3, LoadsOne
    <3> QED BY <3>2, <3>3
  <2> QED BY <1>8, <2>1, <2>2, <2>3 DEF handleClear
<1>9. ASSUME NEW w \in work, WorkDone(w) PROVE LoadInv'
  <2>1. /\ page' = page /\ size' = size
        /\ w.page \in Positive /\ w.size \in Positive /\ w.op \in Names
    BY <1>9 DEF WorkDone, pager, DialogTypes
  <2>2. (w.page # page \/ w.size # size) \in BOOLEAN
    OBVIOUS
  <2>3. ASSUME NEW i \in Items, Refresh(w, IF Has("flips") THEN w.op ELSE None, Leads(w, i))
        PROVE  LoadInv'
    <3>1. Leads(w, i) \in SUBSET (Items \cup {None}) /\ (Leads(w, i) # {} => kind = "apis")
      BY DEF Leads
    <3>2. (IF Has("flips") THEN w.op ELSE None) \in Names \cup {None}
      BY <2>1
    <3> QED BY <1>0, <1>k, <2>1, <2>2, <2>3, <3>1, <3>2, LoadsOne DEF Refresh
  <2>4. CASE UNCHANGED list
    BY <1>1, <2>1, <2>4 DEF pager
  <2> QED BY <1>9, <2>3, <2>4 DEF WorkDone
<1>10. ASSUME NEW w \in work, WorkFailed(w) PROVE LoadInv'
  BY <1>1, <1>10 DEF WorkFailed
<1>11. ASSUME NEW i \in Sizes, toggleRow(i) PROVE LoadInv'
  BY <1>1, <1>11 DEF toggleRow
<1>12. ASSUME NEW d \in Dialogs, OpenPlain(d) \/ OpenTicked(d) \/ \E i \in Items : OpenRow(d, i)
       PROVE  LoadInv'
  BY <1>1, <1>12 DEF OpenPlain, OpenTicked, OpenRow
<1>13. ASSUME handleSearchChange \/ resetRowSelection \/ Dismiss \/ ClearRow \/ Confirm
                 \/ (\E i \in Items : openDetail(i)) \/ (\E op \in {"edit", "delete"} : DetailCall(op))
       PROVE  LoadInv'
  BY <1>1, <1>13 DEF handleSearchChange, resetRowSelection, Dismiss, ClearRow, Confirm, openDetail,
     DetailCall
<1>14. CASE UNCHANGED listVars
  BY <1>1, <1>14 DEF listVars
<1> QED BY <1>3, <1>4, <1>5, <1>6, <1>7, <1>8, <1>9, <1>10, <1>11, <1>12, <1>13, <1>14, <1>p, <1>d
        DEF ListNext

\* What is ticked is listed.
LEMMA TickedItems ==
    ASSUME NEW idx, NEW rows \in Seq(Items)
    PROVE  Ticked(idx, rows) \subseteq Items
BY DEF Ticked

\* A dialog for a row keeps it, where no timer and no answer interferes.
LEMMA DialogStep ==
    PagerTypes /\ LoadTypes /\ DialogInv /\ [ListNext]_listVars => DialogInv'
<1> SUFFICES ASSUME PagerTypes, LoadTypes, DialogInv, [ListNext]_listVars PROVE DialogInv'
  OBVIOUS
<1>0. /\ DialogTypes /\ Steady /\ reqs \subseteq Requests /\ shown.rows \in Seq(Items)
      /\ page \in Positive /\ size \in Positive /\ None \notin Names /\ None \notin Items
      /\ Has("byRow") \subseteq Names /\ Has("byTicks") \subseteq Names /\ Has("plain") \subseteq Names
      /\ Has("byRow") \cap (Has("byTicks") \cup Has("plain")) = {}
      /\ Has("flips") <=> kind = "users"
  BY PagesHave, NoneIsNothing DEF PagerTypes, LoadTypes, DialogInv, Answers, Apart, Has, Names
<1>1. kind' = kind /\ Has("byRow")' = Has("byRow") /\ Has("flips")' = Has("flips")
  <2>1. kind' = kind
    BY DEF ListNext, listVars, Answer, handleSetPage, handleSetPageSize, handleSearchChange,
       PauseOver, handleSearchKeyDown, selectFilter, handleSearch, handleClear, toggleRow,
       resetRowSelection, OpenPlain, OpenTicked, OpenRow, Dismiss, ClearRow, Confirm, WorkDone,
       WorkFailed, openDetail, closeDetail, DetailCall
  <2> QED BY <2>1 DEF Has
<1>2. ASSUME UNCHANGED <<picked, dialog>>, \A r \in reqs' : r \in reqs \/ r.flip = None
      PROVE  DialogInv'
  BY <1>0, <1>1, <1>2 DEF dialog, DialogInv, DialogTypes, Steady
<1>3. \A rs : load(rs) => reqs' = reqs \cup rs
  BY DEF load
<1>4. \A n, p, s, f, from, to : Request(n, p, s, f, from, None, to).flip = None
  BY DEF Request
<1>5. \A f, s : apply(f, s) => \A r \in reqs' : r \in reqs \/ r.flip = None
  BY <1>3, <1>4 DEF apply, loadNow
<1>6. ASSUME NEW r \in reqs, Answer(r) PROVE DialogInv'
  <2>1. /\ Close(r.flip) /\ reqs' = reqs \ {r} /\ r.flip \in Names \cup {None}
        /\ picked' = picked /\ targets' = targets /\ row' = row /\ work' = work
    BY <1>0, <1>6 DEF Answer, Requests
  <2>2. open' \in Names \cup {None} /\ clearing' \in Nat
    BY <1>0, <2>1 DEF Close, DialogTypes
  <2>3. r.flip = None => open' = open /\ clearing' = clearing
    BY <1>0, <2>1 DEF Close
  <2> QED BY <1>0, <1>1, <2>1, <2>2, <2>3 DEF DialogInv, DialogTypes, Steady
<1>7. ASSUME NEW p \in 1..Cardinality(Items), handleSetPage(p) PROVE DialogInv'
  BY <1>2, <1>3, <1>4, <1>7 DEF handleSetPage, loadNow
<1>8. ASSUME NEW s \in Sizes, handleSetPageSize(s) PROVE DialogInv'
  <2> DEFINE q == Simple(sent + 1, s, applied)
             t == Simple(sent + 2, s, NoFilter)
  <2>1. load({q, t}) /\ UNCHANGED <<picked, dialog>>
    BY <1>8 DEF handleSetPageSize
  <2>2. q.flip = None /\ t.flip = None
    BY <1>4 DEF Simple
  <2> HIDE DEF q, t
  <2>3. \A r \in reqs' : r \in reqs \/ r.flip = None
    BY <1>3, <2>1, <2>2
  <2> QED BY <1>2, <2>1, <2>3
<1>9. ASSUME PauseOver \/ handleSearchKeyDown \/ selectFilter \/ handleSearch PROVE DialogInv'
  BY <1>2, <1>5, <1>9 DEF PauseOver, handleSearchKeyDown, selectFilter, handleSearch, search
<1>10. CASE handleClear
  <2>1. CASE kind = "users"
    BY <1>2, <1>10, <2>1 DEF handleClear, list
  <2>2. CASE kind = "datasets"
    BY <1>2, <1>5, <1>10, <2>2 DEF handleClear, search
  <2>3. CASE kind = "models"
    <3> DEFINE new == {Simple(sent + i, size, NoFilter) : i \in IF box.status THEN 1..2 ELSE 1..1}
    <3>1. load(new) /\ UNCHANGED <<picked, dialog>>
      BY <1>10, <2>3 DEF handleClear
    <3>2. \A r \in new : r.flip = None
      <4>1. \A n, t, f : Simple(n, t, f).flip = None
        BY <1>4 DEF Simple
      <4> QED BY <4>1
    <3> HIDE DEF new
    <3>3. \A r \in reqs' : r \in reqs \/ r.flip = None
      BY <1>3, <3>1, <3>2
    <3> QED BY <1>2, <3>1, <3>3
  <2> QED BY <1>10, <2>1, <2>2, <2>3 DEF handleClear
<1>11. CASE handleSearchChange
  BY <1>2, <1>11 DEF handleSearchChange, list
<1>12. ASSUME NEW i \in Sizes, toggleRow(i) PROVE DialogInv'
  <2>1. Ticked(picked', shown.rows) \subseteq Items
    BY <1>0, TickedItems
  <2>2. targets' \subseteq Items
    BY <1>0, <1>12, <2>1 DEF toggleRow, DialogTypes
  <2>3. picked' = (picked \ {i}) \cup ({i} \ picked) /\ i \in Nat
    BY <1>12 DEF toggleRow, Sizes
  <2>4. picked' \subseteq Nat
    BY <1>0, <2>3 DEF DialogTypes
  <2> QED BY <1>0, <1>1, <1>12, <2>2, <2>4 DEF toggleRow, list, DialogInv, DialogTypes, Steady
<1>13. CASE resetRowSelection
  BY <1>0, <1>1, <1>13 DEF resetRowSelection, list, DialogInv, DialogTypes, Steady
<1>14. ASSUME NEW d \in Dialogs, OpenPlain(d) PROVE DialogInv'
  BY <1>0, <1>1, <1>14 DEF OpenPlain, setOpen, list, DialogInv, DialogTypes, Steady
<1>15. ASSUME NEW d \in Dialogs, OpenTicked(d) PROVE DialogInv'
  <2>1. targets' \subseteq Items
    BY <1>0, <1>15, TickedItems DEF OpenTicked, DialogTypes
  <2> QED BY <1>0, <1>1, <1>15, <2>1 DEF OpenTicked, setOpen, list, DialogInv, DialogTypes, Steady
<1>16. ASSUME NEW d \in Dialogs, NEW i \in Items, OpenRow(d, i) PROVE DialogInv'
  <2>1. row' \in Items
    BY <1>0, <1>16 DEF OpenRow
  <2> QED BY <1>0, <1>1, <1>16, <2>1 DEF OpenRow, setOpen, list, DialogInv, DialogTypes, Steady
<1>17. CASE Dismiss
  <2>1. CASE Has("flips")
    BY <1>0, <1>1, <1>17, <2>1 DEF Dismiss, Close, list, DialogInv, DialogTypes, Steady
  <2>2. CASE ~Has("flips")
    BY <1>0, <1>1, <1>17, <2>2 DEF Dismiss, list, DialogInv, DialogTypes, Steady
  <2> QED BY <2>1, <2>2
<1>18. CASE ClearRow
  BY <1>0, <1>1, <1>18 DEF ClearRow, list, DialogInv, DialogTypes, Steady
<1>19. CASE Confirm
  <2>1. open \in Names /\ Confirmed \subseteq Items
    BY <1>0, <1>19 DEF Confirm, Modal, Confirmed, DialogTypes
  <2>2. \E id : work' = work \cup {[id |-> id, op |-> open, ids |-> Confirmed, page |-> page, size |-> size]}
    BY <1>19 DEF Confirm, Calls
  <2>3. /\ picked' = picked /\ targets' = targets /\ row' = row /\ open' = open
        /\ clearing' = clearing /\ reqs' = reqs
    BY <1>19 DEF Confirm, list
  <2>4. DialogTypes'
    BY <1>0, <2>1, <2>2, <2>3 DEF DialogTypes
  <2> QED BY <1>0, <1>1, <2>3, <2>4 DEF DialogInv, Steady
<1>23. ASSUME NEW op \in {"edit", "delete"}, DetailCall(op) PROVE DialogInv'
  <2>1. op \in Names /\ {detail} \subseteq Items
    BY <1>23 DEF DetailCall, Names, PagerTypes
  <2>2. \E id : work' = work \cup {[id |-> id, op |-> op, ids |-> {detail}, page |-> page, size |-> size]}
    BY <1>23 DEF DetailCall, Calls
  <2>3. /\ picked' = picked /\ targets' = targets /\ row' = row /\ open' = open
        /\ clearing' = clearing /\ reqs' = reqs
    BY <1>23 DEF DetailCall, list
  <2>4. DialogTypes'
    BY <1>0, <2>1, <2>2, <2>3 DEF DialogTypes
  <2> QED BY <1>0, <1>1, <2>3, <2>4 DEF DialogInv, Steady
<1>24. ASSUME NEW i \in Items, openDetail(i) PROVE DialogInv'
  BY <1>2, <1>24 DEF openDetail, list
<1>25. CASE closeDetail
  <2>1. \A r \in reqs' : r \in reqs \/ r.flip = None
    BY <1>5, <1>25 DEF closeDetail, search, list
  <2> QED BY <1>2, <1>25, <2>1 DEF closeDetail
<1>20. ASSUME NEW w \in work, WorkDone(w) PROVE DialogInv'
  <2>1. /\ work' = work \ {w} /\ clearing' = clearing
        /\ \/ open' = open /\ row' = row /\ picked' = picked /\ targets' = targets
           \/ /\ ~Has("flips") /\ open' = None /\ row' \in {row, None}
              /\ picked' \in {picked, {}} /\ targets' \in {targets, {}}
    BY <1>20 DEF WorkDone
  <2>2. \A r \in reqs' : r \in reqs \/ Has("flips") \/ r.flip = None
    BY <1>3, <1>4, <1>20 DEF WorkDone, Refresh, list
  <2> QED BY <1>0, <1>1, <2>1, <2>2 DEF DialogInv, DialogTypes, Steady
<1>21. ASSUME NEW w \in work, WorkFailed(w) PROVE DialogInv'
  BY <1>0, <1>1, <1>21 DEF WorkFailed, list, DialogInv, DialogTypes, Steady
<1>22. CASE UNCHANGED listVars
  BY <1>2, <1>22 DEF listVars, list
<1> QED BY <1>6, <1>7, <1>8, <1>9, <1>10, <1>11, <1>12, <1>13, <1>14, <1>15, <1>16, <1>17, <1>18,
           <1>19, <1>20, <1>21, <1>22, <1>23, <1>24, <1>25 DEF ListNext
-----------------------------------------------------------------------------
(* The theorems. *)

\* A page mounts with its first requests on the way.
LEMMA InitHolds == ListInit => ListInv
<1> SUFFICES ASSUME ListInit PROVE ListInv
  OBVIOUS
<1>1. kind \in Kinds
  BY DEF ListInit, Providers, Kinds
<1>2. /\ Has("byRow") \subseteq Names /\ None \notin Names
      /\ NoFilter \in Filters /\ 1 \in Positive
  BY <1>1, PagesHave, NoneIsNothing DEF Apart, Has, Names, NoFilter, Filters, Positive
<1>3. PagerTypes
  BY <1>1, <1>2, ServerLists DEF ListInit, PagerTypes
<1>4. FormInv
  <2>1. <<>> \in Seq(Searches)
    OBVIOUS
  <2> QED BY <1>2, <2>1 DEF ListInit, FormInv, FormTypes, Pausing, Follows, Due
<1>5. sent \in Nat /\ page = 1 /\ size = 1
  BY DEF ListInit
<1>7. \A r \in reqs : /\ r \in Requests /\ r.n <= sent /\ r.page = 1 /\ r.size = 1
                       /\ r.flip = None /\ r.leads = {}
  <2>1. reqs = {Simple(1, 1, NoFilter)} /\ sent = 1
    BY DEF ListInit
  <2>2. Simple(1, 1, NoFilter)
          = [n |-> 1, page |-> 1, size |-> 1, filter |-> NoFilter, stale |-> FALSE, flip |-> None,
             leads |-> {}]
    BY DEF Simple, Request
  <2>3. 1 \in Nat /\ {} \in SUBSET (Items \cup {None}) /\ None \in Names \cup {None}
    OBVIOUS
  <2> DEFINE q == Simple(1, 1, NoFilter)
  <2> HIDE DEF q
  <2>4. q = [n |-> 1, page |-> 1, size |-> 1, filter |-> NoFilter, stale |-> FALSE, flip |-> None,
             leads |-> {}] /\ reqs = {q}
    BY <2>1, <2>2 DEF q
  <2>5. q \in Requests
    BY <1>2, <2>3, <2>4 DEF Requests
  <2> QED BY <2>1, <2>4, <2>5
<1>8. shown \in Answers /\ shown.n = 0 /\ shown.page = 1 /\ shown.size = 1
  BY <1>2 DEF ListInit, Answers
<1>9. LoadInv
  <2>1. Matches(shown) /\ \A r \in reqs : Matches(r)
    BY <1>5, <1>7, <1>8 DEF Matches
  <2>2. Latest
    BY <2>1 DEF Latest
  <2>3. LoadTypes
    BY <1>5, <1>7, <1>8 DEF ListInit, LoadTypes
  <2> QED BY <1>7, <2>2, <2>3 DEF LoadInv, Leading
<1>10. DialogInv
  BY <1>2, <1>7 DEF ListInit, DialogInv, DialogTypes, Steady
<1> QED BY <1>3, <1>4, <1>9, <1>10 DEF ListInv

\* The inductive invariant of a list page.
THEOREM ListsInvariant == ListSpec => []ListInv
<1>1. ListInv /\ [ListNext]_listVars => ListInv'
  BY PagerStep, FormStep, LoadStep, DialogStep DEF ListInv, FormInv, LoadInv, DialogInv
<1> QED BY <1>1, InitHolds, PTL DEF ListSpec

\* The state of a list page is well typed, whatever the server lists and however many
\* requests, timers and confirmations there are.
THEOREM ListTypes == ListSpec => []TypeOK
<1>1. ListInv => TypeOK
  BY DEF ListInv, TypeOK, FormInv, LoadInv, DialogInv
<1> QED BY <1>1, ListsInvariant, PTL

\* Rows and pager agree once the last request has been answered last.
THEOREM RowsAnswerAlways == ListSpec => []RowsAnswerThePager
<1>1. ListInv => RowsAnswerThePager
  BY DEF ListInv, LoadInv, Latest, Matches, RowsAnswerThePager
<1> QED BY <1>1, ListsInvariant, PTL

\* A form that applies by itself is applied as it is shown, once no pause is running.
THEOREM FormIsAppliedAlways == ListSpec => []FormIsApplied
<1>1. ListInv => FormIsApplied
  BY PagesHave DEF ListInv, FormInv, Pausing, Follows, Due, PagerTypes, Kinds, FormIsApplied
<1> QED BY <1>1, ListsInvariant, PTL

\* A dialog for a row has one, where closing a dialog does not flip it.
THEOREM OpenDialogKeepsRow == ListSpec => []OpenDialogHasRow
<1>1. ListInv => OpenDialogHasRow
  BY DEF ListInv, DialogInv, Steady, OpenDialogHasRow
<1> QED BY <1>1, ListsInvariant, PTL

\* What an open dialog acts on is not exchanged under it.
THEOREM TargetsKept == ListSpec => DialogKeepsItsTargets
<1>1. ASSUME [ListNext]_listVars, Modal, open' = open
      PROVE  targets' = targets /\ row' \in {row, None}
  <2>1. UNCHANGED <<targets, row>> => targets' = targets /\ row' \in {row, None}
    OBVIOUS
  <2>2. ASSUME NEW w \in work, WorkDone(w) PROVE UNCHANGED <<targets, row>>
    BY <1>1, <2>2 DEF WorkDone, Modal
  <2>3. CASE Dismiss \/ ClearRow
    BY <1>1, <2>3 DEF Dismiss, ClearRow
  <2>4. CASE UNCHANGED listVars
    BY <2>1, <2>4 DEF listVars, dialog
  <2>5. ASSUME NEW r \in reqs, Answer(r) PROVE UNCHANGED <<targets, row>>
    BY <2>5 DEF Answer
  <2>6. ASSUME NEW w \in work, WorkFailed(w) PROVE UNCHANGED <<targets, row>>
    BY <2>6 DEF WorkFailed
  <2>7. CASE PauseOver \/ Confirm
    BY <2>1, <2>7 DEF PauseOver, Confirm, dialog
  <2> QED BY <1>1, <2>1, <2>2, <2>3, <2>4, <2>5, <2>6, <2>7
          DEF ListNext, AtTable, handleSetPage, handleSetPageSize, handleSearchChange,
              handleSearchKeyDown, selectFilter, handleSearch, handleClear, toggleRow,
              resetRowSelection, OpenPlain, OpenTicked, OpenRow, openDetail, closeDetail, DetailCall
<1>2. [ListNext]_listVars
        => [Modal /\ open' = open => targets' = targets /\ row' \in {row, None}]_listVars
  BY <1>1
<1> QED BY <1>2, PTL DEF ListSpec, DialogKeepsItsTargets
================================================================================
