--------------------------- MODULE PanelsProperties ---------------------------
(***************************************************************************)
(* What the data panels of the web application promise, and where they do  *)
(* not: each list of exceptions is what the code does, and is checked to   *)
(* be no longer than it says.                                              *)
(***************************************************************************)
EXTENDS Panels

AllPanels ==
    [dictionaries |-> Dictionaries, words |-> WordsTab, domains |-> DomainsTab,
     standardTerms |-> StandardTermsTab, termDialog |-> TermDialog, codeGroups |-> CodeGroups,
     codeValues |-> CodeValues, compliance |-> ComplianceTab, datasetTerms |-> DatasetTermsTab,
     mapPicker |-> ManualMapPicker, glossary |-> GlossaryPage, taxonomyList |-> TaxonomyList,
     taxonomyTree |-> TaxonomyTree, taxonomyMapping |-> TaxonomyMapping, taxonomyOrder |-> TaxonomyOrder, tags |-> TagsPage, alerts |-> AlertsTab,
     rules |-> RulesTab, comments |-> CommentSection,
     changeRequest |-> ChangeRequestDetailPage, changeRequests |-> ChangeRequestsPage,
     myApprovals |-> MyApprovalsPage, datasetChanges |-> DatasetChangeRequests,
     newChange |-> NewChangeRequestPage, ruleDialog |-> RuleCreateDialog,
     matrix |-> MatrixCard, commentEditor |-> CommentEditor, datasetFields |-> DatasetFields,
     datasetRelations |-> DatasetRelations, datasetSchema |-> DatasetSchema, datasetAi |-> DatasetAi,
     ownerSearch |-> OwnerSearch, avro |-> AvroSchemaCard, datasources |-> DatasourcesPage, topology |-> TopologyPage,
     datasource |-> DatasourceDetail, instances |-> InstancesPanel,
     instanceDialog |-> InstanceDialog, quality |-> QualityTab, ociHub |-> OciHubPage,
     ociModel |-> OciModelDetail, ociFiles |-> FilesTab, ociDashboard |-> OciHubDashboard,
     model |-> ModelsDetail, modelsDashboard |-> ModelsDashboard, metrics |-> MetricsTab,
     downloads |-> DownloadTab, versions |-> VersionsTab, modelLineage |-> ModelLineageTab,
     modelCard |-> ModelCardTab, sample |-> SampleDataTab, lineage |-> LineageTab,
     lineageTargets |-> LineageTargets, lineageMapping |-> LineageMapping,
     relationships |-> RelationshipsTab, schemaHistory |-> SchemaHistoryTab, erd |-> ErdTab,
     graph |-> RelationshipGraph, metadata |-> DatasetMetadataTab, search |-> SearchPage,
     semanticSearch |-> SemanticSearch, federationSearch |-> FederationSearchPanel,
     federationBrowse |-> FederationBrowsePanel,
     federationDataset |-> FederationDatasetDetailView,
     observability |-> FederationObservabilityPanel, localFiles |-> LocalFilesystemBrowser,
     dropUpload |-> DropUpload, fileViewer |-> FileViewerDialog, csv |-> CsvViewer,
     dashboard |-> DashboardPage, header |-> DashboardHeader, agent |-> AIAgentsDetail,
     agentEditors |-> AgentEditors, agentTools |-> AgentTools,
     agentRecords |-> AgentRecords, agentScores |-> AgentScores, api |-> ApisDetail, apiEndpoints |-> EndpointsTab,
     apiAuth |-> AuthTab, apiLineage |-> ApiLineageTab, tryIt |-> EndpointTryIt,
     graphQL |-> GraphQLTryIt, soap |-> SoapTryIt, lint |-> LintTab, usage |-> UsageTab,
     corsForm |-> CorsSettings, assistantForm |-> AssistantSettings,
     changeForm |-> ChangeMgmtSettings, authForm |-> AuthSettings, cacheForm |-> CacheSettings,
     llmForm |-> LLMSettings, embeddingForm |-> EmbeddingSettings,
     notifyForm |-> NotifySettings, emailForm |-> EmailSettings,
     ociForm |-> OciModelRegistrySettings, exportPolicy |-> FederationExportPolicyPanel,
     relationshipForm |-> RelationshipSettings, userDialog |-> UsersActionDialog]

Quiet == jobs = {}

(***************************************************************************)
(* Two ways in which a part follows the selection.                         *)
(***************************************************************************)
\* Steps that bring an answer with a part in it, and a single request for it.
Brings(t, p) == \E i \in DOMAIN t : p \in t[i].parts /\ (~t[i].call \/ t[i].tells)
FetchOf(t, p) == Len(t) = 1 /\ p \in t[1].parts /\ ~t[1].call /\ ~t[1].tells /\ ~t[1].merges

\* A selection empties the part, and the effects that fetch it, and nothing else
\* does, drop their answers once something else is selected ...
Empties(pn, p) ==
    /\ pn.drops /\ p \in pn.clears
    /\ \A o \in pn.ops : ~Brings(o.steps, p) /\ \A t \in o.after : ~Brings(t, p)

\* ... or every selection fetches the part, in one request, and an operation that
\* fetches it too does so for what is selected when it sends the request.
ForThatMoment(o) == o.now \/ (o.steps = <<>> /\ o.typed = {})
KeepsUp(pn, p) ==
    /\ \E t \in pn.select : FetchOf(t, p)
    /\ \A t \in pn.mount \cup pn.select : Brings(t, p) => FetchOf(t, p)
    /\ \A o \in pn.ops :
         /\ p \notin o.typed
         /\ Brings(o.steps, p) => FetchOf(o.steps, p) /\ ~pn.drops /\ o.typed = {}
         /\ \A t \in o.after : Brings(t, p) => FetchOf(t, p) /\ ~pn.drops /\ ForThatMoment(o)

(***************************************************************************)
(* What is shown.                                                          *)
(***************************************************************************)
\* Parts that an operation changes and nothing fetches again: the counts beside
\* the dictionaries, the rules after a rule was added, the runs of an instance
\* after a harvest, a folder after files were dropped on it, the card and the
\* policy of an agent ...
Unfetched ==
    {<<"dictionaries", "counts">>, <<"rules", "rules">>, <<"instances", "runs">>,
     <<"dropUpload", "files">>, <<"agent", "card">>, <<"agentTools", "card">>}
\* ... what a workflow changes after the page fetched it ...
Outrun == {<<"changeRequest", "cr">>, <<"changeRequest", "notifications">>, <<"myApprovals", "inbox">>}
\* ... and the dataset shown from a copy of the time of the click.
Overwritten == {<<"datasetAi", "dataset">>}
Forgotten == Unfetched \cup Outrun \cup Overwritten

\* What an operation changes it fetches afterwards ...
Fresh(s, p) == p \in s.parts /\ ~s.call /\ ~s.merges
FetchedAfter(o, i, p) ==
    \/ \E k \in DOMAIN o.steps : k > i /\ Fresh(o.steps[k], p)
    \/ \E t \in o.after : \E k \in DOMAIN t : Fresh(t[k], p)

\* ... or it shows the answer of its call, or what was typed and saved.
Settled(pn, o, i, p) ==
    \/ FetchedAfter(o, i, p)
    \/ o.steps[i].tells /\ "lost" \notin o.steps[i].deaf
    \/ i = 1 /\ p \in o.typed /\ p \notin pn.views

StaysCurrent(pn, p) ==
    /\ \A t \in pn.mount \cup pn.select \cup UNION {o.after : o \in pn.ops} :
         \A i \in DOMAIN t : p \in t[i].parts => Fresh(t[i], p)
    /\ \A o \in pn.ops : \A i \in DOMAIN o.steps : p \in o.steps[i].parts =>
         ~o.steps[i].merges /\ (o.steps[i].call => ~o.steps[i].lags /\ Settled(pn, o, i, p))
    /\ \A o \in pn.ops : p \in o.typed =>
         /\ o.steps # <<>> /\ o.steps[1].call /\ \A i \in DOMAIN o.steps : ~o.steps[i].lags
         /\ p \notin pn.keyed \/ o.typed = {p}

\* All other parts of all panels are so described.
ASSUME FetchWhatChanged ==
    \A n \in DOMAIN Catalog : \A p \in Catalog[n].parts :
        <<n, p>> \notin Forgotten => StaysCurrent(Catalog[n], p)

\* Once every answer is in, what a panel shows of a part, if it is the answer to the
\* latest request for it, is what the server has: every operation fetches, or shows, all
\* that it changes.  Unless, since that request, one for the part has failed, or a call
\* came to the server that nobody waited for any more: it was lost, or sent along with
\* one that failed (missed).
ShownIsCurrent ==
    Quiet => \A p \in Parts \ missed :
        shown[p].latest /\ shown[p].val # None /\ <<panel.name, p>> \notin Forgotten
            => shown[p].val = srv[p][shown[p].key]

\* Panels whose operations fetch for the page, filter, dictionary, folder or row
\* of the moment they were started.
StaleReloads ==
    {"alerts", "codeGroups", "codeValues", "comments", "datasetTerms", "domains", "instanceDialog",
     "localFiles", "ociHub", "standardTerms", "taxonomyTree",
     "taxonomyMapping", "taxonomyOrder", "termDialog", "words"}

\* In the other panels all that depends on the selection follows it.
ASSUME FollowTheSelection ==
    \A n \in DOMAIN Catalog \ StaleReloads : LET c == Catalog[n] IN
        \A p \in c.keyed : p \in c.parts /\ (Empties(c, p) \/ KeepsUp(c, p))

\* Once every answer is in, a panel shows what is selected, not what was: with
\* answers in order, and in any order where its effects drop the late ones.
SelectionWins ==
    Quiet /\ panel.name \notin StaleReloads =>
        \A p \in panel.keyed \ missed :
            (panel.drops \/ shown[p].latest) /\ shown[p].val # None => shown[p].key = key

(***************************************************************************)
(* What is acted on.                                                       *)
(***************************************************************************)
\* Panels where an answer for what was selected before is shown, and acted on.
LateAnswers == {"tags", "datasources", "termDialog", "instanceDialog", "lineageMapping"}

\* Forms that can be saved when what they edit could not be fetched.
BlindForms ==
    {"assistantForm", "authForm", "cacheForm", "changeForm", "corsForm", "emailForm", "embeddingForm",
     "llmForm", "notifyForm", "exportPolicy", "datasource", "modelCard"}

\* In the other panels operations act on what does not depend on the selection or
\* is emptied by it, and is needed for their button, but for those forms.
ASSUME ActOnWhatFollows ==
    \A n \in DOMAIN Catalog \ LateAnswers : LET c == Catalog[n] IN
        \A o \in c.ops : \A p \in o.uses :
            /\ p \in c.parts /\ (p \notin c.keyed \/ Empties(c, p))
            /\ p \in o.needs \/ n \in BlindForms

\* A button acts on what is selected: whenever it can be pressed, the data it
\* works with was fetched for the row, source or text that is selected.
ActsOnSelected ==
    panel.name \notin LateAnswers =>
        \A o \in panel.ops : Offered(o) =>
            \A p \in o.uses :
                shown[p].key \in {KeyOf(p, key)} \cup IF panel.name \in BlindForms THEN {None} ELSE {}

\* Flags of a panel, but for the ones that mark a row, and for those of a component
\* that every selection mounts anew: the forms of a data source and of a system.
Exclusive ==
    {o.flag : o \in {q \in panel.ops : ~q.perRow}}
        \ ({NoFlag} \cup {o.flag : o \in {q \in panel.ops : q.perRow}} \cup panel.forgets)
Holds(j, f) == IsOp(j) /\ OpOf(j).flag = f

\* Operations behind one flag exclude each other until they have ended: no form is sent
\* twice, no list imported or job started again, by a second click, whatever is selected
\* meanwhile.
OneAtATime == \A f \in Exclusive : \A i, j \in jobs : Holds(i, f) /\ Holds(j, f) => i = j
===============================================================================
