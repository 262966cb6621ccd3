-------------------------------- MODULE Clients --------------------------------
(***************************************************************************)
(* The clients of the web application: the functions through which its     *)
(* panels reach the server, one record for each group of them.  A function *)
(* is a step: what it fetches, or what data of the panels a call of it     *)
(* changes on the server, and how it fails.  All but a few raise an        *)
(* exception when the answer is not ok.  Data is named as the panels name  *)
(* it; a panel that does not show what a call changes is not concerned.    *)
(***************************************************************************)
EXTENDS PanelOps

(***************************************************************************)
(* Tags, glossary, taxonomies, comments.                                   *)
(***************************************************************************)
TagsApi ==
    [fetchTags |-> Fetch({"tags"}), createTag |-> Call({"tags"}),
     fetchTagUsage |-> Fetch({"usage"}), deleteTag |-> Call({"tags"})]

GlossaryApi ==
    [fetchGlossaryTerms |-> Fetch({"terms"}), createGlossaryTerm |-> Call({"terms"}),
     updateGlossaryTerm |-> Call({"terms"}), deleteGlossaryTerm |-> Call({"terms"})]

\* A category holds the datasets that are mapped to it.
TaxonomyApi ==
    [fetchTaxonomies |-> Fetch({"taxonomies"}), createTaxonomy |-> Call({"taxonomies"}),
     deleteTaxonomy |-> Call({"taxonomies"}), fetchTaxonomyTree |-> Fetch({"tree"}),
     createCategory |-> Call({"tree"}), updateCategory |-> Call({"tree"}),
     deleteCategory |-> Call({"tree", "datasets"}),
     addDatasetCategory |-> Call({"tree", "datasets"})]

CommentsApi ==
    [fetchComments |-> Fetch({"comments"}), createComment |-> Call({"comments"}),
     deleteComment |-> Call({"comments"})]

(***************************************************************************)
(* Change requests.  What moves a request is a signal to its workflow: the *)
(* call is answered before the change.                                     *)
(***************************************************************************)
Signal == Lagging(Call({"crs", "cr", "notifications", "inbox"}))

ChangeMgmtApi ==
    [createChangeRequest |-> Call({"crs"}), listChangeRequests |-> Fetch({"crs"}),
     getChangeRequest |-> Fetch({"cr"}), submitChangeRequest |-> Signal,
     submitDecision |-> Signal, listMyInbox |-> Fetch({"inbox"}), cancelChangeRequest |-> Signal,
     listNotifications |-> Fetch({"notifications"})]

(***************************************************************************)
(* Users.                                                                  *)
(***************************************************************************)
UserListApi == [fetchUsers |-> Fetch({"users"}), checkUserExists |-> Fetch({"exists"})]

UserApi ==
    [f \in {"createUser", "modifyUser", "changeUserRole"} |-> Call({"users"})]

(***************************************************************************)
(* Datasets: the dataset, what is put around it, its schema, its sample,   *)
(* and what a language model suggests for it.                              *)
(***************************************************************************)
DatasetsApi ==
    [fetchDatasets |-> Fetch({"datasets"}), fetchDataset |-> Fetch({"dataset"}),
     updateDataset |-> Call({"dataset", "datasets"}), deleteDataset |-> Call({"datasets"})]

DatasetDetailApi ==
    [addDatasetTag |-> Call({"dataset"}), removeDatasetTag |-> Call({"dataset"}),
     addDatasetOwner |-> Call({"dataset"}), removeDatasetOwner |-> Call({"dataset"}),
     updateDatasetProperties |-> Call({"dataset"}),
     updateDatasetSchema |-> Call({"dataset", "snapshots"})]

DatasetSampleApi ==
    [addDatasetGlossaryTerm |-> Call({"dataset"}), removeDatasetGlossaryTerm |-> Call({"dataset"}),
     uploadSampleData |-> Call({"sample"}), deleteSampleData |-> Call({"sample"}),
     convertSampleToParquet |-> Call({"sample"})]

DelimiterApi == [saveDelimiterConfig |-> Call({"config"})]

\* What is generated is stored as suggestions, and answered.
AiApi ==
    [f \in {"generateDescription", "generateSummary", "generateColumns", "suggestTags",
            "detectPII"} |-> Fetch({"aiResult"})]
SuggestionsApi ==
    [applySuggestion |-> Call({"dataset", "suggestions"}),
     applySuggestions |-> Call({"dataset", "suggestions"}), fetchAiStatus |-> Fetch({"aiEnabled"})]

(***************************************************************************)
(* Organisations, systems and the data sources they own: one tree.         *)
(***************************************************************************)
TopologyApi ==
    [f \in {"fetchTopology", "createOrganization", "updateOrganization", "deleteOrganization",
            "createSystem", "updateSystem", "deleteSystem", "assignDatasourceSystem"} |->
        IF f = "fetchTopology" THEN Fetch({"sources"}) ELSE Call({"sources"})]

DatasourcesApi ==
    [createDatasource |-> Call({"sources"}), updateDatasource |-> Call({"sources"}),
     deleteDatasource |-> Call({"sources"}), fetchDeleteImpact |-> Unchecked(Fetch({"impact"})),
     testDatasourceConnection |-> Unchecked(Call({})), saveDatasourceConfig |-> Call({"config"})]

(***************************************************************************)
(* Federation.  A harvest leaves a run, and changes what is mirrored.      *)
(***************************************************************************)
InstancesApi ==
    [listInstances |-> Fetch({"instances"}), createInstance |-> Call({"instances", "stats"}),
     updateInstance |-> Call({"instances", "stats"}), deleteInstance |-> Call({"instances", "stats"}),
     checkHealth |-> Fetch({}), harvestInstance |-> Call({"runs", "stats", "data"}),
     listSyncRuns |-> Fetch({"runs"})]

FederatedDatasetsApi ==
    [federatedSearch |-> Fetch({"results"}), datasetDetail |-> Fetch({"detail"}),
     importDataset |-> Call({"datasets"}), datasetSample |-> Fetch({"sample"}),
     datasetLineage |-> Fetch({"lineage"})]

FederationViewsApi ==
    [browseInstanceDatasets |-> Fetch({"data"}), fetchStats |-> Fetch({"stats"}),
     updateExportPolicy |-> Call({"policy"}), instanceCapabilities |-> Fetch({"caps"})]

(***************************************************************************)
(* The OCI hub, files.                                                     *)
(***************************************************************************)
OciHubApi == [fetchOciModels |-> Fetch({"models"}), updateReadme |-> Call({"detail"})]
OciVersionsApi == [importFromHuggingFace |-> Call({"models", "stats"})]

\* Files are uploaded one by one.
FilesystemApi ==
    [listDirectory |-> Fetch({"files"}), deletePaths |-> Call({"files"}),
     createFolder |-> Call({"files"}), uploadFiles |-> Call({"files"}),
     renamePath |-> Call({"files"})]

(***************************************************************************)
(* Settings.  A test answers how it went and changes nothing.              *)
(***************************************************************************)
Configuration(fetch, update, test) ==
    [f \in {fetch, update, test} |->
        CASE f = fetch -> Fetch({"config"}) [] f = update -> Call({"config"}) [] OTHER -> Call({})]

ObjectStorageApi ==
    [fetchObjectStorageConfig |-> Fetch({"config"}), updateObjectStorageConfig |-> Call({"config"}),
     initializeObjectStorage |-> Call({})]

EmbeddingApi ==
    [backfillEmbeddings |-> Call({"stats"}), clearEmbeddings |-> Call({"stats"}),
     recomputeRelationships |-> Call({}), resolveLineage |-> Call({})]

AuthConfigApi ==
    [fetchAuthSecret |-> Fetch({"secret"}), updateAuthConfig |-> Call({"config", "secret"}),
     initializeKeycloak |-> Call({})]

CorsApi == [updateCorsConfig |-> Call({"config"})]

LlmApi == [bulkGenerate |-> Call({"stats"})]

AssistantApi == Configuration("fetchAssistantConfig", "updateAssistantConfig", "testAssistant")
MailApi == Configuration("fetchMailConfig", "updateMailConfig", "testMail")
NotifyApi == Configuration("fetchNotifyConfig", "updateNotifyConfig", "testNotify")
ChangeMgmtConfigApi == [updateChangeMgmtConfig |-> Call({"config"})]

(***************************************************************************)
(* AI agents.  The card and the policy bundle ("card") are written from    *)
(* the agent each time they are asked for.                                 *)
(***************************************************************************)
AgentApi ==
    [fetchAIAgentDetail |-> Fetch({"agent"}), updateAIAgent |-> Call({"agents", "agent", "card"})]

AgentRowsApi ==
    [f \in {"addAIAgentTool", "deleteAIAgentTool", "addAIAgentMcpServer", "deleteAIAgentMcpServer",
            "addAIAgentLineage", "deleteAIAgentLineage", "addAIAgentVersion"} |->
        Call(IF f \in {"addAIAgentLineage", "deleteAIAgentLineage"} THEN {"agent"} ELSE {"agent", "card"})]

\* A score counts for the reputation, which is part of the agent.
AgentViewsApi ==
    [fetchAIAgentEvals |-> Fetch({"evals"}), addAIAgentEval |-> Call({"agent", "evals"}),
     fetchAIAgentStatusHistory |-> Fetch({"statusHistory"})]

(***************************************************************************)
(* APIs.  A call through the console is logged, whatever it answers.       *)
(***************************************************************************)
ApiApi ==
    [fetchApis |-> Fetch({"apis"}), fetchApiDetail |-> Fetch({"api"}),
     createEndpoint |-> Call({"api"}), deleteEndpoint |-> Call({"api"}),
     updateApi |-> Call({"apis", "api"}), deleteApi |-> Call({"apis"})]

ApiViewsApi ==
    [fetchApiStatusHistory |-> Fetch({"history"}),
     fetchApiAlerts |-> Fetch({"alerts"}), acknowledgeApiAlert |-> Call({"alerts"}),
     fetchApiLineage |-> Fetch({"lineage"}), addApiLineage |-> Call({"lineage"}),
     deleteApiLineage |-> Call({"lineage"})]

ApiConsoleApi ==
    [fetchApiCredentials |-> Fetch({"credentials"}), createApiCredential |-> Call({"credentials"}),
     deleteApiCredential |-> Call({"credentials"}),
     fetchApiFavorites |-> Fetch({"favorites"}), addApiFavorite |-> Call({"favorites"}),
     fetchEndpointInvocations |-> Fetch({"invocations"}), invokeApi |-> Call({"invocations", "usage"})]
================================================================================
