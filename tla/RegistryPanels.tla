---------------------------- MODULE RegistryPanels ----------------------------
(***************************************************************************)
(* The panels of data sources, federated instances, data quality, the OCI  *)
(* hub and the model registry.                                             *)
(***************************************************************************)
EXTENDS DatasetPanels

(***************************************************************************)
(* Data sources: the list and the topology come together ("sources").  An  *)
(* operation waits for both to come again.  The dialog that deletes a      *)
(* source is opened at once and told the impact later; what it knows       *)
(* decides whether the deletion is forced.                                 *)
(***************************************************************************)
LoadAll == <<TopologyApi.fetchTopology>>
Saves(name, calls) == Go(name, calls \o LoadAll)

handleAddSave ==
    Saves("handleAddSave",
        <<DatasourcesApi.createDatasource, DatasourcesApi.saveDatasourceConfig,
          Ignored(TopologyApi.assignDatasourceSystem)>>)
handleSaveDatasource ==
    Saves("handleSaveDatasource",
        <<DatasourcesApi.updateDatasource, TopologyApi.assignDatasourceSystem,
          DatasourcesApi.saveDatasourceConfig>>)
openDeleteDialog == <<DatasourcesApi.fetchDeleteImpact>>
handleDeleteConfirm ==
    Blindly({"impact"}, Saves("handleDeleteConfirm", <<DatasourcesApi.deleteDatasource>>))

\* A test that gets no answer keeps its button disabled.
Tests(name) == Hangs({"lost"}, Once(Go(name, <<DatasourcesApi.testDatasourceConnection>>)))
handleAddTest == Tests("handleAddTest")

AddDialog == {Once(handleAddSave), handleAddTest}
DeleteDatasourceDialog == {Once(handleDeleteConfirm)}
DatasourcesPage ==
    [Panel({"sources", "impact"}, AddDialog \cup DeleteDatasourceDialog \cup {handleSaveDatasource})
     EXCEPT !.keyed = {"impact"}, !.mount = {LoadAll}, !.select = {openDeleteDialog},
            !.clears = {"impact"}, !.reopens = TRUE]

\* Organisations and systems, on the same page: what the tree offers for them,
\* a dialog for each, and the form of the system that is selected, another for each.
handleOrgSave == Saves("handleOrgSave", <<TopologyApi.createOrganization>>)
handleDeleteOrg == Saves("delete", <<TopologyApi.deleteOrganization>>)
handleSysSave == Saves("handleSysSave", <<TopologyApi.createSystem>>)
handleSaveSystem == Saves("SystemDetail.save", <<TopologyApi.updateSystem>>)
handleDeleteSystem == Saves("delete", <<TopologyApi.deleteSystem>>)

TopologyTree == {handleDeleteOrg, handleDeleteSystem}
OrgDialog == {Once(handleOrgSave)}
SystemDialog == {Once(handleSysSave)}
SystemDetail == {Once(handleSaveSystem)}
TopologyPage ==
    [Panel({"sources"}, TopologyTree \cup OrgDialog \cup SystemDialog \cup SystemDetail)
     EXCEPT !.mount = {LoadAll}, !.forgets = {handleSaveSystem.name}]

\* The connection of the source that is selected, in a form that its type shapes.
ConfigForm == Once(Form("save", DatasourcesApi.saveDatasourceConfig))
runTest == Tests("runTest")

\* Another source is another form.  If its configuration cannot be fetched the
\* form has the defaults of its type, and can be saved.
DatasourceDetail ==
    [Detail({"config"}, {ConfigForm, runTest})
     EXCEPT !.drops = TRUE, !.clears = {"config"}, !.blanks = {"config"},
            !.forgets = {ConfigForm.flag, runTest.flag}]

(***************************************************************************)
(* Federated instances.  One busy row at most is marked, and any answer    *)
(* clears the mark.  The list is not fetched again after a harvest.        *)
(***************************************************************************)
InstancesPanel ==
    [Panel({"instances", "runs"},
        {Go("submit", <<InstancesApi.createInstance, InstancesApi.listInstances>>),
         Once(Go("confirmDelete", <<InstancesApi.deleteInstance, InstancesApi.listInstances>>)),
         PerRow("busy", Go("doHealth", <<InstancesApi.checkHealth>>)),
         PerRow("busy", Go("doHarvest", <<InstancesApi.harvestInstance>>))})
     EXCEPT !.keyed = {"runs"}, !.mount = {<<InstancesApi.listInstances>>}, !.select = {<<InstancesApi.listSyncRuns>>},
            !.clears = {"runs"}, !.reopens = TRUE]

\* The dialog of one instance: opening it for another forgets what that one
\* offers, but not a request that is under way.
InstanceDialog ==
    [Detail({"caps"},
        {PerRow("capsLoading", Go("loadCaps", <<FederationViewsApi.instanceCapabilities>>)),
         Using({"caps"}, Go("submit", <<InstancesApi.updateInstance>>))})
     EXCEPT !.mount = {}, !.select = {}, !.clears = {"caps"}, !.reopens = TRUE]

(***************************************************************************)
(* Quality of a dataset: everything is fetched together.                   *)
(***************************************************************************)
QualityData == <<Fetch({"rules", "results", "schedule"})>>

QualityTab ==
    LET Runs(name) == Once(Go(name, <<Call({"results"})>> \o QualityData))
        Recommended == Unchecked(Call({"rules"}))
    IN  [Panel({"rules", "results", "schedule", "recs"},
            {Runs("runCheck"), Runs("runProfile"),
             Op("saveRule", <<Ignored(Call({"rules"}))>>, {QualityData}),
             Op("deleteRule", <<Ignored(Call({"rules"}))>>, {QualityData}),
             Go("openRecommendations", <<Fetch({"recs"})>>),
             Using({"recs"}, Anyway(Op("createSelectedRecs", <<Recommended, Recommended>>, {QualityData}))),
             [Form("saveSchedule", Ignored(Call({"schedule"}))) EXCEPT !.uses = {}]})
         EXCEPT !.mount = {QualityData}]

(***************************************************************************)
(* The OCI hub.  Selected is a page of the list; its search is applied by  *)
(* the same load.  After an import page one is fetched, here the page of   *)
(* the click: either may be another than the one asked for last.           *)
(***************************************************************************)
handleImport == Then("handleImport", <<OciVersionsApi.importFromHuggingFace>>, OciHubApi.fetchOciModels)
ImportDialog == {Once(handleImport)}
OciHubPage == [Paged("models", ImportDialog) EXCEPT !.reopens = TRUE]

\* The page of one model and its tabs; its description is shown as it was typed.
handleSaveReadme == Typed("handleSaveReadme", OciHubApi.updateReadme)
OciHeader == Tab({"detail"}, {})
OciInfoTab == Tab({"detail"}, {Once(handleSaveReadme)})
OciCardTab == Tab({"detail", "versions"}, {})
OciVersionsTab == Tab({"versions"}, {})
OciLineageTab == Tab({"detail"}, {})
OciModelDetail ==
    [Page({OciHeader, OciInfoTab, OciCardTab, OciVersionsTab, OciLineageTab})
     EXCEPT !.mount = {<<Fetch({"detail", "versions"})>>}]

\* Entering a folder asks for it; what is shown, path included, is the last answer.
FilesTab == [Detail({"files"}, {}) EXCEPT !.reopens = TRUE]

OciHubDashboard == Panel({"stats"}, {})

(***************************************************************************)
(* Registered models.                                                      *)
(***************************************************************************)
ModelsDetail == Panel({"detail"}, {})
ModelsDashboard == Panel({"stats"}, {})
MetricsTab == Panel({"data"}, {})
DownloadTab == Panel({"downloads"}, {})

VersionsTab == Panel({"versions"}, {Do("setStage", <<Unchecked(Call({"versions"}))>>, "versions")})
ModelLineageTab == Panel({"lineages"}, {Do("remove", <<Unchecked(Call({"lineages"}))>>, "lineages")})

\* A card that could not be fetched is an empty one, and can be saved.
ModelCardTab == Panel({"card"}, {Hangs({"lost"}, Once(Form("save", Unchecked(Call({"card"})))))})
===============================================================================
