----------------------------- MODULE ExplorePanels -----------------------------
(***************************************************************************)
(* The panels through which data is looked at: samples, lineage,           *)
(* relationships, searches, federated datasets, files, the dashboard.      *)
(***************************************************************************)
EXTENDS RegistryPanels

(***************************************************************************)
(* The tabs of a dataset.                                                  *)
(***************************************************************************)
\* Saving stores the delimiters as they are set here and converts the sample;
\* a deleted sample is not fetched again, it is shown as the page knows it.
SampleDataTab ==
    [Panel({"sample", "config"},
        {[Once(Go("handleSave",
            <<DelimiterApi.saveDelimiterConfig, DatasetSampleApi.convertSampleToParquet, Fetch({"sample"})>>))
            EXCEPT !.typed = {"config"}, !.needs = {"sample"}],
         Once(Go("handleFileSelect", <<DatasetSampleApi.uploadSampleData, Fetch({"sample"})>>)),
         Go("handleDelete", <<Told(DatasetSampleApi.deleteSampleData)>>)})
     EXCEPT !.mount = {<<Fetch({"sample"}), Fetch({"config"})>>}, !.blanks = {"sample"}]

LineageTab ==
    Panel({"lineageData"},
        {Do("handleDeleteLineage", <<Call({"lineageData"})>>, "lineageData"),
         Do("onCreated", <<Call({"lineageData"})>>, "lineageData")})

\* The dialog that adds a lineage.  First, a search for the other dataset ...
LineageTargets ==
    [Panel({"datasources", "pipelines", "datasets"}, {})
     EXCEPT !.keyed = {"datasets"}, !.views = {"datasets"}, !.select = {<<Fetch({"datasets"})>>}]

\* ... then columns of the chosen one.  Those of the one chosen before stay until
\* the answer is in.
LineageMapping ==
    [Detail({"fields"}, {Once(Using({"fields"}, Go("handleSave", <<Call({})>>)))})
     EXCEPT !.mount = {}, !.blanks = {"fields"}, !.reopens = TRUE]

RelationshipsTab == Panel({"data"}, {})
SchemaHistoryTab == Panel({"snapshots"}, {})
ErdTab == [Detail({"data"}, {}) EXCEPT !.drops = TRUE]

\* Selected is the depth of the graph.
RelationshipGraph == [Detail({"data"}, {}) EXCEPT !.drops = TRUE, !.blanks = {"data"}]

\* The form keeps what was typed; the page above shows the dataset as answered.
DatasetMetadataTab == Panel({"dataset"}, {Once(Using({"dataset"}, Go("handleSave", <<Told(DatasetsApi.updateDataset)>>)))})

(***************************************************************************)
(* Searches.  What is selected is the text that was searched for; answers  *)
(* come in any order.                                                      *)
(***************************************************************************)
SearchPage == [Detail({"results"}, {}) EXCEPT !.blanks = {"results"}]

\* Enter searches again while a search is under way; the button does not.
SemanticSearch == [SearchPage EXCEPT !.mount = {}, !.reopens = TRUE]

FederationSearchPanel ==
    [Panel({"results", "lineage"}, {Go("runSearch", <<FederatedDatasetsApi.federatedSearch>>)})
     EXCEPT !.keyed = {"lineage"}, !.mount = {}, !.select = {<<FederatedDatasetsApi.datasetLineage>>},
            !.clears = {"lineage"}, !.blanks = {"results"}, !.reopens = TRUE]

(***************************************************************************)
(* Federated datasets.                                                     *)
(***************************************************************************)
\* The datasets of a peer are kept from when its row was opened until the
\* filter changes or the page is refreshed.
FederationBrowsePanel ==
    [Panel({"stats", "data"},
        {Again("loadStats", FederationViewsApi.fetchStats),
         Go("toggleInstance", <<FederationViewsApi.browseInstanceDatasets>>)})
     EXCEPT !.keyed = {"data"}, !.views = {"data"}, !.mount = {<<FederationViewsApi.fetchStats>>},
            !.select = {<<FederationViewsApi.browseInstanceDatasets>>}, !.clears = {"data"},
            !.blanks = {"stats", "data"}]

\* The lineage and the sample are fetched once, when their tabs are first opened.
FederationDatasetDetailView ==
    LET Lazily(name, step) == Guarded(name, Go(name, <<step>>))
    IN  [Panel({"detail", "lineage", "sample"},
            {Lazily("loadLineage", FederatedDatasetsApi.datasetLineage),
             Lazily("loadSample", FederatedDatasetsApi.datasetSample),
             Once(Go("doImport", <<FederatedDatasetsApi.importDataset>>))})
         EXCEPT !.keyed = {"detail"}, !.drops = TRUE, !.mount = {<<FederatedDatasetsApi.datasetDetail>>},
                !.select = {<<FederatedDatasetsApi.datasetDetail>>}]

FederationObservabilityPanel == Panel({"stats"}, {Guarded("loading", Again("reload", FederationViewsApi.fetchStats))})

(***************************************************************************)
(* Files.  Selected is a folder; an operation fetches the folder it was    *)
(* started in, or the one that is open by then.                            *)
(***************************************************************************)
LocalFilesystemBrowser ==
    LET List == FilesystemApi.listDirectory
        InDialog(name, call) == Guarded("dialogLoading", Go(name, <<call, List>>))
        InMenu(name, call) == Latest(Guarded("dialogLoading", Then(name, <<call>>, List)))
    IN  [Detail({"files"},
            {InDialog("handleCreateFolder", FilesystemApi.createFolder),
             InDialog("handleUpload", FilesystemApi.uploadFiles),
             InDialog("handleDelete", FilesystemApi.deletePaths),
             InMenu("handleRename", FilesystemApi.renamePath),
             InMenu("handleContextDelete", FilesystemApi.deletePaths)})
         EXCEPT !.blanks = {"files"}]

\* Dropped files are sent one by one, failures are only marked; the folder is
\* fetched when the person first closes the list of them, done or not.
DropUpload ==
    Detail({"files"},
        {Go("handleDrop", <<Ignored(FilesystemApi.uploadFiles), Ignored(FilesystemApi.uploadFiles)>>),
         Again("handleUploadProgressClose", FilesystemApi.listDirectory)})

\* Selected is the file that is viewed; an answer for the one before is shown too.
FileViewerDialog == Detail({"content"}, {})
CsvViewer == [Detail({"rows"}, {Guarded("isLoading", Refetch("handleRefresh", {"rows"}))}) EXCEPT !.blanks = {"rows"}]

(***************************************************************************)
(* The dashboard and the header with its alerts.                           *)
(***************************************************************************)
DashboardPage == Panel({"stats"}, {})

\* Opening the list of alerts fetches it; the counts are fetched every 30 s.
DashboardHeader ==
    [Panel({"summary", "recentAlerts"},
        {Refetch("interval", {"summary"}), Refetch("popoverOpen", {"recentAlerts"})})
     EXCEPT !.mount = {<<Fetch({"summary"})>>}]
================================================================================
