----------------------------- MODULE DatasetPanels -----------------------------
(***************************************************************************)
(* The page of one dataset, and the tabs on it.                            *)
(***************************************************************************)
EXTENDS WorkflowPanels

(***************************************************************************)
(* The dataset itself.  load() waits for the dataset and then starts, not  *)
(* waiting, what is shown around it.  The fields' editors show the dataset *)
(* that their call answers.                                                *)
(***************************************************************************)
Around == {"categoryPaths", "datasourceMeta"}
LoadDataset == <<DatasetsApi.fetchDataset, Fetch(Around)>>
ThenLoad(name, call) == Op(name, <<call, DatasetsApi.fetchDataset>>, {<<Fetch(Around)>>})
UpdateDataset(name) == Once(Using({"dataset"}, Go(name, <<Told(DatasetsApi.updateDataset)>>)))

saveLogicalName == UpdateDataset("saveLogicalName")
saveSummary == UpdateDataset("saveSummary")
handleStatusChange == UpdateDataset("handleStatusChange")
handleOriginChange == UpdateDataset("handleOriginChange")
handleDelete == Using({"dataset"}, Go("handleDelete", <<DatasetsApi.deleteDataset>>))

(***************************************************************************)
(* What the parts of the page offer.  Tags, terms and owners are added and *)
(* removed in one way, at once: the operations differ in nothing that is   *)
(* modelled and share a name.                                              *)
(***************************************************************************)
handleAddTag == ThenLoad("add", DatasetDetailApi.addDatasetTag)
handleRemoveTag == ThenLoad("change", DatasetDetailApi.removeDatasetTag)
handleAddGlossary == ThenLoad("add", DatasetSampleApi.addDatasetGlossaryTerm)
handleRemoveGlossary == ThenLoad("change", DatasetSampleApi.removeDatasetGlossaryTerm)
handleAddOwner == ThenLoad("change", DatasetDetailApi.addDatasetOwner)
handleRemoveOwner == ThenLoad("change", DatasetDetailApi.removeDatasetOwner)
saveSchema == Once(ThenLoad("saveSchema", DatasetDetailApi.updateDatasetSchema))

\* The menu of the header, and the dialog behind its last item; what a language
\* model generates needs one.
DatasetMenu == {handleStatusChange, handleOriginChange}
DeleteDialog == {Once(handleDelete)}
AiMenu(o) == [o EXCEPT !.needs = @ \cup {"aiEnabled"}]

\* The line with the names, the line below it, the text of the overview.
NamesInHeader == {saveLogicalName, saveSummary}
OverviewTab == {UpdateDataset("saveDescription")}

\* The rows below the metadata; what can be added is what there is.
Choosing(o) == [o EXCEPT !.uses = {"choices"}, !.needs = {"choices", "dataset"}]
Attached(o) == [o EXCEPT !.needs = {"dataset"}]
OwnersRow == {Attached(handleAddOwner), Attached(handleRemoveOwner)}
TagsRow == {Choosing(handleAddTag), Attached(handleRemoveTag)}
TermsRow == {Choosing(handleAddGlossary), Attached(handleRemoveGlossary)}
SchemaTab == {Attached(saveSchema)}

DatasetFields ==
    [Panel({"dataset"} \cup Around, NamesInHeader \cup DatasetMenu \cup DeleteDialog \cup OverviewTab)
     EXCEPT !.mount = {LoadDataset}, !.blanks = {"categoryPaths"}]

\* choices: the tags and the terms there are.
DatasetRelations ==
    [Panel({"dataset", "choices"}, OwnersRow \cup TagsRow \cup TermsRow)
     EXCEPT !.mount = {<<DatasetsApi.fetchDataset>>, <<Fetch({"choices"})>>}]

DatasetSchema ==
    [Panel({"dataset"} \cup Around, SchemaTab) EXCEPT !.mount = {LoadDataset}, !.blanks = {"categoryPaths"}]

(***************************************************************************)
(* What a language model proposes is shown in a dialog, one for each kind. *)
(* Applying a description shows the copy that the dialog was drawn with;   *)
(* a summary shows the answer; the others fetch again.                     *)
(***************************************************************************)
Reloading(step) == Op("apply", <<step>>, {LoadDataset})

\* One of five functions, all of one kind.
handleAiGenerate == Once(Attached(Go("handleAiGenerate", <<AiApi.generateDescription>>)))
handleAiApplyDescription ==
    Using({"dataset"}, Go("handleAiApplyDescription", <<Merged(SuggestionsApi.applySuggestion)>>))
handleAiApplySummary == Using({"dataset"}, Go("handleAiApplySummary", <<Told(DatasetsApi.updateDataset)>>))
handleAiApplyColumns == Reloading(SuggestionsApi.applySuggestions)
handleAiApplyTags == Reloading(SuggestionsApi.applySuggestion)
handleAiApplyPii == Reloading(SuggestionsApi.applySuggestion)

\* A dialog comes with a result, and stays open while it is applied.
OfResult(o) == [o EXCEPT !.uses = @ \cup {"aiResult"}, !.needs = @ \cup {"aiResult"}]
DescriptionDialog == OfResult(handleAiApplyDescription)
SummaryDialog == OfResult(handleAiApplySummary)
ColumnsDialog == OfResult(handleAiApplyColumns)
TagsDialog == OfResult(handleAiApplyTags)
PiiDialog == OfResult(handleAiApplyPii)

DatasetAi ==
    [Panel({"dataset", "aiResult", "aiEnabled"} \cup Around,
        {AiMenu(handleAiGenerate), DescriptionDialog, SummaryDialog, ColumnsDialog, TagsDialog, PiiDialog})
     EXCEPT !.mount = {LoadDataset, <<SuggestionsApi.fetchAiStatus>>}, !.blanks = {"categoryPaths", "aiEnabled"}]

\* Selected is the text that owners are searched by, once typing pauses.
OwnerSearch == [Paged("ownerSearchUsers", {}) EXCEPT !.mount = {}, !.blanks = {"ownerSearchUsers"}]

\* Sends all of the shown properties back with one of them changed.
AvroSchemaCard ==
    LET Written(name) ==
            Once(Using({"dataset"}, Go(name, <<DatasetDetailApi.updateDatasetProperties, DatasetsApi.fetchDataset>>)))
    IN  Panel({"dataset"}, {Written("handleSave"), Written("handleReset")})
================================================================================
