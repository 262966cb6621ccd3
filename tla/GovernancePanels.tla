---------------------------- MODULE GovernancePanels ----------------------------
(***************************************************************************)
(* The panels of data standards, glossary, taxonomies, tags, alerts,       *)
(* comments and change requests.                                           *)
(***************************************************************************)
EXTENDS Clients

(***************************************************************************)
(* Data standards.  What is selected is the dictionary, of the code values *)
(* a code group, of the morpheme analysis the typed name of a term.        *)
(***************************************************************************)
\* The counts come with the dictionaries; the tabs that change them do not
\* fetch them again.
Dictionaries ==
    [Panel({"dicts", "counts"},
        {Hangs({"lost"}, Once(Op("create", <<Unchecked(Call({"dicts"}))>>, {<<Fetch({"dicts", "counts"})>>}))),
         Op("changeWords", <<Call({"counts"})>>, {})})
     EXCEPT !.mount = {<<Fetch({"dicts", "counts"})>>}, !.select = {<<Fetch({"dicts", "counts"})>>}]

WordsTab ==
    Detail({"words"},
        {Op("addWord", <<Call({"words"}), Fetch({"words"})>>, {}),
         Do("deleteWord", <<Unchecked(Call({"words"}))>>, "words"),
         Typed("onCellValueChanged", Unchecked(Call({"words"})))})

DomainsTab ==
    Detail({"domains"},
        {Op("addDomain", <<Unchecked(Call({"domains"})), Fetch({"domains"})>>, {}),
         Do("deleteDomain", <<Unchecked(Call({"domains"}))>>, "domains"),
         Typed("onCellValueChanged", Unchecked(Call({"domains"})))})

\* (saveTerm is also here for what it does to the list.)
StandardTermsTab ==
    Detail({"terms"},
        {Do("saveTerm", <<Unchecked(Call({"terms"}))>>, "terms"),
         Do("deleteTerm", <<Unchecked(Call({"terms"}))>>, "terms"),
         Typed("onCellValueChanged", Unchecked(Call({"terms"})))})

\* Typing another name keeps the analysis of the one before.
TermDialog ==
    [Detail({"analysis"},
        {Hangs({"lost"}, Once(Op("analyze", <<Fetch({"analysis"})>>, {}))),
         Using({"analysis"}, Op("saveTerm", <<Unchecked(Call({}))>>, {}))})
     EXCEPT !.mount = {}, !.select = {}]

CodeGroups ==
    Detail({"groups"},
        {Op("addGroup", <<Unchecked(Call({"groups"})), Fetch({"groups"})>>, {}),
         Do("deleteGroup", <<Unchecked(Call({"groups"}))>>, "groups"),
         Typed("onGroupCellChanged", Unchecked(Call({"groups"})))})

\* The groups are fetched again when another one is selected.
CodeValues ==
    [Panel({"groups", "values"},
        {Do("addValue", <<Unchecked(Call({"values"}))>>, "values"),
         Do("deleteValue", <<Unchecked(Call({"values"}))>>, "values"),
         Typed("onValueCellChanged", Unchecked(Call({"values"})))})
     EXCEPT !.keyed = {"values"}, !.select = @ \cup {<<Fetch({"groups"})>>, <<Fetch({"values"})>>}]

ComplianceTab == Detail({"stats"}, {})

\* The terms a dataset's columns are mapped to, under the selected dictionary.
DatasetTermsTab ==
    [Panel({"dictionaries", "mapping"},
        {Once(Op("handleResetMappings", <<Call({"mapping"}), Fetch({"mapping"})>>, {})),
         Once(Op("handleAutoMap", <<Call({"mapping"}), Fetch({"mapping"})>>, {})),
         Op("handleManualMap", <<Ignored(Call({"mapping"})), Fetch({"mapping"})>>, {}),
         Op("handleDeleteMapping", <<Ignored(Call({"mapping"})), Fetch({"mapping"})>>, {})})
     EXCEPT !.keyed = {"mapping"}, !.views = {"mapping"}, !.select = {<<Fetch({"mapping"})>>}]

\* Each letter typed searches; the answers come in any order.
ManualMapPicker == Paged("terms", {})

(***************************************************************************)
(* Glossary and taxonomies.                                                *)
(***************************************************************************)
\* Moving several terms is a call for each: one that fails ends it.
GlossaryPage ==
    Panel({"terms"},
        {Go("moveTo", <<GlossaryApi.updateGlossaryTerm, GlossaryApi.updateGlossaryTerm, GlossaryApi.fetchGlossaryTerms>>),
         Go("handleCreate", <<GlossaryApi.createGlossaryTerm, GlossaryApi.fetchGlossaryTerms>>),
         Go("saveRename", <<GlossaryApi.updateGlossaryTerm, GlossaryApi.fetchGlossaryTerms>>),
         Go("deleteNode", <<GlossaryApi.deleteGlossaryTerm, GlossaryApi.fetchGlossaryTerms>>),
         Then("deleteTermFromGrid", <<GlossaryApi.deleteGlossaryTerm>>, GlossaryApi.fetchGlossaryTerms),
         Typed("onCellValueChanged", GlossaryApi.updateGlossaryTerm)})

TaxonomyList ==
    Panel({"taxonomies"},
        {Go("handleTaxCreate", <<TaxonomyApi.createTaxonomy, TaxonomyApi.fetchTaxonomies>>),
         Go("handleTaxDelete", <<TaxonomyApi.deleteTaxonomy, TaxonomyApi.fetchTaxonomies>>)})

\* Selected is a taxonomy; an effect fetches its datasets again with its tree.
\* Unmapping a dataset is deleting a category here, renaming is adding one.
TreeThenDatasets == <<Ignored(TaxonomyApi.fetchTaxonomyTree), DatasetsApi.fetchDatasets>>
TaxonomyPanel(ops) ==
    [Detail({"tree", "datasets"}, ops)
     EXCEPT !.blanks = {"tree", "datasets"}, !.mount = {TreeThenDatasets}, !.select = {TreeThenDatasets}]
TaxonomyTree ==
    TaxonomyPanel(
        {Go("handleCatSave", <<TaxonomyApi.createCategory>> \o TreeThenDatasets),
         Go("handleCatDelete", <<TaxonomyApi.deleteCategory>> \o TreeThenDatasets)})

\* A call for each dataset that is mapped, for each category that is moved, all sent
\* at once.
TaxonomyMapping ==
    TaxonomyPanel({Go("mapSelectedDatasets", AllAtOnce(TaxonomyApi.addDatasetCategory) \o TreeThenDatasets)})
TaxonomyOrder ==
    TaxonomyPanel({Go("handleReorder", AllAtOnce(TaxonomyApi.updateCategory) \o TreeThenDatasets)})

(***************************************************************************)
(* Tags, alerts, comments.                                                 *)
(***************************************************************************)
\* Asking to delete a tag fetches how it is used; the dialog deletes the tag
\* whose use it shows.
TagsPage ==
    [Panel({"tags", "usage"},
        {Once(Go("handleCreate", <<TagsApi.createTag, TagsApi.fetchTags>>)),
         Using({"usage"}, Once(Go("handleDeleteConfirm", <<TagsApi.deleteTag, TagsApi.fetchTags>>)))})
     EXCEPT !.keyed = {"usage"}, !.mount = {<<TagsApi.fetchTags>>}, !.select = @ \cup {<<TagsApi.fetchTagUsage>>},
            !.clears = {"usage"}, !.blanks = {"usage"}, !.reopens = TRUE]

AlertsTab == Paged("alerts", {Do("updateStatus", <<Unchecked(Call({"alerts"}))>>, "alerts")})

\* The dialog that adds or edits a rule goes to the tab, which it is opened from.
RulesTab ==
    Panel({"rules"},
        {Do("toggleActive", <<Unchecked(Call({"rules"}))>>, "rules"),
         Do("confirmDelete", <<Unchecked(Call({"rules"}))>>, "rules"),
         Once(Op("handleSave", <<Call({"rules"})>>, {}))})

CommentSection ==
    Paged("comments",
        {Go("handlePost", <<CommentsApi.createComment, CommentsApi.fetchComments>>),
         Go("handleReply", <<CommentsApi.createComment, CommentsApi.fetchComments>>),
         Go("handleDelete", <<CommentsApi.deleteComment, CommentsApi.fetchComments>>)})
=================================================================================
