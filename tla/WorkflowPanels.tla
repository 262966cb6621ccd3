---------------------------- MODULE WorkflowPanels ----------------------------
(***************************************************************************)
(* The panels of change requests, alert rules and permissions.             *)
(***************************************************************************)
EXTENDS GovernancePanels

(***************************************************************************)
(* Change requests.  Submitting, cancelling and deciding are signals to a  *)
(* workflow: the page fetches again when they are sent, not when they have *)
(* had their effect.                                                       *)
(***************************************************************************)
RequestWithItsLogs ==
    <<ChangeMgmtApi.getChangeRequest, Ignored(DatasetsApi.fetchDataset), Ignored(ChangeMgmtApi.listNotifications)>>

ChangeRequestDetailPage ==
    LET Sent(name, signal) ==
            Guarded("busy", Using({"cr"}, Go(name, <<signal>> \o RequestWithItsLogs)))
    IN  [Panel({"cr", "dataset", "notifications", "users"},
            {Sent("onSubmit", ChangeMgmtApi.submitChangeRequest),
             Sent("onCancel", ChangeMgmtApi.cancelChangeRequest),
             Sent("onDecide", ChangeMgmtApi.submitDecision)})
         EXCEPT !.mount = {RequestWithItsLogs, <<UserListApi.fetchUsers>>},
                !.blanks = {"dataset", "notifications"}]

\* The inbox is shown as empty if it cannot be fetched.
ChangeRequestsPage ==
    [Panel({"crs", "inbox"},
        {Op("reload", <<>>, {<<ChangeMgmtApi.listChangeRequests>>, <<ChangeMgmtApi.listMyInbox>>})})
     EXCEPT !.blanks = {"inbox"}]

\* Fetched again every minute; a decision only marks its own row as busy, and
\* the answer to one row's decision frees whichever row is marked.
MyApprovalsPage ==
    Panel({"inbox"},
        {Again("interval", ChangeMgmtApi.listMyInbox),
         PerRow("busyId", Go("onDecide", <<ChangeMgmtApi.submitDecision, ChangeMgmtApi.listMyInbox>>))})

DatasetChangeRequests == Panel({"crs"}, {Again("reload", ChangeMgmtApi.listChangeRequests)})

\* What is selected is the text that datasets are searched by.
NewChangeRequestPage ==
    [Panel({"users", "dataset", "datasets"},
        {Once(Go("insertSchemaTable", <<Fetch({})>>)), Once(Go("onCreate", <<ChangeMgmtApi.createChangeRequest>>))})
     EXCEPT !.keyed = {"datasets"}, !.views = {"datasets"}, !.blanks = {"datasets"},
            !.mount = {<<UserListApi.fetchUsers>>, <<DatasetsApi.fetchDataset>>},
            !.select = {<<DatasetsApi.fetchDatasets>>}]

(***************************************************************************)
(* Rules of alerts, permissions, the editor of a comment.                  *)
(***************************************************************************)
RuleCreateDialog ==
    [Panel({"tags", "datasources", "datasets"}, {Once(Go("handleSave", <<Call({})>>))})
     EXCEPT !.keyed = {"datasets"}, !.views = {"datasets"}, !.select = {<<Fetch({"datasets"})>>}]

\* A matrix that was not fetched is not offered for editing.
MatrixCard ==
    Panel({"draft"}, {Once(Typed("save", Call({"draft"}))), Guarded("save", Refetch("load", {"draft"}))})

CommentEditor == Panel({}, {Once(Go("handleSubmit", <<CommentsApi.createComment>>))})
===============================================================================
