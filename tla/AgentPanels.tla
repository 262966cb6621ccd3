------------------------------ MODULE AgentPanels ------------------------------
(***************************************************************************)
(* The page of an AI agent and the page of an API.                         *)
(***************************************************************************)
EXTENDS ExplorePanels

(***************************************************************************)
(* An AI agent.  Everything is fetched together, once; what is changed     *)
(* here is followed by a fetch of the agent.  "card": the agent card and   *)
(* the policy bundle, which the server writes from the agent, and which    *)
(* are not fetched again.                                                  *)
(***************************************************************************)
Changing(step) == <<step, AgentApi.fetchAIAgentDetail>>
Update(ps) == Changing(Also(ps, AgentApi.updateAIAgent))

changeStatus == Using({"agent"}, Go("changeStatus", Update({"statusHistory"}) \o <<AgentViewsApi.fetchAIAgentStatusHistory>>))

\* The owner is looked up among the users by the address; if that fails, there
\* is none.
OwnerUser == Ignored(Fetch({"ownerUser"}))

\* Another owner is looked up when the agent with the new address is shown.
handleSaveOverview ==
    Once(Using({"agent"}, Then("handleSaveOverview", Update({"ownerUser"}), OwnerUser)))
handleSaveCap == Once(Using({"agent"}, Go("handleSaveCap", Update({}))))
handleSaveRag == Once(Using({"agent"}, Go("handleSaveRag", Update({}))))
handleSaveGov == Once(Using({"agent"}, Go("handleSaveGov", Update({}))))

\* Rows of tools, MCP servers and lineage are deleted without a confirmation,
\* a flag, or a look at the failure.
DeleteRow(call) == Using({"agent"}, Go("deleteRow", Changing(call)))

AddToolDialog == Once(Go("AddToolDialog", Changing(AgentRowsApi.addAIAgentTool)))
AddMcpRow == Once(Go("AddMcpRow", Changing(AgentRowsApi.addAIAgentMcpServer)))
AddLineageForm == Once(Go("AddLineageForm", Changing(AgentRowsApi.addAIAgentLineage)))
AddVersionForm == Once(Go("AddVersionForm", Changing(AgentRowsApi.addAIAgentVersion)))
AddEvalForm ==
    Once(Go("AddEvalForm",
        <<AgentViewsApi.addAIAgentEval, AgentViewsApi.fetchAIAgentEvals, AgentApi.fetchAIAgentDetail>>))

\* The users to choose the owner from, each time the overview is edited.
startEditOverview == Using({"agent"}, Again("startEditOverview", Fetch({"pickerUsers"})))

(***************************************************************************)
(* Its tabs.  Some only show.                                              *)
(***************************************************************************)
AgentHeader == Tab({"agent", "statusHistory"}, {changeStatus})
AgentOverviewTab == Tab({"agent", "ownerUser", "pickerUsers"}, {startEditOverview, handleSaveOverview})
CapabilityTab == Tab({"agent"}, {handleSaveCap})
ToolsTab ==
    Tab({"agent"},
        {AddToolDialog, AddMcpRow,
         DeleteRow(AgentRowsApi.deleteAIAgentTool), DeleteRow(AgentRowsApi.deleteAIAgentMcpServer)})
RagCards == Tab({"agent"}, {handleSaveRag})
GovernanceTab == Tab({"agent"}, {handleSaveGov})
ObservabilityTab == Tab({"metering"}, {})
EvalTab == Tab({"evals"}, {AddEvalForm})
AgentLineageTab == Tab({"agent"}, {AddLineageForm, DeleteRow(AgentRowsApi.deleteAIAgentLineage)})
AgentVersionsTab == Tab({"agent", "statusHistory"}, {AddVersionForm})
CardTab == Tab({"card"}, {})
EnforcementTab == Tab({"card", "hookEvents"}, {})

\* The page, a few tabs at a time.
AgentPage(tabs) ==
    LET page == Page(tabs)
    IN  [page EXCEPT !.mount = {<<Fetch(page.parts)>>}]
AIAgentsDetail ==
    LET page == Page({AgentHeader, AgentOverviewTab, CardTab})
    IN  [page EXCEPT !.mount = {<<Fetch(page.parts \ {"ownerUser", "pickerUsers"}), OwnerUser>>},
                     !.blanks = {"ownerUser", "pickerUsers"}]
AgentEditors == AgentPage({CapabilityTab, RagCards, GovernanceTab})
AgentTools == AgentPage({ToolsTab, EnforcementTab})
AgentRecords == AgentPage({AgentLineageTab, AgentVersionsTab})
AgentScores == AgentPage({EvalTab, ObservabilityTab})

(***************************************************************************)
(* An API.  What surrounds it is shown as empty if it cannot be fetched.   *)
(* An edit of an endpoint starts a fetch and does not wait for it.         *)
(***************************************************************************)
ReloadApi == <<ApiApi.fetchApiDetail, Ignored(ApiViewsApi.fetchApiStatusHistory)>>
RefreshApis == <<Ignored(ApiApi.fetchApis)>>
ApiPage(tabs) ==
    LET page == Page(tabs)
    IN  [page EXCEPT !.mount = {<<Fetch(page.parts \ {"users"})>>}, !.blanks = page.parts \ {"api", "users"}]

handleAckAlert == Go("handleAckAlert",
    <<ApiViewsApi.acknowledgeApiAlert, Ignored(ApiViewsApi.fetchApiAlerts)>>)
handleSaveOv == Using({"api"}, Go("handleSaveOv", <<ApiApi.updateApi>> \o ReloadApi \o RefreshApis))
changeApiStatus ==
    Using({"api"}, Go("changeStatus", <<Also({"history"}, ApiApi.updateApi)>> \o ReloadApi \o RefreshApis))
handleDeleteApi == Using({"api"}, Go("handleDelete", <<ApiApi.deleteApi>> \o RefreshApis))

\* The tabs of the page itself.
ApiHeader == Tab({"api", "alerts"}, {changeApiStatus, handleDeleteApi, handleAckAlert})
startEditOv == Using({"api"}, Again("startEditOv", Fetch({"users"})))
ApiOverviewTab == Tab({"api", "users"}, {startEditOv, Once(handleSaveOv)})
SpecTab == Tab({"api"}, {})
HistoryTab == Tab({"history"}, {})
ApisDetail == ApiPage({ApiHeader, ApiOverviewTab, SpecTab, HistoryTab})

\* The endpoints, in rows that open to their documents and to the console.  A
\* star is shown as the call set it.
saveEndpoint == Using({"api"}, Op("EndpointEditDialog.save", <<ApiApi.createEndpoint>>, {ReloadApi}))
EndpointEditDialog == Once(saveEndpoint)
toggleFav == Go("toggleFav", <<Told(ApiConsoleApi.addApiFavorite)>>)
EndpointRows == {toggleFav, Using({"api"}, Op("onDelete", <<ApiApi.deleteEndpoint>>, {ReloadApi}))}
EndpointsTab ==
    [ApiPage({Tab({"api"}, {EndpointEditDialog} \cup EndpointRows), HistoryTab, Tab({"favorites"}, {})})
     EXCEPT !.mount = {<<Fetch({"api", "history"})>>, <<ApiConsoleApi.fetchApiFavorites>>}]

\* Credentials and lineage are the page's, their tabs fetch them again through it.
ChangeCredentials(name, call) == Go(name, <<call, Ignored(ApiConsoleApi.fetchApiCredentials)>>)
AuthTab ==
    ApiPage({Tab({"credentials"},
        {Once(ChangeCredentials("add", ApiConsoleApi.createApiCredential)),
         ChangeCredentials("remove", ApiConsoleApi.deleteApiCredential)})})
ApiLineageTab ==
    LET Changes(name, call) == Go(name, <<call, Ignored(ApiViewsApi.fetchApiLineage)>>)
    IN  ApiPage({Tab({"lineage"},
            {Once(Changes("handleAdd", ApiViewsApi.addApiLineage)),
             Changes("handleDelete", ApiViewsApi.deleteApiLineage)})})

\* A call through the console is logged: the log is fetched after each one.
CallEndpoint == Then("run", <<ApiConsoleApi.invokeApi>>, ApiConsoleApi.fetchEndpointInvocations)
EndpointTryIt == Panel({"invocations"}, {Once(CallEndpoint)})
GraphQLTryIt == Panel({}, {Once(Go("run", <<ApiConsoleApi.invokeApi>>))})
SoapTryIt == Panel({}, {Once(Go("run", <<ApiConsoleApi.invokeApi>>))})

LintTab == Panel({"lint"}, {Guarded("loading", Refetch("load", {"lint"}))})

\* Selected is the number of days.
UsageTab == Detail({"usage"}, {})
================================================================================
