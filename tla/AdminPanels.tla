------------------------------ MODULE AdminPanels ------------------------------
(***************************************************************************)
(* The forms of the administrator: settings, users.                        *)
(***************************************************************************)
EXTENDS AgentPanels

(***************************************************************************)
(* Settings.  A form is hidden while its settings are fetched; if that     *)
(* fails it comes with the defaults of the program, and can be saved.  A   *)
(* test sends what was typed and changes nothing, unless it says it saves. *)
(***************************************************************************)
Settings(ps, save, ops) == Panel(ps, {Once(Form("handleSave", save))} \cup ops)

CorsSettings == Settings({"config"}, CorsApi.updateCorsConfig, {})
AssistantSettings ==
    Settings({"config"}, AssistantApi.updateAssistantConfig, {Once(Go("handleTest", <<AssistantApi.testAssistant>>))})
ChangeMgmtSettings == Settings({"config"}, ChangeMgmtConfigApi.updateChangeMgmtConfig, {})

\* The secret is masked until it is asked for; what comes then is put in its field.
AuthSettings ==
    [Settings({"config", "secret"}, AuthConfigApi.updateAuthConfig,
        {Go("handleToggleSecret", <<AuthConfigApi.fetchAuthSecret>>),
         Once(Go("handleInitialize", <<AuthConfigApi.fetchAuthSecret, AuthConfigApi.initializeKeycloak>>))})
     EXCEPT !.mount = {<<Fetch({"config", "secret"})>>}]

\* Statistics come with the settings, and again after what changes them.
WithStats(o) == [o EXCEPT !.steps = @ \o <<Ignored(Fetch({"stats"}))>>]
Counted(ops) ==
    [Panel({"config", "stats"}, {WithStats(Once(Form("handleSave", Call({"config"}))))} \cup ops)
     EXCEPT !.mount = {<<Fetch({"config"}), Ignored(Fetch({"stats"}))>>}, !.blanks = {"stats"}]
CountedOp(name, call) == WithStats(Go(name, <<call>>))

CacheSettings == Counted({Once(CountedOp("handleClear", Call({"stats"})))})
LLMSettings == Counted({Once(CountedOp("handleBulkGenerate", LlmApi.bulkGenerate))})
EmbeddingSettings ==
    Counted({Once(CountedOp("handleBackfill", EmbeddingApi.backfillEmbeddings)),
             CountedOp("handleClear", EmbeddingApi.clearEmbeddings)})

\* The test of a message uses what is stored: it saves first.
SaveAndTest(save, call, test) ==
    Panel({"config"},
        {Guarded("working", save),
         Guarded("working", [Form("handleTest", call) EXCEPT !.steps = @ \o <<test>>])})
NotifySettings ==
    SaveAndTest(Form("handleSave", NotifyApi.updateNotifyConfig), NotifyApi.updateNotifyConfig, NotifyApi.testNotify)
EmailSettings ==
    SaveAndTest([Form("handleSave", MailApi.updateMailConfig) EXCEPT !.steps = @ \o <<MailApi.fetchMailConfig>>],
        MailApi.updateMailConfig, MailApi.testMail)

\* Settings that cannot be fetched are an error, with a button to try again.
OciModelRegistrySettings ==
    [Panel({"config"},
        {Once([Typed("handleSave", ObjectStorageApi.updateObjectStorageConfig)
                EXCEPT !.steps = @ \o <<ObjectStorageApi.fetchObjectStorageConfig>>]),
         Guarded("handleSave", Again("retry", ObjectStorageApi.fetchObjectStorageConfig)),
         Once(Go("handleInitialize", <<ObjectStorageApi.initializeObjectStorage>>))})
     EXCEPT !.blanks = {"config"}]

\* What this hub gives to others.  The answer to a save is what is shown.
FederationExportPolicyPanel == Panel({"policy"}, {Once(Form("save", Told(FederationViewsApi.updateExportPolicy)))})

RelationshipSettings ==
    Panel({},
        {Once(Go("handleRecompute", <<EmbeddingApi.recomputeRelationships>>)),
         Once(Go("handleResolveLineage", <<EmbeddingApi.resolveLineage>>))})

(***************************************************************************)
(* The dialog that adds or edits a user, over the list of users.  An edit  *)
(* is up to three calls, the list is fetched when all have worked; nothing *)
(* keeps the button from being pressed twice.                              *)
(***************************************************************************)
UsersActionDialog ==
    Panel({"users"},
        {Go("create", <<UserListApi.checkUserExists, UserApi.createUser, UserListApi.fetchUsers>>),
         Using({"users"}, Go("modify", <<UserApi.modifyUser, UserApi.changeUserRole, UserListApi.fetchUsers>>))})
================================================================================
