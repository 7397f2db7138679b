-------------------------------- MODULE Stores --------------------------------
(***************************************************************************)
(* The frontend's stores: what services and pages of                       *)
(* src/frontend/src/app keep of the backend's data.  Each reads its data   *)
(* when a page opens and again after a change of its own; they differ in   *)
(* which changes they send and in what they do when they ask, when an      *)
(* answer fails and when the page is left.                                 *)
(*                                                                         *)
(* Answers come in any order, and a request that takes effect may still    *)
(* fail on its way back.  One store moves in a behaviour, on its own.      *)
(***************************************************************************)
EXTENDS Integers, Sequences, SequencesExt, Arrays, Api

CONSTANTS
    Ids,        \* what a page can be about: a model, an instance, a user...
    MaxCalls,   \* bound on the requests under way
    MaxChanges  \* bound on the changes made to one read's data

ASSUME StoresAssumption == Ids # {} /\ MaxCalls \in Nat /\ MaxChanges \in Nat

\* read: the request that fills the store.  reloads: changes after which it is read
\* again.  answers: changes whose answer is the new value.  leaves: changes that end
\* with the page left.  creates: changes made elsewhere that end with the page opened.
\* ways: "clears" before it asks, "forgets" when a read fails, "switches" to the newest
\* read, "empties" when its page is left, "local" to a page and gone with it, "closes"
\* its page when a read fails, "stream" that a failed read ends.
Store(read, reloads, answers, leaves, creates, ways) ==
    [read |-> read, reloads |-> reloads, answers |-> answers, leaves |-> leaves,
     creates |-> creates, ways |-> ways]

\* What is only read, when its page opens.
Glance(read, ways) == Store(read, {}, {}, {}, {}, ways)

Announcements == Store(GetAnnouncements, {CreateAnnouncement, UpdateAnnouncement, DeleteAnnouncement}, {}, {}, {}, {})
Configuration == Store(GetConfiguration, {UpdateConfiguration}, {}, {}, {}, {"local"})
UnifiedConfig == Store(GetUnifiedConfig, {UpdateConfiguration}, {}, {}, {}, {})
PureVariants == Store(GetLicense, {DeleteLicenseKeyFile}, {SetLicense, UploadLicenseKeyFile}, {}, {}, {"local"})
Tokens == Store(GetAllTokensOfUser, {CreateTokenForUser, DeleteTokenForUser}, {}, {}, {}, {"forgets", "local"})
Users(userId) == Store(GetUsers, {CreateUser, UpdateUser(userId), DeleteUser(userId)}, {}, {}, {}, {"clears"})
UserOfPage(userId) == Store(GetUser(userId), {UpdateUser(userId)}, {}, {}, {}, {"clears", "empties"})
OwnUser == Glance(GetCurrentUser, {})
Workspaces(userId) ==
    Store(GetWorkspacesForUser(userId), {DeleteWorkspace(userId)}, {}, {}, {}, {"clears", "forgets", "switches", "local", "stream"})
CommonProjects(userId) == Glance(GetCommonProjects(userId), {"clears", "forgets", "switches", "local", "stream"})
UserEvents(userId) == Glance(GetUserEvents(userId), {"clears", "switches", "local", "stream"})
AllSessions == Glance(GetAllSessions, {"local"})
Events == Glance(GetEvents, {"local"})
Health(status) == Glance(status, {"local"})

GitInstances(instanceId) ==
    Store(ListGitInstances, {CreateGitInstance, EditGitInstance(instanceId), DeleteGitInstance(instanceId)}, {}, {}, {}, {})
GitInstanceOfPage(instanceId) ==
    Store(GetGitInstance(instanceId), {}, {}, {EditGitInstance(instanceId), DeleteGitInstance(instanceId)}, {}, {})
T4CInstances(instanceId) ==
    Store(GetT4cInstances, {CreateT4cInstance, EditT4cInstance(instanceId), DeleteT4cInstance(instanceId)},
          {}, {}, {}, {"clears", "forgets", "empties"})
T4CInstanceOfPage(instanceId) ==
    Store(GetT4cInstance(instanceId), {}, {EditT4cInstance(instanceId)}, {DeleteT4cInstance(instanceId)},
          {CreateT4cInstance}, {"forgets", "empties"})
LicenseServers(serverId) ==
    Store(GetT4cLicenseServers, {CreateT4cLicenseServer, EditT4cLicenseServer(serverId), DeleteT4cLicenseServer(serverId)},
          {}, {}, {}, {"clears", "forgets"})
LicenseServerOfPage(serverId) ==
    Store(GetT4cLicenseServer(serverId), {}, {EditT4cLicenseServer(serverId)}, {DeleteT4cLicenseServer(serverId)},
          {CreateT4cLicenseServer}, {"forgets", "empties"})

Tools(toolId) == Store(GetTools, {}, {}, {}, {CreateTool, DeleteTool(toolId)}, {})
ToolOfPage(toolId) ==
    Store(GetToolById(toolId), {}, {UpdateTool(toolId)}, {DeleteTool(toolId)}, {CreateTool}, {"local"})

\* The projects in which the user has at least a role; only the dialog that moves a
\* model asks for less than all.
AnyRole == CHOOSE role \in Ids : TRUE
Projects(minimumRole) ==
    Store(GetProjects(minimumRole), IF minimumRole = AnyRole THEN {CreateProject("p"), UpdateProject("p"), DeleteProject("p")} ELSE {},
          {}, {}, {}, {"forgets"})
ProjectTools(projectSlug) ==
    Store(GetProjectTools(projectSlug), {DeleteToolFromProject(projectSlug)}, {}, {LinkToolToProject(projectSlug)},
          {}, {"clears"})
GitModels(toolModel) ==
    Store(GetGitModels(toolModel), {UpdateGitModelById(toolModel)}, {}, {},
          {CreateGitModel(toolModel), DeleteGitModelById(toolModel)}, {"empties"})
GitModelOfPage(gitModelId) ==
    Store(GetGitModelById(gitModelId), {}, {}, {UpdateGitModelById(gitModelId), DeleteGitModelById(gitModelId)}, {}, {})
T4CModels(toolModel) ==
    Store(ListT4cModels(toolModel), {CreateT4cModel(toolModel), UpdateT4cModel(toolModel), DeleteT4cModel(toolModel)}, {}, {}, {},
          {"forgets", "empties"})
T4CModelOfPage(t4cModelId) ==
    Store(GetT4cModel(t4cModelId), {}, {UpdateT4cModel(t4cModelId)}, {DeleteT4cModel(t4cModelId)}, {},
          {"forgets", "empties"})
Restrictions(modelSlug) ==
    Store(GetModelBySlug("p", modelSlug), {UpdateRestrictions(modelSlug)}, {}, {}, {}, {"forgets"})
PipelinesOfModel(toolModel) == Store(GetPipelines(toolModel), {CreateBackup(toolModel), DeletePipeline(toolModel)}, {}, {}, {}, {"clears"})
PipelineOfPage(pipelineId) == Glance(GetPipeline(pipelineId), {"clears", "empties", "switches", "stream"})
Diagrams(toolModel) == Store(GetDiagramMetadata(toolModel), {EmptyCache(toolModel)}, {}, {}, {}, {"clears", "local", "closes"})
Provisioning(toolModel) == Store(GetProvisioning(toolModel), {ResetProvisioning(toolModel)}, {}, {}, {}, {"local"})
Badge(toolModel) == Glance(GetModelComplexityBadge(toolModel), {"switches", "local", "stream"})
Readmes(toolModel) == Glance(GetReadme(toolModel), {"local"})
Revisions(url) == Glance(GetRevisions(url), {"forgets"})
RevisionsOfGitModel(url) == Glance(GetRevisionsWithModelCredentials(url), {"forgets"})
Permissions(schema) == Glance(schema, {"local"})
DefaultTool == Glance(GetDefaultTool, {"local"})
VersionsForAllTools == Glance(GetVersionsForAllTools, {"local"})

\* Every store, for the thing a page is about.
Stores(id) ==
    [announcements |-> Announcements, configuration |-> Configuration, unifiedConfig |-> UnifiedConfig,
     pureVariants |-> PureVariants, tokens |-> Tokens, users |-> Users(id), user |-> UserOfPage(id),
     workspaces |-> Workspaces(id), commonProjects |-> CommonProjects(id), userEvents |-> UserEvents(id),
     allSessions |-> AllSessions, events |-> Events, generalStatus |-> Health(GeneralStatus),
     projectStatus |-> Health(ProjectStatus), modelStatus |-> Health(ModelStatus), gitInstances |-> GitInstances(id),
     gitInstance |-> GitInstanceOfPage(id),
     t4cInstances |-> T4CInstances(id), t4cInstance |-> T4CInstanceOfPage(id),
     licenseServers |-> LicenseServers(id), licenseServer |-> LicenseServerOfPage(id),
     tools |-> Tools(id), tool |-> ToolOfPage(id), projects |-> Projects(id), projectTools |-> ProjectTools(id),
     gitModels |-> GitModels(id), gitModel |-> GitModelOfPage(id), t4cModels |-> T4CModels(id),
     t4cModel |-> T4CModelOfPage(id), restrictions |-> Restrictions(id), pipelines |-> PipelinesOfModel(id),
     pipeline |-> PipelineOfPage(id), diagrams |-> Diagrams(id), provisioning |-> Provisioning(id),
     badge |-> Badge(id), readmes |-> Readmes(id), revisions |-> Revisions(id), privateRevisions |-> RevisionsOfGitModel(id),
     permissions |-> Permissions(GetAvailablePermissions), projectPermissions |-> Permissions(GetAvailableProjectPermissions),
     defaultTool |-> DefaultTool, allVersions |-> VersionsForAllTools, ownUser |-> OwnUser]

Table == [id \in Ids |-> Stores(id)]
Names == DOMAIN Table[CHOOSE id \in Ids : TRUE]
ReadsOf == [name \in Names |-> {Table[id][name].read : id \in Ids}]
StoreOf ==
    [name \in Names |->
        [read \in ReadsOf[name] |-> CHOOSE store \in {Table[id][name] : id \in Ids} : store.read = read]]
Ways == [name \in Names |-> Table[CHOOSE id \in Ids : TRUE][name].ways]

VARIABLES
    storeName,    \* the store of this behaviour, one of Names
    storePage,    \* the read of the page that is open, or NoPage
    storeHeld,    \* the value: the read it answers and the version of the data, or Undef
    storeStreams, \* the subscriptions alive to what the page is about
    storeData,    \* the backend: the version of what each read returns
    storeCalls,   \* the requests under way, in the order they were sent
    storeNewest,  \* the newest version of each read that an answer has brought
    storeLost     \* since the store last asked what its page is about a request failed that mattered

storeVars == <<storeName, storePage, storeHeld, storeStreams, storeData, storeCalls, storeNewest, storeLost>>

NoPage == Request("GET", "no page", <<>>)
Undef == [read |-> NoPage, version |-> -1]
Unserved == -1

ChangesOf(name, read) ==
    LET store == StoreOf[name][read] IN store.reloads \cup store.answers \cup store.leaves \cup store.creates
Does(way) == way \in Ways[storeName]
IsRead(call) == call.request = call.of

\* of: the read it is, or the read whose data it changes; page: its page is still there.
Sent(request, of) == [request |-> request, of |-> of, seen |-> Unserved, page |-> TRUE]

StoresInit ==
    /\ storeName \in Names
    /\ storePage = NoPage /\ storeHeld = Undef /\ storeStreams = 1
    /\ storeData = [read \in ReadsOf[storeName] |-> 0]
    /\ storeCalls = <<>>
    /\ storeNewest = [read \in ReadsOf[storeName] |-> Undef.version] /\ storeLost = FALSE

\* switchMap drops the reads that are under way.
Kept ==
    IF Does("switches")
    THEN Filtered(storeCalls, {i \in DOMAIN storeCalls : ~IsRead(storeCalls[i])})
    ELSE storeCalls

\* What the requests of a page become when it is gone, or opened anew.
Orphans(calls) ==
    IF Does("local") THEN [i \in DOMAIN calls |-> [calls[i] EXCEPT !.page = FALSE]] ELSE calls

\* The store reads read so many times, with calls under way besides.
AskFor(read, calls, times) ==
    /\ Len(calls) + times <= MaxCalls
    /\ storeCalls' = calls \o [k \in 1 .. times |-> Sent(read, read)]
    /\ storeHeld' = IF Does("clears") THEN Undef ELSE storeHeld

OpenStore(read) ==
    /\ storePage' = read
    /\ IF storeStreams > 0
       THEN AskFor(read, Kept, storeStreams) /\ storeLost' = FALSE
       ELSE UNCHANGED <<storeHeld, storeCalls, storeLost>>
    /\ UNCHANGED <<storeName, storeStreams, storeData, storeNewest>>

\* The page is left, with calls under way.
LeavePage(calls) ==
    /\ storePage' = NoPage
    /\ storeHeld' = IF Does("empties") \/ Does("local") THEN Undef ELSE storeHeld
    /\ storeStreams' = 1
    /\ storeCalls' = Orphans(calls)

CloseStore ==
    /\ storePage # NoPage
    /\ LeavePage(storeCalls)
    /\ UNCHANGED <<storeName, storeData, storeNewest, storeLost>>

\* The user changes the data: from the page, or from one that leads to it.
ChangeData(read, request) ==
    LET store == StoreOf[storeName][read] IN
    /\ \/ storePage = read /\ request \in store.reloads \cup store.answers \cup store.leaves
       \/ storePage = NoPage /\ request \in store.creates
    /\ storeData[read] < MaxChanges /\ Len(storeCalls) < MaxCalls
    /\ storeCalls' = Append(storeCalls, Sent(request, read))
    /\ UNCHANGED <<storeName, storePage, storeHeld, storeStreams, storeData, storeNewest, storeLost>>

\* The backend serves the i-th request under way.
ServeCall(i) ==
    LET call == storeCalls[i]
        version == IF IsRead(call) THEN storeData[call.of] ELSE storeData[call.of] + 1
    IN  /\ call.seen = Unserved /\ version <= MaxChanges
        /\ storeData' = [storeData EXCEPT ![call.of] = version]
        /\ storeCalls' = [storeCalls EXCEPT ![i].seen = version]
        /\ UNCHANGED <<storeName, storePage, storeHeld, storeStreams, storeNewest, storeLost>>

----------------------------------------------------------------------------
(* Answers *)

Others(i) == RemoveAt(storeCalls, i)

\* The store takes an answer.
Hold(call) ==
    /\ storeHeld' = [read |-> call.of, version |-> call.seen]
    /\ storeNewest' = [storeNewest EXCEPT ![call.of] = Max({call.seen, storeNewest[call.of]})]

ReadReturns(i) ==
    LET call == storeCalls[i] IN
    /\ call.seen # Unserved /\ IsRead(call)
    /\ storeCalls' = Others(i)
    /\ IF call.page THEN Hold(call) ELSE UNCHANGED <<storeHeld, storeNewest>>
    /\ UNCHANGED <<storeName, storePage, storeStreams, storeData, storeLost>>

\* Mutant: what was changed is not read again.
ReloadNever(i) ==
    /\ storeCalls' = Others(i)
    /\ UNCHANGED <<storePage, storeHeld, storeStreams, storeNewest, storeLost>>

\* What was changed is read again, whichever page is open by now; a page that follows
\* a stream subscribes to it once more, and that reads what it is about now.
Reload(i) ==
    LET read == IF Does("stream") THEN storePage ELSE storeCalls[i].of IN
    /\ AskFor(read, Others(i), 1)
    /\ storeLost' = (storeLost /\ read # storePage)
    /\ storeStreams' = IF Does("stream") THEN storeStreams + 1 ELSE storeStreams
    /\ UNCHANGED <<storePage, storeNewest>>

\* The router goes on to the page of what was created.
GoOn(i) ==
    /\ storePage' = storeCalls[i].of
    /\ AskFor(storeCalls[i].of, Orphans(Others(i)), 1)
    /\ storeLost' = FALSE
    /\ UNCHANGED <<storeStreams, storeNewest>>

ChangeReturns(i) ==
    LET call == storeCalls[i]
        store == StoreOf[storeName][call.of]
    IN  /\ call.seen # Unserved /\ call.page
        /\ \/ call.request \in store.reloads /\ Reload(i)
           \/ /\ call.request \in store.answers /\ Hold(call)
              /\ storeCalls' = Others(i)
              /\ UNCHANGED <<storePage, storeStreams, storeLost>>
           \/ call.request \in store.leaves /\ LeavePage(Others(i)) /\ UNCHANGED <<storeNewest, storeLost>>
           \/ call.request \in store.creates /\ GoOn(i)
        /\ UNCHANGED <<storeName, storeData>>

\* The change was made from a page that is gone: what it would have set off is of no use.
OrphanReturns(i) ==
    /\ storeCalls[i].seen # Unserved /\ ~storeCalls[i].page /\ ~IsRead(storeCalls[i])
    /\ storeCalls' = Others(i)
    /\ storeLost' = TRUE
    /\ UNCHANGED <<storeName, storePage, storeHeld, storeStreams, storeData, storeNewest>>

\* An error instead of an answer, whether the backend has served the request or not.
ReadFails(i) ==
    LET closes == Does("closes") IN
    /\ IsRead(storeCalls[i])
    /\ IF ~storeCalls[i].page
       THEN storeCalls' = Others(i) /\ UNCHANGED <<storePage, storeHeld, storeStreams, storeLost>>
       ELSE /\ storeLost' = TRUE
            /\ IF closes
               THEN LeavePage(Others(i))
               ELSE /\ storeCalls' = Others(i)
                    /\ storeHeld' = IF Does("forgets") THEN Undef ELSE storeHeld
                    /\ storeStreams' = IF Does("stream") THEN storeStreams - 1 ELSE storeStreams
                    /\ UNCHANGED storePage
    /\ UNCHANGED <<storeName, storeData, storeNewest>>

ChangeFails(i) ==
    /\ ~IsRead(storeCalls[i])
    /\ storeCalls' = Others(i)
    /\ storeLost' = (storeLost \/ storeCalls[i].seen # Unserved)
    /\ UNCHANGED <<storeName, storePage, storeHeld, storeStreams, storeData, storeNewest>>

StoresNext ==
    \/ CloseStore
    \/ \E read \in ReadsOf[storeName] :
          \/ OpenStore(read)
          \/ \E request \in ChangesOf(storeName, read) : ChangeData(read, request)
    \/ \E i \in DOMAIN storeCalls :
          \/ ServeCall(i) \/ ReadReturns(i) \/ ChangeReturns(i) \/ OrphanReturns(i)
          \/ ReadFails(i) \/ ChangeFails(i)

StoresSpec == StoresInit /\ [][StoresNext]_storeVars

----------------------------------------------------------------------------
(* Properties *)

Versions == -1 .. MaxChanges

StoresTypeOK ==
    /\ storeName \in Names
    /\ storePage \in ReadsOf[storeName] \cup {NoPage}
    /\ storeHeld \in [read : ReadsOf[storeName] \cup {NoPage}, version : Versions]
    /\ storeData \in [ReadsOf[storeName] -> 0 .. MaxChanges]
    /\ Len(storeCalls) <= MaxCalls
    /\ \A i \in DOMAIN storeCalls :
          storeCalls[i].of \in ReadsOf[storeName] /\ storeCalls[i].seen \in Versions
    /\ storeNewest \in [ReadsOf[storeName] -> Versions]
    /\ storeStreams \in Nat /\ storeLost \in BOOLEAN

\* The value shown is of another page, or an answer older than one before it came last.
Outrun ==
    \/ storeHeld.read \notin {storePage, NoPage}
    \/ storeHeld.read = storePage /\ storeHeld.version < storeNewest[storePage]

\* When every request has been answered, a page shows the backend's data as its user
\* has last changed it, unless an older answer or one for another page came last, or a
\* request failed: every change is followed by a read that sees it, in every service.
QuietStoreIsFresh ==
    storeCalls = <<>> /\ storePage # NoPage /\ ~storeLost =>
        Outrun \/ storeHeld = [read |-> storePage, version |-> storeData[storePage]]

=============================================================================
