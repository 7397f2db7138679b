---------------------------------- MODULE Api ----------------------------------
(***************************************************************************)
(* The requests the frontend sends, one operator per method of the         *)
(* generated client (openapi/api): the verb, what it is about and which    *)
(* one.                                                                    *)
(***************************************************************************)

Request(verb, about, key) == [verb |-> verb, about |-> about, key |-> key]

\* What a read returns, given the state of the backend.
Serve(request, state) == state[request.key[1]]

\* Sessions
GetSession(sessionId) == Request("GET", "session", <<sessionId>>)
ListFiles(sessionId) == Request("GET", "files", <<sessionId>>)
UploadFiles(sessionId, files) == Request("POST", "files", <<sessionId, files>>)
DeleteFile(sessionId, path) == Request("DELETE", "files", <<sessionId, path>>)
TerminateSession(sessionId) == Request("DELETE", "session", <<sessionId>>)
GetSessionsForUser(userId) == Request("GET", "sessions of user", <<userId>>)

\* Projects, their models and members
GetProjectBySlug(projectSlug) == Request("GET", "project", <<projectSlug>>)
CreateProject(projectSlug) == Request("POST", "project", <<projectSlug>>)
UpdateProject(projectSlug) == Request("PATCH", "project", <<projectSlug>>)
DeleteProject(projectSlug) == Request("DELETE", "project", <<projectSlug>>)
GetModels(projectSlug) == Request("GET", "models", <<projectSlug>>)
GetModelBySlug(projectSlug, modelSlug) == Request("GET", "model", <<projectSlug, modelSlug>>)
CreateNewToolModel(projectSlug, modelSlug) == Request("POST", "model", <<projectSlug, modelSlug>>)
PatchToolModel(projectSlug, modelSlug) == Request("PATCH", "model", <<projectSlug, modelSlug>>)
DeleteToolModel(projectSlug, modelSlug) == Request("DELETE", "model", <<projectSlug, modelSlug>>)
GetCurrentProjectUser(projectSlug) == Request("GET", "role", <<projectSlug>>)
GetUsersForProject(projectSlug) == Request("GET", "members", <<projectSlug>>)
AddUserToProject(projectSlug) == Request("POST", "members", <<projectSlug>>)
UpdateProjectUser(projectSlug) == Request("PATCH", "members", <<projectSlug>>)
RemoveUserFromProject(projectSlug) == Request("DELETE", "members", <<projectSlug>>)

\* Backup pipelines of a model, and events of a project
GetPipelineRun(runId) == Request("GET", "run", <<runId>>)
GetLogs(runId) == Request("GET", "logs", <<runId>>)
GetPipelineRunEvents(runId) == Request("GET", "events of run", <<runId>>)
GetPipelineRuns(pipelineId, page) == Request("GET", "runs", <<pipelineId, page>>)
GetProjectEvents(projectSlug, page) == Request("GET", "events", <<projectSlug, page>>)

\* Sessions, as the viewer, the dialogs and the overview of all sessions use them
GetSessionConnectionInformation(sessionId) == Request("GET", "connection", <<sessionId>>)
RequestSession(tool) == Request("POST", "session", <<tool>>)
ShareSession(sessionId, username) == Request("POST", "shared", <<sessionId, username>>)
DownloadFile(sessionId, path) == Request("GET", "file", <<sessionId, path>>)
GetAllSessions == Request("GET", "all sessions", <<>>)

\* Identity tokens
GetAuthorizationUrl == Request("GET", "authorization url", <<>>)
GetIdentityToken == Request("POST", "tokens", <<>>)
RefreshIdentityToken == Request("PUT", "tokens", <<>>)
Logout == Request("DELETE", "tokens", <<>>)

\* Announcements, configuration, integrations, health and events
GetAnnouncements == Request("GET", "announcements", <<>>)
CreateAnnouncement == Request("POST", "announcements", <<>>)
UpdateAnnouncement == Request("PATCH", "announcements", <<>>)
DeleteAnnouncement == Request("DELETE", "announcements", <<>>)
GetConfiguration == Request("GET", "configuration", <<>>)
UpdateConfiguration == Request("PUT", "configuration", <<>>)
GetUnifiedConfig == Request("GET", "unified configuration", <<>>)
GetLicense == Request("GET", "pure::variants", <<>>)
SetLicense == Request("PATCH", "pure::variants", <<>>)
UploadLicenseKeyFile == Request("POST", "pure::variants key", <<>>)
DeleteLicenseKeyFile == Request("DELETE", "pure::variants key", <<>>)
GeneralStatus == Request("GET", "general status", <<>>)
ProjectStatus == Request("GET", "project status", <<>>)
ModelStatus == Request("GET", "model status", <<>>)
GetEvents == Request("GET", "events", <<>>)

\* Users, their tokens and their workspaces
GetUsers == Request("GET", "users", <<>>)
CreateUser == Request("POST", "users", <<>>)
UpdateUser(userId) == Request("PATCH", "user", <<userId>>)
DeleteUser(userId) == Request("DELETE", "user", <<userId>>)
GetUser(userId) == Request("GET", "user", <<userId>>)
GetCurrentUser == Request("GET", "current user", <<>>)
GetUserEvents(userId) == Request("GET", "events of user", <<userId>>)
GetCommonProjects(userId) == Request("GET", "common projects", <<userId>>)
GetWorkspacesForUser(userId) == Request("GET", "workspaces", <<userId>>)
DeleteWorkspace(userId) == Request("DELETE", "workspaces", <<userId>>)
GetAllTokensOfUser == Request("GET", "access tokens", <<>>)
CreateTokenForUser == Request("POST", "access tokens", <<>>)
DeleteTokenForUser == Request("DELETE", "access tokens", <<>>)
GetAvailablePermissions == Request("GET", "permissions", <<>>)
GetAvailableProjectPermissions == Request("GET", "project permissions", <<>>)

\* Git and TeamForCapella servers
ListGitInstances == Request("GET", "git instances", <<>>)
CreateGitInstance == Request("POST", "git instances", <<>>)
EditGitInstance(instanceId) == Request("PATCH", "git instance", <<instanceId>>)
DeleteGitInstance(instanceId) == Request("DELETE", "git instance", <<instanceId>>)
GetGitInstance(instanceId) == Request("GET", "git instance", <<instanceId>>)
GetRevisions(url) == Request("POST", "revisions", <<url>>)
GetT4cInstances == Request("GET", "t4c instances", <<>>)
CreateT4cInstance == Request("POST", "t4c instances", <<>>)
EditT4cInstance(instanceId) == Request("PATCH", "t4c instance", <<instanceId>>)
DeleteT4cInstance(instanceId) == Request("DELETE", "t4c instance", <<instanceId>>)
GetT4cInstance(instanceId) == Request("GET", "t4c instance", <<instanceId>>)
GetT4cLicenseServers == Request("GET", "license servers", <<>>)
CreateT4cLicenseServer == Request("POST", "license servers", <<>>)
EditT4cLicenseServer(serverId) == Request("PATCH", "license server", <<serverId>>)
DeleteT4cLicenseServer(serverId) == Request("DELETE", "license server", <<serverId>>)
GetT4cLicenseServer(serverId) == Request("GET", "license server", <<serverId>>)
ListT4cRepositories(instanceId) == Request("GET", "repositories", <<instanceId>>)
CreateT4cRepository(instanceId, repositoryId) == Request("POST", "repository", <<instanceId, repositoryId>>)
StartT4cRepository(instanceId, repositoryId) == Request("POST", "start", <<instanceId, repositoryId>>)
StopT4cRepository(instanceId, repositoryId) == Request("POST", "stop", <<instanceId, repositoryId>>)
RecreateT4cRepository(instanceId, repositoryId) == Request("POST", "recreate", <<instanceId, repositoryId>>)
DeleteT4cRepository(instanceId, repositoryId) == Request("DELETE", "repository", <<instanceId, repositoryId>>)

\* Tools, their versions and natures
GetTools == Request("GET", "tools", <<>>)
CreateTool == Request("POST", "tools", <<>>)
DeleteTool(toolId) == Request("DELETE", "tool", <<toolId>>)
UpdateTool(toolId) == Request("PUT", "tool", <<toolId>>)
GetToolById(toolId) == Request("GET", "tool", <<toolId>>)
GetDefaultTool == Request("GET", "default tool", <<>>)
GetVersionsForAllTools == Request("GET", "all versions", <<>>)
GetToolVersions(toolId) == Request("GET", "versions", <<toolId>>)
GetDefaultToolVersion(toolId) == Request("GET", "default version", <<toolId>>)
CreateToolVersion(toolId, versionId) == Request("POST", "versions", <<toolId, versionId>>)
UpdateToolVersion(toolId, versionId) == Request("PUT", "versions", <<toolId, versionId>>)
DeleteToolVersion(toolId, versionId) == Request("DELETE", "versions", <<toolId, versionId>>)
GetToolNatures(toolId) == Request("GET", "natures", <<toolId>>)
GetDefaultToolNature(toolId) == Request("GET", "default nature", <<toolId>>)
CreateToolNature(toolId, natureId) == Request("POST", "natures", <<toolId, natureId>>)
UpdateToolNature(toolId, natureId) == Request("PUT", "natures", <<toolId, natureId>>)
DeleteToolNature(toolId, natureId) == Request("DELETE", "natures", <<toolId, natureId>>)

\* What is linked to a project or to a model; toolModel stands for project and model slug
GetProjects(minimumRole) == Request("GET", "projects", <<minimumRole>>)
GetProjectTools(projectSlug) == Request("GET", "tools of project", <<projectSlug>>)
LinkToolToProject(projectSlug) == Request("POST", "tools of project", <<projectSlug>>)
DeleteToolFromProject(projectSlug) == Request("DELETE", "tools of project", <<projectSlug>>)
GetGitModels(toolModel) == Request("GET", "git models", <<toolModel>>)
CreateGitModel(toolModel) == Request("POST", "git models", <<toolModel>>)
GetGitModelById(gitModelId) == Request("GET", "git model", <<gitModelId>>)
UpdateGitModelById(gitModelId) == Request("PUT", "git model", <<gitModelId>>)
DeleteGitModelById(gitModelId) == Request("DELETE", "git model", <<gitModelId>>)
GetRevisionsWithModelCredentials(url) == Request("POST", "revisions", <<url>>)
EmptyCache(toolModel) == Request("DELETE", "diagrams", <<toolModel>>)
GetDiagramMetadata(toolModel) == Request("GET", "diagrams", <<toolModel>>)
GetDiagram(toolModel, uuid) == Request("GET", "diagram", <<toolModel, uuid>>)
ListT4cModels(toolModel) == Request("GET", "t4c models", <<toolModel>>)
CreateT4cModel(toolModel) == Request("POST", "t4c models", <<toolModel>>)
GetT4cModel(t4cModelId) == Request("GET", "t4c model", <<t4cModelId>>)
UpdateT4cModel(t4cModelId) == Request("PATCH", "t4c model", <<t4cModelId>>)
DeleteT4cModel(t4cModelId) == Request("DELETE", "t4c model", <<t4cModelId>>)
GetModelComplexityBadge(toolModel) == Request("GET", "badge", <<toolModel>>)
GetReadme(toolModel) == Request("GET", "readme", <<toolModel>>)
UpdateRestrictions(toolModel) == Request("PATCH", "restrictions", <<toolModel>>)
GetProvisioning(toolModel) == Request("GET", "provisioning", <<toolModel>>)
ResetProvisioning(toolModel) == Request("DELETE", "provisioning", <<toolModel>>)
GetPipelines(toolModel) == Request("GET", "pipelines", <<toolModel>>)
GetPipeline(pipelineId) == Request("GET", "pipeline", <<pipelineId>>)
CreateBackup(toolModel) == Request("POST", "pipelines", <<toolModel>>)
DeletePipeline(toolModel) == Request("DELETE", "pipelines", <<toolModel>>)
CreatePipelineRun(pipelineId) == Request("POST", "run", <<pipelineId>>)
SubmitFeedback(sessionId) == Request("POST", "feedback", <<sessionId>>)

=============================================================================
