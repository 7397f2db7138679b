----------------------------- MODULE ProjectPages -----------------------------
(***************************************************************************)
(* The pages of a project and of its models in the frontend                *)
(* (projects/project-wrapper, model-wrapper and the services of projects,  *)
(* models and members).                                                    *)
(*                                                                         *)
(* The services outlive the pages.  A page asks for what its route names   *)
(* when the route changes and clears it when it is left; only the request  *)
(* for the user's own role is dropped when another project arrives, every  *)
(* other answer is taken whenever it comes.                                *)
(***************************************************************************)
EXTENDS Naturals, FiniteSets, Api

CONSTANTS
    Slugs,      \* projects
    ModelSlugs, \* models, the same slugs in every project
    Managed,    \* projects the user administers
    Offered,    \* the kinds of change, verb and subject, that the user makes
    MaxLoads,   \* bound on the reads under way
    MaxWrites   \* bound on the changes under way

NoSlug == "no slug"

ASSUME ProjectPagesAssumption ==
    /\ NoSlug \notin Slugs \cup ModelSlugs
    /\ Managed \subseteq Slugs /\ MaxLoads \in Nat /\ MaxWrites \in Nat

VARIABLES
    route,        \* the project and the model the address names
    project,      \* _project
    models,       \* _models: the project they are of
    model,        \* _model: project and slug
    projectUser,  \* _projectUser: the project the role is for
    projectUsers, \* _projectUsers: the project the members are of
    lastProject,  \* the last project that project$ emitted
    modelProject, \* the last one ModelWrapperComponent has seen
    roleRequest,  \* the GetCurrentProjectUser under way, or NoRole
    roleStream,   \* no such request has failed: the stream still lives
    pageRequests, \* the other requests under way, at most one of each
    outrun        \* an answer about another page arrived

pageVars == <<route, project, models, model, projectUser, projectUsers, lastProject,
              modelProject, roleRequest, roleStream, pageRequests, outrun>>

NoModel == <<NoSlug, NoSlug>>
NoRole == GetCurrentProjectUser(NoSlug)
AskedFor == roleRequest.key[1]

ModelLoads == {GetModelBySlug(p, m) : p \in Slugs, m \in ModelSlugs}
Loads == {GetProjectBySlug(p) : p \in Slugs} \cup {GetModels(p) : p \in Slugs}
            \cup {GetUsersForProject(p) : p \in Slugs} \cup ModelLoads
MemberChanges == {AddUserToProject(p) : p \in Slugs} \cup {UpdateProjectUser(p) : p \in Slugs}
                    \cup {RemoveUserFromProject(p) : p \in Slugs}
ModelChanges == {PatchToolModel(p, m) : p \in Slugs, m \in ModelSlugs}
                   \cup {CreateNewToolModel(p, m) : p \in Slugs, m \in ModelSlugs}
Deletions == {DeleteToolModel(p, m) : p \in Slugs, m \in ModelSlugs}
ProjectChanges == {UpdateProject(p) : p \in Slugs} \cup {CreateProject(p) : p \in Slugs}
Writes == MemberChanges \cup ModelChanges \cup Deletions \cup ProjectChanges
             \cup {DeleteProject(p) : p \in Slugs}

Routes == {r \in [project : Slugs \cup {NoSlug}, model : ModelSlugs \cup {NoSlug}] :
              r.project = NoSlug => r.model = NoSlug}

InFlight(kind) == Cardinality(pageRequests \cap kind)

PagesInit ==
    /\ route = [project |-> NoSlug, model |-> NoSlug]
    /\ project = NoSlug /\ models = NoSlug /\ model = NoModel
    /\ projectUser = NoSlug /\ projectUsers = NoSlug
    /\ lastProject = NoSlug /\ modelProject = NoSlug
    /\ roleRequest = NoRole /\ roleStream = TRUE
    /\ pageRequests = {}
    /\ outrun = FALSE

----------------------------------------------------------------------------
(* What an emission sets off *)

\* Some requests were answered, some are sent.
Exchange(answered, sent) ==
    /\ (pageRequests \ answered) \cap sent = {}
    /\ pageRequests' = (pageRequests \ answered) \cup sent
    /\ Cardinality(pageRequests' \cap Loads) <= MaxLoads

\* loadProjectUsers, for whoever is manager of the project the role at hand is for.
AsksForMembers(p, role) == IF p # NoSlug /\ role \in Managed THEN {GetUsersForProject(p)} ELSE {}

\* ModelWrapperComponent loads the model its route names, once it has seen a project.
AsksForModel(p, m) == IF p # NoSlug /\ m # NoSlug THEN {GetModelBySlug(p, m)} ELSE {}

\* Mutant: the request about an earlier project is waited for.
AskRoleOnce(p) ==
    roleRequest' = IF roleRequest = NoRole /\ roleStream THEN GetCurrentProjectUser(p) ELSE roleRequest

\* switchMap: the request about an earlier project is dropped.
AskRole(p) == roleRequest' = IF roleStream THEN GetCurrentProjectUser(p) ELSE NoRole

\* project$ emits p; the requests it sends are MoreRequests(p).
EmitProject(p) ==
    /\ project' = p
    /\ IF p = NoSlug
       THEN /\ projectUser' = NoSlug /\ projectUsers' = NoSlug
            /\ UNCHANGED <<lastProject, modelProject, roleRequest>>
       ELSE /\ lastProject' = p
            /\ modelProject' = IF route.model = NoSlug THEN modelProject ELSE p
            /\ AskRole(p)
            /\ projectUsers' = IF projectUser \in Managed THEN NoSlug ELSE projectUsers
            /\ UNCHANGED projectUser

MoreRequests(p) == AsksForMembers(p, projectUser) \cup AsksForModel(p, route.model)

KeepProject == UNCHANGED <<project, projectUser, projectUsers, lastProject, modelProject, roleRequest>>

----------------------------------------------------------------------------
(* The router *)

\* Mutant: leaving the pages of a project forgets the list of models.
ClearProjectAndModel == EmitProject(NoSlug) /\ model' = NoModel /\ UNCHANGED models

\* ProjectWrapperComponent.ngOnDestroy
ClearProject == EmitProject(NoSlug) /\ model' = NoModel /\ models' = NoSlug

LeaveProject ==
    /\ route.project # NoSlug
    /\ route' = [project |-> NoSlug, model |-> NoSlug]
    /\ ClearProject
    /\ UNCHANGED <<roleStream, pageRequests, outrun>>

\* The parameters of the route change: the wrappers that are shown already stay.
EnterProject(r) ==
    /\ r # route /\ r.project # NoSlug
    /\ route' = r
    /\ LET seen == IF r.model = NoSlug THEN NoSlug
                   ELSE IF route.model = NoSlug THEN project ELSE modelProject
           sent == (IF r.project = route.project THEN {}
                    ELSE {GetProjectBySlug(r.project), GetModels(r.project)})
                   \cup (IF r.model = route.model THEN {} ELSE AsksForModel(seen, r.model))
       IN  /\ modelProject' = seen
           /\ Exchange({}, sent)
    /\ model' = IF r.model = NoSlug THEN NoModel ELSE model
    /\ UNCHANGED <<project, models, projectUser, projectUsers, lastProject,
                   roleRequest, roleStream, outrun>>

\* The user changes what the page shows.
Change(request) ==
    /\ InFlight(Writes) < MaxWrites
    /\ <<request.verb, request.about>> \in Offered
    /\ Exchange({}, {request})
    /\ UNCHANGED <<route, models, model, roleStream, outrun>> /\ KeepProject

ChangeProject ==
    \/ project # NoSlug /\ \E request \in
           {UpdateProject(project), DeleteProject(project)}
              \cup {CreateNewToolModel(project, m) : m \in ModelSlugs}
              \cup {r \in MemberChanges : r.key = <<project>> /\ project = projectUsers} :
                 Change(request)
    \/ route.project = NoSlug /\ \E p \in Slugs : Change(CreateProject(p))

ChangeModel ==
    /\ project # NoSlug /\ model # NoModel
    /\ Change(PatchToolModel(project, model[2])) \/ Change(DeleteToolModel(project, model[2]))

----------------------------------------------------------------------------
(* Answers *)

\* The answer is about another project, or another model, than the address, or about
\* the members of a project for which no role is at hand.
Outruns(request) ==
    \/ request.key[1] # route.project
    \/ request \in ModelLoads \cup ModelChanges /\ request.key[2] # route.model
    \/ request.about = "members" /\ request.key[1] # projectUser

Answer(request, sent) ==
    /\ request \in pageRequests
    /\ Exchange({request}, sent)
    /\ UNCHANGED <<route, roleStream>>

Noted(request) == outrun' = (outrun \/ Outruns(request))

ProjectReturns(p) ==
    \E request \in {GetProjectBySlug(p), UpdateProject(p), CreateProject(p)} :
        /\ Answer(request, MoreRequests(p)) /\ Noted(request)
        /\ EmitProject(p)
        /\ UNCHANGED <<models, model>>

\* A request for a project that fails, and a project that was deleted.
ProjectGone(p) ==
    \E request \in {GetProjectBySlug(p), UpdateProject(p), CreateProject(p), DeleteProject(p)} :
        /\ Answer(request, {})
        /\ EmitProject(NoSlug)
        /\ UNCHANGED <<models, model, outrun>>

ModelsReturn(p) ==
    /\ Answer(GetModels(p), {}) /\ Noted(GetModels(p))
    /\ models' = p
    /\ UNCHANGED model /\ KeepProject

ModelsFail(p) ==
    /\ Answer(GetModels(p), {})
    /\ models' = NoSlug
    /\ UNCHANGED <<model, outrun>> /\ KeepProject

ModelReturns(p, m) ==
    \E request \in {GetModelBySlug(p, m), PatchToolModel(p, m), CreateNewToolModel(p, m)} :
        /\ Answer(request, IF request \in ModelLoads THEN {} ELSE {GetModels(p)})
        /\ Noted(request)
        /\ model' = <<p, m>>
        /\ UNCHANGED models /\ KeepProject

\* A read, a creation and setToolDetailsForModel clear the model when they fail.
ModelFails(p, m) ==
    \E request \in {GetModelBySlug(p, m), PatchToolModel(p, m), CreateNewToolModel(p, m)} :
        /\ Answer(request, {})
        /\ model' = NoModel
        /\ UNCHANGED <<models, outrun>> /\ KeepProject

ModelDeleted(p, m) ==
    /\ Answer(DeleteToolModel(p, m), {GetModels(p)})
    /\ model' = NoModel
    /\ UNCHANGED <<models, outrun>> /\ KeepProject

\* The backend serves the members of a project to those who manage it (ProjectUserScopes);
\* a role that was for another project asks for more.
MembersReturn(p) ==
    /\ p \in Managed
    /\ Answer(GetUsersForProject(p), {}) /\ Noted(GetUsersForProject(p))
    /\ projectUsers' = p
    /\ UNCHANGED <<project, models, model, projectUser, lastProject, modelProject, roleRequest>>

\* Every change of the members ends with loadProjectUsers.
MembersChanged(p) ==
    \E request \in MemberChanges :
        /\ request.key = <<p>>
        /\ Answer(request, {GetUsersForProject(p)})
        /\ projectUsers' = NoSlug
        /\ UNCHANGED <<project, models, model, projectUser, lastProject, modelProject,
                       roleRequest, outrun>>

\* Requests whose failure changes nothing.
NothingChanged(request) ==
    /\ request \notin Loads \cup ProjectChanges \/ request \in {GetUsersForProject(p) : p \in Slugs}
    /\ Answer(request, {})
    /\ UNCHANGED <<models, model, outrun>> /\ KeepProject

RoleReturns ==
    LET sent == AsksForMembers(lastProject, AskedFor) IN
    /\ roleRequest # NoRole
    /\ projectUser' = AskedFor /\ roleRequest' = NoRole
    /\ outrun' = (outrun \/ AskedFor # route.project)
    /\ Exchange({}, sent)
    /\ projectUsers' = IF sent = {} THEN projectUsers ELSE NoSlug
    /\ UNCHANGED <<route, project, models, model, lastProject, modelProject, roleStream>>

\* The error ends the stream: no role is asked for until the page is loaded anew.
RoleFails ==
    /\ roleRequest # NoRole
    /\ roleRequest' = NoRole /\ roleStream' = FALSE
    /\ UNCHANGED <<route, project, models, model, projectUser, projectUsers, lastProject,
                   modelProject, pageRequests, outrun>>

PagesNext ==
    \/ LeaveProject \/ ChangeProject \/ ChangeModel \/ RoleReturns \/ RoleFails
    \/ \E r \in Routes : EnterProject(r)
    \/ \E p \in Slugs :
          \/ ProjectReturns(p) \/ ProjectGone(p) \/ ModelsReturn(p) \/ ModelsFail(p)
          \/ MembersReturn(p) \/ MembersChanged(p)
          \/ \E m \in ModelSlugs : ModelReturns(p, m) \/ ModelFails(p, m) \/ ModelDeleted(p, m)
    \/ \E request \in Loads \cup Writes : NothingChanged(request)

PagesSpec == PagesInit /\ [][PagesNext]_pageVars

----------------------------------------------------------------------------
(* Properties *)

PagesTypeOK ==
    /\ route \in Routes
    /\ {project, models, projectUser, projectUsers, lastProject, modelProject}
          \subseteq Slugs \cup {NoSlug}
    /\ roleRequest \in {GetCurrentProjectUser(p) : p \in Slugs} \cup {NoRole}
    /\ model \in (Slugs \X ModelSlugs) \cup {NoModel}
    /\ pageRequests \subseteq Loads \cup Writes
    /\ roleStream \in BOOLEAN /\ outrun \in BOOLEAN

\* The role that decides which buttons the page offers is the one for the project it
\* shows, or the right one is on its way, or a failed request has ended the stream
\* (loadProjectUserOnProjectChange has no way to take it up again).
RoleFollowsProject ==
    project # NoSlug /\ projectUser \notin {NoSlug, project} =>
        roleRequest = GetCurrentProjectUser(project) \/ ~roleStream

\* When every answer has come, and none was about a page that had been left, the
\* services hold what the address names or nothing: however the user moves between
\* projects and models, changes and deletes them, and whatever fails.
QuietPageIsRight ==
    pageRequests = {} /\ roleRequest = NoRole /\ ~outrun =>
        /\ {project, models} \subseteq {NoSlug, route.project}
        /\ roleStream => {projectUser, projectUsers} \subseteq {NoSlug, route.project}
        /\ project # NoSlug => model \in {NoModel, <<route.project, route.model>>}

=============================================================================
