----------------------------- MODULE PagesProofs -----------------------------
(***************************************************************************)
(* The pages of a project, for any projects and models, any changes the    *)
(* user may make and any number of requests under way, the page of a       *)
(* pipeline run, and the login that leads to the pages.                    *)
(***************************************************************************)
EXTENDS ProjectPages, RunPage, Login, SequenceLemmas, TLAPS

\* What the services hold of the project and of the user's role.
RoleTypes ==
    /\ {project, projectUser, projectUsers, lastProject} \subseteq Slugs \cup {NoSlug}
    /\ roleRequest \in {GetCurrentProjectUser(p) : p \in Slugs} \cup {NoRole}
    /\ roleStream \in BOOLEAN

\* The project that is shown is the last one that was emitted, and the role that is
\* asked for is the one for that project.
RoleInv ==
    /\ RoleTypes
    /\ project # NoSlug => lastProject = project
    /\ roleRequest # NoRole => AskedFor = lastProject
    /\ RoleFollowsProject

\* A request for a role names its project.
LEMMA RoleKey ==
    ASSUME NEW p \in Slugs
    PROVE  /\ GetCurrentProjectUser(p).key[1] = p
           /\ GetCurrentProjectUser(p) # NoRole
  BY ProjectPagesAssumption DEF GetCurrentProjectUser, Request, NoRole

\* A step that leaves the role and the project alone.
LEMMA RoleKept ==
    ASSUME RoleInv, UNCHANGED <<project, projectUser, projectUsers, lastProject, roleRequest, roleStream>>
    PROVE  RoleInv'
  BY DEF RoleInv, RoleTypes, RoleFollowsProject, AskedFor

\* project$ emits a project or none.
LEMMA ProjectEmitted ==
    ASSUME RoleInv, NEW p \in Slugs \cup {NoSlug}, EmitProject(p), UNCHANGED roleStream
    PROVE  RoleInv'
  <1> USE DEF RoleInv, EmitProject
  <1>1. CASE p = NoSlug
    BY <1>1 DEF RoleTypes, RoleFollowsProject, AskedFor
  <1>2. CASE p # NoSlug
    <2>1. p \in Slugs /\ project' = p /\ lastProject' = p /\ projectUser' = projectUser
      BY <1>2
    <2>2. roleRequest' = IF roleStream THEN GetCurrentProjectUser(p) ELSE NoRole
      BY <1>2 DEF AskRole
    <2>3. RoleTypes'
      BY <1>2, <2>1, <2>2 DEF RoleTypes
    <2>4. roleRequest' # NoRole => AskedFor' = lastProject'
      BY <2>1, <2>2, RoleKey DEF AskedFor
    <2>5. RoleFollowsProject'
      BY <2>1, <2>2 DEF RoleFollowsProject
    <2> QED
      BY <2>1, <2>3, <2>4, <2>5
  <1> QED
    BY <1>1, <1>2

\* A role that arrives is for the project that was asked for.
LEMMA RoleReturned ==
    ASSUME RoleInv, RoleReturns
    PROVE  RoleInv'
  <1> USE DEF RoleInv, RoleReturns
  <1>1. PICK p \in Slugs : roleRequest = GetCurrentProjectUser(p)
    BY DEF RoleTypes
  <1>2. AskedFor = p /\ lastProject = p
    BY <1>1, RoleKey DEF AskedFor
  <1>3. /\ projectUser' = p /\ roleRequest' = NoRole
        /\ projectUsers' \in {projectUsers, NoSlug}
        /\ UNCHANGED <<project, lastProject, roleStream>>
    BY <1>2
  <1>4. RoleTypes'
    BY <1>3 DEF RoleTypes
  <1>5. RoleFollowsProject'
    BY <1>2, <1>3 DEF RoleFollowsProject
  <1> QED
    BY <1>2, <1>3, <1>4, <1>5

\* A failure ends the stream of the role.
LEMMA RoleFailed ==
    ASSUME RoleInv, RoleFails
    PROVE  RoleInv'
  BY DEF RoleInv, RoleFails, RoleTypes, RoleFollowsProject, AskedFor

----------------------------------------------------------------------------
(* Routes, models and requests *)

RouteTypes ==
    /\ route \in Routes
    /\ {models, modelProject} \subseteq Slugs \cup {NoSlug}
    /\ model \in (Slugs \X ModelSlugs) \cup {NoModel}
    /\ pageRequests \subseteq Loads \cup Writes
    /\ outrun \in BOOLEAN

PagesInv == RouteTypes /\ RoleInv

\* The requests for a project and its models are loads.
LEMMA LoadsOfSlugs ==
    ASSUME NEW p \in Slugs
    PROVE  /\ {GetProjectBySlug(p), GetModels(p), GetUsersForProject(p)} \subseteq Loads
           /\ \A m \in ModelSlugs : GetModelBySlug(p, m) \in Loads
  BY DEF Loads, ModelLoads

\* Requests that are answered and sent leave loads and changes under way.
LEMMA ExchangeTyped ==
    ASSUME RouteTypes, NEW answered, NEW sent \in SUBSET (Loads \cup Writes), Exchange(answered, sent)
    PROVE  pageRequests' \subseteq Loads \cup Writes
  BY DEF RouteTypes, Exchange

\* What is asked for after a role are loads.
LEMMA MembersTyped ==
    ASSUME NEW p \in Slugs \cup {NoSlug}, NEW role
    PROVE  AsksForMembers(p, role) \subseteq Loads
  BY LoadsOfSlugs DEF AsksForMembers

\* What is asked for when a model is chosen are loads.
LEMMA ModelTyped ==
    ASSUME NEW p \in Slugs \cup {NoSlug}, NEW m \in ModelSlugs \cup {NoSlug}
    PROVE  AsksForModel(p, m) \subseteq Loads
  BY LoadsOfSlugs DEF AsksForModel

\* Whether an answer is about a page before is true or false.
LEMMA NotedTyped ==
    ASSUME RouteTypes, NEW request, Noted(request)
    PROVE  outrun' \in BOOLEAN
  BY DEF RouteTypes, Noted, Outruns

\* The model of the address.
LEMMA RouteModel ==
    ASSUME RouteTypes
    PROVE  route.model \in ModelSlugs \cup {NoSlug}
  BY DEF RouteTypes, Routes

\* An emission keeps or takes the project that the model wrapper has seen.
LEMMA SeenTyped ==
    ASSUME RouteTypes, NEW p \in Slugs \cup {NoSlug}, EmitProject(p)
    PROVE  modelProject' \in Slugs \cup {NoSlug}
  BY DEF RouteTypes, EmitProject

----------------------------------------------------------------------------
(* The router and the user *)

\* Leaving a project clears what the services hold.
LEMMA LeavePageStep ==
    ASSUME PagesInv, LeaveProject
    PROVE  PagesInv'
  <1> USE DEF PagesInv, LeaveProject, ClearProject
  <1>1. RoleInv'
    BY ProjectEmitted
  <1>2. modelProject' \in Slugs \cup {NoSlug}
    BY SeenTyped
  <1>3. route' \in Routes
    BY DEF Routes
  <1> QED
    BY <1>1, <1>2, <1>3 DEF RouteTypes

\* Entering a project or a model asks for what the page shows.
LEMMA EnterStep ==
    ASSUME PagesInv, NEW r \in Routes, EnterProject(r)
    PROVE  PagesInv'
  <1> USE DEF PagesInv
  <1> DEFINE seen == IF r.model = NoSlug THEN NoSlug
                     ELSE IF route.model = NoSlug THEN project ELSE modelProject
             sent == (IF r.project = route.project THEN {}
                      ELSE {GetProjectBySlug(r.project), GetModels(r.project)})
                     \cup (IF r.model = route.model THEN {} ELSE AsksForModel(seen, r.model))
  <1>1. /\ r.project \in Slugs /\ route' = r
        /\ modelProject' = seen /\ Exchange({}, sent)
        /\ model' = IF r.model = NoSlug THEN NoModel ELSE model
        /\ UNCHANGED <<project, models, projectUser, projectUsers, lastProject,
                       roleRequest, roleStream, outrun>>
    BY DEF EnterProject, Routes
  <1>2. r.model \in ModelSlugs \cup {NoSlug}
    BY DEF Routes
  <1>3. seen \in Slugs \cup {NoSlug}
    BY DEF RouteTypes, RoleInv, RoleTypes
  <1>4. sent \subseteq Loads
    BY <1>1, <1>2, <1>3, LoadsOfSlugs, ModelTyped
  <1> HIDE DEF seen, sent
  <1>5. pageRequests' \subseteq Loads \cup Writes
    BY <1>1, <1>4, ExchangeTyped
  <1>6. RouteTypes'
    BY <1>1, <1>3, <1>5 DEF RouteTypes
  <1> QED
    BY <1>1, <1>6, RoleKept

\* A change that is sent changes nothing that is held.
LEMMA ChangeMade ==
    ASSUME PagesInv, NEW request \in Writes, Change(request)
    PROVE  PagesInv'
  <1> USE DEF PagesInv, Change, KeepProject
  <1>1. pageRequests' \subseteq Loads \cup Writes
    BY ExchangeTyped
  <1>2. RouteTypes'
    BY <1>1 DEF RouteTypes
  <1> QED
    BY <1>2, RoleKept

\* What the user asks for is a change.
LEMMA ChangeIsWrite ==
    ASSUME PagesInv, ChangeProject \/ ChangeModel
    PROVE  \E request \in Writes : Change(request)
  <1>0. project \in Slugs \cup {NoSlug} /\ model \in (Slugs \X ModelSlugs) \cup {NoModel}
    BY DEF PagesInv, RouteTypes, RoleInv, RoleTypes
  <1>1. CASE ChangeProject
    <2>1. CASE project # NoSlug /\ \E request \in
                  {UpdateProject(project), DeleteProject(project)}
                     \cup {CreateNewToolModel(project, m) : m \in ModelSlugs}
                     \cup {r \in MemberChanges : r.key = <<project>> /\ project = projectUsers} :
                        Change(request)
      <3>1. project \in Slugs
        BY <1>0, <2>1
      <3>2. {UpdateProject(project), DeleteProject(project)} \subseteq Writes
        BY <3>1 DEF Writes, ProjectChanges
      <3>3. {CreateNewToolModel(project, m) : m \in ModelSlugs} \subseteq Writes
        BY <3>1 DEF Writes, ModelChanges
      <3>4. {r \in MemberChanges : r.key = <<project>> /\ project = projectUsers} \subseteq Writes
        BY DEF Writes
      <3> QED
        BY <2>1, <3>2, <3>3, <3>4
    <2>2. CASE \E p \in Slugs : Change(CreateProject(p))
      BY <2>2 DEF Writes, ProjectChanges
    <2> QED
      BY <1>1, <2>1, <2>2 DEF ChangeProject
  <1>2. CASE ChangeModel
    <2>1. project \in Slugs /\ model[2] \in ModelSlugs
      BY <1>0, <1>2 DEF ChangeModel
    <2>2. PatchToolModel(project, model[2]) \in Writes /\ DeleteToolModel(project, model[2]) \in Writes
      BY <2>1 DEF Writes, ModelChanges, Deletions
    <2> QED
      BY <1>2, <2>2 DEF ChangeModel
  <1> QED
    BY <1>1, <1>2

\* Every change keeps the types and the role.
LEMMA ChangeStep ==
    ASSUME PagesInv, ChangeProject \/ ChangeModel
    PROVE  PagesInv'
  BY ChangeIsWrite, ChangeMade

----------------------------------------------------------------------------
(* Answers *)

\* An answer leaves loads and changes under way, and the address as it is.
LEMMA AnswerTyped ==
    ASSUME RouteTypes, NEW request, NEW sent \in SUBSET (Loads \cup Writes), Answer(request, sent)
    PROVE  pageRequests' \subseteq Loads \cup Writes /\ UNCHANGED <<route, roleStream>>
  BY ExchangeTyped DEF Answer

\* Answers about a project.
LEMMA ProjectAnswers ==
    ASSUME PagesInv, NEW p \in Slugs, ProjectReturns(p) \/ ProjectGone(p)
    PROVE  PagesInv'
  <1> USE DEF PagesInv
  <1>1. CASE ProjectReturns(p)
    <2>1. PICK request : /\ Answer(request, MoreRequests(p)) /\ Noted(request)
                         /\ EmitProject(p) /\ UNCHANGED <<models, model>>
      BY <1>1 DEF ProjectReturns
    <2>2. MoreRequests(p) \subseteq Loads
      BY MembersTyped, ModelTyped, RouteModel DEF MoreRequests
    <2>3. pageRequests' \subseteq Loads \cup Writes /\ UNCHANGED <<route, roleStream>>
      BY <2>1, <2>2, AnswerTyped
    <2>4. outrun' \in BOOLEAN /\ modelProject' \in Slugs \cup {NoSlug}
      BY <2>1, NotedTyped, SeenTyped
    <2>5. RoleInv'
      BY <2>1, <2>3, ProjectEmitted
    <2> QED
      BY <2>1, <2>3, <2>4, <2>5 DEF RouteTypes
  <1>2. CASE ProjectGone(p)
    <2>1. PICK request : /\ Answer(request, {}) /\ EmitProject(NoSlug)
                         /\ UNCHANGED <<models, model, outrun>>
      BY <1>2 DEF ProjectGone
    <2>2. pageRequests' \subseteq Loads \cup Writes /\ UNCHANGED <<route, roleStream>>
      BY <2>1, AnswerTyped
    <2>3. modelProject' \in Slugs \cup {NoSlug}
      BY <2>1, SeenTyped
    <2>4. RoleInv'
      BY <2>1, <2>2, ProjectEmitted
    <2> QED
      BY <2>1, <2>2, <2>3, <2>4 DEF RouteTypes
  <1> QED
    BY <1>1, <1>2

\* An answer about models leaves the project and the role alone.
LEMMA ModelAnswered ==
    ASSUME PagesInv, NEW request, NEW sent \in SUBSET (Loads \cup Writes), Answer(request, sent),
           KeepProject, outrun' \in BOOLEAN, models' \in Slugs \cup {NoSlug},
           model' \in (Slugs \X ModelSlugs) \cup {NoModel}
    PROVE  PagesInv'
  <1>1. pageRequests' \subseteq Loads \cup Writes /\ UNCHANGED <<route, roleStream>>
    BY AnswerTyped DEF PagesInv
  <1>2. RoleInv'
    BY <1>1, RoleKept DEF PagesInv, KeepProject
  <1> QED
    BY <1>1, <1>2 DEF PagesInv, RouteTypes, KeepProject

\* Answers about a model.
LEMMA ModelAnswers ==
    ASSUME PagesInv, NEW p \in Slugs, NEW m \in ModelSlugs,
           ModelReturns(p, m) \/ ModelFails(p, m) \/ ModelDeleted(p, m)
    PROVE  PagesInv'
  <1>1. models \in Slugs \cup {NoSlug} /\ outrun \in BOOLEAN
    BY DEF PagesInv, RouteTypes
  <1>2. CASE ModelReturns(p, m)
    <2>1. PICK request :
             /\ Answer(request, IF request \in ModelLoads THEN {} ELSE {GetModels(p)})
             /\ Noted(request) /\ model' = <<p, m>> /\ UNCHANGED models /\ KeepProject
      BY <1>2 DEF ModelReturns
    <2>2. outrun' \in BOOLEAN
      BY <2>1, NotedTyped DEF PagesInv
    <2>3. (IF request \in ModelLoads THEN {} ELSE {GetModels(p)}) \subseteq Loads \cup Writes
      BY LoadsOfSlugs
    <2> QED
      BY <1>1, <2>1, <2>2, <2>3, ModelAnswered
  <1>3. CASE ModelFails(p, m)
    <2>1. PICK request : /\ Answer(request, {}) /\ model' = NoModel
                         /\ UNCHANGED <<models, outrun>> /\ KeepProject
      BY <1>3 DEF ModelFails
    <2> QED
      BY <1>1, <2>1, ModelAnswered
  <1>4. CASE ModelDeleted(p, m)
    <2>1. {GetModels(p)} \subseteq Loads \cup Writes
      BY LoadsOfSlugs
    <2> QED
      BY <1>1, <1>4, <2>1, ModelAnswered DEF ModelDeleted
  <1> QED
    BY <1>2, <1>3, <1>4

\* Answers about the models of a project.
LEMMA ListAnswers ==
    ASSUME PagesInv, NEW p \in Slugs, ModelsReturn(p) \/ ModelsFail(p)
    PROVE  PagesInv'
  <1>1. outrun' \in BOOLEAN
    BY NotedTyped DEF PagesInv, ModelsReturn, ModelsFail, RouteTypes
  <1>2. model' \in (Slugs \X ModelSlugs) \cup {NoModel} /\ models' \in Slugs \cup {NoSlug}
    BY DEF PagesInv, ModelsReturn, ModelsFail, RouteTypes
  <1>3. Answer(GetModels(p), {}) /\ KeepProject
    BY DEF ModelsReturn, ModelsFail
  <1> QED
    BY <1>1, <1>2, <1>3, ModelAnswered

\* An answer that no service takes.
LEMMA NothingStep ==
    ASSUME PagesInv, NEW request, NothingChanged(request)
    PROVE  PagesInv'
  <1>1. /\ model' \in (Slugs \X ModelSlugs) \cup {NoModel} /\ models' \in Slugs \cup {NoSlug}
        /\ outrun' \in BOOLEAN
    BY DEF PagesInv, NothingChanged, RouteTypes
  <1> QED
    BY <1>1, ModelAnswered DEF NothingChanged

\* The members do not decide on the role.
LEMMA MemberAnswers ==
    ASSUME PagesInv, NEW p \in Slugs, MembersReturn(p) \/ MembersChanged(p)
    PROVE  PagesInv'
  <1> USE DEF PagesInv
  <1>1. {GetUsersForProject(p)} \subseteq Loads \cup Writes
    BY LoadsOfSlugs
  <1>2. pageRequests' \subseteq Loads \cup Writes /\ UNCHANGED <<route, roleStream>>
    BY <1>1, AnswerTyped DEF MembersReturn, MembersChanged
  <1>3. /\ projectUsers' \in Slugs \cup {NoSlug}
        /\ UNCHANGED <<project, models, model, projectUser, lastProject, modelProject, roleRequest>>
    BY DEF MembersReturn, MembersChanged
  <1>4. outrun' \in BOOLEAN
    BY NotedTyped DEF MembersReturn, MembersChanged, RouteTypes
  <1>5. RouteTypes'
    BY <1>2, <1>3, <1>4 DEF RouteTypes
  <1>6. RoleInv'
    BY <1>2, <1>3 DEF RoleInv, RoleTypes, RoleFollowsProject, AskedFor
  <1> QED
    BY <1>5, <1>6

\* Answers about the role.
LEMMA RoleAnswers ==
    ASSUME PagesInv, RoleReturns \/ RoleFails
    PROVE  PagesInv'
  <1> USE DEF PagesInv
  <1>1. CASE RoleReturns
    <2>1. AsksForMembers(lastProject, AskedFor) \subseteq Loads
      BY MembersTyped DEF RoleInv, RoleTypes
    <2>2. pageRequests' \subseteq Loads \cup Writes
      BY <1>1, <2>1, ExchangeTyped DEF RoleReturns
    <2>3. RouteTypes'
      BY <1>1, <2>2 DEF RouteTypes, RoleReturns
    <2> QED
      BY <1>1, <2>3, RoleReturned
  <1>2. CASE RoleFails
    BY <1>2, RoleFailed DEF RoleFails, RouteTypes
  <1> QED
    BY <1>1, <1>2

----------------------------------------------------------------------------
(* What a quiet page shows *)

\* What the reads under way are about.
ProjectsAsked == {p \in Slugs : GetProjectBySlug(p) \in pageRequests}
ListsAsked == {p \in Slugs : GetModels(p) \in pageRequests}
ModelsAsked == {x \in Slugs \X ModelSlugs : GetModelBySlug(x[1], x[2]) \in pageRequests}

\* The model wrapper has seen the project that is shown.
SeenInv == project # NoSlug /\ route.model # NoSlug => modelProject = project

ManagedInv == projectUsers \in Managed \cup {NoSlug}

ModelsInv == ~outrun => models \in {NoSlug, route.project} \/ route.project \in ListsAsked

ClearedInv == ~outrun /\ route.model = NoSlug => model = NoModel

ProjectRight == project \in {NoSlug, route.project} \/ route.project \in ProjectsAsked

RoleRight ==
    roleStream => \/ projectUser \in {NoSlug, route.project}
                  \/ route.project \in (ProjectsAsked \cup {AskedFor}) \ {NoSlug}

\* Members of an earlier project are shown to its manager only, and the answer about the
\* project of the address will find the role of that manager at hand.
MembersRight ==
    projectUsers # NoSlug =>
        /\ projectUser \in Managed
        /\ projectUsers # route.project => route.project \in ProjectsAsked \ {AskedFor}

AskedRight ==
    route.project \in ProjectsAsked \/ AskedFor \in {NoSlug, route.project} \/ projectUser = NoSlug

ModelRight ==
    project # NoSlug => \/ model \in {NoModel, <<route.project, route.model>>}
                        \/ route.project \in ProjectsAsked
                        \/ <<route.project, route.model>> \in ModelsAsked

PageRight == ProjectRight /\ RoleRight /\ MembersRight /\ AskedRight /\ ModelRight

\* An answer about a project that was left makes the page outrun, or clears it.
PageInv == ~outrun /\ ProjectsAsked \subseteq {route.project} => PageRight

QuietInv == PagesInv /\ SeenInv /\ ManagedInv /\ ModelsInv /\ ClearedInv /\ PageInv

\* Requests tell what they are about.
LEMMA RequestsTell ==
    ASSUME NEW p, NEW q, NEW m, NEW n
    PROVE  /\ GetProjectBySlug(p) = GetProjectBySlug(q) => p = q
           /\ GetModels(p) = GetModels(q) => p = q
           /\ GetModelBySlug(p, m) = GetModelBySlug(q, n) => p = q /\ m = n
           /\ GetModels(p) # GetProjectBySlug(q)
           /\ GetModelBySlug(p, m) # GetProjectBySlug(q) /\ GetModelBySlug(p, m) # GetModels(q)
           /\ GetUsersForProject(p) \notin {GetProjectBySlug(q), GetModels(q), GetModelBySlug(q, n)}
  BY DEF Request, GetProjectBySlug, GetModels, GetModelBySlug, GetUsersForProject

\* Changes are not reads.
LEMMA ChangesTell ==
    ASSUME NEW request \in Writes, NEW q, NEW n
    PROVE  request \notin {GetProjectBySlug(q), GetModels(q), GetModelBySlug(q, n)}
  BY DEF Writes, MemberChanges, ModelChanges, Deletions, ProjectChanges, Request, GetProjectBySlug,
         GetModels, GetModelBySlug, AddUserToProject, UpdateProjectUser, RemoveUserFromProject,
         PatchToolModel, CreateNewToolModel, DeleteToolModel, UpdateProject, CreateProject, DeleteProject

\* What a request for a role is about.
LEMMA AskedTyped ==
    ASSUME RoleTypes
    PROVE  /\ AskedFor \in Slugs \cup {NoSlug}
           /\ (AskedFor = NoSlug) = (roleRequest = NoRole)
           /\ roleRequest = GetCurrentProjectUser(AskedFor)
  BY ProjectPagesAssumption DEF RoleTypes, AskedFor, GetCurrentProjectUser, Request, NoRole

\* Answers and requests that come and go with a step.
LEMMA ExchangeAsked ==
    ASSUME NEW answered, NEW sent, Exchange(answered, sent)
    PROVE  /\ \A p \in Slugs : p \in ProjectsAsked' <=>
                \/ p \in ProjectsAsked /\ GetProjectBySlug(p) \notin answered
                \/ GetProjectBySlug(p) \in sent
           /\ \A p \in Slugs : p \in ListsAsked' <=>
                \/ p \in ListsAsked /\ GetModels(p) \notin answered
                \/ GetModels(p) \in sent
           /\ \A x \in Slugs \X ModelSlugs : x \in ModelsAsked' <=>
                \/ x \in ModelsAsked /\ GetModelBySlug(x[1], x[2]) \notin answered
                \/ GetModelBySlug(x[1], x[2]) \in sent
  BY DEF Exchange, ProjectsAsked, ListsAsked, ModelsAsked

\* What is asked for is about projects and models.
LEMMA AskedSlugs ==
    /\ ProjectsAsked \subseteq Slugs /\ ListsAsked \subseteq Slugs /\ ModelsAsked \subseteq Slugs \X ModelSlugs
    /\ ProjectsAsked' \subseteq Slugs /\ ListsAsked' \subseteq Slugs
    /\ ModelsAsked' \subseteq Slugs \X ModelSlugs
  BY DEF ProjectsAsked, ListsAsked, ModelsAsked

\* A step that leaves the project, the role and the members alone, and the reads of
\* projects: what it does to the model is right.
LEMMA PageKept ==
    ASSUME PageInv, ProjectsAsked' = ProjectsAsked, outrun => outrun', ModelRight => (outrun' \/ ModelRight'),
           UNCHANGED <<route, project, projectUser, projectUsers, roleRequest, roleStream>>
    PROVE  PageInv'
  BY DEF PageInv, PageRight, ProjectRight, RoleRight, MembersRight, AskedRight, AskedFor


\* The user leaves the pages of a project.
LEMMA QuietLeave ==
    ASSUME QuietInv, LeaveProject
    PROVE  SeenInv' /\ ManagedInv' /\ ModelsInv' /\ ClearedInv' /\ PageInv'
  <1>1. /\ route' = [project |-> NoSlug, model |-> NoSlug] /\ project' = NoSlug /\ models' = NoSlug
        /\ projectUser' = NoSlug /\ projectUsers' = NoSlug /\ model' = NoModel
        /\ UNCHANGED <<pageRequests, outrun>>
    BY DEF LeaveProject, ClearProject, EmitProject
  <1>2. SeenInv' /\ ManagedInv' /\ ModelsInv' /\ ClearedInv'
    BY <1>1 DEF SeenInv, ManagedInv, ModelsInv, ClearedInv
  <1>3. PageRight'
    BY <1>1 DEF PageRight, ProjectRight, RoleRight, MembersRight, AskedRight, ModelRight
  <1> QED
    BY <1>2, <1>3 DEF PageInv

\* The address changes to another project, or to another model of the same project.
LEMMA QuietEnter ==
    ASSUME QuietInv, NEW r \in Routes, EnterProject(r)
    PROVE  SeenInv' /\ ManagedInv' /\ ModelsInv' /\ ClearedInv' /\ PageInv'
  <1> DEFINE seen == IF r.model = NoSlug THEN NoSlug
                     ELSE IF route.model = NoSlug THEN project ELSE modelProject
             sent == (IF r.project = route.project THEN {}
                      ELSE {GetProjectBySlug(r.project), GetModels(r.project)})
                     \cup (IF r.model = route.model THEN {} ELSE AsksForModel(seen, r.model))
  <1>1. /\ r.project \in Slugs /\ route' = r
        /\ modelProject' = seen /\ Exchange({}, sent) /\ pageRequests \cap sent = {}
        /\ model' = IF r.model = NoSlug THEN NoModel ELSE model
        /\ UNCHANGED <<project, models, projectUser, projectUsers, lastProject,
                       roleRequest, roleStream, outrun>>
    BY DEF EnterProject, Routes, Exchange
  <1>2. /\ r.model \in ModelSlugs \cup {NoSlug} /\ route.model \in ModelSlugs \cup {NoSlug}
        /\ AskedFor \in Slugs \cup {NoSlug} /\ AskedFor' = AskedFor
        /\ project \in Slugs \cup {NoSlug} /\ projectUser \in Slugs \cup {NoSlug}
    BY <1>1, RouteModel, AskedTyped DEF QuietInv, PagesInv, RoleInv, RoleTypes, Routes, AskedFor
  <1>3. \A p \in Slugs : /\ GetProjectBySlug(p) \in sent <=> p = r.project /\ r.project # route.project
                         /\ GetModels(p) \in sent <=> p = r.project /\ r.project # route.project
    BY RequestsTell DEF AsksForModel
  <1>4. r.model # route.model /\ r.model # NoSlug /\ seen # NoSlug => GetModelBySlug(seen, r.model) \in sent
    BY DEF AsksForModel
  <1> HIDE DEF sent
  <1>5. ProjectsAsked' = ProjectsAsked \cup (IF r.project = route.project THEN {} ELSE {r.project})
    BY <1>1, <1>3, ExchangeAsked, AskedSlugs
  <1>6. ListsAsked' = ListsAsked \cup (IF r.project = route.project THEN {} ELSE {r.project})
    BY <1>1, <1>3, ExchangeAsked, AskedSlugs
  <1>7. /\ ModelsAsked \subseteq ModelsAsked'
        /\ r.model # route.model /\ r.model # NoSlug /\ seen \in Slugs => <<seen, r.model>> \in ModelsAsked'
    <2>1. ModelsAsked \subseteq ModelsAsked'
      BY <1>1, ExchangeAsked, AskedSlugs
    <2>2. ASSUME r.model # route.model, r.model # NoSlug, seen \in Slugs
          PROVE  <<seen, r.model>> \in ModelsAsked'
      <3>1. seen # NoSlug
        BY <2>2, ProjectPagesAssumption
      <3>2. <<seen, r.model>> \in Slugs \X ModelSlugs /\ GetModelBySlug(seen, r.model) \in sent
        BY <1>2, <1>4, <2>2, <3>1
      <3> HIDE DEF seen
      <3> QED
        BY <1>1, <3>2, ExchangeAsked
    <2> QED
      BY <2>1, <2>2
  <1>8. r.project # route.project => r.project \notin ProjectsAsked
    BY <1>1, <1>3 DEF ProjectsAsked
  <1>9. SeenInv'
    BY <1>1, <1>2 DEF QuietInv, SeenInv
  <1>10. ManagedInv' /\ ModelsInv' /\ ClearedInv'
    BY <1>1, <1>6 DEF QuietInv, ManagedInv, ModelsInv, ClearedInv
  <1>11. PageInv'
    <2> SUFFICES ASSUME ~outrun, ProjectsAsked' \subseteq {r.project}
                 PROVE  PageRight'
      BY <1>1 DEF PageInv
    <2>1. CASE r.project # route.project
      <3>1. ProjectsAsked = {} /\ r.project \in ProjectsAsked'
        BY <1>5, <1>8, <2>1
      <3>2. PageRight
        BY <3>1 DEF QuietInv, PageInv
      <3>3. ProjectRight' /\ RoleRight' /\ AskedRight' /\ ModelRight'
        BY <1>1, <3>1, ProjectPagesAssumption DEF ProjectRight, RoleRight, AskedRight, ModelRight
      <3>4. MembersRight'
        <4> SUFFICES ASSUME projectUsers # NoSlug
                     PROVE  /\ projectUser \in Managed
                            /\ projectUsers # r.project => r.project # AskedFor
          BY <1>1, <1>2, <3>1 DEF MembersRight
        <4>1. projectUser \in Managed /\ projectUser # NoSlug
          BY <3>2, ProjectPagesAssumption DEF PageRight, MembersRight
        <4>2. AskedFor \in {NoSlug, route.project}
          BY <3>1, <3>2, <4>1 DEF PageRight, AskedRight
        <4> QED
          BY <1>1, <2>1, <4>1, <4>2, ProjectPagesAssumption
      <3> QED
        BY <3>3, <3>4 DEF PageRight
    <2>2. CASE r.project = route.project
      <3>1. ProjectsAsked' = ProjectsAsked
        BY <1>5, <2>2
      <3>2. PageRight
        BY <2>2, <3>1 DEF QuietInv, PageInv
      <3>3. ProjectRight' /\ RoleRight' /\ AskedRight' /\ MembersRight'
        BY <1>1, <1>2, <2>2, <3>1, <3>2 DEF PageRight, ProjectRight, RoleRight, AskedRight, MembersRight
      <3>4. ModelRight'
        <4> SUFFICES ASSUME project # NoSlug, r.project \notin ProjectsAsked, r.model # NoSlug
                     PROVE  \/ model \in {NoModel, <<r.project, r.model>>}
                            \/ <<r.project, r.model>> \in ModelsAsked'
          BY <1>1, <3>1 DEF ModelRight
        <4>1. project = r.project
          BY <2>2, <3>2 DEF PageRight, ProjectRight
        <4>2. CASE r.model = route.model
          BY <1>7, <2>2, <3>2, <4>2 DEF PageRight, ModelRight
        <4>3. CASE r.model # route.model
          <5>1. seen = project
            BY <4>3 DEF QuietInv, SeenInv
          <5> QED
            BY <1>1, <1>7, <4>1, <4>3, <5>1
        <4> QED
          BY <4>2, <4>3
      <3> QED
        BY <3>3, <3>4 DEF PageRight
    <2> QED
      BY <2>1, <2>2
  <1> QED
    BY <1>9, <1>10, <1>11

\* The user sends a change.
LEMMA QuietChange ==
    ASSUME QuietInv, NEW request \in Writes, Change(request)
    PROVE  SeenInv' /\ ManagedInv' /\ ModelsInv' /\ ClearedInv' /\ PageInv'
  <1>1. /\ Exchange({}, {request})
        /\ UNCHANGED <<route, models, model, roleStream, outrun, project, projectUser, projectUsers,
                       lastProject, modelProject, roleRequest>>
    BY DEF Change, KeepProject
  <1>2. ProjectsAsked' = ProjectsAsked /\ ListsAsked' = ListsAsked /\ ModelsAsked' = ModelsAsked
    BY <1>1, ChangesTell, ExchangeAsked, AskedSlugs
  <1>3. SeenInv' /\ ManagedInv' /\ ModelsInv' /\ ClearedInv'
    BY <1>1, <1>2 DEF QuietInv, SeenInv, ManagedInv, ModelsInv, ClearedInv
  <1>4. ModelRight => ModelRight'
    BY <1>1, <1>2 DEF ModelRight
  <1> QED
    BY <1>1, <1>2, <1>3, <1>4, PageKept DEF QuietInv

\* An answer that is no project: the reads of projects stay under way.
LEMMA ProjectsStillAsked ==
    ASSUME NEW request, NEW sent, Answer(request, sent),
           \A p \in Slugs : request # GetProjectBySlug(p) /\ GetProjectBySlug(p) \notin sent
    PROVE  ProjectsAsked' = ProjectsAsked
  <1>1. Exchange({request}, sent)
    BY DEF Answer
  <1>2. \A p \in Slugs : p \in ProjectsAsked' <=> p \in ProjectsAsked
    BY <1>1, ExchangeAsked
  <1> QED
    BY <1>2, AskedSlugs

\* An answer that is no list of models.
LEMMA ListsStillAsked ==
    ASSUME NEW request, NEW sent, Answer(request, sent), \A p \in Slugs : request # GetModels(p)
    PROVE  ListsAsked \subseteq ListsAsked'
  BY ExchangeAsked, AskedSlugs DEF Answer

\* An answer that is not about a model leaves the models that are asked for.
LEMMA ModelsStillAsked ==
    ASSUME NEW request, NEW sent, Answer(request, sent), request \notin ModelLoads
    PROVE  ModelsAsked \subseteq ModelsAsked'
  BY ExchangeAsked, AskedSlugs DEF Answer, ModelLoads

\* An answer that is noted and does not outrun the page is about what the address names.
LEMMA NotedTells ==
    ASSUME NEW request, Noted(request), QuietInv
    PROVE  /\ outrun => outrun'
           /\ ~outrun' => /\ request.key[1] = route.project
                          /\ request \in ModelLoads \cup ModelChanges => request.key[2] = route.model
                          /\ request.about = "members" => request.key[1] = projectUser
  BY DEF Noted, Outruns, QuietInv, PagesInv, RouteTypes

\* A project arrives.
LEMMA QuietProject ==
    ASSUME QuietInv, NEW p \in Slugs, ProjectReturns(p)
    PROVE  SeenInv' /\ ManagedInv' /\ ModelsInv' /\ ClearedInv' /\ PageInv'
  <1>1. PICK request \in {GetProjectBySlug(p), UpdateProject(p), CreateProject(p)} :
           /\ Answer(request, MoreRequests(p)) /\ Noted(request)
           /\ EmitProject(p) /\ UNCHANGED <<models, model>>
    BY DEF ProjectReturns
  <1>2. p # NoSlug /\ request.key[1] = p
    BY ProjectPagesAssumption DEF GetProjectBySlug, UpdateProject, CreateProject, Request
  <1>3. /\ project' = p /\ UNCHANGED <<route, roleStream, projectUser>>
        /\ modelProject' = IF route.model = NoSlug THEN modelProject ELSE p
        /\ projectUsers' = IF projectUser \in Managed THEN NoSlug ELSE projectUsers
    BY <1>1, <1>2 DEF EmitProject, Answer
  <1>4. AskedFor' = IF roleStream THEN p ELSE NoSlug
    <2>1. roleRequest' = IF roleStream THEN GetCurrentProjectUser(p) ELSE NoRole
      BY <1>1, <1>2 DEF EmitProject, AskRole
    <2> QED
      BY <2>1 DEF AskedFor, GetCurrentProjectUser, NoRole, Request
  <1>5. \A q \in Slugs : request # GetModels(q)
    BY DEF GetModels, Request, GetProjectBySlug, UpdateProject, CreateProject
  <1>6. ListsAsked \subseteq ListsAsked'
    BY <1>1, <1>5, ListsStillAsked
  <1>7. (outrun => outrun') /\ (~outrun' => p = route.project)
    BY <1>1, <1>2, NotedTells
  <1>8. SeenInv' /\ ManagedInv' /\ ModelsInv' /\ ClearedInv'
    BY <1>1, <1>3, <1>6, <1>7 DEF QuietInv, SeenInv, ManagedInv, ModelsInv, ClearedInv
  <1>9. PageInv'
    <2> SUFFICES ASSUME ~outrun', ProjectsAsked' \subseteq {route.project}
                 PROVE  PageRight'
      BY <1>3 DEF PageInv
    <2>1. p = route.project /\ ~outrun
      BY <1>7
    <2>2. Exchange({request}, MoreRequests(p))
      BY <1>1 DEF Answer
    <2>3. \A q \in Slugs : q # p => request # GetProjectBySlug(q)
      BY <1>2, RequestsTell DEF GetProjectBySlug, Request
    <2>4. ProjectsAsked \subseteq {route.project}
      BY <2>1, <2>2, <2>3, ExchangeAsked, AskedSlugs
    <2>5. PageRight
      BY <2>1, <2>4 DEF QuietInv, PageInv
    <2>6. ProjectRight' /\ RoleRight' /\ AskedRight'
      BY <1>2, <1>3, <1>4, <2>1 DEF ProjectRight, RoleRight, AskedRight
    <2>7. MembersRight'
      BY <1>3, <2>5 DEF PageRight, MembersRight
    <2>8. ModelRight'
      <3>1. CASE route.model = NoSlug
        BY <1>1, <1>3, <2>1, <3>1 DEF ModelRight, QuietInv, ClearedInv
      <3>2. CASE route.model # NoSlug
        <4>1. GetModelBySlug(p, route.model) \in MoreRequests(p) /\ <<p, route.model>> \in Slugs \X ModelSlugs
          BY <1>2, <3>2, RouteModel DEF MoreRequests, AsksForModel, QuietInv, PagesInv
        <4>2. <<p, route.model>> \in ModelsAsked'
          BY <2>2, <4>1, ExchangeAsked
        <4> QED
          BY <1>3, <2>1, <4>2 DEF ModelRight
      <3> QED
        BY <3>1, <3>2
    <2> QED
      BY <2>6, <2>7, <2>8 DEF PageRight
  <1> QED
    BY <1>8, <1>9

\* A project is gone, or the request for it failed.
LEMMA QuietGone ==
    ASSUME QuietInv, NEW p \in Slugs, ProjectGone(p)
    PROVE  SeenInv' /\ ManagedInv' /\ ModelsInv' /\ ClearedInv' /\ PageInv'
  <1>1. PICK request \in {GetProjectBySlug(p), UpdateProject(p), CreateProject(p), DeleteProject(p)} :
           /\ Answer(request, {}) /\ EmitProject(NoSlug) /\ UNCHANGED <<models, model, outrun>>
    BY DEF ProjectGone
  <1>2. /\ project' = NoSlug /\ projectUser' = NoSlug /\ projectUsers' = NoSlug
        /\ UNCHANGED route
    BY <1>1 DEF EmitProject, Answer
  <1>3. \A q \in Slugs : request # GetModels(q)
    BY <1>1 DEF GetModels, Request, GetProjectBySlug, UpdateProject, CreateProject, DeleteProject
  <1>4. ListsAsked \subseteq ListsAsked'
    BY <1>1, <1>3, ListsStillAsked
  <1>5. SeenInv' /\ ManagedInv' /\ ModelsInv' /\ ClearedInv'
    BY <1>1, <1>2, <1>4 DEF QuietInv, SeenInv, ManagedInv, ModelsInv, ClearedInv
  <1>6. PageRight'
    BY <1>2 DEF PageRight, ProjectRight, RoleRight, MembersRight, AskedRight, ModelRight
  <1> QED
    BY <1>5, <1>6 DEF PageInv

\* A list of models arrives or fails.
LEMMA QuietList ==
    ASSUME QuietInv, NEW p \in Slugs, ModelsReturn(p) \/ ModelsFail(p)
    PROVE  SeenInv' /\ ManagedInv' /\ ModelsInv' /\ ClearedInv' /\ PageInv'
  <1>1. /\ Answer(GetModels(p), {}) /\ UNCHANGED <<route, roleStream, model>>
        /\ UNCHANGED <<project, projectUser, projectUsers, lastProject, modelProject, roleRequest>>
    BY DEF ModelsReturn, ModelsFail, Answer, KeepProject
  <1>2. ProjectsAsked' = ProjectsAsked
    BY <1>1, RequestsTell, ProjectsStillAsked
  <1>3. ModelsAsked \subseteq ModelsAsked'
    BY <1>1, RequestsTell, ModelsStillAsked DEF ModelLoads
  <1>4. outrun => outrun'
    BY NotedTells DEF ModelsReturn, ModelsFail
  <1>5. models' = NoSlug \/ (~outrun' => models' = route.project)
    <2>1. GetModels(p).key[1] = p
      BY DEF GetModels, Request
    <2> QED
      BY <2>1, NotedTells DEF ModelsReturn, ModelsFail
  <1>6. SeenInv' /\ ManagedInv' /\ ModelsInv' /\ ClearedInv'
    BY <1>1, <1>4, <1>5 DEF QuietInv, SeenInv, ManagedInv, ModelsInv, ClearedInv
  <1>7. ModelRight => ModelRight'
    BY <1>1, <1>2, <1>3 DEF ModelRight
  <1> QED
    BY <1>1, <1>2, <1>4, <1>6, <1>7, PageKept DEF QuietInv

\* A model arrives, is gone, or the request about it failed.
LEMMA QuietModel ==
    ASSUME QuietInv, NEW p \in Slugs, NEW m \in ModelSlugs,
           ModelReturns(p, m) \/ ModelFails(p, m) \/ ModelDeleted(p, m)
    PROVE  SeenInv' /\ ManagedInv' /\ ModelsInv' /\ ClearedInv' /\ PageInv'
  <1>1. PICK request \in {GetModelBySlug(p, m), PatchToolModel(p, m), CreateNewToolModel(p, m),
                          DeleteToolModel(p, m)}, sent \in SUBSET {GetModels(p)} :
           /\ Answer(request, sent) /\ UNCHANGED <<models, route, roleStream>>
           /\ UNCHANGED <<project, projectUser, projectUsers, lastProject, modelProject, roleRequest>>
           /\ \/ model' = <<p, m>> /\ Noted(request) /\ request # DeleteToolModel(p, m)
              \/ model' = NoModel /\ UNCHANGED outrun
    <2>1. CASE ModelReturns(p, m)
      <3>1. PICK request \in {GetModelBySlug(p, m), PatchToolModel(p, m), CreateNewToolModel(p, m)} :
               /\ Answer(request, IF request \in ModelLoads THEN {} ELSE {GetModels(p)})
               /\ Noted(request) /\ model' = <<p, m>> /\ UNCHANGED models /\ KeepProject
        BY <2>1 DEF ModelReturns
      <3>2. request # DeleteToolModel(p, m)
        BY DEF GetModelBySlug, PatchToolModel, CreateNewToolModel, DeleteToolModel, Request
      <3>3. (IF request \in ModelLoads THEN {} ELSE {GetModels(p)}) \in SUBSET {GetModels(p)}
        OBVIOUS
      <3> QED
        BY <3>1, <3>2, <3>3 DEF KeepProject, Answer
    <2>2. CASE ModelFails(p, m)
      <3>1. {} \in SUBSET {GetModels(p)}
        OBVIOUS
      <3> QED
        BY <2>2, <3>1 DEF ModelFails, KeepProject, Answer
    <2>3. CASE ModelDeleted(p, m)
      <3>1. {GetModels(p)} \in SUBSET {GetModels(p)}
        OBVIOUS
      <3> QED
        BY <2>3, <3>1 DEF ModelDeleted, KeepProject, Answer
    <2> QED
      BY <2>1, <2>2, <2>3
  <1>2. \A q \in Slugs : request \notin {GetProjectBySlug(q), GetModels(q)}
    BY DEF GetModelBySlug, PatchToolModel, CreateNewToolModel, DeleteToolModel, Request,
           GetProjectBySlug, GetModels
  <1>3. ProjectsAsked' = ProjectsAsked /\ ListsAsked \subseteq ListsAsked'
    BY <1>1, <1>2, RequestsTell, ProjectsStillAsked, ListsStillAsked
  <1>4. outrun => outrun'
    BY <1>1, NotedTells
  <1>5. outrun' \/ model' \in {NoModel, <<route.project, route.model>>}
    <2>1. CASE Noted(request) /\ request # DeleteToolModel(p, m) /\ model' = <<p, m>>
      <3>1. request.key = <<p, m>>
        BY <2>1 DEF GetModelBySlug, PatchToolModel, CreateNewToolModel, DeleteToolModel, Request
      <3>2. request \in ModelLoads \cup ModelChanges
        BY <2>1 DEF ModelLoads, ModelChanges
      <3>3. request.key[1] = p /\ request.key[2] = m
        BY <3>1
      <3> QED
        BY <2>1, <3>2, <3>3, NotedTells
    <2> QED
      BY <1>1, <2>1
  <1>6. route.model = NoSlug => outrun' \/ model' = NoModel
    <2>1. CASE Noted(request) /\ request # DeleteToolModel(p, m) /\ model' = <<p, m>>
      <3>1. request.key = <<p, m>>
        BY <2>1 DEF GetModelBySlug, PatchToolModel, CreateNewToolModel, DeleteToolModel, Request
      <3>2. request \in ModelLoads \cup ModelChanges
        BY <2>1 DEF ModelLoads, ModelChanges
      <3>3. request.key[2] = m /\ m # NoSlug
        BY <3>1, ProjectPagesAssumption
      <3> QED
        BY <2>1, <3>2, <3>3, NotedTells
    <2> QED
      BY <1>1, <2>1
  <1>7. SeenInv' /\ ManagedInv' /\ ModelsInv' /\ ClearedInv'
    BY <1>1, <1>3, <1>4, <1>6 DEF QuietInv, SeenInv, ManagedInv, ModelsInv, ClearedInv
  <1>8. outrun' \/ ModelRight'
    BY <1>1, <1>5 DEF ModelRight
  <1> QED
    BY <1>1, <1>3, <1>4, <1>7, <1>8, PageKept DEF QuietInv

\* Members arrive: the user manages their project, and has its role.
LEMMA QuietMembers ==
    ASSUME QuietInv, NEW p \in Slugs, MembersReturn(p)
    PROVE  SeenInv' /\ ManagedInv' /\ ModelsInv' /\ ClearedInv' /\ PageInv'
  <1>1. /\ p \in Managed /\ Answer(GetUsersForProject(p), {}) /\ Noted(GetUsersForProject(p))
        /\ projectUsers' = p
        /\ UNCHANGED <<route, roleStream, project, models, model, projectUser, lastProject,
                       modelProject, roleRequest>>
    BY DEF MembersReturn, Answer
  <1>2. ProjectsAsked' = ProjectsAsked /\ ListsAsked \subseteq ListsAsked'
    BY <1>1, RequestsTell, ProjectsStillAsked, ListsStillAsked
  <1>3. ModelsAsked \subseteq ModelsAsked'
    BY <1>1, RequestsTell, ModelsStillAsked DEF ModelLoads
  <1>4. /\ outrun => outrun'
        /\ ~outrun' => p = route.project /\ p = projectUser
    <2>1. GetUsersForProject(p).key[1] = p /\ GetUsersForProject(p).about = "members"
      BY DEF GetUsersForProject, Request
    <2> QED
      BY <1>1, <2>1, NotedTells
  <1>5. SeenInv' /\ ManagedInv' /\ ModelsInv' /\ ClearedInv'
    BY <1>1, <1>2, <1>4 DEF QuietInv, SeenInv, ManagedInv, ModelsInv, ClearedInv
  <1>6. PageInv'
    <2> SUFFICES ASSUME ~outrun', ProjectsAsked \subseteq {route.project}
                 PROVE  PageRight'
      BY <1>1, <1>2 DEF PageInv
    <2>1. PageRight
      BY <1>4 DEF QuietInv, PageInv
    <2>2. AskedFor' = AskedFor
      BY <1>1 DEF AskedFor
    <2>3. ProjectRight' /\ RoleRight' /\ AskedRight' /\ ModelRight'
      BY <1>1, <1>2, <1>3, <2>1, <2>2 DEF PageRight, ProjectRight, RoleRight, AskedRight, ModelRight
    <2>4. MembersRight'
      BY <1>1, <1>4 DEF MembersRight
    <2> QED
      BY <2>3, <2>4 DEF PageRight
  <1> QED
    BY <1>5, <1>6

\* The members changed: they are asked for again.
LEMMA QuietMembersChanged ==
    ASSUME QuietInv, NEW p \in Slugs, MembersChanged(p)
    PROVE  SeenInv' /\ ManagedInv' /\ ModelsInv' /\ ClearedInv' /\ PageInv'
  <1>1. PICK request \in MemberChanges :
           /\ Answer(request, {GetUsersForProject(p)}) /\ projectUsers' = NoSlug
           /\ UNCHANGED <<route, roleStream, project, models, model, projectUser, lastProject,
                          modelProject, roleRequest, outrun>>
    BY DEF MembersChanged, Answer
  <1>2. request \in Writes
    BY DEF Writes
  <1>3. ProjectsAsked' = ProjectsAsked /\ ListsAsked \subseteq ListsAsked'
    BY <1>1, <1>2, ChangesTell, RequestsTell, ProjectsStillAsked, ListsStillAsked
  <1>4. ModelsAsked \subseteq ModelsAsked'
    BY <1>1, <1>2, ChangesTell, ModelsStillAsked DEF ModelLoads
  <1>5. SeenInv' /\ ManagedInv' /\ ModelsInv' /\ ClearedInv'
    BY <1>1, <1>3 DEF QuietInv, SeenInv, ManagedInv, ModelsInv, ClearedInv
  <1>6. PageInv'
    BY <1>1, <1>3, <1>4 DEF QuietInv, PageInv, PageRight, ProjectRight, RoleRight, MembersRight,
                            AskedRight, ModelRight, AskedFor
  <1> QED
    BY <1>5, <1>6

\* A request fails, and nothing changes.
LEMMA QuietNothing ==
    ASSUME QuietInv, NEW request, NothingChanged(request)
    PROVE  SeenInv' /\ ManagedInv' /\ ModelsInv' /\ ClearedInv' /\ PageInv'
  <1>1. /\ Answer(request, {})
        /\ UNCHANGED <<route, roleStream, models, model, outrun, project, projectUser, projectUsers,
                       lastProject, modelProject, roleRequest>>
    BY DEF NothingChanged, KeepProject, Answer
  <1>2. /\ \A q \in Slugs : request \notin {GetProjectBySlug(q), GetModels(q)}
        /\ request \notin ModelLoads
    BY RequestsTell DEF NothingChanged, Loads, ModelLoads
  <1>3. /\ ProjectsAsked' = ProjectsAsked /\ ListsAsked \subseteq ListsAsked'
        /\ ModelsAsked \subseteq ModelsAsked'
    BY <1>1, <1>2, ProjectsStillAsked, ListsStillAsked, ModelsStillAsked
  <1>4. SeenInv' /\ ManagedInv' /\ ModelsInv' /\ ClearedInv'
    BY <1>1, <1>3 DEF QuietInv, SeenInv, ManagedInv, ModelsInv, ClearedInv
  <1>5. ModelRight => ModelRight'
    BY <1>1, <1>3 DEF ModelRight
  <1> QED
    BY <1>1, <1>3, <1>4, <1>5, PageKept DEF QuietInv

\* The user's role arrives, or the request for it fails.
LEMMA QuietRole ==
    ASSUME QuietInv, RoleReturns \/ RoleFails
    PROVE  SeenInv' /\ ManagedInv' /\ ModelsInv' /\ ClearedInv' /\ PageInv'
  <1>1. /\ UNCHANGED <<route, project, models, model, lastProject, modelProject>>
        /\ roleRequest # NoRole /\ AskedFor' = NoSlug
        /\ outrun => outrun'
    BY DEF RoleReturns, RoleFails, AskedFor, NoRole, GetCurrentProjectUser, Request,
           QuietInv, PagesInv, RouteTypes
  <1>2. AskedFor \in Slugs /\ lastProject = AskedFor
    BY <1>1, AskedTyped DEF QuietInv, PagesInv, RoleInv
  <1>3. ProjectsAsked' = ProjectsAsked /\ ListsAsked \subseteq ListsAsked' /\ ModelsAsked \subseteq ModelsAsked'
    <2>1. CASE RoleFails
      BY <2>1 DEF RoleFails, ProjectsAsked, ListsAsked, ModelsAsked
    <2>2. CASE RoleReturns
      <3>1. Exchange({}, AsksForMembers(lastProject, AskedFor))
        BY <2>2 DEF RoleReturns
      <3>2. \A p \in Slugs : GetProjectBySlug(p) \notin AsksForMembers(lastProject, AskedFor)
        BY RequestsTell DEF AsksForMembers
      <3>3. \A p \in Slugs : p \in ProjectsAsked' <=> p \in ProjectsAsked
        BY <3>1, <3>2, ExchangeAsked
      <3>4. ProjectsAsked' = ProjectsAsked
        BY <3>3, AskedSlugs
      <3>5. ListsAsked \subseteq ListsAsked' /\ ModelsAsked \subseteq ModelsAsked'
        BY <3>1, ExchangeAsked, AskedSlugs
      <3> QED
        BY <3>4, <3>5
    <2> QED
      BY <2>1, <2>2
  <1>4. projectUsers' \in {projectUsers, NoSlug}
    BY DEF RoleReturns, RoleFails
  <1>5. SeenInv' /\ ManagedInv' /\ ModelsInv' /\ ClearedInv'
    BY <1>1, <1>3, <1>4 DEF QuietInv, SeenInv, ManagedInv, ModelsInv, ClearedInv
  <1>6. PageInv'
    <2> SUFFICES ASSUME ~outrun', ProjectsAsked \subseteq {route.project}
                 PROVE  PageRight'
      BY <1>1, <1>3 DEF PageInv
    <2>1. PageRight
      BY <1>1 DEF QuietInv, PageInv
    <2>2. ProjectRight' /\ AskedRight' /\ ModelRight'
      BY <1>1, <1>3, <2>1 DEF PageRight, ProjectRight, AskedRight, ModelRight
    <2>3. CASE RoleFails
      <3>1. RoleRight' /\ MembersRight'
        BY <1>1, <1>3, <2>1, <2>3, AskedSlugs, ProjectPagesAssumption
           DEF RoleFails, RoleRight, MembersRight, PageRight
      <3> QED
        BY <2>2, <3>1 DEF PageRight
    <2>4. CASE RoleReturns
      <3>1. AskedFor = route.project /\ projectUser' = route.project
        BY <2>4 DEF RoleReturns, QuietInv, PagesInv, RouteTypes
      <3>2. RoleRight'
        BY <1>1, <3>1 DEF RoleRight
      <3>3. route.project \in Managed => projectUsers' = NoSlug
        BY <1>2, <2>4, <3>1, ProjectPagesAssumption DEF RoleReturns, AsksForMembers
      <3>4. projectUsers # NoSlug => projectUsers = route.project
        BY <2>1, <3>1 DEF PageRight, MembersRight
      <3>5. projectUsers' = NoSlug
        BY <1>4, <3>3, <3>4 DEF QuietInv, ManagedInv
      <3>6. MembersRight'
        BY <3>5 DEF MembersRight
      <3> QED
        BY <2>2, <3>2, <3>6 DEF PageRight
    <2> QED
      BY <2>3, <2>4
  <1> QED
    BY <1>5, <1>6

----------------------------------------------------------------------------
(* Theorems *)

\* Types, and that a role that is asked for is the one for the last project shown.
THEOREM PagesInvariant == PagesSpec => []PagesInv
  <1>1. PagesInit => PagesInv
    <2> SUFFICES ASSUME PagesInit
                 PROVE  PagesInv
      OBVIOUS
    <2>1. RouteTypes
      BY DEF PagesInit, RouteTypes, Routes
    <2> QED
      BY <2>1 DEF PagesInit, PagesInv, RoleInv, RoleTypes, RoleFollowsProject
  <1>2. ASSUME PagesInv, [PagesNext]_pageVars
        PROVE  PagesInv'
    <2>1. CASE UNCHANGED pageVars
      BY <1>2, <2>1, RoleKept DEF pageVars, PagesInv, RouteTypes
    <2>2. CASE PagesNext
      BY <1>2, <2>2, LeavePageStep, EnterStep, ChangeStep, ProjectAnswers, ModelAnswers, ListAnswers,
         NothingStep, MemberAnswers, RoleAnswers DEF PagesNext
    <2> QED
      BY <1>2, <2>1, <2>2
  <1> QED
    BY <1>1, <1>2, PTL DEF PagesSpec

\* The variables of the pages of a project have their types.
THEOREM PagesTypes == PagesSpec => []PagesTypeOK
  <1>1. PagesInv => PagesTypeOK
    BY DEF PagesInv, PagesTypeOK, RouteTypes, RoleInv, RoleTypes
  <1> QED
    BY <1>1, PagesInvariant, PTL

\* The role that decides on the buttons is the one for the project that is shown, or is
\* on its way, unless a request for a role has failed (ProjectUserService).
THEOREM RoleIsForTheProject == PagesSpec => []RoleFollowsProject
  <1>1. PagesInv => RoleFollowsProject
    BY DEF PagesInv, RoleInv
  <1> QED
    BY <1>1, PagesInvariant, PTL

\* When every answer has come, and none was about a page that had been left, the services
\* hold what the address names or nothing (ProjectWrapperService, ModelWrapperService,
\* ProjectUserService).
THEOREM QuietPagesAreRight == PagesSpec => []QuietPageIsRight
  <1>1. PagesInv /\ PagesInit => QuietInv
    BY DEF PagesInit, QuietInv, SeenInv, ManagedInv, ModelsInv, ClearedInv, PageInv, PageRight,
           ProjectRight, RoleRight, MembersRight, AskedRight, ModelRight
  <1>2. ASSUME QuietInv, PagesInv', [PagesNext]_pageVars
        PROVE  QuietInv'
    <2>1. CASE UNCHANGED pageVars
      <3>1. /\ UNCHANGED <<ProjectsAsked, ListsAsked, ModelsAsked, AskedFor>>
            /\ UNCHANGED pageVars
        BY <2>1 DEF pageVars, ProjectsAsked, ListsAsked, ModelsAsked, AskedFor
      <3> QED
        BY <1>2, <3>1 DEF pageVars, QuietInv, SeenInv, ManagedInv, ModelsInv, ClearedInv, PageInv,
              PageRight, ProjectRight, RoleRight, MembersRight, AskedRight, ModelRight
    <2>2. CASE LeaveProject \/ RoleReturns \/ RoleFails \/ \E r \in Routes : EnterProject(r)
      BY <1>2, <2>2, QuietLeave, QuietRole, QuietEnter DEF QuietInv
    <2>3. CASE ChangeProject \/ ChangeModel
      BY <1>2, <2>3, ChangeIsWrite, QuietChange DEF QuietInv
    <2>4. CASE \E p \in Slugs : \/ ProjectReturns(p) \/ ProjectGone(p) \/ ModelsReturn(p) \/ ModelsFail(p)
                                \/ MembersReturn(p) \/ MembersChanged(p)
      BY <1>2, <2>4, QuietProject, QuietGone, QuietList, QuietMembers, QuietMembersChanged DEF QuietInv
    <2>5. CASE \E p \in Slugs, m \in ModelSlugs : ModelReturns(p, m) \/ ModelFails(p, m) \/ ModelDeleted(p, m)
      BY <1>2, <2>5, QuietModel DEF QuietInv
    <2>6. CASE \E request \in Loads \cup Writes : NothingChanged(request)
      BY <1>2, <2>6, QuietNothing DEF QuietInv
    <2> QED
      BY <1>2, <2>1, <2>2, <2>3, <2>4, <2>5, <2>6 DEF PagesNext
  <1>3. QuietInv => QuietPageIsRight
    <2> SUFFICES ASSUME QuietInv, pageRequests = {}, roleRequest = NoRole, ~outrun
                 PROVE  /\ {project, models} \subseteq {NoSlug, route.project}
                        /\ roleStream => {projectUser, projectUsers} \subseteq {NoSlug, route.project}
                        /\ project # NoSlug => model \in {NoModel, <<route.project, route.model>>}
      BY DEF QuietPageIsRight
    <2>1. ProjectsAsked = {} /\ ListsAsked = {} /\ ModelsAsked = {} /\ AskedFor = NoSlug
      BY DEF ProjectsAsked, ListsAsked, ModelsAsked, AskedFor, NoRole, GetCurrentProjectUser, Request
    <2>2. models \in {NoSlug, route.project} /\ PageRight
      BY <2>1 DEF QuietInv, ModelsInv, PageInv
    <2>3. project \in {NoSlug, route.project}
      BY <2>1, <2>2 DEF PageRight, ProjectRight
    <2>4. roleStream => projectUser \in {NoSlug, route.project}
      BY <2>1, <2>2 DEF PageRight, RoleRight
    <2>5. projectUsers \in {NoSlug, route.project}
      BY <2>1, <2>2 DEF PageRight, MembersRight
    <2>6. project # NoSlug => model \in {NoModel, <<route.project, route.model>>}
      BY <2>1, <2>2 DEF PageRight, ModelRight
    <2> QED
      BY <2>2, <2>3, <2>4, <2>5, <2>6
  <1> QED
    BY <1>1, <1>2, <1>3, PagesInvariant, PTL DEF PagesSpec

-----------------------------------------------------------------------------
(* The page of a pipeline run *)

RunPolls == [call : {GetPipelineRun(r) : r \in Runs}, read : RunStatuses \cup {Unread}]
PollOf(panel, poll) ==
    \/ poll = NoRequest
    \/ \E r \in Runs, status \in RunStatuses \cup {Unread} :
          poll = [call |-> PanelRequest(panel, r), read |-> status]

\* A final status that was read is the one the run has.
TrueStatus(run, status) == Finished(status) /\ status # Unread => rpRemote[run] = status

RunTypes ==
    /\ RunPageTypeOK
    /\ rpAsked \in Seq(RunPolls)
    /\ DOMAIN rpAsks = Panels
    /\ \A panel \in Panels : PollOf(panel, rpAsks[panel])
    /\ rpHeld = NoneHeld \/ (rpHeld.run \in Runs /\ rpHeld.status \in RunStatuses)

AnswersAreTrue ==
    /\ \A k \in DOMAIN rpAsked : TrueStatus(rpAsked[k].call.key[1], rpAsked[k].read)
    /\ rpHeld # NoneHeld => TrueStatus(rpHeld.run, rpHeld.status)

\* What is asked for a panel is about the run that is held, and what comes of it is
\* the end of a run that has finished.
PanelFollows(panel) ==
    /\ rpAddress = NoRun \/ ~rpStream[panel] => rpAsks[panel] = NoRequest
    /\ rpAddress = NoRun => rpStream[panel]
    /\ HeldFinished /\ rpAsks[panel] # NoRequest =>
          /\ rpAsks[panel].call = PanelRequest(panel, rpHeld.run)
          /\ rpAsks[panel].read \in {Unread, rpHeld.status}
    /\ HeldFinished /\ rpAddress # NoRun /\ rpStream[panel] /\ rpAsks[panel] = NoRequest =>
          rpPanel[panel] = rpHeld

RunPageInv ==
    /\ RunTypes
    /\ AnswersAreTrue
    /\ \A panel \in Panels : PanelFollows(panel)
    /\ RunHeldIsAddressed

----------------------------------------------------------------------------
(* Requests *)

\* The request for a panel that AskAnew sends.
Fresh(panel, run) == [call |-> PanelRequest(panel, run), read |-> Unread]

\* A request for a panel that was just sent is about the run it was sent for and has read
\* nothing.
LEMMA FreshRequest ==
    ASSUME NEW panel \in Panels, NEW r \in Runs
    PROVE  /\ Fresh(panel, r) # NoRequest
           /\ Fresh(panel, r).call = PanelRequest(panel, r)
           /\ Fresh(panel, r).read = Unread
           /\ PollOf(panel, Fresh(panel, r))
  <1>1. PanelRequest(panel, r) # GetLogs(NoRun)
    BY RunPageAssumption DEF PanelRequest, GetLogs, GetPipelineRunEvents, Request
  <1> QED
    BY <1>1 DEF Fresh, NoRequest, PollOf

\* A read that is served returns the status of its run.
LEMMA ServedStatus ==
    ASSUME RunTypes, NEW r \in Runs
    PROVE  /\ Serve(GetPipelineRun(r), rpRemote) = rpRemote[r]
           /\ GetPipelineRun(r).key[1] = r
           /\ rpRemote[r] \in RunStatuses
           /\ \A panel \in Panels : Serve(PanelRequest(panel, r), rpRemote) = rpRemote[r]
  BY DEF RunTypes, RunPageTypeOK, Serve, GetPipelineRun, Request, PanelRequest, GetLogs,
         GetPipelineRunEvents

----------------------------------------------------------------------------
(* The invariant *)

\* The requests of a list are what they are typed to be.
LEMMA PollsTyped ==
    ASSUME NEW s \in Seq(RunPolls)
    PROVE  \A request \in ToSet(s) :
              request.call \in {GetPipelineRun(r) : r \in Runs}
                 /\ request.read \in RunStatuses \cup {Unread}
  <1>1. \A k \in DOMAIN s : s[k] \in RunPolls
    OBVIOUS
  <1> QED
    BY <1>1 DEF RunPolls, ToSet

\* The invariant of the page of a run holds to begin with.
LEMMA RunInitial == RunPageInit => RunPageInv
  <1> SUFFICES ASSUME RunPageInit
               PROVE  RunPageInv
    OBVIOUS
  <1>1. RunTypes
    <2>1. rpHeld \in [run : Runs \cup {NoRun}, status : RunStatuses \cup {Unread}]
      BY DEF RunPageInit, NoneHeld, RunOf
    <2>2. rpPanel \in [Panels -> [run : Runs \cup {NoRun}, status : RunStatuses \cup {Unread}]]
      BY <2>1 DEF RunPageInit, Nothing
    <2>3. rpRemote \in [Runs -> RunStatuses]
      BY DEF RunPageInit, RunStatuses
    <2>4. rpAsked \in Seq(RunPolls) /\ Len(rpAsked) <= MaxRunAsked
      BY RunPageAssumption DEF RunPageInit
    <2>5. DOMAIN rpAsks = Panels /\ \A panel \in Panels : PollOf(panel, rpAsks[panel])
      BY DEF RunPageInit, PollOf
    <2> QED
      BY <2>1, <2>2, <2>3, <2>4, <2>5, PollsTyped DEF RunPageInit, RunTypes, RunPageTypeOK
  <1> QED
    BY <1>1 DEF RunPageInit, RunPageInv, AnswersAreTrue, PanelFollows, RunHeldIsAddressed,
       HeldFinished, NoRequest, NoneHeld

\* A step that takes an answer removes it from the requests that are under way.
LEMMA PollTaken ==
    ASSUME RunTypes, AnswersAreTrue, NEW k \in DOMAIN rpAsked,
           rpAsked' = RemoveAt(rpAsked, k), UNCHANGED rpRemote
    PROVE  /\ rpAsked' \in Seq(RunPolls)
           /\ Len(rpAsked') <= MaxRunAsked
           /\ \A request \in ToSet(rpAsked') :
                 request.call \in {GetPipelineRun(r) : r \in Runs}
                    /\ request.read \in RunStatuses \cup {Unread}
           /\ (\A j \in DOMAIN rpAsked : TrueStatus(rpAsked[j].call.key[1], rpAsked[j].read))'
  <1>1. rpAsked \in Seq(RunPolls) /\ MaxRunAsked \in Nat /\ Len(rpAsked) <= MaxRunAsked
    BY RunPageAssumption DEF RunTypes, RunPageTypeOK
  <1>2. /\ rpAsked' \in Seq(RunPolls)
        /\ Len(rpAsked') = Len(rpAsked) - 1
        /\ \A j \in DOMAIN rpAsked' : \E i \in DOMAIN rpAsked : rpAsked'[j] = rpAsked[i]
    BY <1>1, Removed, RemovedElements
  <1>3. Len(rpAsked') <= MaxRunAsked
    BY <1>1, <1>2
  <1>4. \A j \in DOMAIN rpAsked' : rpAsked'[j] \in RunPolls
    BY <1>2
  <1>5. \A j \in DOMAIN rpAsked' :
           Finished(rpAsked'[j].read) /\ rpAsked'[j].read # Unread =>
              rpRemote[rpAsked'[j].call.key[1]] = rpAsked'[j].read
    BY <1>2 DEF AnswersAreTrue, TrueStatus
  <1>6. (\A j \in DOMAIN rpAsked : TrueStatus(rpAsked[j].call.key[1], rpAsked[j].read))'
    BY <1>5 DEF TrueStatus
  <1> QED
    BY <1>2, <1>3, <1>6, PollsTyped

\* A page that opens asks for the run of its address.
LEMMA OpenStep ==
    ASSUME RunPageInv, NEW r \in Runs, OpenRun(r)
    PROVE  RunPageInv'
  <1> USE DEF RunPageInv, OpenRun
  <1>1. rpHeld = NoneHeld \/ rpHeld.run \in Runs
    BY DEF RunTypes
  <1>2. \A panel \in Panels : rpStream[panel] /\ rpAsks[panel] = NoRequest
    BY DEF PanelFollows
  <1>3. \A panel \in Panels :
           rpAsks'[panel] = IF rpHeld = NoneHeld THEN NoRequest
                            ELSE Fresh(panel, rpHeld.run)
    BY <1>2 DEF AskPanels, AskAnew, Fresh
  <1>4. DOMAIN rpAsks' = Panels
    BY DEF AskPanels, RunTypes
  <1>5. RunTypes'
    <2>1. ASSUME NEW panel \in Panels
          PROVE  PollOf(panel, rpAsks'[panel])
      <3>1. PollOf(panel, NoRequest)
        BY DEF PollOf
      <3> QED
        BY <1>1, <1>3, <3>1, FreshRequest
    <2> QED
      BY <1>4, <2>1 DEF RunTypes, RunPageTypeOK
  <1>6. AnswersAreTrue'
    BY DEF AnswersAreTrue, TrueStatus
  <1>7. \A panel \in Panels : PanelFollows(panel)'
    <2>1. CASE rpHeld = NoneHeld
      BY <1>2, <1>3, <2>1 DEF PanelFollows, HeldFinished
    <2>2. CASE rpHeld # NoneHeld
      <3>1. rpHeld.run \in Runs
        BY <1>1, <2>2
      <3>2. \A panel \in Panels : rpAsks'[panel] # NoRequest
        BY <1>3, <2>2, <3>1, FreshRequest
      <3>3. rpAddress' # NoRun
        BY RunPageAssumption
      <3> QED
        BY <1>2, <1>3, <2>2, <3>1, <3>2, <3>3, FreshRequest DEF PanelFollows, HeldFinished
    <2> QED
      BY <2>1, <2>2
  <1>8. RunHeldIsAddressed'
    BY RunPageAssumption, <1>1 DEF RunHeldIsAddressed, RunOf, NoneHeld
  <1> QED
    BY <1>5, <1>6, <1>7, <1>8

\* When the address of an open page changes, the run that is held is recorded as late.
LEMMA ChangeRunStep ==
    ASSUME RunPageInv, NEW r \in Runs, ChangeRun(r)
    PROVE  RunPageInv'
  <1> USE DEF RunPageInv, ChangeRun
  <1>1. RunTypes'
    BY DEF RunTypes, RunPageTypeOK
  <1>2. AnswersAreTrue'
    BY DEF AnswersAreTrue, TrueStatus
  <1>3. \A panel \in Panels : PanelFollows(panel)'
    BY RunPageAssumption DEF PanelFollows, HeldFinished
  <1>4. RunHeldIsAddressed'
    BY DEF RunHeldIsAddressed
  <1> QED
    BY <1>1, <1>2, <1>3, <1>4

\* The page of a run is left.
LEMMA LeaveRunStep ==
    ASSUME RunPageInv, LeaveRun
    PROVE  RunPageInv'
  <1> USE DEF RunPageInv, LeaveRun, ResetPipelineRun
  <1>1. RunTypes'
    <2>1. rpPanel' \in [Panels -> [run : Runs \cup {NoRun}, status : RunStatuses \cup {Unread}]]
      BY DEF Nothing, NoneHeld, RunOf
    <2>2. rpHeld' \in [run : Runs \cup {NoRun}, status : RunStatuses \cup {Unread}]
      BY DEF NoneHeld, RunOf
    <2>3. /\ rpAddress' \in Runs \cup {NoRun} /\ rpRemote' \in [Runs -> RunStatuses]
          /\ rpStream' \in [Panels -> BOOLEAN] /\ rpLate' \in BOOLEAN
      BY DEF RunTypes, RunPageTypeOK
    <2>4. DOMAIN rpAsks' = Panels /\ \A panel \in Panels : PollOf(panel, rpAsks'[panel])
      BY DEF PollOf
    <2> QED
      BY <2>1, <2>2, <2>3, <2>4 DEF RunTypes, RunPageTypeOK
  <1>2. AnswersAreTrue'
    BY DEF AnswersAreTrue, TrueStatus
  <1>3. \A panel \in Panels : PanelFollows(panel)'
    BY DEF PanelFollows, HeldFinished
  <1> QED
    BY <1>1, <1>2, <1>3 DEF RunHeldIsAddressed

\* The timer asks for the run of the address.
LEMMA TickStep ==
    ASSUME RunPageInv, RunTick
    PROVE  RunPageInv'
  <1> USE DEF RunPageInv, RunTick
  <1>1. rpAsked \in Seq(RunPolls) /\ rpAddress \in Runs
    BY DEF RunTypes, RunPageTypeOK
  <1>2. [call |-> GetPipelineRun(rpAddress), read |-> Unread] \in RunPolls
    BY <1>1 DEF RunPolls
  <1>3. rpAsked' \in Seq(RunPolls) /\ Len(rpAsked') = Len(rpAsked) + 1 /\ Len(rpAsked) \in Nat
    BY <1>1, <1>2
  <1>4. Len(rpAsked') <= MaxRunAsked
    BY <1>3, RunPageAssumption
  <1>5. RunTypes'
    <2>1. \A request \in ToSet(rpAsked') :
             request.call \in {GetPipelineRun(r) : r \in Runs}
                /\ request.read \in RunStatuses \cup {Unread}
      BY <1>3, PollsTyped
    <2> QED
      BY <1>3, <1>4, <2>1 DEF RunTypes, RunPageTypeOK
  <1>6. AnswersAreTrue'
    <2>1. ASSUME NEW k \in DOMAIN rpAsked'
          PROVE  (k \in DOMAIN rpAsked /\ rpAsked'[k] = rpAsked[k]) \/ rpAsked'[k].read = Unread
      BY <1>1, <1>2, <1>3
    <2> QED
      BY <2>1 DEF AnswersAreTrue, TrueStatus
  <1>7. \A panel \in Panels : PanelFollows(panel)'
    BY DEF PanelFollows, HeldFinished
  <1> QED
    BY <1>5, <1>6, <1>7 DEF RunHeldIsAddressed

\* A read of the run that is served is true of it.
LEMMA ServedStep ==
    ASSUME RunPageInv, NEW k \in DOMAIN rpAsked, RunServed(k)
    PROVE  RunPageInv'
  <1> USE DEF RunPageInv, RunServed
  <1>1. rpAsked \in Seq(RunPolls) /\ rpAsked[k] \in RunPolls
    BY DEF RunTypes
  <1>2. PICK r \in Runs : rpAsked[k].call = GetPipelineRun(r)
    BY <1>1 DEF RunPolls
  <1> DEFINE served == [rpAsked[k] EXCEPT !.read = rpRemote[r]]
  <1>3. rpAsked' = [rpAsked EXCEPT ![k] = served]
    BY <1>2, ServedStatus
  <1>4. served \in RunPolls /\ served.call.key[1] = r /\ served.read = rpRemote[r]
    BY <1>1, <1>2, ServedStatus DEF RunPolls
  <1> HIDE DEF served
  <1>5. rpAsked' \in Seq(RunPolls) /\ Len(rpAsked') = Len(rpAsked)
    BY <1>1, <1>3, <1>4
  <1>6. RunTypes'
    BY <1>5, PollsTyped DEF RunTypes, RunPageTypeOK, PollOf
  <1>7. AnswersAreTrue'
    BY <1>1, <1>3, <1>4 DEF AnswersAreTrue, TrueStatus
  <1>8. \A panel \in Panels : PanelFollows(panel)'
    BY DEF PanelFollows, HeldFinished
  <1> QED
    BY <1>6, <1>7, <1>8 DEF RunHeldIsAddressed

\* An answer about the run that the page takes sets off a request of each panel.
LEMMA ReturnStep ==
    ASSUME RunPageInv, NEW k \in DOMAIN rpAsked, RunReturns(k)
    PROVE  RunPageInv'
  <1> USE DEF RunPageInv
  <1> DEFINE run == rpAsked[k].call.key[1]
             read == rpAsked[k].read
  <1>1. rpAsked \in Seq(RunPolls) /\ rpAsked[k] \in RunPolls
    BY DEF RunTypes
  <1>2. run \in Runs
    <2>1. PICK r \in Runs : rpAsked[k].call = GetPipelineRun(r)
      BY <1>1 DEF RunPolls
    <2> QED
      BY <2>1, ServedStatus
  <1>3. read \in RunStatuses /\ read # Unread
    BY <1>1 DEF RunPolls, RunReturns
  <1>4. TrueStatus(run, read)
    BY DEF AnswersAreTrue
  <1>5. /\ rpAsked' = RemoveAt(rpAsked, k)
        /\ rpHeld' = RunOf(run, read)
        /\ IF rpAddress = NoRun THEN UNCHANGED rpAsks ELSE AskPanels(run)
        /\ rpLate' = (rpLate \/ run # rpAddress)
        /\ UNCHANGED <<rpAddress, rpRemote, rpPanel, rpStream>>
    BY DEF RunReturns
  <1> HIDE DEF run, read
  <1>6. rpHeld'.run = run /\ rpHeld'.status = read /\ rpHeld' # NoneHeld
    BY <1>3, <1>5 DEF RunOf, NoneHeld
  <1>7. \A panel \in Panels :
           rpAsks'[panel] = IF rpAddress # NoRun /\ rpStream[panel]
                            THEN Fresh(panel, run) ELSE rpAsks[panel]
    BY <1>5 DEF AskPanels, AskAnew, Fresh
  <1>8. RunTypes'
    <2>1. \A panel \in Panels : PollOf(panel, rpAsks'[panel])
      BY <1>2, <1>7, FreshRequest DEF RunTypes
    <2>2. rpHeld' \in [run : Runs \cup {NoRun}, status : RunStatuses \cup {Unread}]
      BY <1>2, <1>3, <1>5 DEF RunOf
    <2>3. DOMAIN rpAsks' = Panels
      BY <1>5 DEF RunTypes, AskPanels
    <2>4. /\ rpAsked' \in Seq(RunPolls)
          /\ Len(rpAsked') <= MaxRunAsked
          /\ \A request \in ToSet(rpAsked') :
                request.call \in {GetPipelineRun(r) : r \in Runs}
                   /\ request.read \in RunStatuses \cup {Unread}
      BY <1>5, PollTaken
    <2> QED
      BY <1>2, <1>3, <1>5, <1>6, <2>1, <2>2, <2>3, <2>4 DEF RunTypes, RunPageTypeOK
  <1>9. AnswersAreTrue'
    <2>1. (\A j \in DOMAIN rpAsked : TrueStatus(rpAsked[j].call.key[1], rpAsked[j].read))'
      BY <1>5, PollTaken
    <2> QED
      BY <1>4, <1>5, <1>6, <2>1 DEF AnswersAreTrue, TrueStatus
  <1>10. \A panel \in Panels : PanelFollows(panel)'
    BY <1>2, <1>5, <1>6, <1>7, FreshRequest DEF PanelFollows, HeldFinished
  <1>11. RunHeldIsAddressed'
    BY <1>5, <1>6 DEF RunHeldIsAddressed
  <1> QED
    BY <1>8, <1>9, <1>10, <1>11

\* A failed read of the run leaves the page as it is.
LEMMA FailStep ==
    ASSUME RunPageInv, NEW k \in DOMAIN rpAsked, RunFails(k)
    PROVE  RunPageInv'
  <1> USE DEF RunPageInv, RunFails
  <1>1. /\ rpAsked' \in Seq(RunPolls)
        /\ Len(rpAsked') <= MaxRunAsked
        /\ \A request \in ToSet(rpAsked') :
              request.call \in {GetPipelineRun(r) : r \in Runs}
                 /\ request.read \in RunStatuses \cup {Unread}
        /\ (\A j \in DOMAIN rpAsked : TrueStatus(rpAsked[j].call.key[1], rpAsked[j].read))'
    BY PollTaken
  <1>2. RunTypes'
    BY <1>1 DEF RunTypes, RunPageTypeOK
  <1>3. AnswersAreTrue'
    BY <1>1 DEF AnswersAreTrue, TrueStatus
  <1>4. \A panel \in Panels : PanelFollows(panel)'
    BY DEF PanelFollows, HeldFinished
  <1> QED
    BY <1>2, <1>3, <1>4 DEF RunHeldIsAddressed

\* A request for a panel names its run.
LEMMA PanelKey ==
    ASSUME NEW panel, NEW r
    PROVE  PanelRequest(panel, r).key[1] = r
  BY DEF PanelRequest, GetLogs, GetPipelineRunEvents, Request

\* What was asked for a panel, with the run it is about.
LEMMA PanelPoll ==
    ASSUME RunTypes, NEW panel \in Panels, rpAsks[panel] # NoRequest
    PROVE  \E r \in Runs, status \in RunStatuses \cup {Unread} :
              /\ rpAsks[panel] = [call |-> PanelRequest(panel, r), read |-> status]
              /\ PanelRequest(panel, r).key[1] = r
  <1>1. PICK r \in Runs, status \in RunStatuses \cup {Unread} :
           rpAsks[panel] = [call |-> PanelRequest(panel, r), read |-> status]
    BY DEF RunTypes, PollOf
  <1>2. PanelRequest(panel, r).key[1] = r
    BY PanelKey
  <1> QED
    BY <1>1, <1>2

\* A read of a panel that is served is true of its run.
LEMMA PanelServedStep ==
    ASSUME RunPageInv, NEW panel \in Panels, PanelServed(panel)
    PROVE  RunPageInv'
  <1> USE DEF RunPageInv, PanelServed
  <1>1. PICK r \in Runs, status \in RunStatuses \cup {Unread} :
           /\ rpAsks[panel] = [call |-> PanelRequest(panel, r), read |-> status]
           /\ PanelRequest(panel, r).key[1] = r
    BY PanelPoll
  <1> DEFINE served == [call |-> PanelRequest(panel, r), read |-> rpRemote[r]]
  <1>2. /\ DOMAIN rpAsks' = Panels /\ rpAsks'[panel] = served
        /\ \A other \in Panels \ {panel} : rpAsks'[other] = rpAsks[other]
    BY <1>1, ServedStatus DEF RunTypes
  <1>3. served.call = rpAsks[panel].call /\ served.read = rpRemote[r] /\ rpRemote[r] \in RunStatuses
    BY <1>1, ServedStatus
  <1>4. PollOf(panel, served)
    BY <1>3 DEF PollOf
  <1>5. served # NoRequest
    BY <1>3 DEF NoRequest, RunStatuses, Unread
  <1>6. rpAsks[panel].call = PanelRequest(panel, r)
    BY <1>1
  <1> HIDE DEF served
  <1>7. RunTypes'
    <2>1. \A p \in Panels : PollOf(p, rpAsks'[p])
      BY <1>2, <1>4 DEF RunTypes
    <2> QED
      BY <1>2, <2>1 DEF RunTypes, RunPageTypeOK
  <1>8. AnswersAreTrue'
    BY DEF AnswersAreTrue, TrueStatus
  <1>9. ASSUME NEW p \in Panels
        PROVE  PanelFollows(p)'
    <2>1. CASE p # panel
      BY <1>2, <2>1 DEF PanelFollows, HeldFinished
    <2>2. CASE p = panel
      <3>1. ASSUME HeldFinished
            PROVE  rpRemote[r] = rpHeld.status
        <4>1. PanelRequest(panel, r) = PanelRequest(panel, rpHeld.run)
          BY <1>6, <3>1 DEF PanelFollows
        <4>2. rpHeld.run = r
          BY <1>1, <4>1, <3>1, PanelKey DEF RunTypes, HeldFinished
        <4>3. rpHeld.status # Unread
          BY <3>1 DEF RunTypes, HeldFinished, RunStatuses, Unread
        <4> QED
          BY <3>1, <4>2, <4>3 DEF AnswersAreTrue, TrueStatus, HeldFinished
      <3> QED
        BY <1>2, <1>3, <1>5, <2>2, <3>1 DEF PanelFollows, HeldFinished
    <2> QED
      BY <2>1, <2>2
  <1> QED
    BY <1>7, <1>8, <1>9 DEF RunHeldIsAddressed

\* An answer for a panel is shown.
LEMMA PanelReturnsStep ==
    ASSUME RunPageInv, NEW panel \in Panels, PanelReturns(panel)
    PROVE  RunPageInv'
  <1> USE DEF RunPageInv, PanelReturns
  <1>1. rpAsks[panel] # NoRequest
    BY DEF NoRequest
  <1>2. PICK r \in Runs, status \in RunStatuses \cup {Unread} :
           rpAsks[panel] = [call |-> PanelRequest(panel, r), read |-> status]
    BY <1>1, PanelPoll
  <1>3. rpAsks[panel].call = PanelRequest(panel, r) /\ rpAsks[panel].read = status /\ status # Unread
    BY <1>2
  <1>4. rpPanel' = [rpPanel EXCEPT ![panel] = RunOf(r, status)]
    BY <1>3, PanelKey
  <1>5. rpAddress # NoRun /\ rpStream[panel]
    BY <1>1 DEF PanelFollows
  <1>6. RunTypes'
    <2>1. rpPanel' \in [Panels -> [run : Runs \cup {NoRun}, status : RunStatuses \cup {Unread}]]
      BY <1>4 DEF RunTypes, RunPageTypeOK, RunOf
    <2>2. DOMAIN rpAsks' = Panels /\ \A p \in Panels : PollOf(p, rpAsks'[p])
      BY DEF RunTypes, PollOf
    <2> QED
      BY <2>1, <2>2 DEF RunTypes, RunPageTypeOK
  <1>7. AnswersAreTrue'
    BY DEF AnswersAreTrue, TrueStatus
  <1>8. ASSUME NEW p \in Panels
        PROVE  PanelFollows(p)'
    <2>1. CASE p # panel
      BY <2>1 DEF PanelFollows, HeldFinished, RunTypes, RunPageTypeOK
    <2>2. CASE p = panel
      <3>1. rpAsks'[p] = NoRequest /\ rpPanel'[p] = RunOf(r, status)
        BY <1>4, <2>2 DEF RunTypes, RunPageTypeOK
      <3>2. ASSUME HeldFinished
            PROVE  RunOf(r, status) = rpHeld
        <4>1. PanelRequest(panel, r) = PanelRequest(panel, rpHeld.run) /\ status = rpHeld.status
          BY <1>1, <1>3, <3>2 DEF PanelFollows
        <4>2. rpHeld.run = r
          BY <4>1, PanelKey
        <4>3. rpHeld \in [run : Runs \cup {NoRun}, status : RunStatuses \cup {Unread}]
          BY DEF RunTypes, RunPageTypeOK
        <4> QED
          BY <4>1, <4>2, <4>3 DEF RunOf
      <3> QED
        BY <1>5, <2>2, <3>1, <3>2 DEF PanelFollows, HeldFinished
    <2> QED
      BY <2>1, <2>2
  <1> QED
    BY <1>6, <1>7, <1>8 DEF RunHeldIsAddressed

\* An error of a panel ends its stream.
LEMMA PanelFailsStep ==
    ASSUME RunPageInv, NEW panel \in Panels, PanelFails(panel)
    PROVE  RunPageInv'
  <1> USE DEF RunPageInv, PanelFails
  <1>1. rpAddress # NoRun
    BY DEF PanelFollows
  <1>2. RunTypes'
    <2>1. rpPanel' \in [Panels -> [run : Runs \cup {NoRun}, status : RunStatuses \cup {Unread}]]
      BY DEF RunTypes, RunPageTypeOK, RunOf, NoneHeld
    <2>2. DOMAIN rpAsks' = Panels /\ \A p \in Panels : PollOf(p, rpAsks'[p])
      BY DEF RunTypes, PollOf
    <2>3. rpStream' \in [Panels -> BOOLEAN]
      BY DEF RunTypes, RunPageTypeOK
    <2> QED
      BY <2>1, <2>2, <2>3 DEF RunTypes, RunPageTypeOK
  <1>3. AnswersAreTrue'
    BY DEF AnswersAreTrue, TrueStatus
  <1>4. \A p \in Panels : PanelFollows(p)'
    BY <1>1 DEF PanelFollows, HeldFinished, RunTypes, RunPageTypeOK
  <1> QED
    BY <1>2, <1>3, <1>4 DEF RunHeldIsAddressed

\* A run that proceeds does not leave a final status, so that what was read as final stays
\* true.
LEMMA RemoteStep ==
    ASSUME RunPageInv, NEW r \in Runs, RemoteProceeds(r)
    PROVE  RunPageInv'
  <1> USE DEF RunPageInv, RemoteProceeds
  <1>1. rpRemote \in [Runs -> RunStatuses]
    BY DEF RunTypes, RunPageTypeOK
  <1>2. rpRemote' \in [Runs -> RunStatuses]
    BY <1>1 DEF RunStatuses
  <1>3. ASSUME NEW run, NEW status, TrueStatus(run, status)
        PROVE  Finished(status) /\ status # Unread => rpRemote'[run] = status
    BY <1>1, <1>3 DEF TrueStatus
  <1>4. RunTypes'
    BY <1>2 DEF RunTypes, RunPageTypeOK
  <1>5. AnswersAreTrue'
    BY <1>3 DEF AnswersAreTrue, TrueStatus
  <1>6. \A p \in Panels : PanelFollows(p)'
    BY DEF PanelFollows, HeldFinished
  <1> QED
    BY <1>4, <1>5, <1>6 DEF RunHeldIsAddressed

----------------------------------------------------------------------------
(* Theorems *)

\* Types, that what the page holds of a finished run is what the run ended with, and
\* that the logs and events asked for are those of the run it holds.
THEOREM RunPageInvariant == RunPageSpec => []RunPageInv
  <1>1. ASSUME RunPageInv, [RunPageNext]_rpVars
        PROVE  RunPageInv'
    <2>1. CASE UNCHANGED rpVars
      BY <1>1, <2>1 DEF rpVars, RunPageInv, RunTypes, RunPageTypeOK, AnswersAreTrue, TrueStatus,
         PanelFollows, HeldFinished, RunHeldIsAddressed
    <2>2. CASE RunPageNext
      BY <1>1, <2>2, OpenStep, ChangeRunStep, LeaveRunStep, TickStep, ServedStep, ReturnStep, FailStep,
         PanelServedStep, PanelReturnsStep, PanelFailsStep, RemoteStep DEF RunPageNext
    <2> QED
      BY <1>1, <2>1, <2>2
  <1> QED
    BY <1>1, RunInitial, PTL DEF RunPageSpec

\* The page shows the run its address names, unless an answer came too late
\* (pipeline-run-wrapper.component, PipelineRunWrapperService).
THEOREM PageShowsItsRun == RunPageSpec => []RunHeldIsAddressed
  <1>1. RunPageInv => RunHeldIsAddressed
    BY DEF RunPageInv
  <1> QED
    BY <1>1, RunPageInvariant, PTL

\* A page that shows a finished run shows its final logs and events, an error, or has
\* asked for them (view-logs and the two polls of the page).
THEOREM FinalLogsAreShown == RunPageSpec => []FinishedRunHasFinalLogs
  <1>1. RunPageInv => FinishedRunHasFinalLogs
    BY DEF RunPageInv, PanelFollows, FinishedRunHasFinalLogs
  <1> QED
    BY <1>1, RunPageInvariant, PTL

----------------------------------------------------------------------------
(* Login, for any tabs, pages and requests *)

\* A tab at the identity provider, or back from it, has a target: a login was
\* started from it, which stored one.
LoginInv ==
    /\ LoginTypeOK
    /\ \A t \in Tabs : tabAt[t] \in {"idp", "callback"} => target[t] \in Pages \cup {LogoutURL}

\* Nothing is left after a logout, and nothing is under way that could bring a token back.
SignedOutInv ==
    signedOut =>
        /\ idToken = "none" /\ refreshToken = "none"
        /\ \A t \in Tabs, c \in LoginCalls : loginCalls[t][c] # "refreshing"

\* A refresh that is under way is one of the requests about tokens.
LEMMA RefreshingCalls ==
    ASSUME NEW t \in Tabs, NEW c \in LoginCalls, loginCalls[t][c] = "refreshing"
    PROVE  Refreshing
  <1>1. c \in {d \in LoginCalls : loginCalls[t][d] = "refreshing"}
    OBVIOUS
  <1>2. RefreshIdentityToken \in
           {RefreshIdentityToken : d \in {d \in LoginCalls : loginCalls[t][d] = "refreshing"}}
    BY <1>1
  <1>3. RefreshIdentityToken \in TokenRequests(t)
    BY <1>2 DEF TokenRequests
  <1> QED
    BY <1>3 DEF Refreshing

----------------------------------------------------------------------------
(* Types *)

\* No tab is at the identity provider to begin with.
LEMMA LoginInitial == LoginInit => LoginInv
  <1> SUFFICES ASSUME LoginInit
               PROVE  LoginInv
    OBVIOUS
  <1>1. tabAt \in [Tabs -> Places] /\ \A t \in Tabs : tabAt[t] \notin {"idp", "callback"}
    BY DEF LoginInit, Places
  <1>2. loginCalls \in [Tabs -> [LoginCalls -> CallPhases]]
    BY DEF LoginInit, CallPhases
  <1>3. /\ redirectURL \in [Tabs -> Pages \cup {Unset, LogoutURL}]
        /\ target \in [Tabs -> Pages \cup {Unset, LogoutURL}]
        /\ tabLeft \in [Tabs -> Pages \cup {Unset}]
    BY DEF LoginInit
  <1> QED
    BY <1>1, <1>2, <1>3 DEF LoginInit, LoginInv, LoginTypeOK

\* Every step of the specification keeps the types.
LEMMA LoginStep ==
    ASSUME LoginInv, [LoginNext]_loginVars
    PROVE  LoginInv'
  <1> USE LoginAssumption DEF LoginInv, LoginTypeOK
  <1>1. CASE UNCHANGED loginVars
    BY <1>1 DEF loginVars, cookies, requests
  <1>2. CASE IdTokenExpires
    BY <1>2 DEF IdTokenExpires, requests
  <1>3. CASE RefreshTokenExpires
    BY <1>3 DEF RefreshTokenExpires, requests
  <1>4. ASSUME NEW t \in Tabs, LogOut(t)
        PROVE  LoginInv'
    BY <1>4 DEF LogOut, ShowLogout, cookies, Places
  <1>5. ASSUME NEW t \in Tabs, LogoutReturns(t)
        PROVE  LoginInv'
    BY <1>5 DEF LogoutReturns, DeleteTokenCookies, Refreshing
  <1>6. ASSUME NEW t \in Tabs, LoginClicked(t)
        PROVE  LoginInv'
    BY <1>6 DEF LoginClicked, cookies
  <1>7. ASSUME NEW t \in Tabs, AuthorizationReturns(t)
        PROVE  LoginInv'
    BY <1>7 DEF AuthorizationReturns, DeleteTokenCookies, NoCalls, Places, CallPhases
  <1>8. ASSUME NEW t \in Tabs, Authenticated(t)
        PROVE  LoginInv'
    BY <1>8 DEF Authenticated, cookies, requests, Places
  <1>9. ASSUME NEW t \in Tabs, LoginFails(t)
        PROVE  LoginInv'
    <2>1. loggedIn' \in BOOLEAN
      BY <1>9 DEF LoginFails
    <2> QED
      BY <1>9, <2>1 DEF LoginFails, cookies, requests, Places
  <1>10. ASSUME NEW t \in Tabs, LoginReturns(t)
         PROVE  LoginInv'
    <2>1. tabAt[t] = "callback"
      <3>1. /\ GetIdentityToken # GetAuthorizationUrl
            /\ GetIdentityToken # Logout
            /\ GetIdentityToken # RefreshIdentityToken
        BY DEF GetIdentityToken, GetAuthorizationUrl, Logout, RefreshIdentityToken, Request
      <3> QED
        BY <1>10, <3>1 DEF LoginReturns, TokenRequests
    <2>2. LandingPage(t) \in Pages
      BY <2>1 DEF LandingPage
    <2>3. {idToken', refreshToken'} \subseteq {"none", "valid", "expired"}
      BY <1>10 DEF LoginReturns, NewTokens
    <2> QED
      BY <1>10, <2>2, <2>3 DEF LoginReturns, requests, Places
  <1>11. ASSUME NEW t \in Tabs, NEW page \in Pages, AuthGuard(t, page)
         PROVE  LoginInv'
    <2>1. NoCalls \in [LoginCalls -> CallPhases]
      BY DEF NoCalls, CallPhases
    <2>2. page \in Places /\ page \notin {"idp", "callback"}
      BY DEF Places
    <2>3. loginCalls' \in [Tabs -> [LoginCalls -> CallPhases]]
      BY <1>11, <2>1 DEF AuthGuard
    <2>4. tabAt' \in [Tabs -> Places]
      BY <1>11, <2>2 DEF AuthGuard, Places
    <2>5. \A u \in Tabs : tabAt'[u] \in {"idp", "callback"} => u # t /\ tabAt'[u] = tabAt[u]
      BY <1>11, <2>2 DEF AuthGuard
    <2>6. /\ redirectURL' \in [Tabs -> Pages \cup {Unset, LogoutURL}]
          /\ tabLeft' \in [Tabs -> Pages \cup {Unset}]
          /\ authorizing' \subseteq Tabs
      BY <1>11 DEF AuthGuard, RememberURL
    <2> QED
      BY <1>11, <2>3, <2>4, <2>5, <2>6 DEF AuthGuard, cookies
  <1>12. ASSUME NEW t \in Tabs, NEW page \in Pages, Navigate(t, page)
         PROVE  LoginInv'
    BY <1>12 DEF Navigate, cookies, requests, Places
  <1>13. ASSUME NEW t \in Tabs, NEW c \in LoginCalls, Call(t, c)
         PROVE  LoginInv'
    BY <1>13 DEF Call, SetCall, cookies, requests, CallPhases
  <1>14. ASSUME NEW t \in Tabs, NEW c \in LoginCalls, CallReturns(t, c)
         PROVE  LoginInv'
    BY <1>14 DEF CallReturns, SetCall, cookies, requests, CallPhases
  <1>15. ASSUME NEW t \in Tabs, NEW c \in LoginCalls, Unauthorized(t, c)
         PROVE  LoginInv'
    BY <1>15 DEF Unauthorized, SetCall, Record401, RouterURL, ShowLogout, cookies, CallPhases, Places
  <1>16. ASSUME NEW t \in Tabs, NEW c \in LoginCalls, TokenExpired(t, c)
         PROVE  LoginInv'
    BY <1>16 DEF TokenExpired, SetCall, Record401, RouterURL, cookies, requests, CallPhases
  <1>17. ASSUME NEW t \in Tabs, NEW c \in LoginCalls, RefreshReturns(t, c)
         PROVE  LoginInv'
    <2>1. {idToken', refreshToken'} \subseteq {"none", "valid", "expired"}
      BY <1>17 DEF RefreshReturns, NewTokens
    <2> QED
      BY <1>17, <2>1 DEF RefreshReturns, SetCall, requests, CallPhases
  <1>18. ASSUME NEW t \in Tabs, NEW c \in LoginCalls, RetryReturns(t, c)
         PROVE  LoginInv'
    BY <1>18 DEF RetryReturns, SetCall, cookies, requests, CallPhases
  <1>19. ASSUME NEW t \in Tabs, NEW c \in LoginCalls, SessionExpired(t, c)
         PROVE  LoginInv'
    BY <1>19 DEF SessionExpired, SetCall, Record401, RouterURL, ShowLogout, cookies, CallPhases, Places
  <1>20. ASSUME NEW t \in Tabs, StateMismatch(t)
         PROVE  LoginInv'
    <2>1. loggedIn' \in BOOLEAN
      BY <1>20 DEF StateMismatch
    <2> QED
      BY <1>20, <2>1 DEF StateMismatch, cookies, requests, Places
  <1> QED
    BY <1>1, <1>2, <1>3, <1>4, <1>5, <1>6, <1>7, <1>8, <1>9, <1>10, <1>11, <1>12,
       <1>13, <1>14, <1>15, <1>16, <1>17, <1>18, <1>19, <1>20 DEF LoginNext

\* Every variable of Login keeps its type, and a login that returns has a page to land on.
THEOREM LoginTypes == LoginSpec => []LoginInv
  BY LoginInitial, LoginStep, PTL DEF LoginSpec

----------------------------------------------------------------------------
(* Logout *)

\* Nobody has logged out to begin with.
LEMMA SignedOutInitial == LoginInit => SignedOutInv
  BY DEF LoginInit, SignedOutInv

\* Only a refresh or a login brings a token back: the one is not under way, the other
\* ends the logout.  A refresh starts with a token.
LEMMA SignedOutStep ==
    ASSUME LoginInv, SignedOutInv, [LoginNext]_loginVars
    PROVE  SignedOutInv'
  <1> USE DEF LoginInv, LoginTypeOK, SignedOutInv
  <1>1. CASE UNCHANGED loginVars
    BY <1>1 DEF loginVars, cookies
  <1>2. CASE IdTokenExpires
    BY <1>2 DEF IdTokenExpires
  <1>3. CASE RefreshTokenExpires
    BY <1>3 DEF RefreshTokenExpires
  <1>4. ASSUME NEW t \in Tabs, LogOut(t)
        PROVE  SignedOutInv'
    BY <1>4 DEF LogOut, cookies
  <1>5. ASSUME NEW t \in Tabs, LogoutReturns(t)
        PROVE  SignedOutInv'
    <2>1. signedOut' => \A u \in Tabs, c \in LoginCalls : loginCalls[u][c] # "refreshing"
      BY <1>5, RefreshingCalls DEF LogoutReturns
    <2> QED
      BY <1>5, <2>1 DEF LogoutReturns, DeleteTokenCookies
  <1>6. ASSUME NEW t \in Tabs, LoginClicked(t)
        PROVE  SignedOutInv'
    BY <1>6 DEF LoginClicked, cookies
  <1>7. ASSUME NEW t \in Tabs, AuthorizationReturns(t)
        PROVE  SignedOutInv'
    BY <1>7 DEF AuthorizationReturns, DeleteTokenCookies, NoCalls
  <1>8. ASSUME NEW t \in Tabs, Authenticated(t)
        PROVE  SignedOutInv'
    BY <1>8 DEF Authenticated, cookies
  <1>9. ASSUME NEW t \in Tabs, LoginFails(t)
        PROVE  SignedOutInv'
    BY <1>9 DEF LoginFails, cookies
  <1>10. ASSUME NEW t \in Tabs, LoginReturns(t)
         PROVE  SignedOutInv'
    BY <1>10 DEF LoginReturns
  <1>11. ASSUME NEW t \in Tabs, NEW page \in Pages, AuthGuard(t, page)
         PROVE  SignedOutInv'
    BY <1>11 DEF AuthGuard, cookies, NoCalls
  <1>12. ASSUME NEW t \in Tabs, NEW page \in Pages, Navigate(t, page)
         PROVE  SignedOutInv'
    BY <1>12 DEF Navigate, cookies
  <1>13. ASSUME NEW t \in Tabs, NEW c \in LoginCalls, Call(t, c)
         PROVE  SignedOutInv'
    BY <1>13 DEF Call, SetCall, cookies
  <1>14. ASSUME NEW t \in Tabs, NEW c \in LoginCalls, CallReturns(t, c)
         PROVE  SignedOutInv'
    BY <1>14 DEF CallReturns, SetCall, cookies
  <1>15. ASSUME NEW t \in Tabs, NEW c \in LoginCalls, Unauthorized(t, c)
         PROVE  SignedOutInv'
    BY <1>15 DEF Unauthorized, SetCall, cookies
  <1>16. ASSUME NEW t \in Tabs, NEW c \in LoginCalls, TokenExpired(t, c)
         PROVE  SignedOutInv'
    BY <1>16 DEF TokenExpired, SetCall, cookies
  <1>17. ASSUME NEW t \in Tabs, NEW c \in LoginCalls, RefreshReturns(t, c)
         PROVE  SignedOutInv'
    BY <1>17 DEF RefreshReturns
  <1>18. ASSUME NEW t \in Tabs, NEW c \in LoginCalls, RetryReturns(t, c)
         PROVE  SignedOutInv'
    BY <1>18 DEF RetryReturns, SetCall, cookies
  <1>19. ASSUME NEW t \in Tabs, NEW c \in LoginCalls, SessionExpired(t, c)
         PROVE  SignedOutInv'
    BY <1>19 DEF SessionExpired, SetCall, cookies
  <1>20. ASSUME NEW t \in Tabs, StateMismatch(t)
         PROVE  SignedOutInv'
    BY <1>20 DEF StateMismatch, cookies
  <1> QED
    BY <1>1, <1>2, <1>3, <1>4, <1>5, <1>6, <1>7, <1>8, <1>9, <1>10, <1>11, <1>12,
       <1>13, <1>14, <1>15, <1>16, <1>17, <1>18, <1>19, <1>20 DEF LoginNext

\* After a logout there is no token left to act with until the next login, in no tab
\* of any number of tabs, unless a refresh was under way when the logout returned.
THEOREM LogoutIsFinal == LoginSpec => []LogoutSticks
  <1>1. LoginInit => LoginInv /\ SignedOutInv
    BY LoginInitial, SignedOutInitial
  <1>2. LoginInv /\ SignedOutInv /\ [LoginNext]_loginVars => (LoginInv /\ SignedOutInv)'
    BY LoginStep, SignedOutStep
  <1>3. SignedOutInv => LogoutSticks
    BY DEF SignedOutInv, LogoutSticks
  <1> QED
    BY <1>1, <1>2, <1>3, PTL DEF LoginSpec

----------------------------------------------------------------------------
(* The page a login ends on *)

\* A tab on its way to the login knows the page it left: it will store it as the
\* target of the login, or has done so.
LeftInv ==
    \A t \in Tabs :
        /\ t \in authorizing => tabAt[t] \in {"guard", "logout", "auth"}
        /\ t \notin tabAstray /\ tabAt[t] \in {"guard", "logout", "auth"} =>
              redirectURL[t] = tabLeft[t] /\ tabLeft[t] \in Pages
        /\ t \notin tabAstray /\ tabAt[t] \in {"idp", "callback"} =>
              target[t] = tabLeft[t] /\ tabLeft[t] \in Pages

\* What a tab asks for about tokens says where its login is.
LEMMA TokenRequestsTell ==
    ASSUME NEW t \in Tabs
    PROVE  /\ GetAuthorizationUrl \in TokenRequests(t) => t \in authorizing
           /\ GetIdentityToken \in TokenRequests(t) => tabAt[t] = "callback"
  <1>1. /\ GetIdentityToken # GetAuthorizationUrl /\ GetIdentityToken # Logout
        /\ GetIdentityToken # RefreshIdentityToken /\ GetAuthorizationUrl # Logout
        /\ GetAuthorizationUrl # RefreshIdentityToken
    BY DEF GetIdentityToken, GetAuthorizationUrl, Logout, RefreshIdentityToken, Request
  <1> QED
    BY <1>1 DEF TokenRequests

\* A step of a tab that leaves its way to the login as it is.
LEMMA LeftKept ==
    ASSUME LeftInv, UNCHANGED <<tabAt, target, authorizing, tabLeft>>,
           tabAstray \subseteq tabAstray',
           \A t \in Tabs : t \notin tabAstray' /\ tabAt[t] \notin Pages => redirectURL'[t] = redirectURL[t],
           Pages \cap {"guard", "logout", "auth"} = {}
    PROVE  LeftInv'
  BY DEF LeftInv

\* Whatever sends a tab to /logout from a page, it remembers the page.
LEMMA LogoutShown ==
    ASSUME LoginInv, LeftInv, NEW t \in Tabs, NEW reason, ShowLogout(t, reason),
           UNCHANGED target, tabAstray \subseteq tabAstray',
           \A u \in Tabs \ {t} : redirectURL'[u] = redirectURL[u] /\ (u \in tabAstray' => u \in tabAstray),
           t \notin tabAstray' => tabAt[t] \in Pages /\ redirectURL'[t] = tabAt[t]
    PROVE  LeftInv'
  <1> USE LoginAssumption DEF LoginInv, LoginTypeOK, ShowLogout
  <1>1. /\ tabAt' = [tabAt EXCEPT ![t] = "logout"] /\ authorizing' \subseteq authorizing \cup {t}
        /\ \A u \in Tabs \ {t} : tabAt'[u] = tabAt[u] /\ tabLeft'[u] = tabLeft[u]
        /\ tabAt[t] \in Pages => tabLeft'[t] = tabAt[t]
    OBVIOUS
  <1> QED
    BY <1>1 DEF LeftInv

\* No tab has left a page to begin with.
LEMMA LeftInitial == LoginInit => LeftInv
  BY DEF LoginInit, LeftInv

\* Every step keeps the page that a tab at the identity provider is to come back to.
LEMMA LeftStep ==
    ASSUME LoginInv, LeftInv, [LoginNext]_loginVars
    PROVE  LeftInv'
  <1> USE LoginAssumption DEF LoginInv, LoginTypeOK
  <1>1. CASE UNCHANGED loginVars
    BY <1>1 DEF loginVars, cookies, requests, LeftInv
  <1>2. CASE IdTokenExpires
    BY <1>2, LeftKept DEF IdTokenExpires, requests
  <1>3. CASE RefreshTokenExpires
    BY <1>3, LeftKept DEF RefreshTokenExpires, requests
  <1>4. ASSUME NEW t \in Tabs, LogOut(t)
        PROVE  LeftInv'
    BY <1>4, LogoutShown DEF LogOut
  <1>5. ASSUME NEW t \in Tabs, LogoutReturns(t)
        PROVE  LeftInv'
    BY <1>5, LeftKept DEF LogoutReturns
  <1>6. ASSUME NEW t \in Tabs, LoginClicked(t)
        PROVE  LeftInv'
    BY <1>6 DEF LoginClicked, LeftInv
  <1>7. ASSUME NEW t \in Tabs, AuthorizationReturns(t)
        PROVE  LeftInv'
    <2>1. t \in authorizing
      BY <1>7, TokenRequestsTell DEF AuthorizationReturns
    <2>2. t \notin tabAstray => redirectURL[t] = tabLeft[t] /\ tabLeft[t] \in Pages
      BY <2>1 DEF LeftInv
    <2>3. t \notin tabAstray => target'[t] = tabLeft[t] /\ tabLeft[t] \in Pages
      BY <1>7, <2>2 DEF AuthorizationReturns
    <2>4. \A u \in Tabs \ {t} : tabAt'[u] = tabAt[u] /\ target'[u] = target[u] /\ redirectURL'[u] = redirectURL[u]
      BY <1>7 DEF AuthorizationReturns
    <2>5. tabAt'[t] = "idp" /\ authorizing' = authorizing \ {t} /\ UNCHANGED <<tabLeft, tabAstray>>
      BY <1>7 DEF AuthorizationReturns
    <2> QED
      BY <2>3, <2>4, <2>5 DEF LeftInv
  <1>8. ASSUME NEW t \in Tabs, Authenticated(t)
        PROVE  LeftInv'
    BY <1>8 DEF Authenticated, requests, LeftInv
  <1>9. ASSUME NEW t \in Tabs, LoginFails(t)
        PROVE  LeftInv'
    BY <1>9 DEF LoginFails, requests, LeftInv
  <1>10. ASSUME NEW t \in Tabs, LoginReturns(t)
         PROVE  LeftInv'
    <2>1. tabAt[t] = "callback" /\ LandingPage(t) \in Pages
      BY <1>10, TokenRequestsTell DEF LoginReturns, LandingPage
    <2> QED
      BY <1>10, <2>1 DEF LoginReturns, requests, LeftInv
  <1>11. ASSUME NEW t \in Tabs, NEW page \in Pages, AuthGuard(t, page)
         PROVE  LeftInv'
    <2>1. /\ tabAt[t] \in Pages \cup {"closed"} /\ UNCHANGED target /\ tabAstray' = tabAstray \ {t}
          /\ \A u \in Tabs \ {t} :
                /\ tabAt'[u] = tabAt[u] /\ redirectURL'[u] = redirectURL[u] /\ tabLeft'[u] = tabLeft[u]
                /\ u \in authorizing' => u \in authorizing
      BY <1>11 DEF AuthGuard, RememberURL
    <2>2. \/ tabAt'[t] = page /\ authorizing' = authorizing
          \/ tabAt'[t] = "guard" /\ redirectURL'[t] = page /\ tabLeft'[t] = page
      BY <1>11 DEF AuthGuard, RememberURL
    <2> QED
      BY <2>1, <2>2 DEF LeftInv
  <1>12. ASSUME NEW t \in Tabs, NEW page \in Pages, Navigate(t, page)
         PROVE  LeftInv'
    BY <1>12 DEF Navigate, requests, LeftInv
  <1>13. ASSUME NEW t \in Tabs, NEW c \in LoginCalls,
                Call(t, c) \/ CallReturns(t, c) \/ RefreshReturns(t, c) \/ RetryReturns(t, c)
         PROVE  LeftInv'
    BY <1>13, LeftKept DEF Call, CallReturns, RefreshReturns, RetryReturns, requests
  <1>14. ASSUME NEW t \in Tabs, NEW c \in LoginCalls, Unauthorized(t, c)
         PROVE  LeftInv'
    BY <1>14, LogoutShown DEF Unauthorized, Record401, RouterURL
  <1>15. ASSUME NEW t \in Tabs, NEW c \in LoginCalls, TokenExpired(t, c)
         PROVE  LeftInv'
    BY <1>15, LeftKept DEF TokenExpired, Record401, requests
  <1>16. ASSUME NEW t \in Tabs, NEW c \in LoginCalls, SessionExpired(t, c)
         PROVE  LeftInv'
    <2>1. /\ ShowLogout(t, "session-expired") /\ UNCHANGED target
          /\ tabAstray' = IF redirectURL'[t] = tabAt[t] THEN tabAstray ELSE tabAstray \cup {t}
          /\ \A u \in Tabs \ {t} : redirectURL'[u] = redirectURL[u]
          /\ redirectURL' \in [Tabs -> Pages \cup {Unset, LogoutURL}]
      BY <1>16 DEF SessionExpired, Record401, RouterURL
    <2>2. redirectURL'[t] = tabAt[t] => tabAt[t] \in Pages
      <3>1. tabAt[t] \in Places /\ redirectURL'[t] \in Pages \cup {Unset, LogoutURL}
        BY <2>1
      <3> QED
        BY <3>1 DEF Places, Unset, LogoutURL
    <2> QED
      BY <2>1, <2>2, LogoutShown
  <1>17. ASSUME NEW t \in Tabs, StateMismatch(t)
         PROVE  LeftInv'
    BY <1>17 DEF StateMismatch, requests, LeftInv
  <1> QED
    BY <1>1, <1>2, <1>3, <1>4, <1>5, <1>6, <1>7, <1>8, <1>9, <1>10, <1>11, <1>12,
       <1>13, <1>14, <1>15, <1>16, <1>17 DEF LoginNext

\* In any number of tabs, with any requests: a login ends on the page it was started
\* from, except in a tab that went astray.
THEOREM LoginsLandWhereTheyLeft == LoginSpec => LandsWhereItLeft
  <1>1. ASSUME LoginInv, LeftInv, LoginNext, NEW t \in Tabs, tabAt[t] = "callback", tabAt'[t] \in Pages
        PROVE  tabAt'[t] = tabLeft[t] \/ t \in tabAstray
    <2> USE LoginAssumption DEF LoginInv, LoginTypeOK
    <2>1. tabAt'[t] # tabAt[t] /\ tabAt'[t] \notin {"guard", "logout", "auth", "idp", "callback"}
      BY <1>1
    <2>2. tabAt[t] \notin Pages \cup {"closed"}
      BY <1>1
    <2>3. LoginReturns(t)
      <3>1. ~(IdTokenExpires \/ RefreshTokenExpires)
        BY <2>1 DEF IdTokenExpires, RefreshTokenExpires
      <3>2. \A u \in Tabs : ~(LogOut(u) \/ LogoutReturns(u) \/ LoginClicked(u))
        BY <1>1, <2>1 DEF LogOut, ShowLogout, LogoutReturns, LoginClicked
      <3>3. \A u \in Tabs : ~(AuthorizationReturns(u) \/ Authenticated(u) \/ LoginFails(u) \/ StateMismatch(u))
        BY <1>1, <2>1 DEF AuthorizationReturns, Authenticated, LoginFails, StateMismatch
      <3>4. \A u \in Tabs, page \in Pages : ~(AuthGuard(u, page) \/ Navigate(u, page))
        BY <1>1, <2>1, <2>2 DEF AuthGuard, Navigate
      <3>5. \A u \in Tabs, c \in LoginCalls :
               ~(Call(u, c) \/ CallReturns(u, c) \/ TokenExpired(u, c) \/ RefreshReturns(u, c) \/ RetryReturns(u, c))
        BY <2>1 DEF Call, CallReturns, TokenExpired, RefreshReturns, RetryReturns
      <3>6. \A u \in Tabs, c \in LoginCalls : ~(Unauthorized(u, c) \/ SessionExpired(u, c))
        BY <1>1, <2>1 DEF Unauthorized, SessionExpired, ShowLogout
      <3>7. \A u \in Tabs : LoginReturns(u) => u = t
        BY <1>1, <2>1 DEF LoginReturns
      <3> QED
        BY <1>1, <3>1, <3>2, <3>3, <3>4, <3>5, <3>6, <3>7 DEF LoginNext
    <2>4. tabAt'[t] = LandingPage(t)
      BY <1>1, <2>3 DEF LoginReturns
    <2> QED
      BY <1>1, <2>4 DEF LeftInv, LandingPage
  <1>2. LoginInit => LoginInv /\ LeftInv
    BY LoginInitial, LeftInitial
  <1>3. LoginInv /\ LeftInv /\ [LoginNext]_loginVars => (LoginInv /\ LeftInv)'
    BY LoginStep, LeftStep
  <1>4. LoginInv /\ LeftInv /\ [LoginNext]_loginVars
            => [\A t \in Tabs :
                  tabAt[t] = "callback" /\ tabAt'[t] \in Pages =>
                      tabAt'[t] = tabLeft[t] \/ t \in tabAstray]_loginVars
    BY <1>1
  <1> QED
    BY <1>2, <1>3, <1>4, PTL DEF LoginSpec, LandsWhereItLeft

=============================================================================
