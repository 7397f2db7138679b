----------------------------- MODULE Repositories -----------------------------
(***************************************************************************)
(* The TeamForCapella repositories of an instance, on the page of the      *)
(* instance: T4CRepositoryWrapperService, T4CInstanceSettingsComponent     *)
(* and the dialog that deletes a repository.                               *)
(*                                                                         *)
(* The list is read again after every change.  A repository that is        *)
(* started, stopped or recreated shows LOADING until then.  Requests are   *)
(* served and answered in any order; one that took effect may still fail.  *)
(*                                                                         *)
(* The backend keeps a row of each repository in its database, the server  *)
(* of the instance keeps the repository.  A change goes to the row first,  *)
(* to the server after it; a list reads both and inserts the rows that     *)
(* only the server has.  A row is known by the name of its repository:     *)
(* that the id of a row inserted again is a new one is left out.           *)
(***************************************************************************)
EXTENDS Integers, Sequences, SequencesExt, Api

CONSTANTS
    Instances,        \* the TeamForCapella instances
    RepositoriesOf,   \* the repositories each may have
    MaxRepoCalls      \* bound on the requests under way

Repositories == UNION {RepositoriesOf[instance] : instance \in Instances}

ASSUME RepositoriesAssumption ==
    /\ MaxRepoCalls \in Nat
    /\ \A one, other \in Instances :
          one # other => RepositoriesOf[one] \cap RepositoriesOf[other] = {}

VARIABLES
    reposInstance,  \* the instance of the page that is open, or NoInstance
    reposHeld,      \* the service's list: the status of each repository listed
    reposRows,      \* the repositories the database has a row of
    reposOnServer,  \* the repositories their servers have
    reposCalls,     \* the requests under way
    reposOutrun,    \* the list held came after a newer one, or from another page
    reposFailed,    \* since the last time the list was asked for, a request failed
    reposResynced   \* an older list inserted a row after the newest one had read the rows

pageOfRepos == <<reposInstance, reposHeld, reposOutrun, reposFailed>>
backendOfRepos == <<reposRows, reposOnServer, reposResynced>>
reposVars == <<pageOfRepos, backendOfRepos, reposCalls>>

NoInstance == "no instance"
NoRepositories == [repository \in {} |-> "LOADING"]
ServerStatuses == {"ONLINE", "OFFLINE", "INITIAL"}
Statuses == ServerStatuses \cup {"NOT_FOUND", "INSTANCE_UNREACHABLE"}

\* The requests that put a repository into LOADING, and the status that offers each.
Operations(instance, repository) ==
    [OFFLINE |-> StartT4cRepository(instance, repository),
     ONLINE |-> StopT4cRepository(instance, repository),
     NOT_FOUND |-> RecreateT4cRepository(instance, repository)]

\* step: how far the backend is; rows and server: what a list has read of each.
RepoCall(request, instance, repository, newest) ==
    [request |-> request, instance |-> instance, repository |-> repository,
     step |-> "sent", rows |-> {}, server |-> {},
     answer |-> NoRepositories, newest |-> newest, page |-> TRUE]

IsList(call) == call.request = ListT4cRepositories(call.instance)
IsOperation(call) == call.request.about \in {"start", "stop", "recreate"}
IsCreation(call) == call.request.verb = "POST" /\ call.request.about = "repository"
IsDeletion(call) == call.request.verb = "DELETE"

\* repositoryCreationInProgress, of the page that is open.
CreationInProgress == \E i \in DOMAIN reposCalls : IsCreation(reposCalls[i]) /\ reposCalls[i].page

ReposInit ==
    /\ reposInstance = NoInstance
    /\ reposHeld = NoRepositories
    /\ reposRows \in SUBSET Repositories /\ reposOnServer \in SUBSET Repositories
    /\ reposCalls = <<>>
    /\ reposOutrun = FALSE /\ reposFailed = FALSE /\ reposResynced = FALSE

----------------------------------------------------------------------------
(* The page *)

\* loadRepositories, so many times in a row: the last read sent is the newest.
LoadRepositories(instance, calls, times) ==
    LET list == ListT4cRepositories(instance) IN
    /\ Len(calls) + times <= MaxRepoCalls
    /\ reposCalls' = [i \in DOMAIN calls |-> [calls[i] EXCEPT !.newest = FALSE]]
                        \o [k \in 1 .. times |-> RepoCall(list, instance, instance, k = times)]
    /\ reposFailed' = FALSE /\ reposResynced' = FALSE
    /\ UNCHANGED <<reposRows, reposOnServer>>

\* The page opens, or its instance has changed.
ChooseInstance(instance) ==
    /\ reposInstance' = instance
    /\ LoadRepositories(instance, reposCalls, 1)
    /\ UNCHANGED <<reposHeld, reposOutrun>>

LeaveInstance ==
    /\ reposInstance # NoInstance
    /\ reposInstance' = NoInstance
    /\ reposHeld' = NoRepositories
    /\ reposCalls' = [i \in DOMAIN reposCalls |-> [reposCalls[i] EXCEPT !.page = FALSE]]
    /\ UNCHANGED <<backendOfRepos, reposOutrun, reposFailed>>

RefreshRepositories ==
    /\ reposInstance # NoInstance
    /\ reposHeld' = [repository \in DOMAIN reposHeld |-> "LOADING"]
    /\ LoadRepositories(reposInstance, reposCalls, 1)
    /\ UNCHANGED <<reposInstance, reposOutrun>>

SendRepoCall(request, instance, repository) ==
    /\ Len(reposCalls) < MaxRepoCalls
    /\ reposCalls' = Append(reposCalls, RepoCall(request, instance, repository, FALSE))
    /\ UNCHANGED <<backendOfRepos, reposInstance, reposOutrun, reposFailed>>

\* A repository knows its instance, which need not be the one of the page.
InstanceOf(repository) == CHOOSE instance \in Instances : repository \in RepositoriesOf[instance]

CreateRepository(repository) ==
    /\ reposInstance # NoInstance /\ repository \in RepositoriesOf[reposInstance] \ DOMAIN reposHeld
    /\ ~CreationInProgress
    /\ SendRepoCall(CreateT4cRepository(reposInstance, repository), reposInstance, repository)
    /\ UNCHANGED reposHeld

\* startRepository, stopRepository and recreateRepository.
OperateRepository(repository) ==
    LET instance == InstanceOf(repository) IN
    /\ reposInstance # NoInstance /\ reposHeld[repository] \in DOMAIN Operations(instance, repository)
    /\ reposHeld' = [reposHeld EXCEPT ![repository] = "LOADING"]
    /\ SendRepoCall(Operations(instance, repository)[reposHeld[repository]], instance, repository)

RemoveRepository(repository) ==
    LET instance == InstanceOf(repository) IN
    /\ reposInstance # NoInstance
    /\ SendRepoCall(DeleteT4cRepository(instance, repository), instance, repository)
    /\ UNCHANGED reposHeld

----------------------------------------------------------------------------
(* The backend *)

Advance(i, call) == reposCalls' = [reposCalls EXCEPT ![i] = call]

\* A change first goes to the row: a creation inserts it, a deletion removes it, and
\* start, stop and recreate look it up.
ChangeRow(i) ==
    LET call == reposCalls[i] IN
    /\ ~IsList(call) /\ call.step = "sent"
    /\ IsCreation(call) <=> call.repository \notin reposRows
    /\ reposRows' = CASE IsCreation(call) -> reposRows \cup {call.repository}
                      [] IsDeletion(call) -> reposRows \ {call.repository}
                      [] OTHER -> reposRows
    /\ Advance(i, [call EXCEPT !.step = "row"])
    /\ UNCHANGED <<pageOfRepos, reposOnServer, reposResynced>>

\* Then the server is called.  A creation is answered even if that fails.
CallServer(i) ==
    LET call == reposCalls[i]
        creates == IsCreation(call) \/ call.request.about = "recreate"
    IN  /\ call.step = "row"
        /\ creates \/ call.repository \in reposOnServer
        /\ \/ reposOnServer' = CASE creates -> reposOnServer \cup {call.repository}
                                  [] IsDeletion(call) -> reposOnServer \ {call.repository}
                                  [] OTHER -> reposOnServer
           \/ IsCreation(call) /\ UNCHANGED reposOnServer
        /\ Advance(i, [call EXCEPT !.step = "served"])
        /\ UNCHANGED <<pageOfRepos, reposRows, reposResynced>>

ReadRows(i) ==
    LET call == reposCalls[i] IN
    /\ IsList(call) /\ call.step = "sent"
    /\ Advance(i, [call EXCEPT !.step = "rows", !.rows = reposRows \cap RepositoriesOf[call.instance]])
    /\ UNCHANGED <<pageOfRepos, backendOfRepos>>

\* The server is not reachable: the list is that of the database.
ServerUnreachable(i) ==
    LET call == reposCalls[i] IN
    /\ call.step = "rows"
    /\ Advance(i, [call EXCEPT !.step = "served",
                               !.answer = [repository \in call.rows |-> "INSTANCE_UNREACHABLE"]])
    /\ UNCHANGED <<pageOfRepos, backendOfRepos>>

ReadServer(i) ==
    LET call == reposCalls[i] IN
    /\ call.step = "rows"
    /\ Advance(i, [call EXCEPT !.step = "server", !.server = reposOnServer \cap RepositoriesOf[call.instance]])
    /\ UNCHANGED <<pageOfRepos, backendOfRepos>>

NewestUnread == \E j \in DOMAIN reposCalls : reposCalls[j].newest /\ reposCalls[j].step = "sent"

\* What the server says of each repository of the list: any status, which changes on its own.
StatusesOf(call) ==
    {answer \in [call.rows \cup call.server -> ServerStatuses \cup {"NOT_FOUND"}] :
        \A repository \in DOMAIN answer : answer[repository] = "NOT_FOUND" <=> repository \notin call.server}

\* sync_db_with_server_repositories: rows are inserted, one by one, of what only the server
\* has.  A row that another request has inserted since ends it with an error.
SyncRows(i) ==
    LET call == reposCalls[i]
        missing == call.server \ call.rows
    IN  /\ call.step = "server"
        /\ \E inserted \in SUBSET (missing \ reposRows) :
              /\ reposRows' = reposRows \cup inserted
              /\ reposResynced' = (reposResynced \/ (inserted # {} /\ ~call.newest /\ ~NewestUnread))
              /\ IF inserted = missing
                 THEN \E answer \in StatusesOf(call) :
                         Advance(i, [call EXCEPT !.step = "served", !.answer = answer])
                 ELSE Advance(i, [call EXCEPT !.step = "error"])
        /\ UNCHANGED <<pageOfRepos, reposOnServer>>

----------------------------------------------------------------------------
(* The answers *)

ReposListed(i) ==
    LET call == reposCalls[i] IN
    /\ IsList(call) /\ call.step = "served"
    /\ reposHeld' = call.answer
    /\ reposOutrun' = (~call.newest \/ call.instance # reposInstance)
    /\ reposCalls' = RemoveAt(reposCalls, i)
    /\ UNCHANGED <<backendOfRepos, reposInstance, reposFailed>>

\* An error instead of a list: the list is undefined.
ListFailed(i) ==
    /\ IsList(reposCalls[i])
    /\ reposHeld' = NoRepositories
    /\ reposFailed' = TRUE
    /\ reposCalls' = RemoveAt(reposCalls, i)
    /\ UNCHANGED <<backendOfRepos, reposInstance, reposOutrun>>

\* Mutant: only what the user sees change is read again.
LoadsAfterCreation(call, succeeded) == IF succeeded /\ ~IsOperation(call) THEN 1 ELSE 0

\* The dialog reads the list again whether the repository was deleted or not, the
\* service whenever a change succeeded.
LoadsAfter(call, succeeded) ==
    (IF succeeded THEN 1 ELSE 0) + (IF IsDeletion(call) THEN 1 ELSE 0)

ChangeEnds(i, succeeded) ==
    LET call == reposCalls[i]
        rest == RemoveAt(reposCalls, i)
        loads == LoadsAfter(call, succeeded)
    IN  /\ ~IsList(call)
        /\ IF loads > 0
           THEN LoadRepositories(call.instance, rest, loads)
           ELSE /\ reposCalls' = rest
                /\ reposFailed' = (reposFailed \/ ~succeeded)
                /\ UNCHANGED backendOfRepos
        /\ UNCHANGED <<reposInstance, reposHeld, reposOutrun>>

ReposNext ==
    \/ \E instance \in Instances : ChooseInstance(instance)
    \/ LeaveInstance
    \/ RefreshRepositories
    \/ \E repository \in Repositories : CreateRepository(repository)
    \/ \E repository \in DOMAIN reposHeld : OperateRepository(repository) \/ RemoveRepository(repository)
    \/ \E i \in DOMAIN reposCalls :
          \/ ChangeRow(i) \/ CallServer(i)
          \/ ReadRows(i) \/ ServerUnreachable(i) \/ ReadServer(i) \/ SyncRows(i)
          \/ ReposListed(i) \/ ListFailed(i)
          \/ reposCalls[i].step = "served" /\ ChangeEnds(i, TRUE)
          \/ ChangeEnds(i, FALSE)

ReposSpec == ReposInit /\ [][ReposNext]_reposVars

----------------------------------------------------------------------------
(* Properties *)

ReposTypeOK ==
    /\ reposInstance \in Instances \cup {NoInstance}
    /\ DOMAIN reposHeld \subseteq Repositories
    /\ \A repository \in DOMAIN reposHeld : reposHeld[repository] \in Statuses \cup {"LOADING"}
    /\ reposRows \subseteq Repositories /\ reposOnServer \subseteq Repositories
    /\ {reposOutrun, reposFailed, reposResynced} \subseteq BOOLEAN
    /\ Len(reposCalls) <= MaxRepoCalls

\* When every request has been answered, no repository of the page keeps LOADING and each
\* has a row, whatever deletions failed halfway; and each row of the instance is listed,
\* unless an older list inserted rows after the newest had read them.  Except if an older
\* list or one of another instance came last, or a request failed.
QuietRepositoriesSettle ==
    reposCalls = <<>> /\ reposInstance # NoInstance /\ ~reposOutrun /\ ~reposFailed =>
        /\ DOMAIN reposHeld \subseteq reposRows \cap RepositoriesOf[reposInstance]
        /\ \A repository \in DOMAIN reposHeld : reposHeld[repository] # "LOADING"
        /\ ~reposResynced => reposRows \cap RepositoriesOf[reposInstance] \subseteq DOMAIN reposHeld

=============================================================================
