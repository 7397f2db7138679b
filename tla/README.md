# Verification of the Capella Collaboration Manager

TLA+ models of the backend (`backend/capellacollab`) and of the frontend
(`frontend/src/app`), checked with TLC and proved with TLAPS. Backend paths below
are relative to `backend/capellacollab`, frontend paths to `frontend/src/app`, unless
they start with `docs` or `helm`.

## 1. Inventory

The backend is a FastAPI application over one PostgreSQL database. It drives a
Kubernetes cluster, TeamForCapella (T4C) servers, Guacamole, Git servers, a
Valkey cache and Prometheus. Asynchronous routes run on the event loop of a
process; synchronous routes and the two background jobs run in worker threads.
There is one process per pod and one pod by default
(`helm/values.yaml`, `replicaCount.backend`); a rolling update runs two side by
side. Nothing is transactional across the systems: each operation is a sequence
of commits and remote calls, any of which can fail or be the last one before
the process ends.

The frontend is an Angular application. Its services hold what the backend answered
in subjects that outlive the pages; pages subscribe to them, ask again on timers and
after changes, and cancel some of their requests when they are left. Nothing orders
the answers. Tabs of one browser share cookies and `localStorage`.

| Component | State | Operations | Interacts with | What is hard | What makes it correct |
|---|---|---|---|---|---|
| Session lifecycle `sessions/routes.py`, `util.py`, `crud.py` | rows of `sessions` and their `config` | request, terminate, share, connect | hooks, operator, idle job | a request creates a dozen objects, terminations start at any time, every step may fail | listed sessions have a workload; terminated ones leave nothing; one session per combination |
| Hooks `sessions/hooks` | API tokens, Guacamole users and connections, network policies, log collectors, T4C accounts, provisioning records | configuration, post-creation, connection, pre-termination | lifecycle, external servers | no compensation; the config that names the objects is stored last | created with the session, removed with it |
| Idle job `sessions/idletimeout.py` | none | a tick per minute over the firing alerts | Prometheus, lifecycle | one exception ends a tick | every idle session ends |
| Operator `sessions/operators/k8s.py` | cluster objects | create and delete pods, budgets, services, jobs, cron jobs, volumes | lifecycle, pipelines | partial creation and deletion | idempotent deletion |
| Backup pipelines `projects/toolmodels/backups` | rows of `backups`, T4C technical users, cron jobs | create, delete | T4C, operator, runs | four steps in three systems | a deleted pipeline leaves nothing behind |
| Run scheduler `.../backups/runs` | rows of `pipeline_run`, jobs | trigger, schedule, poll, finish | pipelines, operator | reads, remote calls and commits interleaved with deletions; crash between job and commit | one job per run, final status kept and true, every run ends |
| Authentication `core/authentication` | cookies | login, refresh, logout | interceptor of the frontend | answers that set cookies arrive late | signed out is signed out |
| Provisioning `projects/toolmodels/provisioning`, `users/workspaces` | records of model, user and commit; volumes | provision, reset, delete a workspace | sessions | record committed before the session exists; check-then-act | a record tells what the workspace contains |
| Permissions, members, projects, tools, users | rows | CRUD | every route | check-then-act, dependencies | no dangling reference, one membership per project |
| Git handlers and cache `projects/toolmodels/modelsources/git` | Valkey entries | read file, read artifact, clear | Git servers | date and content are fetched separately | what is served is not older than its date |
| Session viewer `sessions/session` | list of sessions, polls, frames, tiles | open, poll, connect, focus, resize, drag, leave | session routes, Guacamole, `localStorage` | `switchMap` drops late answers, requests survive the page | frames show the sessions asked for |
| Session list `sessions/user-sessions-wrapper`, `sessions/service` | list, polls, termination dialog | poll, request, terminate several | session routes | subscriptions that never end, half-failed batches | terminated sessions leave, the poll goes on |
| Login `general/auth`, `services/auth` | cookies, `CCM_LOGGED_IN`, `redirectURL`, targets of logins | guard, intercept, refresh, log in, log out | authentication routes | several 401s at once, several tabs | one lands where one left; logout sticks |
| Project pages `projects/project-wrapper`, `model-wrapper`, services | project, models, model, role, members | navigate, load, change, delete | project routes | late answers about the page before | the page holds what its address names |
| Run page, paged lists `projects/models/backup-settings`, `projects/project-detail` | run, logs, events, pages of lists | poll, scroll, leave | pipeline routes | polls and logs read out of order, lists emptied under requests | final status and final logs |
| Stores (settings, tools, users, sources, ...) | the last answer | open, change, read again, leave | their routes | reads after changes that overtake each other | what is quiet is fresh |
| Repositories, versions and natures, diagrams | lists, statuses, cache | start, stop, create, patch, clear | their routes | LOADING that nothing ends; rows and server that differ; patched lists; mixed exports | as the backend has it |
| Request dialogs | items, button | submit one or several, retry, leave | session, sharing, pipeline, feedback routes | partial success | success is real, buttons come back |
| File browser `.../file-browser-dialog` | tree, staged files | load, stage, take back, delete, upload | file routes | two records of the same staging | staged files are marked |
| API client `openapi/api` | none | one method per route | all of the above | | |

`PROJECT.json` lists every component, also those that are not modelled, with its status.

## 2. Modules

| Module | Role |
|---|---|
| `SessionContract` | what the component promises about one session id |
| `Sessions` | POST and DELETE `/sessions`, the hooks, the idle job, crashes |
| `MCSessions` | instances for TLC |
| `SessionsProofs` | types, the inductive invariant, what terminations release, that `Sessions` implements `SessionContract`, and what the violated properties come down to |
| `RunContract` | what a pipeline promises about one run |
| `Pipelines` | pipelines, their runs and the scheduler |
| `MCPipelines` | instances for TLC |
| `PipelinesProofs` | types and deleted pipelines; with one scheduler the inductive invariant, `RunContract` and the jobs in the cluster; with any number of them whose a job is and how many a run gets |
| `Api` | the requests of the generated client |
| `Arrays` | `Array.prototype.filter`, as the frontend uses it |
| `Viewer`, `Tiling` | the session viewer and its window manager |
| `Login` | guard, interceptor, refresh, login and logout in several tabs, with the cookies of the backend |
| `ProjectPages` | project, models, model, role and members |
| `PagedLists` | pages of the runs of a pipeline and of the events of a project |
| `RunPage` | the page of a run |
| `SessionList` | the polled list of sessions and the dialog that terminates them |
| `Stores` | 43 services and components that hold one answer |
| `Repositories`, `ToolElements`, `Diagrams` | the stores that do more than hold an answer |
| `RequestDialogs` | eight forms that send requests and wait |
| `FileBrowser` | tree, marks and staged files |
| `Frontend` | the parts above, except for the file browser, in one specification: a sum, as they share no state |
| `MCFrontend`, `MCPolls`, `MCFileBrowser` | instances for TLC |
| `SequenceLemmas` | what removing, appending, joining, replacing and filtering do to a sequence of requests |
| `ViewerProofs` | safety of `Viewer` and `Tiling` |
| `PagesProofs` | safety of `Login`, `ProjectPages` and `RunPage` |
| `DialogsProofs` | safety of `RequestDialogs`, `Diagrams` and `Stores` |
| `ListsProofs` | safety of `SessionList`, `PagedLists`, `Repositories` and `ToolElements` |
| `FrontendProofs` | that `Frontend` implements each of its parts, and its type invariant |

Operators whose comment starts with *Faulty variant* or *Mutant* are wrong on purpose.
They are used by no specification; putting one in the place of the operator that
follows must violate a property, which shows that the property can see the code.

### Sessions

One action is one call that leaves a trace outside of the process.
`phase[s]` is the last such call of the request for session `s`;
`thread[t]` is the step, the session and what a terminating thread holds of it.

* `request_session` is asynchronous: it holds the event loop (`loop[b]`) except
  while it awaits `asyncio.gather` in `schedule_configuration_hooks`
  (`AwaitHooks`, `ResumeRequest`). All requests of a process share the loop, so
  two requests interleave only there. The order of the actions is the order of
  `hooks/__init__.py` and of `start_session`.
* `terminate_session` and the idle job run in worker threads, next to the loop,
  but the loop must be free to hand them over (`TerminateSession`, `IdleTick`).
  Hence, in one process, a termination cannot *start* between the commit of a
  row and the commit of its config; in two processes it can. `early` records
  the sessions for which it did.
* `live[k]` is the set of sessions whose object of kind `k` exists. All names are
  derived from the session id, so an object belongs to one session.
* SQLAlchemy expires objects on commit. Deleting the session token commits,
  hence the next hook reads the session again (`expired`, `Readable`) and raises
  if another thread deleted the row (`SessionVanished`). Deleting a missing row
  only warns (`DeleteRow`), updating one raises (`RowVanished`).
* T4C accounts belong to the user and not to the session: `credential[u]` is the
  session whose password the server has. Status 400 on creation and 404 on
  removal are ignored by the client, as in the model.
* A session alerts when its pod and its service exist, because Prometheus
  scrapes the pod through the service, and only after its request ended: the
  rule needs a minute of idleness.
* `RequestFails` and `TerminationFails` let any call raise. The model does not
  distinguish whether the failing call took effect on the cluster.

Abstractions: environment variables, volumes, images and labels have no
influence on control and are left out; a hook that only computes or validates
is one of the reasons for `RejectRequest`. The asynchronous provisioning hook is
the await itself. Tools are combinations (tool, version, type) with the set of
integrations they activate.

### Pipelines

`progress[p]` is how far the requests for pipeline `p` have come, `status[r]`
and `reference[r]` are columns of the run, `job[j]` and `present` are the
cluster's view, `worker[w]` is what a scheduler is doing. A tick collects the
pending runs, then the active ones; each visit reads the row again
(expire on commit), calls Kubernetes and commits. Deleting a pipeline cascades to
its runs at any moment, which the scheduler meets as an exception that ends the
tick (`VisitDeleted`, `StoreDeleted`). A job succeeds, fails or exceeds its
deadline on its own; the pipeline timeout is a separate clock (`late`).

Abstractions: whether a model has a version with a backup image is constant
(`Versioned`); DELETE requests for one pipeline do not overlap; log and event
collection only matters for whether the row is written (`StoreDeleted`). Runs
started by the cron job have no row and are not modelled.

### The frontend in general

A request is a record of `Api` (verb, what it is about, key). Its life has up to three
steps: it is sent, the backend *serves* it (which is when a read sees the data and a
change takes effect), and its answer or its failure *returns*. Between two of them
anything else may happen, so that answers overtake each other, and a request that took
effect may still be reported as failed. What RxJS makes of it is the control that the
modules keep: `switchMap` drops the request before, `untilDestroyed` drops what a page
asked for, a plain `subscribe` in a service drops nothing, `catchError` in the inner
stream keeps the outer one, without it an error ends the stream for good. Names, forms,
texts and other contents of the answers are model values or version numbers.

* `Viewer`: `viewPolls[i]` is the `i`-th call of `pushSession`, with the timer of three
  seconds whose `switchMap` takes back a slow answer (`Tick`), and
  `ConnectToSession`, which no page cancels. `viewList` is `_sessions`, patched by
  `updateOrInsertSession` key by key. `viewAuth` is `GUAC_AUTH`: a guacamole frame reads
  it when it loads, not when it was connected.
* `Tiling`: widths in pixels, the integer division of `window.innerWidth` and the
  minimum of 15 percent. A drag keeps the two tile objects it started with, which are
  those on display until the list is published the next time.
* `Login`: each of several tabs with the requests of its components. A 401 is answered
  by a refresh, a second 401 by the logout page; the cookies a request was sent with
  decide its answer, and the cookies of the answer are set when it returns; whether there
  is a new refresh token among them is up to the identity provider (`NewTokens`).
* `ProjectPages`: `route` is what the address names; each service's subject says which
  project or model its value is of. Only the request for the role is dropped when
  another project arrives.
* `PagedLists`: `pages` is the array the service assigns by index, with holes.
* `RunPage`: the timer of the wrapper, and for each panel the request that each answer
  sets off anew. When the address of an open page changes to another run (`ChangeRun`, a
  step in the history), the run held stays: the wrapper's reset (lines 31-42) combines
  the pipeline with addresses that have no run, and on this route every address has one.
* `SessionList`: the poll of `expand` and `delay`, the subscriptions to `user$` that
  every `loadSessions` leaves behind, and the dialog whose `forkJoin` fails as a whole.
* `Stores`: one record per service says which requests read it, change it and how it
  behaves (`clears`, `forgets`, `switches`, `empties`, `local`, `closes`, `stream`); an
  initial state picks the store that moves. `map` names the class of each record.
* `Repositories`: the page of an instance and the routes behind it. A change goes to the
  row first (`ChangeRow`) and to the TeamForCapella server after it (`CallServer`); a list
  reads both, one after the other (`ReadRows`, `ReadServer`), and inserts rows for what
  only the server has (`SyncRows`). So a deletion that failed on the server comes back
  with some later list, not necessarily the newest one (`reposResynced`). The server's
  statuses are any that fit what it has. A row is known by the name of its repository:
  that a row inserted again has a new id is left out.
* `Diagrams`: the dialog, and the backend's way to a file. Without the id of a job
  `get_file_or_artifact` reads the branch of the diagram cache first and answers without
  one; the list then names no job, and each diagram comes from the head of the branch at
  the time it scrolls into view. Date and content of a file are read in two steps
  (`ReadDate`, `ReadFile`), and the content is cached under the date. `OthersRead` stands
  for other dialogs, and for `downloadDiagram`, which names no job either. Every commit
  is taken to change every file and to have a date of its own. The artifact of a job
  never changes, so its cache is left out.
* `RequestDialogs`: eight forms. `SubmitWithoutProject` is `provisionWorkspace` while the
  page has no project: the button is disabled and nothing is sent.
* `ToolElements`: versions and natures of one tool. That the page changes in place from
  one tool to another, which leaves requests of the first one under way, is left out.
* `FileBrowser` keeps the index arithmetic of `removeFileFromSelection`, with
  `splice(-1, 1)` when nothing was found.

## 3. Runs

| Run | What it shows |
|---|---|
| `sessions_one_backend` | types; `RowBacked`, `CleanTermination`, `EarlyOnlyAcrossBackends`, `ReleasedUnlessInterrupted` with every integration and one failing call |
| `sessions_two_backends` | the inductive invariant `SessionsInv` and the refinement `ImplementsContract` during a rolling update with a crash |
| `sessions_idle_job` | liveness: idle sessions end, also after a failing call |
| `sessions_idle_job_blocked` | violated: a session whose connection method was removed blocks the job |
| `sessions_conflict` | violated: two requests pass the conflict check |
| `sessions_token` | violated: a rejected request leaves its token |
| `sessions_t4c` | violated: sibling sessions share one T4C account |
| `pipelines_one_backend` | `FaithfulResult`, `JobsWatched`, `DeletedPipelineClean`, the refinement `ImplementsRunContract` and liveness (`RunEnds`) for three pipelines and two runs, with one scheduler and a failing call (1 million states) |
| `pipelines_two_backends` | `OneJobPerScheduler` and `OwnOutcome` for a run that two schedulers work on, one of which may crash (3.6 million states; jobs are interchangeable) |
| `frontend` | types and twenty properties of the twelve parts of the frontend (next section) |
| `frontend_polls` | liveness of the three polls |
| `frontend_file_browser` | violated: staged files lose their marks |

The parts of the frontend share no state with each other. `Frontend` therefore lets an
initial state pick the one part that moves (`part`); TLC explores the sum of their state
spaces (3.7 million states, three minutes), not their product. `MCPolls` does the
same for the three parts that poll, under the fairness of the part that moves.

### Properties of the frontend

Every property holds with the exceptions it names, and each exception is behaviour of
the code that a state variable of the model records. They were found with TLC, by
weakening a property until it held, and they are the list of what a user may see go
wrong.

| Property | Exception |
|---|---|
| `ShownWasRequested`: the viewer shows what it was asked for | a session that was connecting when an earlier page was left (`viewLate`) |
| `ConnectedIffRunning`: a URL exactly for sessions last seen running | none |
| `TokenUnlessWaited`: the T4C token is offered | the session was listed before it ran: the list is patched without the token (`viewWaited`) |
| `FrameShowsOwnSession` | a second guacamole session was connected in this browser (`viewRivals`) |
| `LayoutFillsWindow` | the window was resized during a drag (`skewed`); seven or more tiles of equal width are below the minimum of 15 percent from the start |
| `LandsWhereItLeft`: a login returns to the page it was sent from | a 401 after the tab had left, a refresh that failed on another page, or a state that the tab does not know when it comes back (`tabAstray`) |
| `LogoutSticks` | a refresh was under way when the logout returned (`signedOut` is not set) |
| `RoleFollowsProject`, `QuietPageIsRight` | a failed request for the role ended its stream (`roleStream`); an answer about a page that was left (`outrun`) |
| `OnlyOvertakenListsGoWrong` | an answer to a request of a list that was emptied since (`listOvertaken`) |
| `RunHeldIsAddressed`, `FinalShown` | an answer that came after its page was left, or a run that was held when the address of the open page changed (`rpLate`) |
| `FinishedRunHasFinalLogs` | an error ended the stream of the panel (`rpStream`) |
| `PollLives`, `ClosedMeansTerminated`, `TerminatedLeaves` | none |
| `BusyIsWaiting` | a workspace was provisioned while the page had no project |
| `SuccessIsReal` | none |
| `QuietStoreIsFresh` | an older answer, or one for another page, came last (`Outrun`); a request failed since what the page is about was last asked for (`storeLost`) |
| `QuietRepositoriesSettle`: nothing stays LOADING, and the page lists the rows of its instance | an older list, or one of another instance, came last (`reposOutrun`); a request failed since the list was last asked for (`reposFailed`); rows that an older list inserted after the newest had read them are missing (`reposResynced`) |
| `PatchedListIsRight` | a change was lost or came before the list, an older answer came last, or the page before had left a change under way (`elementsSpoiled`) |
| `DiagramsMatchList`: all diagrams of the job the list names, or none of the branch older than the list | a list of the branch promises no more: its diagrams may be newer, or of the last job when the branch could not be read; the cache was cleared while an answer was awaited (`diagramsLate`) |
| `RunningIsConnected` | an error was shown for the session (`viewErrors`) |

### Bounds

Backend. Two sessions are what the conflict check, the sibling T4C account and
the blocked idle job need; the properties of a session relate it to threads,
not to a third session. One route thread and one idle job are two concurrent
terminations, enough for every double deletion. `MaxFaults` and `MaxCrashes`
bound injected failures: one fault anywhere plus all interleavings covers each single
point of failure. Three pipelines are one that runs at night, one that may not because
its model has no version with a backup image, and one without either. The failing call
is explored with one scheduler, the crash with two, which is where it leaves work to
somebody else; two schedulers on one run already overlap in every way two can. Jobs are
as many as `OneJobPerScheduler` allows: two for the run that gets any in
`pipelines_one_backend` (a pipeline without an image creates none), three in
`pipelines_two_backends`. `Removable` and `Revocable` are switched on only where their
actions matter, to keep the runs small.

Frontend. The properties compare an answer with one before it or with the page it was
for, so two requests under way, two pages or projects and one change of the data are
what a disagreement needs; three sessions are listed where the order of a list or the
neighbours of a border matter. One diagram next to its list, two exports of either kind
and two calls contain a file that is cached, outdated and read again under a newer list;
several diagrams are related to the list and not to each other. The second of the two
instances has no repository: it is there to be visited.
`MaxPushes = 2` lets one session be polled twice or two sessions once. Two tabs share
the cookies, one of them with two requests at a time, which is what a second 401 needs;
the other one logs in and out. Three requests for versions or natures let a page open
next to a change that the page before has left under way. `MaxUsers = 2` lets `user$`
emit once more after the page was opened. Integer widths of 40 and 80 make the minimum width (6 and 12) and the
remainder of the division by three matter.

Deadlock is not checked: requests are finite in number in the backend's instances, and
a frontend nobody uses rests.

### Fairness

`Continue(s)`: uvicorn resumes a coroutine that can run. `Terminate(t)`
and the idle job's loop body: worker threads are not starved. `IdleTick` is
strongly fair for each session: the job asks every 60 seconds, and an alert of
an idle session fires until it is terminated, so it is in infinitely many of the
answers. `Schedule(w)`: the loop of `schedule_refresh_and_trigger_pipeline_jobs`
swallows every exception and starts over. `TimeoutPasses(r)`: time passes. The
external job is given no fairness: it may hang.

In the frontend timers run out (`Tick`, `RunTick`, `DelayEnds`) and a request is answered
or fails. `GetSessionReturns` is strongly fair: the next tick takes back the answer of a
backend that is slower than three seconds, and the backend is not always that slow.
`RunServed` and `RunReturns` are strongly fair because each may be overtaken by a failure
of the request; not all of them fail. Users are given no fairness: `TerminatedLeaves` and
`FinalShown` are about a page that stays open.

### Findings

The five violated properties quote the documentation, a test or an error message of the
repository (see `findings` in `PROJECT.json`). They are specific to the code as it is:
the conflict check has no constraint in the table behind it, the session token is
committed before hooks that may reject, T4C accounts are per user, the idle job has no
handler per session, and the file browser keeps its marks in the tree that a reload
replaces and the staged files elsewhere.

## 4. Proofs

The theorems hold for all values of the constants, under the named assumptions of the
modules (`SessionsAssumption` and so on), which say no more than that bounds are natural
numbers (and at least one where an action needs room for a request), that sets are finite
where they are counted or summed, such as the schedulers, and that special values are
none of the others.

Everything the provers meet is written without recursion. What a fold or a filter
computes is not proved by induction, which is out of reach, but from its definition: a
smallest set for which the sum of widths would not exist cannot be (`SumsExist` in
`ViewerProofs`), and `Filtered` in `Arrays` names the place of each element it keeps
(`Placed`, `FilteredElements` in `SequenceLemmas`), where `SelectSeq` is a recursion
that tlapm cannot look into.

### Sessions

`SessionsProofs` proves, for any number of sessions, users, backends and threads:

* `TypeCorrect`: `Spec => []TypeOK`, one lemma per group of actions.
* `SessionsInvariant`: `Spec => []SessionsInv`, and from it
  `ListedSessionsAreBacked`, `TerminationIsClean`, `LoopShieldsRequests`.
* `TerminationReleases`: `Spec => []ReleasedUnlessInterrupted`.

`CleanTermination` is not inductive: that nothing is left when the row is gone
depends on what the terminating thread knew and deleted before. `SessionsInv`
therefore adds who holds a loop in which phase (`LoopInv`), what a phase has
created (`RowInv`), that exactly the answered, listed sessions are configured
(`ConfigInv`), that a thread with the config works on an answered request and
one without it is recorded in `early` (`ThreadInv`), that a hook that has been
passed has deleted its object (`DeletedInv`), that integrations appear only where
they are activated (`IntegrationInv`), that alerts concern ended requests
(`AlertInv`), and that a row disappears under a running request only if a
termination read it early (`EarlyInv`). The proofs have one lemma per actor:
requests, terminations, loading threads, idle job; crashes and the environment
are in the theorem itself.

For `TerminationReleases` the invariant is about who will delete an object: what is left
of an answered session without a row is what some thread is about to delete
(`ReleaseInv`), whichever of several overlapping terminations it is, and a thread that
has come as far as `kill_session` no longer needs the row (`FreshInv`), so that no other
termination can make it raise there.

It also proves `SessionsImplementContract`:
`Spec => ImplementsContract`. Lemmas say to which status change each action
amounts (`RequestStatus`, `TerminateStatus`, `CrashStatus`) or that it is a
stutter (`StatusStutter`), with `SessionsInv` as the invariant that excludes the
other cases, for example that a kill step meets a listed session.

Three properties of sessions are violated by runs. What is proved about them says that
the findings are all there is to them:

* `TokensAreExplained`: a token outside of its session was left by a failed request, or
  by a termination that read the session before its config was stored. It needs
  `CleanTermination` and that a request which did not pass the check has no token
  (`TokenInv`).
* `ConflictCheckSuffices`: `Spec /\ []ChecksDoNotOverlap => []OneSessionPerCombination`.
  While a session is listed no other one of its combination is, or is between the check
  and the row (`ConflictInv`): the check keeps it so, and only two requests that are there
  at the same time could break it.
* `OneT4CSessionKeepsItsCredential`: if no user asks for a second session with T4C,
  `SessionCredentialRegistered` holds until something fails or crashes. The server knows
  nobody of whom no request has come that far (`UnknownInv`), so that none is ignored
  with status 400, and knows every registered session until its own termination removes
  it (`RegisteredInv`).

### Pipelines

`PipelinesProofs` proves `TypeCorrect` for any number of schedulers. What depends on
what a scheduler has read being still so is proved under the hypothesis `OneScheduler`,
which is what one replica gives outside of a rolling update (with two schedulers both
create a job for a pending run, and the later commit wins):

* `PipelinesInvariant`: `OneScheduler /\ Spec => []PipelinesInv`, and from it
  `ResultsAreFaithful`.
* `PipelinesImplementContract`: `OneScheduler /\ Spec => ImplementsRunContract`.

Neither `FaithfulResult` nor the contract is inductive: a commit writes what the
scheduler decided several steps before, on a row it loaded even earlier. So
`PipelinesInv` says that a row agrees with its job (`ReferenceInv`), that what is
queued was active and is still so, or deleted (`QueueInv`), and that the row a
scheduler works on is as loaded, or deleted, and that the new status agrees with
the job it is about to store (`ScheduleInv`, `RefreshInv`). It is preserved
because jobs only move forward (`JobsForward`) and nobody but the scheduler and a
deletion changes an existing run. The lemmas reflect this: `Focus` treats every
step by which the scheduler moves to other work, `Undisturbed` every step that
leaves its work alone.

The rest of the safety of pipelines:

* `DeletedPipelinesAreClean`: `Spec => []DeletedPipelineClean`, with any number of
  schedulers. `CleanInv` says what each stage of a deletion has taken care of, and that
  it stays so when the deletion is tried again.
* `JobsAreWatched`: with one scheduler and nothing failing, a job in the cluster is
  referred to by an active run, belongs to a deleted one or is in the hands of the
  scheduler (`WatchedInv`).

With any number of schedulers, as in a rolling update or with `replicaCount.backend`
raised, a job may be lost and a final status overwritten. What remains true:

* `SharedInvariant`: `Spec => []SharedInv`. What a scheduler has loaded, created or read
  may be outdated but is about its run: the job it holds was created for this run
  (`OwnJob`), and the status it will store is how some job of the run ended (`Outcome`).
  This is stable under the steps of the other schedulers because a run never goes back
  to pending, a deleted one stays deleted, and a job keeps its run and its end
  (`Advances`, `JobsKept`). From it `OutcomesAreOwn`, `ReferencesAreOwn`, and the action
  property `RunsAdvance`.
* `JobsPerRunAreBounded`: `Spec => []OneJobPerScheduler`. As long as a run is pending,
  each of its jobs is in the hands of a scheduler that is about to store it, or was lost
  to an interruption; once it is not, the schedulers that still have it queued as pending
  (`Creators`) are the only ones that may add a job (`CountInv`, over cardinalities).
  Neither half alone is inductive: the bound is that of the second, and the step from
  the first to it is the commit of one of the schedulers.

### Frontend

The theorems of the frontend hold for any number of requests under way, pages, items and
so on. A list of requests is a sequence from which the answered one is removed
(`RemoveAt`) and to which the next one is appended; most invariants say of each request
what its answer will do, and most lemmas that removing, adding or serving one request
leaves this true of the others (`SequenceLemmas`).

* `PagesProofs`, for the login: `LoginTypes`, and `LogoutIsFinal` for any number of tabs, pages and
  requests. That no token is left is preserved only because nothing is under way that
  could set one: `SignedOutInv` adds that no request is refreshing.
  `LoginsLandWhereTheyLeft` is the action property `LandsWhereItLeft`: between leaving a
  page and coming back, `redirectURL` or the target kept by the login is that page, or the
  tab is recorded as astray (`LeftInv`).
* `ViewerProofs`: `ViewerInvariant`, and from it `OnlyWantedSessionsAreShown`,
  `OnlyRunningSessionsAreConnected`, `TokensAreOffered`, `FramesShowConnectedSessions`, for
  any sessions and any number of polls. An entry of the list is worth what the last of
  several polls wrote (`GoodEntry`), which is so because a poll that goes on is about a
  wanted session and asks for a connection only after it saw the session run (`PollInv`).
  `TilingInvariant` gives `TilesFillTheWindow`: the two tiles of a
  drag are neighbours whose widths together are what they were when the drag began, so
  that any number of moves preserves the sum.
* `PagesProofs`, for the page of a run: `RunPageInvariant`, and from it `PageShowsItsRun` and
  `FinalLogsAreShown`. The answers to the polls and to the requests for the logs come in
  any order; the invariant says that a final status that was read stays the run's own
  (`AnswersAreTrue`), and that once the page holds a finished run every request for a
  panel is about this run and reads its end (`PanelFollows`).
  For the pages of a project, `PagesInvariant`, `PagesTypes`, and `RoleIsForTheProject`: a
  role that is asked for is always the one of the last project that was emitted
  (`RoleInv`). `QuietPagesAreRight` needs more (`QuietInv`): whatever a service holds that
  is not what the address names is about to be replaced by an answer to a request under
  way, or an answer about a page before has come (`outrun`).
* `DialogsProofs`: `DialogsInvariant` for the dialogs (`DisabledButtonsWait`,
  `ShownSuccessesAreReal`): all that the last submission asked for took effect or is waited
  for, and a disabled button keeps a second submission from mixing with the first.
  `DiagramsInvariant` for the diagrams (`ShownDiagramsMatchTheList`): the content cached
  under a date is not older than that date, which the next reader of the file then relies
  on; and what a request will be answered with is of the job it names, or not older than
  the list that is shown, as the branch only grows.
  `StoresInvariant` for the 43 stores (`QuietStoresAreFresh`): the version the backend has
  was answered to the page or is on its way, as a read under way or as a change whose
  answer asks again (`PageIsInformed`). For the stores that follow a stream this holds only
  while a subscription is left: each live read has one of its own, which is a matter of
  counting (`StreamsAreCounted`, over cardinalities). What the proof needs of a row of the
  table is stated by `StoreFits` and shown for all of them in `TableFits`.
* `ListsProofs`: `SessionListInvariant` (`PollingNeverStops`, and the action property
  `DialogsCloseOverTerminated`); `PagedInvariant` (`ListsGoWrongWhenOvertaken`): the
  requests of the list that is held are about its owner, one for each page that is
  loading; `RepositoriesInvariant` (`QuietRepositoriesAreSettled`): a difference between
  page and database has a change under way, the newest read, a row that an older list
  inserted or a failure to account for it. It is not inductive without the steps of the
  backend: between the row and the server, a deletion has not been answered yet and will
  have the list read again, and only the newest list matters to the page;
  `ElementsInvariant` (`PatchedListsAreRight`): the page never reads its list again, so
  each element that is missing, out of date or gone has an answer on its way that will
  patch it (`ListIsPatched`), the answers to two updates of one element come in the order
  of their revisions or are recorded as spoiled, and no element is created twice.

* `FrontendProofs`: `PartsAreImplemented`: a step of `Frontend` is a step of one part and
  stutters for the others, so that `FrontendSpec` implies the specification of each part
  and everything proved of it. `FrontendTypes` is `FrontendSpec => []FrontendTypeOK`, with
  one lemma per part; the bounds of the instance on what is under way
  (`MaxLoads`, `MaxRepoCalls` and the others) are part of the types, hence the assumption
  that they leave room for one request.

Attempts that failed have changed the models: a `MaxIdle` of zero, a `MaxDiagramCalls` of zero, seven tiles (whose equal
widths are below the minimum already), members of a project that the user does not manage
(the backend refuses them, `projects/users/routes.py:83-93`), and a
failure that `Stores` forgot when another page was read again, were states in which a
property or its invariant did not hold and which the small instances did not reach.

### Only model-checked

Liveness and `ENABLED` are out of the prover's reach: `IdleSessionTerminated`, `RunEnds`,
`RunningIsConnected`, `FinalShown`, `TerminatedLeaves`. Every safety property and every
action property of the passing runs is a theorem. `FileBrowser` has one property, which is
violated, and no proofs.

## 5. Not modelled

* Provisioning and workspaces (`sessions/hooks/provisioning.py`,
  `projects/toolmodels/provisioning`, `users/workspaces`): what a volume contains is
  outside of the state of the backend. Hazards that a model of it would be about: two
  requests insert the same record (line 131), a record with its commit hash is stored
  before the session is started (line 385), and a workspace is deleted next to a request
  that has mounted it (`users/workspaces/util.py:21`).
* What two schedulers may do to each other's runs beyond the two properties of
  `pipelines_two_backends`: a lost job that keeps running, a final status replaced by
  UNKNOWN. The code does not exclude it (`runs/interface.py:48` takes no lock), so
  `JobsWatched` and `RunContract` are stated for one scheduler.
* Backend CRUD of projects, members, tools, users, events, announcements, configuration:
  single rows and one commit each. Check-then-act races between two requests exist
  (`projects/users/routes.py:147`, `sessions/routes.py:360`) and end in a constraint or a
  duplicate; deleting a user takes several commits (`users/routes.py:247-251`), and a patch
  of a user commits the new role before the rest of it (`users/routes.py:215-217`).
* Permissions: pure checks against static tables.
* Git handlers: the APIs of GitLab and GitHub, the complexity badge, and the table of Git
  models. Clearing the cache scans keys while entries are added (`.../handler/cache.py:103`);
  in `Diagrams` it is one step.
* A request that fails between pod and service leaves a pod that Prometheus does not
  scrape (`sessions/operators/k8s.py:125`); `Sessions` contains this behaviour and no
  property promises otherwise. A pipeline's technical user is added before its image is
  checked (`backups/routes.py:136`): likewise in `Pipelines`. `runs/interface.py:134`
  reads `events`, which is unbound when they could not be fetched; the caller swallows the
  error and the run goes on without its events.
* OIDC, token signatures and basic authentication: cryptography and an external provider.
* In the frontend: templates, styles, toasts, breadcrumbs, the navigation bar, search,
  form validators and stories. Among the validators one race is known and left out: a
  revision typed while the path of a Git repository is validated is checked against the
  revisions of the former URL (`services/git/git.service.ts`, `manage-git-model`).
* File transfer inside of pods, e-mail, metrics, health, the command line, migrations and
  the Helm chart (except for the alerting rule): I/O or operator tooling without state that another step depends on.

## 6. Plan

1. `Provisioning`, composed with the phases of a request in `Sessions`, for the hazards of
   section 5 that have no property yet.
2. `FileBrowser`: which orders of loading, staging and taking back keep the marks right.
3. Several sessions of a user with T4C: which terminations leave the account to the sibling.
