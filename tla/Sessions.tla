------------------------------- MODULE Sessions -------------------------------
(***************************************************************************)
(* The life of tool sessions in the backend (capellacollab/sessions):      *)
(* POST /sessions creates a session step by step, DELETE /sessions/{id}    *)
(* and the idle-session job terminate it step by step.                     *)
(*                                                                         *)
(* A backend process runs request_session, an async route, on its event    *)
(* loop: between two awaits nothing else runs on that loop, and the only   *)
(* await is the gathering of the asynchronous hooks.  terminate_session    *)
(* and the idle job run in worker threads, which the loop must be free to  *)
(* start but which then run next to it.  Several backends share one        *)
(* database and one cluster when replicaCount.backend is raised or while a *)
(* rolling update replaces the pod.                                        *)
(*                                                                         *)
(* One action is one call that leaves a trace outside the process: a       *)
(* commit, a Kubernetes object, a Guacamole or TeamForCapella account.     *)
(***************************************************************************)
EXTENDS Naturals, FiniteSets

CONSTANTS
    Sessions,        \* session ids; each names the one request that uses it
    Users,
    Combos,          \* (tool, version, session type) combinations
    T4CCombos,       \* persistent combinations of a tool with the t4c integration
    GuacamoleCombos, \* combinations reached through a Guacamole connection method
    LoggedCombos,    \* persistent combinations with log collection
    Owner,           \* the user who requests a session
    Combo,           \* the combination it is requested for
    Backends,        \* backend processes
    Routes,          \* worker threads that serve DELETE /sessions/{id}
    Reapers,         \* worker threads of the idle-session job, one per backend
    Home,            \* the backend a request or a thread runs on
    Removable,       \* combinations whose connection method an admin may remove
    Revocable,       \* users who may lose the access to their repositories
    MaxFaults,       \* bound on failing calls
    MaxCrashes       \* bound on backend crashes

Threads == Routes \cup Reapers

\* Kinds of external objects a session owns; every object carries its id.
HookKinds == {"token", "guacUser", "guacConnection", "netpol", "configmap", "sidecar"}
ClusterKinds == {"pod", "pdb", "service"}
Kinds == HookKinds \cup ClusterKinds

\* How far the request of a session has come: the last step it completed.
BeforeRow == {"checked", "t4c", "token", "awaiting", "resumed", "pod", "pdb", "service"}
AfterRow == {"row", "guacUser", "guacConnection", "netpol", "configmap", "sidecar"}
InProgress == BeforeRow \cup AfterRow
Ended == {"done", "failed", "refused"}
Phases == {"new"} \cup InProgress \cup Ended

\* What a terminating thread does next.
HookSteps == {"t4c", "token", "guacUser", "guacConnection", "netpol", "configmap", "sidecar"}
KillSteps == {"pod", "pdb", "service"}
Steps == {"idle", "row"} \cup HookSteps \cup KillSteps

NoSession == "none"  \* no request on the loop, no session in the thread

ASSUME SessionsAssumption ==
    /\ NoSession \notin Sessions
    /\ Owner \in [Sessions -> Users]
    /\ Combo \in [Sessions -> Combos]
    /\ Home \in [Sessions \cup Threads -> Backends]
    /\ MaxFaults \in Nat /\ MaxCrashes \in Nat

VARIABLES
    phase,      \* phase[s]: progress of the request for s
    loop,       \* loop[b]: the request that holds the event loop of backend b
    rows,       \* sessions with a row in table sessions
    configured, \* rows whose config column holds the result of the hooks
    live,       \* live[k]: sessions whose object of kind k exists
    credential, \* credential[u]: session whose password TeamForCapella knows for u
    access,     \* users whose TeamForCapella repositories the query still selects
    broken,     \* combinations whose connection method left the tool's config
    thread,     \* thread[t]: the termination a worker thread is executing
    alerts,     \* alerts[r]: sessions the idle job has still to visit in this tick
    faults,     \* failing calls so far
    crashes,    \* crashes so far
    early       \* sessions a termination loaded before their config was stored

vars == <<phase, loop, rows, configured, live, credential, access, broken,
          thread, alerts, faults, crashes, early>>

database == <<rows, configured>>
environment == <<access, broken>>
history == <<faults, crashes, early>>
requestVars == <<phase, loop>>
threadVars == <<thread, alerts>>

NoTermination == [step |-> "idle", session |-> NoSession,
                  config |-> FALSE, expired |-> FALSE, admin |-> FALSE]

Terminations ==
    [step: Steps, session: Sessions \cup {NoSession},
     config: BOOLEAN,   \* the session object holds the stored hook configuration
     expired: BOOLEAN,  \* a commit expired the object, its next use reads the row
     admin: BOOLEAN]    \* the caller's scope selects every TeamForCapella repository

TypeOK ==
    /\ phase \in [Sessions -> Phases]
    /\ loop \in [Backends -> Sessions \cup {NoSession}]
    /\ rows \in SUBSET Sessions
    /\ configured \in SUBSET Sessions
    /\ live \in [Kinds -> SUBSET Sessions]
    /\ credential \in [Users -> Sessions \cup {NoSession}]
    /\ access \in SUBSET Users
    /\ broken \in SUBSET Combos
    /\ thread \in [Threads -> Terminations]
    /\ alerts \in [Reapers -> SUBSET Sessions]
    /\ faults \in Nat
    /\ crashes \in Nat
    /\ early \in SUBSET Sessions

Init ==
    /\ phase = [s \in Sessions |-> "new"]
    /\ loop = [b \in Backends |-> NoSession]
    /\ rows = {}
    /\ configured = {}
    /\ live = [k \in Kinds |-> {}]
    /\ credential = [u \in Users |-> NoSession]
    /\ access = Users
    /\ broken = {}
    /\ thread = [t \in Threads |-> NoTermination]
    /\ alerts = [r \in Reapers |-> {}]
    /\ faults = 0
    /\ crashes = 0
    /\ early = {}

-----------------------------------------------------------------------------
(* POST /sessions: request_session and operator.start_session *)

HasT4C(s) == Combo[s] \in T4CCombos
HasGuacamole(s) == Combo[s] \in GuacamoleCombos
HasLogs(s) == Combo[s] \in LoggedCombos

SameCombination(s1, s2) == Owner[s1] = Owner[s2] /\ Combo[s1] = Combo[s2]

\* The request of s holds its event loop and has completed step p last.
Running(s, p) == loop[Home[s]] = s /\ phase[s] = p

Advance(s, p) == phase' = [phase EXCEPT ![s] = p] /\ UNCHANGED loop

Leave(s, p) ==
    /\ phase' = [phase EXCEPT ![s] = p]
    /\ loop' = [loop EXCEPT ![Home[s]] = IF @ = s THEN NoSession ELSE @]

CreateObject(k, s) == live' = [live EXCEPT ![k] = @ \cup {s}]

\* The conflict check reads the owner's rows; the hooks run only if it passes.
RequestSession(s) ==
    /\ phase[s] = "new"
    /\ loop[Home[s]] = NoSession
    /\ Combo[s] \notin broken
    /\ \A r \in rows : ~ SameCombination(r, s)
    /\ phase' = [phase EXCEPT ![s] = "checked"]
    /\ loop' = [loop EXCEPT ![Home[s]] = s]
    /\ UNCHANGED <<database, live, credential, environment, threadVars, history>>

RefuseConflict(s) ==
    /\ phase[s] = "new"
    /\ loop[Home[s]] = NoSession
    /\ \E r \in rows : SameCombination(r, s)
    /\ Leave(s, "refused")
    /\ UNCHANGED <<database, live, credential, environment, threadVars, history>>

\* TeamForCapella answers 400, which is ignored, if it knows the user already:
\* the password of the new session is then not stored.
RegisterT4CUser(s) ==
    /\ Running(s, "checked")
    /\ Advance(s, "t4c")
    /\ credential' = [credential EXCEPT ![Owner[s]] =
            IF HasT4C(s) /\ Owner[s] \in access /\ @ = NoSession THEN s ELSE @]
    /\ UNCHANGED <<database, live, environment, threadVars, history>>

\* A RequestException only adds a warning to the response.
RegisterT4CUserFails(s) ==
    /\ Running(s, "checked")
    /\ HasT4C(s) /\ Owner[s] \in access
    /\ faults < MaxFaults
    /\ faults' = faults + 1
    /\ Advance(s, "t4c")
    /\ UNCHANGED <<database, live, credential, environment, threadVars, crashes, early>>

CreateSessionToken(s) ==
    /\ Running(s, "t4c")
    /\ Advance(s, "token")
    /\ CreateObject("token", s)
    /\ UNCHANGED <<database, credential, environment, threadVars, history>>

\* await asyncio.gather(...): the loop serves other requests meanwhile.
AwaitHooks(s) ==
    /\ Running(s, "token")
    /\ Leave(s, "awaiting")
    /\ UNCHANGED <<database, live, credential, environment, threadVars, history>>

ResumeRequest(s) ==
    /\ phase[s] = "awaiting"
    /\ loop[Home[s]] = NoSession
    /\ phase' = [phase EXCEPT ![s] = "resumed"]
    /\ loop' = [loop EXCEPT ![Home[s]] = s]
    /\ UNCHANGED <<database, live, credential, environment, threadVars, history>>

\* A hook, the docker image lookup or the port lookup rejects what was asked for.
RejectRequest(s) ==
    /\ \/ Running(s, "t4c") \/ Running(s, "resumed") \/ Running(s, "service")
       \/ phase[s] = "awaiting" /\ loop[Home[s]] = NoSession
    /\ Leave(s, "failed")
    /\ UNCHANGED <<database, live, credential, environment, threadVars, history>>

CreateClusterObject(s, before, k) ==
    /\ Running(s, before)
    /\ Advance(s, k)
    /\ CreateObject(k, s)
    /\ UNCHANGED <<database, credential, environment, threadVars, history>>

CreateSessionPod(s) == CreateClusterObject(s, "resumed", "pod")
CreateDisruptionBudget(s) == CreateClusterObject(s, "pod", "pdb")
CreateSessionService(s) == CreateClusterObject(s, "pdb", "service")

\* Faulty variant: the row is committed before the service exists.
CreateRowTooEarly(s) ==
    /\ Running(s, "pdb")
    /\ Advance(s, "row")
    /\ rows' = rows \cup {s}
    /\ UNCHANGED <<configured, live, credential, environment, threadVars, history>>

CreateRow(s) ==
    /\ Running(s, "service")
    /\ Advance(s, "row")
    /\ rows' = rows \cup {s}
    /\ UNCHANGED <<configured, live, credential, environment, threadVars, history>>

-----------------------------------------------------------------------------
(* POST /sessions: the post-creation hooks and the final config update *)

CreateGuacamoleUser(s) ==
    /\ HasGuacamole(s)
    /\ CreateClusterObject(s, "row", "guacUser")

\* The connection needs the row's environment, which the commit expired.
CreateGuacamoleConnection(s) ==
    /\ s \in rows
    /\ CreateClusterObject(s, "guacUser", "guacConnection")

CreateNetworkPolicy(s) ==
    CreateClusterObject(s, IF HasGuacamole(s) THEN "guacConnection" ELSE "row", "netpol")

\* Reads the session type, from the row unless the Guacamole hook has loaded it.
CreateConfigMap(s) ==
    /\ HasLogs(s)
    /\ HasGuacamole(s) \/ s \in rows
    /\ CreateClusterObject(s, "netpol", "configmap")

CreateSidecar(s) == CreateClusterObject(s, "configmap", "sidecar")

LastHook(s) == IF HasLogs(s) THEN "sidecar" ELSE "netpol"

\* Faulty variant: the config update inserts the row when it is gone.
UpsertConfig(s) ==
    /\ Running(s, LastHook(s))
    /\ rows' = rows \cup {s}
    /\ configured' = configured \cup {s}
    /\ Leave(s, "done")
    /\ UNCHANGED <<live, credential, environment, threadVars, history>>

\* The hook results replace the config column; the request is answered.
UpdateConfig(s) ==
    /\ Running(s, LastHook(s))
    /\ s \in rows
    /\ configured' = configured \cup {s}
    /\ Leave(s, "done")
    /\ UNCHANGED <<rows, live, credential, environment, threadVars, history>>

\* ObjectDeletedError or StaleDataError: a termination deleted the row meanwhile.
RowVanished(s) ==
    /\ \/ Running(s, "guacUser")
       \/ Running(s, "netpol") /\ HasLogs(s) /\ ~ HasGuacamole(s)
       \/ Running(s, LastHook(s))
    /\ s \notin rows
    /\ Leave(s, "failed")
    /\ UNCHANGED <<database, live, credential, environment, threadVars, history>>

\* An API call or a commit raises; what was created before it stays.
RequestFails(s) ==
    /\ phase[s] \in InProgress
    /\ loop[Home[s]] = IF phase[s] = "awaiting" THEN NoSession ELSE s
    /\ faults < MaxFaults
    /\ faults' = faults + 1
    /\ Leave(s, "failed")
    /\ UNCHANGED <<database, live, credential, environment, threadVars, crashes, early>>

-----------------------------------------------------------------------------
(* util.terminate_session, run by a worker thread *)

Idle(t) == thread[t].step = "idle"
At(t, p) == thread[t].step = p
Target(t) == thread[t].session

GoTo(t, p) == thread' = [thread EXCEPT ![t].step = p] /\ UNCHANGED alerts

\* The thread ends; an exception also ends the for loop of the idle job.
Stop(t) == thread' = [thread EXCEPT ![t] = NoTermination] /\ UNCHANGED alerts
Abort(t) ==
    /\ thread' = [thread EXCEPT ![t] = NoTermination]
    /\ alerts' = [r \in Reapers |-> IF r = t THEN {} ELSE alerts[r]]

DeleteObject(k, s) == live' = [live EXCEPT ![k] = @ \ {s}]

\* Faulty variant: the termination starts at a step that no hook takes.
LoadAndWait(t, s, admin) ==
    /\ thread' = [thread EXCEPT ![t] =
            [step |-> "loaded", session |-> s, config |-> s \in configured,
             expired |-> FALSE, admin |-> admin]]
    /\ early' = IF s \in configured THEN early ELSE early \cup {s}

\* The loaded object keeps the config it was loaded with.
Load(t, s, admin) ==
    /\ thread' = [thread EXCEPT ![t] =
            [step |-> "t4c", session |-> s, config |-> s \in configured,
             expired |-> FALSE, admin |-> admin]]
    /\ early' = IF s \in configured THEN early ELSE early \cup {s}

\* Faulty variant: requests run in worker threads and do not hold the loop.
TerminateDuringRequest(t, s) ==
    /\ t \in Routes /\ Idle(t)
    /\ s \in rows /\ Combo[s] \notin broken
    /\ \E admin \in BOOLEAN : Load(t, s, admin)
    /\ UNCHANGED <<requestVars, database, live, credential, environment, alerts,
                   faults, crashes>>

\* The loop must be free to hand the request to a worker thread.
TerminateSession(t, s) ==
    /\ t \in Routes /\ Idle(t)
    /\ loop[Home[t]] = NoSession
    /\ s \in rows /\ Combo[s] \notin broken
    /\ \E admin \in BOOLEAN : Load(t, s, admin)
    /\ UNCHANGED <<requestVars, database, live, credential, environment, alerts,
                   faults, crashes>>

\* The repositories are selected anew, with the caller's scope.
RemoveT4CUser(t) ==
    /\ At(t, "t4c")
    /\ GoTo(t, "token")
    /\ credential' = [credential EXCEPT ![Owner[Target(t)]] =
            IF HasT4C(Target(t)) /\ (Owner[Target(t)] \in access \/ thread[t].admin)
            THEN NoSession ELSE @]
    /\ UNCHANGED <<requestVars, database, live, environment, history>>

\* A RequestException is logged and the termination continues.
RemoveT4CUserFails(t) ==
    /\ At(t, "t4c")
    /\ HasT4C(Target(t)) /\ (Owner[Target(t)] \in access \/ thread[t].admin)
    /\ faults < MaxFaults
    /\ faults' = faults + 1
    /\ GoTo(t, "token")
    /\ UNCHANGED <<requestVars, database, live, credential, environment, crashes, early>>

\* Without session_token_id in the config the hook returns; deleting the token
\* commits, which expires the session object.
RevokeSessionToken(t) ==
    LET s == Target(t)
        config == thread[t].config
    IN  /\ At(t, "token")
        /\ thread' = [thread EXCEPT
                ![t].step = IF config /\ HasGuacamole(s) THEN "guacUser" ELSE "netpol",
                ![t].expired = config /\ s \in live["token"]]
        /\ live' = [live EXCEPT !["token"] = IF config THEN @ \ {s} ELSE @]
        /\ UNCHANGED <<requestVars, database, credential, environment, alerts, history>>

\* The next hook reads the session object, from its row if it is expired.
Readable(t) == thread[t].expired => Target(t) \in rows

ReadAndDelete(t, k, next) ==
    /\ At(t, k)
    /\ Readable(t)
    /\ thread' = [thread EXCEPT ![t].step = next, ![t].expired = FALSE]
    /\ DeleteObject(k, Target(t))
    /\ UNCHANGED <<requestVars, database, credential, environment, alerts, history>>

DeleteGuacamoleUser(t) == ReadAndDelete(t, "guacUser", "guacConnection")
DeleteGuacamoleConnection(t) == ReadAndDelete(t, "guacConnection", "netpol")

\* Faulty variant: the log collector has no pre-termination hook.
DeleteNetworkPolicyOnly(t) == ReadAndDelete(t, "netpol", "row")

DeleteNetworkPolicy(t) ==
    ReadAndDelete(t, "netpol", IF HasLogs(Target(t)) THEN "configmap" ELSE "row")
DeleteConfigMap(t) == ReadAndDelete(t, "configmap", "sidecar")
DeleteSidecar(t) == ReadAndDelete(t, "sidecar", "row")

\* ObjectDeletedError: another thread deleted the row after this one loaded it.
SessionVanished(t) ==
    /\ ~ Idle(t)
    /\ ~ Readable(t)
    /\ Abort(t)
    /\ UNCHANGED <<requestVars, database, live, credential, environment, history>>

\* crud.delete_session; a row that is gone already only raises a warning.
DeleteRow(t) ==
    /\ At(t, "row")
    /\ GoTo(t, "pod")
    /\ rows' = rows \ {Target(t)}
    /\ configured' = configured \ {Target(t)}
    /\ UNCHANGED <<requestVars, live, credential, environment, history>>

\* Faulty variant: kill_session forgets the disruption budget.
KillPodKeepBudget(t) == ReadAndDelete(t, "pod", "service")

\* operator.kill_session
KillPod(t) == ReadAndDelete(t, "pod", "pdb")
KillDisruptionBudget(t) == ReadAndDelete(t, "pdb", "service")
KillService(t) ==
    /\ At(t, "service")
    /\ Stop(t)
    /\ DeleteObject("service", Target(t))
    /\ UNCHANGED <<requestVars, database, credential, environment, history>>

TerminationFails(t) ==
    /\ ~ Idle(t)
    /\ faults < MaxFaults
    /\ faults' = faults + 1
    /\ Abort(t)
    /\ UNCHANGED <<requestVars, database, live, credential, environment, crashes, early>>

-----------------------------------------------------------------------------
(* terminate_idle_session: the idle job of a backend, every 60 seconds *)

\* Prometheus scrapes a session pod through its service.  The alert needs at
\* least a minute of idleness, by which time the request has ended.
Alerting == {s \in live["pod"] \cap live["service"] : phase[s] \in Ended}

IdleTick(r, A) ==
    /\ Idle(r) /\ alerts[r] = {}
    /\ loop[Home[r]] = NoSession
    /\ A # {}
    /\ alerts' = [alerts EXCEPT ![r] = A]
    /\ UNCHANGED <<requestVars, database, live, credential, environment, thread, history>>

Visit(r, s) == Idle(r) /\ s \in alerts[r]

TerminateIdleSession(r, s) ==
    /\ Visit(r, s)
    /\ s \in rows /\ Combo[s] \notin broken
    /\ alerts' = [alerts EXCEPT ![r] = @ \ {s}]
    /\ Load(r, s, FALSE)
    /\ UNCHANGED <<requestVars, database, live, credential, environment, faults, crashes>>

\* get_connection_method raises: the job gives up on the rest of this tick.
IdleJobAborts(r, s) ==
    /\ Visit(r, s)
    /\ s \in rows /\ Combo[s] \in broken
    /\ Abort(r)
    /\ UNCHANGED <<requestVars, database, live, credential, environment, history>>

\* Faulty variant: the job kills the pod of every firing alert.
KillAlerting(r, s) ==
    /\ Visit(r, s)
    /\ alerts' = [alerts EXCEPT ![r] = @ \ {s}]
    /\ thread' = [thread EXCEPT ![r] = [NoTermination EXCEPT !.step = "pod", !.session = s]]
    /\ UNCHANGED <<requestVars, database, live, credential, environment, history>>

\* Faulty variant: the job skips a session that is not listed.
SkipOrphan(r, s) ==
    /\ Visit(r, s)
    /\ s \notin rows
    /\ alerts' = [alerts EXCEPT ![r] = @ \ {s}]
    /\ UNCHANGED <<requestVars, database, live, credential, environment, thread, history>>

\* No row: only the cluster objects are deleted, no hook runs.
KillOrphan(r, s) ==
    /\ Visit(r, s)
    /\ s \notin rows
    /\ alerts' = [alerts EXCEPT ![r] = @ \ {s}]
    /\ thread' = [thread EXCEPT ![r] = [NoTermination EXCEPT !.step = "pod", !.session = s]]
    /\ UNCHANGED <<requestVars, database, live, credential, environment, history>>

-----------------------------------------------------------------------------
(* What happens around the sessions *)

\* DELETE /users/current/tokens/{id}
DeleteToken(s) ==
    /\ s \in live["token"]
    /\ DeleteObject("token", s)
    /\ UNCHANGED <<requestVars, database, credential, environment, threadVars, history>>

\* The owner loses the write permission, or the project is archived.
RevokeAccess(u) ==
    /\ u \in access \cap Revocable
    /\ access' = access \ {u}
    /\ UNCHANGED <<requestVars, database, live, credential, broken, threadVars, history>>

\* PUT /tools/{id} does not look at the running sessions.
RemoveConnectionMethod(c) ==
    /\ c \in Removable \ broken
    /\ broken' = broken \cup {c}
    /\ UNCHANGED <<requestVars, database, live, credential, access, threadVars, history>>

\* The process ends; its requests and threads stop where they are.
Crash(b) ==
    /\ crashes < MaxCrashes
    /\ crashes' = crashes + 1
    /\ phase' = [s \in Sessions |->
            IF Home[s] = b /\ phase[s] \in InProgress THEN "failed" ELSE phase[s]]
    /\ loop' = [loop EXCEPT ![b] = NoSession]
    /\ thread' = [t \in Threads |-> IF Home[t] = b THEN NoTermination ELSE thread[t]]
    /\ alerts' = [r \in Reapers |-> IF Home[r] = b THEN {} ELSE alerts[r]]
    /\ UNCHANGED <<database, live, credential, environment, faults, early>>

-----------------------------------------------------------------------------

Request(s) ==
    \/ RequestSession(s) \/ RefuseConflict(s)
    \/ RegisterT4CUser(s) \/ RegisterT4CUserFails(s) \/ CreateSessionToken(s)
    \/ AwaitHooks(s) \/ ResumeRequest(s) \/ RejectRequest(s)
    \/ CreateSessionPod(s) \/ CreateDisruptionBudget(s) \/ CreateSessionService(s)
    \/ CreateRow(s)
    \/ CreateGuacamoleUser(s) \/ CreateGuacamoleConnection(s)
    \/ CreateNetworkPolicy(s) \/ CreateConfigMap(s) \/ CreateSidecar(s)
    \/ UpdateConfig(s) \/ RowVanished(s) \/ RequestFails(s)

Terminate(t) ==
    \/ RemoveT4CUser(t) \/ RemoveT4CUserFails(t) \/ RevokeSessionToken(t)
    \/ DeleteGuacamoleUser(t) \/ DeleteGuacamoleConnection(t)
    \/ DeleteNetworkPolicy(t) \/ DeleteConfigMap(t) \/ DeleteSidecar(t)
    \/ SessionVanished(t) \/ DeleteRow(t)
    \/ KillPod(t) \/ KillDisruptionBudget(t) \/ KillService(t)
    \/ TerminationFails(t)

IdleJob(r) ==
    \/ \E A \in SUBSET Alerting : IdleTick(r, A)
    \/ \E s \in Sessions :
          TerminateIdleSession(r, s) \/ IdleJobAborts(r, s) \/ KillOrphan(r, s)

Next ==
    \/ \E s \in Sessions : Request(s)
    \/ \E t \in Routes, s \in Sessions : TerminateSession(t, s)
    \/ \E t \in Threads : Terminate(t)
    \/ \E r \in Reapers : IdleJob(r)
    \/ \E s \in Sessions : DeleteToken(s)
    \/ \E u \in Users : RevokeAccess(u)
    \/ \E c \in Combos : RemoveConnectionMethod(c)
    \/ \E b \in Backends : Crash(b)

Spec == Init /\ [][Next]_vars

-----------------------------------------------------------------------------
(* Fairness: uvicorn keeps running what it has started, worker threads are  *)
(* not starved, and the idle job wakes up every minute.  An idle session    *)
(* stays idle, so its alert is in the answer of Prometheus again and again. *)

Continue(s) == phase[s] # "new" /\ Request(s)

Fairness ==
    /\ \A s \in Sessions : WF_vars(Continue(s))
    /\ \A t \in Threads : WF_vars(Terminate(t))
    /\ \A r \in Reapers :
          /\ WF_vars(\E s \in Sessions :
                TerminateIdleSession(r, s) \/ IdleJobAborts(r, s) \/ KillOrphan(r, s))
          /\ \A s \in Sessions :
                SF_vars(\E A \in SUBSET Alerting : s \in A /\ IdleTick(r, A))

FairSpec == Spec /\ Fairness

-----------------------------------------------------------------------------
(* Properties *)

\* As long as a session is listed, its pod, disruption budget and service exist:
\* terminate_session deletes the row before kill_session deletes the objects, and
\* the idle job kills without terminating only what has no row.
RowBacked == \A s \in rows : \A k \in ClusterKinds : s \in live[k]

\* A session whose request was answered and which is not listed any more has left
\* nothing behind that a hook created (API token, Guacamole account, network
\* policy, log collector), whatever failed or crashed during its termination,
\* unless a termination read it before its config was stored.
CleanTermination ==
    \A s \in Sessions :
        phase[s] = "done" /\ s \notin rows /\ s \notin early
            => \A k \in HookKinds : s \notin live[k]

\* Within one backend the event loop shields a request: a termination reads a
\* session without its config only if the request failed, never while it runs.
EarlyOnlyAcrossBackends ==
    \A s \in early : phase[s] = "failed" \/ \E t \in Routes : Home[t] # Home[s]

\* Unless a call failed or a process crashed, the pod, disruption budget and
\* service of an answered session are gone when its terminations are over.
ReleasedUnlessInterrupted ==
    faults = 0 /\ crashes = 0 =>
        \A s \in Sessions :
            phase[s] = "done" /\ s \notin rows /\ (\A t \in Threads : Target(t) # s)
                => \A k \in ClusterKinds : s \notin live[k]

\* An idle session is terminated in the end, listed or not (terminate_idle_session
\* visits every firing alert every minute), after finitely many failures.
IdleSessionTerminated ==
    \A s \in Sessions :
        s \in Alerting /\ Combo[s] \notin Removable ~> s \notin live["pod"]

\* The reader's view of a session id refines the contract of the component.
sessionStatus ==
    [s \in Sessions |->
        CASE s \in rows -> "running"
          [] s \notin rows /\ phase[s] = "new" -> "absent"
          [] s \notin rows /\ phase[s] \in BeforeRow -> "starting"
          [] OTHER -> IF \E k \in ClusterKinds : s \in live[k] THEN "orphaned" ELSE "gone"]

Contract == INSTANCE SessionContract WITH status <- sessionStatus

\* Every step of requests, terminations, idle jobs and crashes is a step the
\* contract of a session id allows: an id is never listed twice, an unlisted
\* session never returns, and its workload goes only after the listing.
ImplementsContract == Contract!ContractSpec

\* tests/sessions/test_session_routes.py:73 and exceptions.py:118 say of
\* raise_if_conflicting_sessions: a user has one session per tool, version and type.
OneSessionPerCombination ==
    \A r1, r2 \in rows : SameCombination(r1, r2) => r1 = r2

\* hooks/session_token.py:30-32 describes the token of a session: it "is only
\* valid for the duration of the session".
TokenOnlyDuringSession ==
    \A s \in live["token"] : phase[s] \in InProgress \/ s \in rows

\* docs/docs/user/tools/capella/teamforcapella/connect/index.md:27 says that the
\* token of a session is registered with TeamForCapella, until the session ends.
SessionCredentialRegistered ==
    \A s \in rows :
        /\ phase[s] = "done" /\ HasT4C(s) /\ Owner[s] \in access
        /\ \A t \in Threads : Target(t) # s
        => credential[Owner[s]] = s

-----------------------------------------------------------------------------
(* The inductive invariant behind RowBacked, CleanTermination and            *)
(* EarlyOnlyAcrossBackends *)

\* A running request holds the loop of its backend, a waiting one does not.
LoopInv ==
    \A s \in Sessions :
        phase[s] \in InProgress \ {"awaiting"} <=> loop[Home[s]] = s

\* A row appears in the middle of a request and is backed from the start;
\* before its request nothing belongs to a session.
RowInv ==
    \A s \in Sessions :
        /\ phase[s] = "new" => \A k \in ClusterKinds : s \notin live[k]
        /\ s \in rows => phase[s] \in AfterRow \cup {"done", "failed"}
        /\ s \in rows => \A k \in ClusterKinds : s \in live[k]
        /\ phase[s] \in {"pod", "pdb", "service"} => s \in live["pod"]
        /\ phase[s] \in {"pdb", "service"} => s \in live["pdb"]
        /\ phase[s] = "service" => s \in live["service"]

\* Only configured rows of answered requests count as configured.
ConfigInv ==
    \A s \in Sessions :
        /\ s \in configured => s \in rows /\ phase[s] = "done"
        /\ phase[s] = "done" /\ s \in rows => s \in configured

\* Hooks run for sessions that once had a row, kills for those without one.
ThreadInv ==
    \A t \in Threads :
        /\ ~ Idle(t) => Target(t) \in Sessions
        /\ thread[t].step \in HookSteps \cup {"row"} =>
              phase[Target(t)] \in AfterRow \cup {"done", "failed"}
        /\ thread[t].step \in KillSteps =>
              Target(t) \notin rows /\ phase[Target(t)] \in AfterRow \cup Ended
        /\ thread[t].config /\ ~ Idle(t) => phase[Target(t)] = "done"
        /\ thread[t].step \in HookSteps \cup {"row"} /\ ~ thread[t].config =>
              Target(t) \in early

\* The steps a termination takes after it has deleted the object of kind k.
After(k) ==
    CASE k = "token" -> {"guacUser", "guacConnection", "netpol", "configmap", "sidecar", "row"}
      [] k = "guacUser" -> {"guacConnection", "netpol", "configmap", "sidecar", "row"}
      [] k = "guacConnection" -> {"netpol", "configmap", "sidecar", "row"}
      [] k = "netpol" -> {"configmap", "sidecar", "row"}
      [] k = "configmap" -> {"sidecar", "row"}
      [] k = "sidecar" -> {"row"}

\* What a termination with the config has deleted stays deleted.
DeletedInv ==
    \A t \in Threads : \A k \in HookKinds :
        thread[t].config /\ thread[t].step \in After(k) => Target(t) \notin live[k]

\* Objects of an integration exist only for combinations that use it.
IntegrationInv ==
    \A s \in Sessions :
        /\ ~ HasGuacamole(s) =>
              /\ s \notin live["guacUser"] /\ s \notin live["guacConnection"]
              /\ phase[s] \notin {"guacUser", "guacConnection"}
        /\ ~ HasLogs(s) =>
              /\ s \notin live["configmap"] /\ s \notin live["sidecar"]
              /\ phase[s] \notin {"configmap", "sidecar"}

AlertInv == \A r \in Reapers : \A s \in alerts[r] : phase[s] \in Ended

\* Until a termination reads an unfinished request, its row stays.
EarlyInv ==
    \A s \in Sessions : phase[s] \in AfterRow /\ s \notin early => s \in rows

SessionsInv ==
    /\ LoopInv /\ RowInv /\ ConfigInv /\ ThreadInv /\ DeletedInv
    /\ IntegrationInv /\ AlertInv /\ EarlyInv
    /\ CleanTermination /\ EarlyOnlyAcrossBackends

=============================================================================
