---------------------------- MODULE SessionsProofs ----------------------------
(***************************************************************************)
(* Type correctness and the safety invariants of Sessions, for every       *)
(* number of sessions, users, combinations, backends and worker threads    *)
(* and for every bound on faults and crashes, and that every behaviour of  *)
(* Sessions is one the contract of a session id allows.                    *)
(***************************************************************************)
EXTENDS Sessions, TLAPS

USE DEF NoSession, database, environment, history, requestVars, threadVars

-----------------------------------------------------------------------------
(* Type correctness *)

\* A thread without a termination has a well-formed record.
LEMMA NoTerminationType == NoTermination \in Terminations
BY DEF Terminations, NoTermination, Steps

\* Going to a step, stopping and aborting keep the threads' records well-formed.
LEMMA ThreadType ==
    ASSUME TypeOK, NEW t \in Threads, NEW p \in Steps,
           GoTo(t, p) \/ Stop(t) \/ Abort(t)
    PROVE  thread' \in [Threads -> Terminations]
<1>1. CASE GoTo(t, p)
  BY <1>1 DEF TypeOK, GoTo, Terminations
<1>2. CASE Stop(t) \/ Abort(t)
  BY <1>2, NoTerminationType DEF TypeOK, Stop, Abort
<1> QED BY <1>1, <1>2

\* So does loading a session, with whatever scope.
LEMMA LoadType ==
    ASSUME TypeOK, NEW t \in Threads, NEW s \in Sessions, NEW admin \in BOOLEAN,
           Load(t, s, admin)
    PROVE  thread' \in [Threads -> Terminations] /\ early' \in SUBSET Sessions
<1> DEFINE loaded == [step |-> "t4c", session |-> s, config |-> s \in configured,
                      expired |-> FALSE, admin |-> admin]
<1>1. loaded \in Terminations
  BY DEF Terminations, Steps, HookSteps
<1>2. thread' = [thread EXCEPT ![t] = loaded]
  BY DEF Load
<1> HIDE DEF loaded
<1> QED BY <1>1, <1>2 DEF TypeOK, Load

\* A step of a request preserves the types.
LEMMA RequestTyping ==
    ASSUME TypeOK, NEW s \in Sessions, Request(s)
    PROVE  TypeOK'
<1> USE SessionsAssumption DEF TypeOK
<1>1. ASSUME NEW p \in Phases, Advance(s, p) \/ Leave(s, p)
      PROVE  /\ phase' \in [Sessions -> Phases]
             /\ loop' \in [Backends -> Sessions \cup {NoSession}]
  BY <1>1 DEF Advance, Leave
<1>2. ASSUME NEW k \in Kinds, CreateObject(k, s)
      PROVE  live' \in [Kinds -> SUBSET Sessions]
  BY <1>2 DEF CreateObject
<1>3. InProgress \cup Ended \subseteq Phases
  BY DEF Phases
<1>4. CASE RequestSession(s) \/ ResumeRequest(s)
  BY <1>4, <1>3 DEF RequestSession, ResumeRequest, InProgress, BeforeRow
<1>5. CASE RefuseConflict(s)
  BY <1>5, <1>1, <1>3 DEF RefuseConflict, Ended
<1>6. CASE RegisterT4CUser(s) \/ RegisterT4CUserFails(s)
  <2>1. \A u \in Users : credential'[u] \in Sessions \cup {NoSession}
    BY <1>6 DEF RegisterT4CUser, RegisterT4CUserFails
  <2>2. credential' \in [Users -> Sessions \cup {NoSession}] /\ faults' \in Nat
    BY <1>6, <2>1 DEF RegisterT4CUser, RegisterT4CUserFails
  <2>3. "t4c" \in Phases
    BY <1>3 DEF InProgress, BeforeRow
  <2> QED BY <1>6, <1>1, <2>2, <2>3 DEF RegisterT4CUser, RegisterT4CUserFails
<1>7. CASE CreateSessionToken(s)
  BY <1>7, <1>1, <1>2, <1>3 DEF CreateSessionToken, InProgress, BeforeRow, Kinds, HookKinds
<1>8. CASE AwaitHooks(s)
  BY <1>8, <1>1, <1>3 DEF AwaitHooks, InProgress, BeforeRow
<1>9. CASE RejectRequest(s)
  BY <1>9, <1>1, <1>3 DEF RejectRequest, Ended
<1>10. ASSUME NEW k \in Kinds \cap InProgress, NEW p, CreateClusterObject(s, p, k)
       PROVE  TypeOK'
  BY <1>10, <1>1, <1>2, <1>3 DEF CreateClusterObject
<1>11. ClusterKinds \cup (HookKinds \ {"token"}) \subseteq Kinds \cap InProgress
  BY DEF Kinds, HookKinds, ClusterKinds, InProgress, BeforeRow, AfterRow
<1>12. CASE CreateSessionPod(s) \/ CreateDisruptionBudget(s) \/ CreateSessionService(s)
  BY <1>12, <1>10, <1>11
     DEF CreateSessionPod, CreateDisruptionBudget, CreateSessionService, ClusterKinds
<1>13. CASE CreateRow(s)
  BY <1>13, <1>1, <1>3 DEF CreateRow, InProgress, AfterRow
<1>14. CASE CreateGuacamoleUser(s) \/ CreateGuacamoleConnection(s) \/ CreateNetworkPolicy(s)
            \/ CreateConfigMap(s) \/ CreateSidecar(s)
  BY <1>14, <1>10, <1>11
     DEF CreateGuacamoleUser, CreateGuacamoleConnection, CreateNetworkPolicy,
         CreateConfigMap, CreateSidecar, HookKinds
<1>15. CASE UpdateConfig(s)
  BY <1>15, <1>1, <1>3 DEF UpdateConfig, Ended
<1>16. CASE RowVanished(s) \/ RequestFails(s)
  BY <1>16, <1>1, <1>3 DEF RowVanished, RequestFails, Ended
<1> QED
  BY <1>4, <1>5, <1>6, <1>7, <1>8, <1>9, <1>12, <1>13, <1>14, <1>15, <1>16 DEF Request

\* A step of a termination preserves the types.
LEMMA TerminateTyping ==
    ASSUME TypeOK, NEW t \in Threads, Terminate(t)
    PROVE  TypeOK'
<1> USE DEF TypeOK
<1>1. CASE RemoveT4CUser(t) \/ RemoveT4CUserFails(t)
  <2>1. thread' \in [Threads -> Terminations]
    BY <1>1, ThreadType DEF RemoveT4CUser, RemoveT4CUserFails, Steps, HookSteps
  <2> QED BY <1>1, <2>1 DEF RemoveT4CUser, RemoveT4CUserFails, GoTo
<1>2. CASE RevokeSessionToken(t)
  <2>1. ASSUME NEW next \in Steps, NEW e \in BOOLEAN
        PROVE  [thread[t] EXCEPT !.step = next, !.expired = e] \in Terminations
    BY DEF Terminations
  <2>2. /\ (IF thread[t].config /\ HasGuacamole(Target(t)) THEN "guacUser" ELSE "netpol") \in Steps
        /\ (thread[t].config /\ Target(t) \in live["token"]) \in BOOLEAN
    BY DEF Steps, HookSteps
  <2>3. thread' \in [Threads -> Terminations]
    BY <1>2, <2>1, <2>2 DEF RevokeSessionToken
  <2>4. live' \in [Kinds -> SUBSET Sessions]
    BY <1>2 DEF RevokeSessionToken
  <2> QED BY <1>2, <2>3, <2>4 DEF RevokeSessionToken
<1>3. ASSUME NEW k \in Kinds, NEW next \in Steps, ReadAndDelete(t, k, next)
      PROVE  TypeOK'
  <2>1. thread' = [thread EXCEPT ![t] = [thread[t] EXCEPT !.step = next, !.expired = FALSE]]
    BY <1>3 DEF ReadAndDelete
  <2>2. [thread[t] EXCEPT !.step = next, !.expired = FALSE] \in Terminations
    BY DEF Terminations
  <2>3. live' \in [Kinds -> SUBSET Sessions]
    BY <1>3 DEF ReadAndDelete, DeleteObject
  <2> QED BY <1>3, <2>1, <2>2, <2>3 DEF ReadAndDelete
<1>4. CASE DeleteGuacamoleUser(t) \/ DeleteGuacamoleConnection(t) \/ DeleteNetworkPolicy(t)
           \/ DeleteConfigMap(t) \/ DeleteSidecar(t)
  BY <1>4, <1>3
     DEF DeleteGuacamoleUser, DeleteGuacamoleConnection, DeleteNetworkPolicy,
         DeleteConfigMap, DeleteSidecar, Kinds, HookKinds, Steps, HookSteps
<1>5. CASE KillPod(t) \/ KillDisruptionBudget(t)
  BY <1>5, <1>3 DEF KillPod, KillDisruptionBudget, Kinds, ClusterKinds, Steps, KillSteps
<1>6. CASE SessionVanished(t) \/ TerminationFails(t)
  <2>1. thread' \in [Threads -> Terminations]
    BY <1>6, ThreadType DEF SessionVanished, TerminationFails, Steps
  <2> QED BY <1>6, <2>1 DEF SessionVanished, TerminationFails, Abort
<1>7. CASE DeleteRow(t)
  <2>1. thread' \in [Threads -> Terminations]
    BY <1>7, ThreadType DEF DeleteRow, Steps, KillSteps
  <2> QED BY <1>7, <2>1 DEF DeleteRow, GoTo
<1>8. CASE KillService(t)
  <2>1. thread' \in [Threads -> Terminations]
    BY <1>8, ThreadType DEF KillService, Steps
  <2> QED BY <1>8, <2>1 DEF KillService, Stop, DeleteObject
<1> QED BY <1>1, <1>2, <1>4, <1>5, <1>6, <1>7, <1>8 DEF Terminate

\* A step of the idle job preserves the types.
LEMMA IdleJobTyping ==
    ASSUME TypeOK, NEW r \in Reapers, IdleJob(r)
    PROVE  TypeOK'
<1> USE DEF TypeOK
<1>1. ASSUME NEW A \in SUBSET Alerting, IdleTick(r, A)
      PROVE  TypeOK'
  <2>1. A \in SUBSET Sessions
    BY DEF Alerting, Kinds, ClusterKinds
  <2> QED BY <1>1, <2>1 DEF IdleTick
<1>2. ASSUME NEW s \in Sessions, TerminateIdleSession(r, s)
      PROVE  TypeOK'
  <2>1. thread' \in [Threads -> Terminations] /\ early' \in SUBSET Sessions
    BY <1>2, LoadType DEF TerminateIdleSession, Threads
  <2> QED BY <1>2, <2>1 DEF TerminateIdleSession
<1>3. ASSUME NEW s \in Sessions, IdleJobAborts(r, s)
      PROVE  TypeOK'
  <2>1. thread' \in [Threads -> Terminations]
    BY <1>3, ThreadType DEF IdleJobAborts, Steps, Threads
  <2> QED BY <1>3, <2>1 DEF IdleJobAborts, Abort
<1>4. ASSUME NEW s \in Sessions, KillOrphan(r, s)
      PROVE  TypeOK'
  <2>1. [NoTermination EXCEPT !.step = "pod", !.session = s] \in Terminations
    BY DEF NoTermination, Terminations, Steps, KillSteps
  <2> QED BY <1>4, <2>1 DEF KillOrphan
<1> QED BY <1>1, <1>2, <1>3, <1>4 DEF IdleJob

\* The types hold initially and every step preserves them.
THEOREM TypeCorrect == Spec => []TypeOK
<1>1. Init => TypeOK
  BY SessionsAssumption, NoTerminationType DEF Init, TypeOK, Phases
<1>2. TypeOK /\ [Next]_vars => TypeOK'
  <2> SUFFICES ASSUME TypeOK, [Next]_vars PROVE TypeOK'
    OBVIOUS
  <2>1. ASSUME NEW t \in Routes, NEW s \in Sessions, TerminateSession(t, s)
        PROVE  TypeOK'
    <3>1. thread' \in [Threads -> Terminations] /\ early' \in SUBSET Sessions
      BY <2>1, LoadType DEF TerminateSession, Threads
    <3> QED BY <2>1, <3>1 DEF TerminateSession, TypeOK
  <2>2. ASSUME NEW s \in Sessions, DeleteToken(s) PROVE TypeOK'
    BY <2>2 DEF DeleteToken, DeleteObject, TypeOK
  <2>3. ASSUME NEW u \in Users, RevokeAccess(u) PROVE TypeOK'
    BY <2>3 DEF RevokeAccess, TypeOK
  <2>4. ASSUME NEW c \in Combos, RemoveConnectionMethod(c) PROVE TypeOK'
    BY <2>4 DEF RemoveConnectionMethod, TypeOK
  <2>5. ASSUME NEW b \in Backends, Crash(b) PROVE TypeOK'
    BY <2>5, NoTerminationType DEF Crash, TypeOK, Phases, Ended
  <2>6. CASE UNCHANGED vars
    BY <2>6 DEF vars, TypeOK
  <2> QED
    BY <2>1, <2>2, <2>3, <2>4, <2>5, <2>6, RequestTyping, TerminateTyping, IdleJobTyping
       DEF Next
<1> QED BY <1>1, <1>2, PTL DEF Spec

-----------------------------------------------------------------------------
(* The inductive invariant *)

\* What every step of a request for s does and what it leaves alone.
LEMMA RequestFrame ==
    ASSUME TypeOK, NEW s \in Sessions, Request(s)
    PROVE  /\ UNCHANGED <<thread, alerts, early>>
           /\ phase[s] \notin Ended
           /\ phase[s] = "new" => phase'[s] \in {"checked", "refused"}
           /\ phase[s] \in BeforeRow => phase'[s] \in BeforeRow \cup {"row", "failed"}
           /\ phase[s] \in AfterRow => phase'[s] \in AfterRow \cup {"done", "failed"}
           /\ phase'[s] \in AfterRow => phase[s] \in AfterRow \/ s \in rows'
           /\ \A q \in Sessions \ {s} : phase'[q] = phase[q]
           /\ \/ rows' = rows
              \/ phase[s] = "service" /\ rows' = rows \cup {s}
           /\ configured' = IF phase'[s] = "done" THEN configured \cup {s} ELSE configured
           /\ phase'[s] = "done" => s \in rows
           /\ \A k \in Kinds : live'[k] \in {live[k], live[k] \cup {s}}
           /\ phase[s] \notin BeforeRow => \A k \in ClusterKinds : live'[k] = live[k]
<1> USE DEF TypeOK, InProgress, BeforeRow, AfterRow, Ended, Running, Advance, Leave
<1>1. CASE RequestSession(s) \/ RefuseConflict(s)
  BY <1>1 DEF RequestSession, RefuseConflict
<1>2. CASE RegisterT4CUser(s) \/ RegisterT4CUserFails(s) \/ AwaitHooks(s) \/ ResumeRequest(s)
  BY <1>2 DEF RegisterT4CUser, RegisterT4CUserFails, AwaitHooks, ResumeRequest
<1>3. CASE RejectRequest(s) \/ RowVanished(s) \/ RequestFails(s)
  BY <1>3 DEF RejectRequest, RowVanished, RequestFails, LastHook
<1>4. CASE CreateSessionToken(s)
  BY <1>4 DEF CreateSessionToken, CreateObject, Kinds, HookKinds
<1>5. CASE CreateSessionPod(s) \/ CreateDisruptionBudget(s) \/ CreateSessionService(s)
  BY <1>5 DEF CreateSessionPod, CreateDisruptionBudget, CreateSessionService,
              CreateClusterObject, CreateObject
<1>6. CASE CreateRow(s) \/ UpdateConfig(s)
  BY <1>6 DEF CreateRow, UpdateConfig, LastHook
<1>7. CASE CreateGuacamoleUser(s) \/ CreateGuacamoleConnection(s) \/ CreateNetworkPolicy(s)
           \/ CreateConfigMap(s) \/ CreateSidecar(s)
  <2>1. PICK p \in AfterRow, k \in AfterRow \ {"row"} : CreateClusterObject(s, p, k)
    BY <1>7 DEF CreateGuacamoleUser, CreateGuacamoleConnection, CreateNetworkPolicy,
                CreateConfigMap, CreateSidecar
  <2> QED BY <2>1 DEF CreateClusterObject, CreateObject, ClusterKinds
<1> QED BY <1>1, <1>2, <1>3, <1>4, <1>5, <1>6, <1>7 DEF Request

\* What every step of a termination in thread t does and what it leaves alone.
LEMMA TerminateFrame ==
    ASSUME TypeOK, NEW t \in Threads, Terminate(t)
    PROVE  /\ UNCHANGED <<phase, loop, early>>
           /\ rows' \subseteq rows /\ configured' \subseteq configured
           /\ \A k \in Kinds : live'[k] \subseteq live[k]
           /\ \A r \in Reapers : alerts'[r] \subseteq alerts[r]
           /\ \A u \in Threads \ {t} : thread'[u] = thread[u]
           /\ \/ thread'[t] = NoTermination
              \/ /\ ~ Idle(t)
                 /\ thread'[t].session = thread[t].session
                 /\ thread'[t].config = thread[t].config
<1> USE DEF TypeOK, Terminations, Idle, At
<1>1. CASE RemoveT4CUser(t) \/ RemoveT4CUserFails(t) \/ DeleteRow(t)
  BY <1>1 DEF RemoveT4CUser, RemoveT4CUserFails, DeleteRow, GoTo
<1>2. CASE RevokeSessionToken(t)
  BY <1>2 DEF RevokeSessionToken
<1>3. CASE DeleteGuacamoleUser(t) \/ DeleteGuacamoleConnection(t) \/ DeleteNetworkPolicy(t)
           \/ DeleteConfigMap(t) \/ DeleteSidecar(t) \/ KillPod(t) \/ KillDisruptionBudget(t)
  BY <1>3 DEF DeleteGuacamoleUser, DeleteGuacamoleConnection, DeleteNetworkPolicy,
              DeleteConfigMap, DeleteSidecar, KillPod, KillDisruptionBudget,
              ReadAndDelete, DeleteObject
<1>4. CASE SessionVanished(t) \/ TerminationFails(t) \/ KillService(t)
  BY <1>4 DEF SessionVanished, TerminationFails, KillService, Abort, Stop, DeleteObject
<1> QED BY <1>1, <1>2, <1>3, <1>4 DEF Terminate

\* A termination that has the config works on an answered request.
LEMMA ThreadDone ==
    ASSUME SessionsInv, NEW t \in Threads, thread[t].config, ~ Idle(t)
    PROVE  Target(t) \in Sessions /\ phase[Target(t)] = "done"
BY DEF SessionsInv, ThreadInv

\* A step of a request preserves the inductive invariant: most parts follow from
\* RequestFrame, the others from what the single steps create.
LEMMA RequestPreserves ==
    ASSUME TypeOK, SessionsInv, NEW s \in Sessions, Request(s)
    PROVE  SessionsInv'
<1> USE SessionsAssumption, RequestFrame DEF TypeOK, InProgress, BeforeRow, AfterRow, Ended
<1>1. LoopInv'
  <2> USE DEF SessionsInv, LoopInv, Running, Advance, Leave
  <2>1. CASE RequestSession(s) \/ ResumeRequest(s) \/ AwaitHooks(s)
    BY <2>1 DEF RequestSession, ResumeRequest, AwaitHooks
  <2>2. CASE RefuseConflict(s) \/ RejectRequest(s) \/ RowVanished(s) \/ RequestFails(s) \/ UpdateConfig(s)
    BY <2>2 DEF RefuseConflict, RejectRequest, RowVanished, RequestFails, UpdateConfig, LastHook
  <2>3. CASE RegisterT4CUser(s) \/ RegisterT4CUserFails(s) \/ CreateSessionToken(s) \/ CreateRow(s)
    BY <2>3 DEF RegisterT4CUser, RegisterT4CUserFails, CreateSessionToken, CreateRow
  <2>4. CASE CreateSessionPod(s) \/ CreateDisruptionBudget(s) \/ CreateSessionService(s)
    BY <2>4 DEF CreateSessionPod, CreateDisruptionBudget, CreateSessionService, CreateClusterObject
  <2>5. CASE CreateGuacamoleUser(s) \/ CreateGuacamoleConnection(s) \/ CreateNetworkPolicy(s)
             \/ CreateConfigMap(s) \/ CreateSidecar(s)
    BY <2>5 DEF CreateGuacamoleUser, CreateGuacamoleConnection, CreateNetworkPolicy,
         CreateConfigMap, CreateSidecar, CreateClusterObject
  <2> QED BY <2>1, <2>2, <2>3, <2>4, <2>5 DEF Request
<1>2. RowInv'
  <2> USE DEF SessionsInv, RowInv, Running, Advance, Leave, ClusterKinds, Kinds
  <2>1. CASE RequestSession(s) \/ ResumeRequest(s) \/ AwaitHooks(s)
    BY <2>1 DEF RequestSession, ResumeRequest, AwaitHooks
  <2>2. CASE RefuseConflict(s) \/ RejectRequest(s) \/ RowVanished(s) \/ RequestFails(s) \/ UpdateConfig(s)
    BY <2>2 DEF RefuseConflict, RejectRequest, RowVanished, RequestFails, UpdateConfig, LastHook
  <2>3. CASE RegisterT4CUser(s) \/ RegisterT4CUserFails(s) \/ CreateSessionToken(s) \/ CreateRow(s)
    BY <2>3 DEF RegisterT4CUser, RegisterT4CUserFails, CreateSessionToken, CreateRow, CreateObject, HookKinds
  <2>4. CASE CreateSessionPod(s) \/ CreateDisruptionBudget(s) \/ CreateSessionService(s)
    BY <2>4 DEF CreateSessionPod, CreateDisruptionBudget, CreateSessionService, CreateClusterObject, CreateObject
  <2>5. CASE CreateGuacamoleUser(s) \/ CreateGuacamoleConnection(s) \/ CreateNetworkPolicy(s)
             \/ CreateConfigMap(s) \/ CreateSidecar(s)
    BY <2>5 DEF CreateGuacamoleUser, CreateGuacamoleConnection, CreateNetworkPolicy,
         CreateConfigMap, CreateSidecar, CreateClusterObject, CreateObject, HookKinds
  <2> QED BY <2>1, <2>2, <2>3, <2>4, <2>5 DEF Request
<1>3. ConfigInv'
  BY DEF SessionsInv, ConfigInv, RowInv
<1>4. ThreadInv'
  BY DEF SessionsInv, ThreadInv, Target, Idle, HookSteps, KillSteps
<1>5. DeletedInv'
  <2> SUFFICES ASSUME NEW t \in Threads, NEW k \in HookKinds,
                      thread[t].config, thread[t].step \in After(k)
               PROVE  Target(t) \notin live'[k]
    BY DEF DeletedInv, Target
  <2>1. ~ Idle(t)
    BY DEF Idle, After, HookKinds
  <2>2. Target(t) \in Sessions \ {s}
    BY <2>1, ThreadDone
  <2>3. Target(t) \notin live[k]
    BY DEF SessionsInv, DeletedInv
  <2> QED BY <2>2, <2>3 DEF Kinds
<1>6. IntegrationInv'
  <2> USE DEF SessionsInv, IntegrationInv, Running, Advance, Leave, Kinds, HookKinds
  <2>1. CASE RequestSession(s) \/ ResumeRequest(s) \/ AwaitHooks(s)
    BY <2>1 DEF RequestSession, ResumeRequest, AwaitHooks
  <2>2. CASE RefuseConflict(s) \/ RejectRequest(s) \/ RowVanished(s) \/ RequestFails(s) \/ UpdateConfig(s)
    BY <2>2 DEF RefuseConflict, RejectRequest, RowVanished, RequestFails, UpdateConfig
  <2>3. CASE RegisterT4CUser(s) \/ RegisterT4CUserFails(s) \/ CreateSessionToken(s) \/ CreateRow(s)
    BY <2>3 DEF RegisterT4CUser, RegisterT4CUserFails, CreateSessionToken, CreateRow, CreateObject
  <2>4. CASE CreateSessionPod(s) \/ CreateDisruptionBudget(s) \/ CreateSessionService(s)
    BY <2>4 DEF CreateSessionPod, CreateDisruptionBudget, CreateSessionService, CreateClusterObject, CreateObject
  <2>5. CASE CreateGuacamoleUser(s) \/ CreateGuacamoleConnection(s) \/ CreateNetworkPolicy(s)
             \/ CreateConfigMap(s) \/ CreateSidecar(s)
    BY <2>5 DEF CreateGuacamoleUser, CreateGuacamoleConnection, CreateNetworkPolicy,
         CreateConfigMap, CreateSidecar, CreateClusterObject, CreateObject
  <2> QED BY <2>1, <2>2, <2>3, <2>4, <2>5 DEF Request
<1>7. AlertInv'
  BY DEF SessionsInv, AlertInv
<1>8. EarlyInv'
  BY DEF SessionsInv, EarlyInv
<1>9. CleanTermination'
  BY DEF SessionsInv, CleanTermination, Kinds
<1>10. EarlyOnlyAcrossBackends'
  BY DEF SessionsInv, EarlyOnlyAcrossBackends
<1> QED BY <1>1, <1>2, <1>3, <1>4, <1>5, <1>6, <1>7, <1>8, <1>9, <1>10 DEF SessionsInv
\* A step of a termination preserves the inductive invariant.
LEMMA TerminatePreserves ==
    ASSUME TypeOK, SessionsInv, NEW t \in Threads, Terminate(t)
    PROVE  SessionsInv'
<1> USE SessionsAssumption, TerminateFrame
    DEF TypeOK, HookSteps, KillSteps, Idle, Target, At
<1>1. LoopInv' /\ AlertInv' /\ IntegrationInv' /\ EarlyOnlyAcrossBackends'
  BY DEF SessionsInv, LoopInv, AlertInv, IntegrationInv, EarlyOnlyAcrossBackends,
         Kinds, HookKinds
<1>2. CASE RemoveT4CUser(t) \/ RemoveT4CUserFails(t)
  <2> USE <1>2 DEF RemoveT4CUser, RemoveT4CUserFails, GoTo, SessionsInv
  <2>0. thread[t].step = "t4c" /\ thread'[t].step = "token"
    BY DEF Terminations
  <2>1. RowInv' /\ ConfigInv' /\ EarlyInv' /\ CleanTermination'
    BY DEF RowInv, ConfigInv, EarlyInv, CleanTermination
  <2>2. ThreadInv'
    BY <2>0, TerminateFrame DEF ThreadInv, NoTermination
  <2>3. DeletedInv'
    BY <2>0, TerminateFrame DEF DeletedInv, After, HookKinds
  <2> QED BY <1>1, <2>1, <2>2, <2>3
<1>3. CASE RevokeSessionToken(t)
  <2> USE <1>3 DEF RevokeSessionToken, SessionsInv
  <2>1. RowInv' /\ ConfigInv' /\ EarlyInv' /\ CleanTermination'
    BY DEF RowInv, ConfigInv, EarlyInv, CleanTermination, Kinds, HookKinds, ClusterKinds
  <2>2. ThreadInv'
    BY DEF ThreadInv
  <2>3. DeletedInv'
    BY DEF DeletedInv, IntegrationInv, ThreadInv, After, Kinds, HookKinds
  <2> QED BY <1>1, <2>1, <2>2, <2>3
<1>4. CASE DeleteGuacamoleUser(t) \/ DeleteGuacamoleConnection(t) \/ DeleteNetworkPolicy(t)
           \/ DeleteConfigMap(t) \/ DeleteSidecar(t)
  <2> USE <1>4 DEF DeleteGuacamoleUser, DeleteGuacamoleConnection, DeleteNetworkPolicy,
                   DeleteConfigMap, DeleteSidecar, ReadAndDelete, DeleteObject, SessionsInv
  <2>1. RowInv' /\ ConfigInv' /\ EarlyInv' /\ CleanTermination'
    BY DEF RowInv, ConfigInv, EarlyInv, CleanTermination, Kinds, HookKinds, ClusterKinds
  <2>2. thread[t].step \in HookSteps /\ thread'[t].step \in HookSteps \cup {"row"}
    BY DEF Terminations
  <2>3. ThreadInv'
    BY <2>2, TerminateFrame DEF ThreadInv, NoTermination
  <2>4. ASSUME NEW k \in HookKinds, thread'[t].config, thread'[t].step \in After(k)
        PROVE  Target(t) \notin live'[k]
    <3> USE <2>4 DEF DeletedInv, After, Kinds, HookKinds, NoTermination
    <3>1. CASE DeleteGuacamoleUser(t)
      BY <3>1
    <3>2. CASE DeleteGuacamoleConnection(t)
      BY <3>2
    <3>3. CASE DeleteNetworkPolicy(t)
      BY <3>3 DEF IntegrationInv, ThreadInv
    <3>4. CASE DeleteConfigMap(t)
      BY <3>4
    <3>5. CASE DeleteSidecar(t)
      BY <3>5
    <3> QED BY <3>1, <3>2, <3>3, <3>4, <3>5
  <2>5. DeletedInv'
    BY <2>4, TerminateFrame DEF DeletedInv, Kinds, NoTermination
  <2> QED BY <1>1, <2>1, <2>3, <2>5
<1>5. CASE SessionVanished(t) \/ TerminationFails(t)
  <2> USE <1>5 DEF SessionVanished, TerminationFails, Abort, NoTermination, SessionsInv
  <2>1. RowInv' /\ ConfigInv' /\ EarlyInv' /\ CleanTermination'
    BY DEF RowInv, ConfigInv, EarlyInv, CleanTermination
  <2>2. ThreadInv'
    BY DEF ThreadInv
  <2>3. DeletedInv'
    BY DEF DeletedInv
  <2> QED BY <1>1, <2>1, <2>2, <2>3
<1>6. CASE DeleteRow(t)
  <2> USE <1>6 DEF DeleteRow, GoTo, SessionsInv
  <2>1. RowInv' /\ ConfigInv'
    BY DEF RowInv, ConfigInv
  <2>2. EarlyInv'
    BY DEF EarlyInv, ThreadInv, AfterRow
  <2>3. CleanTermination'
    BY DEF CleanTermination, ThreadInv, DeletedInv, After, HookKinds
  <2>4. ThreadInv'
    BY DEF ThreadInv, AfterRow, Ended
  <2>5. DeletedInv'
    BY DEF DeletedInv, After, HookKinds
  <2> QED BY <1>1, <2>1, <2>2, <2>3, <2>4, <2>5
<1>7. CASE KillPod(t) \/ KillDisruptionBudget(t) \/ KillService(t)
  <2> USE <1>7 DEF KillPod, KillDisruptionBudget, KillService, ReadAndDelete, DeleteObject,
                   Stop, NoTermination, SessionsInv
  <2>1. RowInv' /\ ConfigInv' /\ EarlyInv' /\ CleanTermination'
    BY DEF RowInv, ConfigInv, EarlyInv, CleanTermination, ThreadInv, Ended, AfterRow,
           Kinds, HookKinds, ClusterKinds
  <2>2. thread[t].step \in KillSteps /\ thread'[t].step \in KillSteps \cup {"idle"}
    BY DEF Terminations
  <2>3. ThreadInv'
    BY <2>2, TerminateFrame DEF ThreadInv, NoTermination
  <2>4. DeletedInv'
    BY <2>2, TerminateFrame DEF DeletedInv, After, Kinds, HookKinds
  <2> QED BY <1>1, <2>1, <2>3, <2>4
<1> QED BY <1>2, <1>3, <1>4, <1>5, <1>6, <1>7 DEF Terminate

\* A termination may begin with any listed session whose request has ended or runs
\* on another backend.
LEMMA LoadPreserves ==
    ASSUME TypeOK, SessionsInv, NEW t \in Threads, NEW s \in rows, NEW admin \in BOOLEAN,
           Load(t, s, admin),
           UNCHANGED <<phase, loop, rows, configured, live>>,
           \A r \in Reapers : alerts'[r] \subseteq alerts[r],
           phase[s] \in Ended \/ (t \in Routes /\ Home[t] # Home[s])
    PROVE  SessionsInv'
<1> USE DEF TypeOK, SessionsInv, Load, HookSteps, KillSteps, Idle, Target
<1>1. LoopInv' /\ RowInv' /\ ConfigInv' /\ IntegrationInv' /\ AlertInv'
  BY DEF LoopInv, RowInv, ConfigInv, IntegrationInv, AlertInv
<1>2. EarlyInv' /\ CleanTermination'
  BY DEF EarlyInv, CleanTermination
<1>3. EarlyOnlyAcrossBackends'
  BY DEF EarlyOnlyAcrossBackends, ConfigInv, RowInv, Ended, AfterRow
<1>4. ThreadInv'
  BY DEF ThreadInv, RowInv, ConfigInv
<1>5. DeletedInv'
  BY DEF DeletedInv, After, HookKinds
<1> QED BY <1>1, <1>2, <1>3, <1>4, <1>5

\* A step of the idle job preserves the inductive invariant.
LEMMA IdleJobPreserves ==
    ASSUME TypeOK, SessionsInv, NEW r \in Reapers, IdleJob(r)
    PROVE  SessionsInv'
<1> USE DEF TypeOK, SessionsInv, HookSteps, KillSteps, Idle, Target, Threads
<1>1. ASSUME NEW A \in SUBSET Alerting, IdleTick(r, A)
      PROVE  SessionsInv'
  <2>1. AlertInv'
    BY <1>1 DEF IdleTick, AlertInv, Alerting
  <2>2. LoopInv' /\ RowInv' /\ ConfigInv' /\ ThreadInv' /\ DeletedInv' /\ IntegrationInv'
        /\ EarlyInv' /\ CleanTermination' /\ EarlyOnlyAcrossBackends'
    BY <1>1 DEF IdleTick, LoopInv, RowInv, ConfigInv, ThreadInv, DeletedInv, IntegrationInv,
                EarlyInv, CleanTermination, EarlyOnlyAcrossBackends
  <2> QED BY <2>1, <2>2
<1>2. ASSUME NEW s \in Sessions, TerminateIdleSession(r, s)
      PROVE  SessionsInv'
  <2>1. phase[s] \in Ended
    BY <1>2 DEF TerminateIdleSession, Visit, AlertInv
  <2> QED BY <1>2, <2>1, LoadPreserves DEF TerminateIdleSession
<1>3. ASSUME NEW s \in Sessions, IdleJobAborts(r, s)
      PROVE  SessionsInv'
  <2> USE <1>3 DEF IdleJobAborts, Abort, NoTermination
  <2>1. ThreadInv' /\ DeletedInv' /\ AlertInv'
    BY DEF ThreadInv, DeletedInv, AlertInv, After, HookKinds
  <2>2. LoopInv' /\ RowInv' /\ ConfigInv' /\ IntegrationInv'
        /\ EarlyInv' /\ CleanTermination' /\ EarlyOnlyAcrossBackends'
    BY DEF LoopInv, RowInv, ConfigInv, IntegrationInv,
           EarlyInv, CleanTermination, EarlyOnlyAcrossBackends
  <2> QED BY <2>1, <2>2
<1>4. ASSUME NEW s \in Sessions, KillOrphan(r, s)
      PROVE  SessionsInv'
  <2> USE <1>4 DEF KillOrphan, Visit, NoTermination
  <2>1. ThreadInv' /\ AlertInv'
    BY DEF ThreadInv, AlertInv
  <2>2. DeletedInv'
    BY DEF DeletedInv, After, HookKinds
  <2>3. LoopInv' /\ RowInv' /\ ConfigInv' /\ IntegrationInv'
        /\ EarlyInv' /\ CleanTermination' /\ EarlyOnlyAcrossBackends'
    BY DEF LoopInv, RowInv, ConfigInv, IntegrationInv,
           EarlyInv, CleanTermination, EarlyOnlyAcrossBackends
  <2> QED BY <2>1, <2>2, <2>3
<1> QED BY <1>1, <1>2, <1>3, <1>4 DEF IdleJob

\* The inductive invariant: LoopInv says which requests hold a loop, RowInv and
\* ConfigInv what a row stands for, ThreadInv and DeletedInv how far a termination
\* is, the others tie these to the integrations, the alerts and the history.
THEOREM SessionsInvariant == Spec => []SessionsInv
<1>1. Init => SessionsInv
  BY SessionsAssumption
     DEF Init, SessionsInv, LoopInv, RowInv, ConfigInv, ThreadInv, DeletedInv, IntegrationInv,
         AlertInv, EarlyInv, CleanTermination, EarlyOnlyAcrossBackends, NoTermination, Idle,
         Kinds, HookKinds, HookSteps, KillSteps, InProgress, BeforeRow, AfterRow, Ended
<1>2. TypeOK /\ SessionsInv /\ [Next]_vars => SessionsInv'
  <2> SUFFICES ASSUME TypeOK, SessionsInv, [Next]_vars PROVE SessionsInv'
    OBVIOUS
  <2>1. ASSUME NEW t \in Routes, NEW s \in Sessions, TerminateSession(t, s)
        PROVE  SessionsInv'
    <3>1. phase[s] \in Ended \/ Home[t] # Home[s]
      BY <2>1, SessionsAssumption
         DEF TerminateSession, SessionsInv, LoopInv, RowInv, InProgress, BeforeRow, AfterRow, Ended
    <3> QED BY <2>1, <3>1, LoadPreserves DEF TerminateSession, Threads
  <2>2. ASSUME NEW s \in Sessions, DeleteToken(s)
        PROVE  SessionsInv'
    <3> USE <2>2 DEF DeleteToken, DeleteObject, TypeOK, SessionsInv, Kinds, HookKinds, ClusterKinds
    <3>1. RowInv' /\ IntegrationInv' /\ CleanTermination'
      BY DEF RowInv, IntegrationInv, CleanTermination
    <3>2. ThreadInv' /\ DeletedInv'
      BY DEF ThreadInv, DeletedInv, Idle, Target
    <3> QED BY <3>1, <3>2 DEF LoopInv, ConfigInv, AlertInv, EarlyInv, EarlyOnlyAcrossBackends
  <2>3. ASSUME NEW b \in Backends, Crash(b)
        PROVE  SessionsInv'
    <3> USE <2>3, SessionsAssumption
        DEF Crash, TypeOK, SessionsInv, InProgress, BeforeRow, AfterRow, Ended
    <3>1. LoopInv' /\ RowInv' /\ ConfigInv' /\ IntegrationInv'
      BY DEF LoopInv, RowInv, ConfigInv, IntegrationInv
    <3>2. ThreadInv'
      BY DEF ThreadInv, NoTermination, Idle, Target, HookSteps, KillSteps
    <3>3. DeletedInv'
      BY DEF DeletedInv, NoTermination, Target
    <3>4. AlertInv' /\ EarlyInv' /\ CleanTermination' /\ EarlyOnlyAcrossBackends'
      BY DEF AlertInv, EarlyInv, CleanTermination, EarlyOnlyAcrossBackends
    <3> QED BY <3>1, <3>2, <3>3, <3>4
  <2>4. CASE \/ \E u \in Users : RevokeAccess(u)
             \/ \E c \in Combos : RemoveConnectionMethod(c)
             \/ UNCHANGED vars
    BY <2>4 DEF RevokeAccess, RemoveConnectionMethod, vars, SessionsInv, LoopInv, RowInv,
         ConfigInv, ThreadInv, DeletedInv, IntegrationInv, AlertInv, EarlyInv,
         CleanTermination, EarlyOnlyAcrossBackends, Idle, Target
  <2> QED
    BY <2>1, <2>2, <2>3, <2>4, RequestPreserves, TerminatePreserves, IdleJobPreserves DEF Next
<1> QED BY <1>1, <1>2, TypeCorrect, PTL DEF Spec

\* As long as a session is listed its pod, disruption budget and service exist.
THEOREM ListedSessionsAreBacked == Spec => []RowBacked
<1>1. TypeOK /\ SessionsInv => RowBacked
  BY DEF TypeOK, SessionsInv, RowInv, RowBacked
<1> QED BY <1>1, TypeCorrect, SessionsInvariant, PTL

\* A terminated session leaves nothing behind that a hook created.
THEOREM TerminationIsClean == Spec => []CleanTermination
<1>1. SessionsInv => CleanTermination
  BY DEF SessionsInv
<1> QED BY <1>1, SessionsInvariant, PTL

\* The event loop shields a running request from terminations on its backend.
THEOREM LoopShieldsRequests == Spec => []EarlyOnlyAcrossBackends
<1>1. SessionsInv => EarlyOnlyAcrossBackends
  BY DEF SessionsInv
<1> QED BY <1>1, SessionsInvariant, PTL

-----------------------------------------------------------------------------
(* What a termination releases *)

\* The steps of kill_session before the object of kind k is deleted.
Before(k) ==
    CASE k = "pod" -> {"pod"}
      [] k = "pdb" -> {"pod", "pdb"}
      [] k = "service" -> {"pod", "pdb", "service"}

\* A thread past the network policy has read its session again after the commit.
FreshInv ==
    \A t \in Threads :
        thread[t].step \in {"configmap", "sidecar", "row"} \cup KillSteps => ~ thread[t].expired

\* Some thread is about to delete the object of kind k of session s.
Released(s, k) == \E t \in Threads : Target(t) = s /\ thread[t].step \in Before(k)

\* Without interruptions, what is left of an answered session without a row is what
\* some thread is about to delete.
ReleaseInv ==
    faults = 0 /\ crashes = 0 =>
        \A s \in Sessions :
            phase[s] = "done" /\ s \notin rows =>
                \A k \in ClusterKinds : s \in live[k] => Released(s, k)

\* A step that loses no thread on its way through kill_session, lists nothing anew
\* and creates no object of an answered session.
LEMMA ReleaseKept ==
    ASSUME ReleaseInv,
           faults' = 0 => faults = 0, crashes' = 0 => crashes = 0,
           \A s \in Sessions : phase'[s] = "done" /\ s \notin rows' =>
               /\ phase[s] = "done" /\ s \notin rows
               /\ \A k \in ClusterKinds : s \in live'[k] => s \in live[k],
           \A t \in Threads : thread[t].step \in KillSteps =>
               thread'[t].step = thread[t].step /\ thread'[t].session = thread[t].session
    PROVE  ReleaseInv'
<1> SUFFICES ASSUME faults = 0, crashes = 0, NEW s \in Sessions, phase'[s] = "done", s \notin rows',
                    NEW k \in ClusterKinds, s \in live'[k]
             PROVE  \E t \in Threads : thread'[t].session = s /\ thread'[t].step \in Before(k)
  BY DEF ReleaseInv, Released, Target
<1>1. Released(s, k)
  BY DEF ReleaseInv
<1>2. PICK t \in Threads : thread[t].session = s /\ thread[t].step \in Before(k)
  BY <1>1 DEF Released, Target
<1>3. thread[t].step \in KillSteps
  BY <1>2 DEF Before, ClusterKinds, KillSteps
<1> QED BY <1>2, <1>3

\* A step of a request.
LEMMA RequestReleases ==
    ASSUME TypeOK, ReleaseInv, NEW s \in Sessions, Request(s)
    PROVE  ReleaseInv'
<1> USE RequestFrame
<1>1. (faults' = 0 => faults = 0) /\ (crashes' = 0 => crashes = 0)
  BY DEF Request, TypeOK, RequestSession, RefuseConflict, RegisterT4CUser, RegisterT4CUserFails,
     CreateSessionToken, AwaitHooks, ResumeRequest, RejectRequest, CreateSessionPod,
     CreateDisruptionBudget, CreateSessionService, CreateRow, CreateGuacamoleUser,
     CreateGuacamoleConnection, CreateNetworkPolicy, CreateConfigMap, CreateSidecar,
     UpdateConfig, RowVanished, RequestFails, CreateClusterObject
<1>2. ASSUME NEW q \in Sessions, phase'[q] = "done", q \notin rows'
      PROVE  /\ phase[q] = "done" /\ q \notin rows
             /\ \A k \in ClusterKinds : q \in live'[k] => q \in live[k]
  <2>1. q # s
    BY <1>2 DEF Ended, AfterRow
  <2> QED BY <1>2, <2>1 DEF TypeOK, Kinds
<1> QED BY <1>1, <1>2, ReleaseKept

\* A step of a termination: leaving a step of kill_session deletes its object.
LEMMA TerminateReleases ==
    ASSUME TypeOK, FreshInv, ReleaseInv, NEW t \in Threads, Terminate(t)
    PROVE  FreshInv' /\ ReleaseInv'
<1> USE TerminateFrame DEF TypeOK, At, Idle, Target
<1>1. CASE RemoveT4CUser(t) \/ RemoveT4CUserFails(t) \/ RevokeSessionToken(t)
  <2>1. thread[t].step \notin KillSteps /\ thread'[t].step \in {"token", "guacUser", "netpol"}
    BY <1>1 DEF RemoveT4CUser, RemoveT4CUserFails, RevokeSessionToken, GoTo, KillSteps, Terminations
  <2>2. (faults' = 0 => faults = 0) /\ crashes' = crashes /\ rows' = rows
    BY <1>1 DEF RemoveT4CUser, RemoveT4CUserFails, RevokeSessionToken
  <2>3. FreshInv'
    BY <2>1 DEF FreshInv, KillSteps
  <2>4. ReleaseInv'
    BY <2>1, <2>2, ReleaseKept DEF Kinds
  <2> QED BY <2>3, <2>4
<1>2. CASE DeleteGuacamoleUser(t) \/ DeleteGuacamoleConnection(t) \/ DeleteNetworkPolicy(t)
           \/ DeleteConfigMap(t) \/ DeleteSidecar(t)
  <2> USE <1>2 DEF DeleteGuacamoleUser, DeleteGuacamoleConnection, DeleteNetworkPolicy,
                   DeleteConfigMap, DeleteSidecar, ReadAndDelete
  <2>1. thread[t].step \notin KillSteps /\ ~ thread'[t].expired
    BY DEF KillSteps, Terminations
  <2>2. faults' = faults /\ crashes' = crashes /\ rows' = rows
    OBVIOUS
  <2>3. FreshInv'
    BY <2>1 DEF FreshInv, KillSteps
  <2>4. ReleaseInv'
    BY <2>1, <2>2, ReleaseKept DEF Kinds
  <2> QED BY <2>3, <2>4
<1>3. CASE SessionVanished(t)
  <2>1. thread[t].step \notin KillSteps /\ thread'[t] = NoTermination
    BY <1>3 DEF SessionVanished, Readable, FreshInv, Abort
  <2>2. faults' = faults /\ crashes' = crashes /\ rows' = rows
    BY <1>3 DEF SessionVanished
  <2>3. FreshInv'
    BY <2>1 DEF FreshInv, NoTermination
  <2>4. ReleaseInv'
    BY <2>1, <2>2, ReleaseKept DEF Kinds
  <2> QED BY <2>3, <2>4
<1>4. CASE TerminationFails(t)
  <2>1. faults' # 0
    BY <1>4 DEF TerminationFails
  <2>2. thread'[t] = NoTermination
    BY <1>4 DEF TerminationFails, Abort
  <2> QED BY <2>1, <2>2 DEF FreshInv, ReleaseInv, NoTermination
<1>5. CASE DeleteRow(t)
  <2> USE <1>5 DEF DeleteRow, GoTo
  <2>1. thread[t].step = "row" /\ thread'[t].step = "pod" /\ thread'[t].session = Target(t)
        /\ thread'[t].expired = thread[t].expired
    BY DEF Terminations
  <2>2. FreshInv'
    BY <2>1 DEF FreshInv
  <2>3. ASSUME faults = 0, crashes = 0, NEW s \in Sessions, phase[s] = "done", s \notin rows',
               NEW k \in ClusterKinds, s \in live[k]
        PROVE  \E u \in Threads : thread'[u].session = s /\ thread'[u].step \in Before(k)
    <3>1. CASE s \in rows
      BY <2>1, <2>3, <3>1 DEF Before, ClusterKinds
    <3>2. CASE s \notin rows
      <4>1. PICK u \in Threads : thread[u].session = s /\ thread[u].step \in Before(k)
        BY <2>3, <3>2 DEF ReleaseInv, Released
      <4>2. u # t
        BY <2>1, <4>1 DEF Before, ClusterKinds
      <4> QED BY <4>1, <4>2
    <3> QED BY <3>1, <3>2
  <2>4. ReleaseInv'
    BY <2>3 DEF ReleaseInv, Released
  <2> QED BY <2>2, <2>4
<1>6. CASE KillPod(t) \/ KillDisruptionBudget(t) \/ KillService(t)
  <2> USE <1>6 DEF KillPod, KillDisruptionBudget, KillService, ReadAndDelete, Stop, DeleteObject,
                   NoTermination
  <2>1. ~ thread'[t].expired
    BY DEF Terminations
  <2>2. FreshInv'
    BY <2>1 DEF FreshInv
  <2>3. ASSUME NEW k \in ClusterKinds, thread[t].step \in Before(k), Target(t) \in live'[k]
        PROVE  thread'[t].session = Target(t) /\ thread'[t].step \in Before(k)
    BY <2>3 DEF Before, ClusterKinds, Kinds, Terminations
  <2>4. ASSUME faults = 0, crashes = 0, NEW s \in Sessions, phase[s] = "done", s \notin rows,
               NEW k \in ClusterKinds, s \in live'[k]
        PROVE  \E u \in Threads : thread'[u].session = s /\ thread'[u].step \in Before(k)
    <3>1. s \in live[k]
      BY <2>4 DEF Kinds
    <3>2. PICK u \in Threads : thread[u].session = s /\ thread[u].step \in Before(k)
      BY <2>4, <3>1 DEF ReleaseInv, Released
    <3>3. CASE u = t
      BY <2>3, <2>4, <3>2, <3>3
    <3>4. CASE u # t
      BY <3>2, <3>4
    <3> QED BY <3>3, <3>4
  <2>5. ReleaseInv'
    BY <2>4 DEF ReleaseInv, Released
  <2> QED BY <2>2, <2>5
<1> QED BY <1>1, <1>2, <1>3, <1>4, <1>5, <1>6 DEF Terminate

\* A thread that was idle loads a session or goes to kill an unlisted one.
LEMMA StartReleases ==
    ASSUME TypeOK, FreshInv, ReleaseInv, NEW t \in Threads, Idle(t),
           \A u \in Threads \ {t} : thread'[u] = thread[u],
           ~ thread'[t].expired,
           UNCHANGED <<phase, rows, live, faults, crashes>>
    PROVE  FreshInv' /\ ReleaseInv'
<1>1. FreshInv'
  BY DEF FreshInv
<1>2. thread[t].step \notin KillSteps
  BY DEF Idle, KillSteps
<1>3. ReleaseInv'
  BY <1>2, ReleaseKept
<1> QED BY <1>1, <1>3

\* Unless a call failed or a process crashed, the pod, disruption budget and service of
\* an answered session are gone when its terminations are over, however many of them
\* overlap (util.terminate_session, operator.kill_session, the idle job).
THEOREM TerminationReleases == Spec => []ReleasedUnlessInterrupted
<1>1. Init => FreshInv /\ ReleaseInv
  BY DEF Init, FreshInv, ReleaseInv, NoTermination, Kinds, ClusterKinds
<1>2. TypeOK /\ FreshInv /\ ReleaseInv /\ [Next]_vars => (FreshInv /\ ReleaseInv)'
  <2> SUFFICES ASSUME TypeOK, FreshInv, ReleaseInv, [Next]_vars PROVE FreshInv' /\ ReleaseInv'
    OBVIOUS
  <2>1. ASSUME NEW s \in Sessions, Request(s) PROVE FreshInv' /\ ReleaseInv'
    <3>1. FreshInv'
      BY <2>1, RequestFrame DEF FreshInv
    <3> QED BY <2>1, <3>1, RequestReleases
  <2>2. ASSUME NEW t \in Routes, NEW s \in Sessions, TerminateSession(t, s)
        PROVE  FreshInv' /\ ReleaseInv'
    <3>1. ~ thread'[t].expired /\ \A u \in Threads \ {t} : thread'[u] = thread[u]
      BY <2>2 DEF TerminateSession, Load, TypeOK, Threads
    <3> QED BY <2>2, <3>1, StartReleases DEF TerminateSession, Threads
  <2>3. ASSUME NEW r \in Reapers, IdleJob(r) PROVE FreshInv' /\ ReleaseInv'
    <3>1. ASSUME NEW A \in SUBSET Alerting, IdleTick(r, A) PROVE FreshInv' /\ ReleaseInv'
      BY <3>1, ReleaseKept DEF IdleTick, FreshInv
    <3>2. ASSUME NEW s \in Sessions,
                 TerminateIdleSession(r, s) \/ IdleJobAborts(r, s) \/ KillOrphan(r, s)
          PROVE  FreshInv' /\ ReleaseInv'
      <4>1. ~ thread'[r].expired /\ \A u \in Threads \ {r} : thread'[u] = thread[u]
        <5>1. r \in Threads /\ thread \in [Threads -> Terminations]
          BY DEF TypeOK, Threads
        <5>2. CASE TerminateIdleSession(r, s)
          BY <5>1, <5>2 DEF TerminateIdleSession, Load
        <5>3. CASE IdleJobAborts(r, s)
          BY <5>1, <5>3 DEF IdleJobAborts, Abort, NoTermination
        <5>4. CASE KillOrphan(r, s)
          BY <5>1, <5>4 DEF KillOrphan, NoTermination
        <5> QED BY <3>2, <5>2, <5>3, <5>4
      <4>2. Idle(r) /\ UNCHANGED <<phase, rows, live, faults, crashes>>
        BY <3>2 DEF TerminateIdleSession, IdleJobAborts, KillOrphan, Visit
      <4> QED BY <4>1, <4>2, StartReleases DEF Threads
    <3> QED BY <2>3, <3>1, <3>2 DEF IdleJob
  <2>4. ASSUME NEW s \in Sessions, DeleteToken(s) PROVE FreshInv' /\ ReleaseInv'
    BY <2>4, ReleaseKept DEF DeleteToken, DeleteObject, FreshInv, TypeOK, Kinds, HookKinds, ClusterKinds
  <2>5. CASE \/ \E u \in Users : RevokeAccess(u)
             \/ \E c \in Combos : RemoveConnectionMethod(c)
             \/ UNCHANGED vars
    BY <2>5, ReleaseKept DEF RevokeAccess, RemoveConnectionMethod, vars, FreshInv
  <2>6. ASSUME NEW b \in Backends, Crash(b) PROVE FreshInv' /\ ReleaseInv'
    <3>1. crashes' # 0
      BY <2>6 DEF Crash, TypeOK
    <3> QED BY <2>6, <3>1 DEF Crash, FreshInv, ReleaseInv, NoTermination
  <2> QED BY <2>1, <2>2, <2>3, <2>4, <2>5, <2>6, TerminateReleases DEF Next
<1>3. ReleaseInv => ReleasedUnlessInterrupted
  BY DEF ReleaseInv, Released, ReleasedUnlessInterrupted
<1> QED BY <1>1, <1>2, <1>3, TypeCorrect, PTL DEF Spec

-----------------------------------------------------------------------------
(* The contract of a session id *)

\* The four ways in which a step may change the status of one session.
LEMMA StatusMove ==
    ASSUME NEW s \in Sessions,
           \A q \in Sessions \ {s} : sessionStatus'[q] = sessionStatus[q],
           \/ sessionStatus'[s] = sessionStatus[s]
           \/ sessionStatus[s] = "absent" /\ sessionStatus'[s] \in {"starting", "gone"}
           \/ sessionStatus[s] = "starting" /\ sessionStatus'[s] \in {"running", "orphaned", "gone"}
           \/ sessionStatus[s] = "running" /\ sessionStatus'[s] = "orphaned"
           \/ sessionStatus[s] = "orphaned" /\ sessionStatus'[s] = "gone"
    PROVE  [Contract!ContractNext]_sessionStatus
<1>1. sessionStatus' = [sessionStatus EXCEPT ![s] = sessionStatus'[s]]
  BY DEF sessionStatus
<1>2. CASE sessionStatus'[s] = sessionStatus[s]
  BY <1>1, <1>2 DEF sessionStatus
<1>3. CASE sessionStatus[s] = "starting" /\ sessionStatus'[s] \in {"orphaned", "gone"}
  <2> DEFINE left == [q \in {s} |-> sessionStatus'[s]]
  <2>1. left \in [{s} -> {"orphaned", "gone"}]
    BY <1>3
  <2>2. sessionStatus' = [q \in Sessions |-> IF q \in {s} THEN left[q] ELSE sessionStatus[q]]
    BY DEF sessionStatus
  <2>3. Contract!GiveUp({s})
    BY <1>3, <2>1, <2>2 DEF Contract!GiveUp
  <2> QED BY <2>3 DEF Contract!ContractNext
<1>4. CASE \/ sessionStatus[s] = "absent" /\ sessionStatus'[s] \in {"starting", "gone"}
           \/ sessionStatus[s] = "starting" /\ sessionStatus'[s] = "running"
           \/ sessionStatus[s] = "running" /\ sessionStatus'[s] = "orphaned"
           \/ sessionStatus[s] = "orphaned" /\ sessionStatus'[s] = "gone"
  <2>1. Contract!Ask(s) \/ Contract!Publish(s) \/ Contract!Withdraw(s) \/ Contract!Reap(s)
    BY <1>1, <1>4 DEF Contract!Ask, Contract!Publish, Contract!Withdraw, Contract!Reap, Contract!Move
  <2> QED BY <2>1 DEF Contract!ContractNext
<1> QED BY <1>2, <1>3, <1>4

\* A step of a request changes the status of its own session at most.
LEMMA RequestStatus ==
    ASSUME TypeOK, SessionsInv, NEW s \in Sessions, Request(s)
    PROVE  [Contract!ContractNext]_sessionStatus
<1> USE RequestFrame
<1>1. \A q \in Sessions \ {s} : sessionStatus'[q] = sessionStatus[q]
  <2>1. ASSUME NEW q \in Sessions \ {s}, NEW k \in ClusterKinds
        PROVE  q \in live'[k] <=> q \in live[k]
    BY DEF Kinds
  <2> QED BY <2>1 DEF sessionStatus
<1> USE DEF sessionStatus, SessionsInv, RowInv, InProgress, BeforeRow, AfterRow, Ended
<1>2. CASE phase[s] = "new"
  <2>1. sessionStatus[s] = "absent" /\ sessionStatus'[s] \in {"starting", "gone"}
    BY <1>2
  <2> QED BY <1>1, <2>1, StatusMove
<1>3. CASE phase[s] \in BeforeRow
  <2>1. sessionStatus[s] = "starting"
    BY <1>3
  <2>2. sessionStatus'[s] \in {"starting", "running", "orphaned", "gone"}
    BY <1>3
  <2> QED BY <1>1, <2>1, <2>2, StatusMove
<1>4. CASE phase[s] \in AfterRow
  <2>1. sessionStatus'[s] = sessionStatus[s]
    BY <1>4
  <2> QED BY <1>1, <2>1, StatusMove
<1> QED BY <1>2, <1>3, <1>4 DEF TypeOK, Phases

\* Nothing a reader of the session sees changes.
LEMMA StatusStutter ==
    ASSUME UNCHANGED <<phase, rows>>, \A k \in ClusterKinds : live'[k] = live[k]
    PROVE  UNCHANGED sessionStatus
BY DEF sessionStatus

\* A termination withdraws its session, then takes its workload down.
LEMMA TerminateStatus ==
    ASSUME TypeOK, SessionsInv, NEW t \in Threads, Terminate(t)
    PROVE  [Contract!ContractNext]_sessionStatus
<1> USE DEF TypeOK, Target, At
<1>1. CASE \/ RemoveT4CUser(t) \/ RemoveT4CUserFails(t) \/ RevokeSessionToken(t)
           \/ DeleteGuacamoleUser(t) \/ DeleteGuacamoleConnection(t) \/ DeleteNetworkPolicy(t)
           \/ DeleteConfigMap(t) \/ DeleteSidecar(t) \/ SessionVanished(t) \/ TerminationFails(t)
  <2>1. UNCHANGED <<phase, rows>> /\ \A k \in ClusterKinds : live'[k] = live[k]
    <3>1. CASE RemoveT4CUser(t) \/ RemoveT4CUserFails(t) \/ SessionVanished(t) \/ TerminationFails(t)
      BY <3>1 DEF RemoveT4CUser, RemoveT4CUserFails, SessionVanished, TerminationFails
    <3>2. CASE RevokeSessionToken(t)
      BY <3>2 DEF RevokeSessionToken, ClusterKinds
    <3>3. CASE \/ DeleteGuacamoleUser(t) \/ DeleteGuacamoleConnection(t)
               \/ DeleteNetworkPolicy(t) \/ DeleteConfigMap(t) \/ DeleteSidecar(t)
      <4>1. PICK k \in HookKinds, next \in Steps : ReadAndDelete(t, k, next)
        BY <3>3 DEF DeleteGuacamoleUser, DeleteGuacamoleConnection, DeleteNetworkPolicy,
                    DeleteConfigMap, DeleteSidecar, HookKinds, Steps, HookSteps
      <4> QED BY <4>1 DEF ReadAndDelete, DeleteObject, HookKinds, ClusterKinds
    <3> QED BY <1>1, <3>1, <3>2, <3>3
  <2> QED BY <2>1, StatusStutter
<1>2. CASE DeleteRow(t)
  <2> DEFINE s == thread[t].session
  <2>1. s \in Sessions /\ phase[s] \in AfterRow \cup {"done", "failed"}
    BY <1>2 DEF DeleteRow, SessionsInv, ThreadInv, Idle
  <2>2. rows' = rows \ {s} /\ UNCHANGED <<phase, live>>
    BY <1>2 DEF DeleteRow
  <2>3. \A q \in Sessions \ {s} : sessionStatus'[q] = sessionStatus[q]
    BY <2>2 DEF sessionStatus
  <2>4. CASE s \in rows
    <3>1. sessionStatus[s] = "running"
      BY <2>1, <2>4 DEF sessionStatus
    <3>2. sessionStatus'[s] = "orphaned"
      BY <2>1, <2>2, <2>4 DEF sessionStatus, SessionsInv, RowInv, AfterRow, BeforeRow, ClusterKinds
    <3> QED BY <2>1, <2>3, <3>1, <3>2, StatusMove
  <2>5. CASE s \notin rows
    BY <2>2, <2>5, StatusStutter
  <2> QED BY <2>4, <2>5
<1>3. CASE KillPod(t) \/ KillDisruptionBudget(t) \/ KillService(t)
  <2> DEFINE s == thread[t].session
  <2>1. /\ s \in Sessions /\ s \notin rows
        /\ phase[s] \in AfterRow \cup Ended
    BY <1>3 DEF KillPod, KillDisruptionBudget, KillService, ReadAndDelete,
                SessionsInv, ThreadInv, Idle, KillSteps
  <2>2. /\ UNCHANGED <<phase, rows>>
        /\ \A k \in ClusterKinds : live'[k] \in {live[k], live[k] \ {s}}
    BY <1>3 DEF KillPod, KillDisruptionBudget, KillService, ReadAndDelete, DeleteObject,
                Kinds
  <2>3. \A q \in Sessions \ {s} : sessionStatus'[q] = sessionStatus[q]
    <3>1. ASSUME NEW q \in Sessions \ {s}, NEW k \in ClusterKinds
          PROVE  q \in live'[k] <=> q \in live[k]
      BY <2>2
    <3> QED BY <2>2, <3>1 DEF sessionStatus
  <2>4. /\ sessionStatus[s] = IF \E k \in ClusterKinds : s \in live[k] THEN "orphaned" ELSE "gone"
        /\ sessionStatus'[s] = IF \E k \in ClusterKinds : s \in live'[k] THEN "orphaned" ELSE "gone"
    BY <2>1, <2>2 DEF sessionStatus, AfterRow, BeforeRow, Ended
  <2>5. \/ sessionStatus'[s] = sessionStatus[s]
        \/ sessionStatus[s] = "orphaned" /\ sessionStatus'[s] = "gone"
    BY <2>2, <2>4
  <2> QED BY <2>1, <2>3, <2>5, StatusMove
<1> QED BY <1>1, <1>2, <1>3 DEF Terminate

\* A crash ends every unfinished request of its backend at once.
LEMMA CrashStatus ==
    ASSUME TypeOK, SessionsInv, NEW b \in Backends, Crash(b)
    PROVE  [Contract!ContractNext]_sessionStatus
<1> DEFINE S == {s \in Sessions : sessionStatus[s] = "starting" /\ sessionStatus'[s] # "starting"}
<1> DEFINE left == [s \in S |-> sessionStatus'[s]]
<1> USE DEF TypeOK
<1>1. ASSUME NEW s \in Sessions
      PROVE  \/ sessionStatus'[s] = sessionStatus[s]
             \/ sessionStatus[s] = "starting" /\ sessionStatus'[s] \in {"orphaned", "gone"}
  BY DEF Crash, sessionStatus, InProgress, BeforeRow, AfterRow, Ended
<1>2. left \in [S -> {"orphaned", "gone"}]
  BY <1>1
<1>3. sessionStatus' = [s \in Sessions |-> IF s \in S THEN left[s] ELSE sessionStatus[s]]
  <2>1. sessionStatus' = [s \in Sessions |-> sessionStatus'[s]]
    BY DEF sessionStatus
  <2> QED BY <1>1, <2>1
<1>4. Contract!GiveUp(S)
  BY <1>2, <1>3 DEF Contract!GiveUp
<1> QED BY <1>4 DEF Contract!ContractNext

\* Sessions implements SessionContract under the refinement mapping sessionStatus.
THEOREM SessionsImplementContract == Spec => ImplementsContract
<1>1. Init => Contract!ContractInit
  <2> SUFFICES ASSUME Init PROVE sessionStatus = [s \in Sessions |-> "absent"]
    BY DEF Contract!ContractInit
  <2>1. \A s \in Sessions : s \notin rows /\ phase[s] = "new"
    BY DEF Init
  <2>2. \A s \in Sessions : sessionStatus[s] = "absent"
    BY <2>1 DEF sessionStatus, BeforeRow
  <2> QED BY <2>2 DEF sessionStatus
<1>2. TypeOK /\ SessionsInv /\ [Next]_vars => [Contract!ContractNext]_sessionStatus
  <2> SUFFICES ASSUME TypeOK, SessionsInv, [Next]_vars
               PROVE  [Contract!ContractNext]_sessionStatus
    OBVIOUS
  <2>1. CASE \/ \E t \in Routes, s \in Sessions : TerminateSession(t, s)
             \/ \E r \in Reapers : IdleJob(r)
             \/ \E u \in Users : RevokeAccess(u)
             \/ \E c \in Combos : RemoveConnectionMethod(c)
             \/ UNCHANGED vars
    <3>1. UNCHANGED <<phase, rows, live>>
      BY <2>1 DEF TerminateSession, IdleJob, IdleTick, TerminateIdleSession, IdleJobAborts,
                  KillOrphan, RevokeAccess, RemoveConnectionMethod, vars
    <3> QED BY <3>1, StatusStutter
  <2>2. CASE \E s \in Sessions : DeleteToken(s)
    <3>1. UNCHANGED <<phase, rows>> /\ \A k \in ClusterKinds : live'[k] = live[k]
      BY <2>2 DEF DeleteToken, DeleteObject, ClusterKinds, TypeOK
    <3> QED BY <3>1, StatusStutter
  <2> QED
    BY <2>1, <2>2, RequestStatus, TerminateStatus, CrashStatus DEF Next
<1> QED
  BY <1>1, <1>2, TypeCorrect, SessionsInvariant, PTL
     DEF Spec, ImplementsContract, Contract!ContractSpec

-----------------------------------------------------------------------------
(* What the violated properties come down to *)

\* A request that has not begun passes the conflict check or is refused.
LEMMA NewRequest ==
    ASSUME NEW s \in Sessions, Request(s), phase[s] = "new"
    PROVE  RequestSession(s) \/ RefuseConflict(s)
BY DEF Request, RegisterT4CUser, RegisterT4CUserFails, CreateSessionToken, AwaitHooks,
       ResumeRequest, RejectRequest, CreateSessionPod, CreateDisruptionBudget,
       CreateSessionService, CreateRow, CreateGuacamoleUser, CreateGuacamoleConnection,
       CreateNetworkPolicy, CreateConfigMap, CreateSidecar, UpdateConfig, RowVanished,
       RequestFails, CreateClusterObject, Running, LastHook, InProgress, BeforeRow, AfterRow

\* Session tokens that outlive their session: the request of the session failed after
\* it had created the token, or a termination read it before its config was stored.
TokensExplained ==
    \A s \in live["token"] :
        phase[s] \in InProgress \/ s \in rows \/ phase[s] = "failed" \/ s \in early

\* Only a request that passed the conflict check gets as far as creating a token.
TokenInv == \A s \in live["token"] : phase[s] \notin {"new", "refused"}

\* TokenOnlyDuringSession is violated; this is all that can go wrong with it: outside
\* of its session a token is left only by a failed request or an early termination
\* (routes.request_session, hooks/session_token.py).
THEOREM TokensAreExplained == Spec => []TokensExplained
<1>1. Init => TokenInv
  BY DEF Init, TokenInv, Kinds, HookKinds
<1>2. TypeOK /\ TokenInv /\ [Next]_vars => TokenInv'
  <2> SUFFICES ASSUME TypeOK, TokenInv, [Next]_vars PROVE TokenInv'
    OBVIOUS
  <2>1. ASSUME NEW s \in Sessions, Request(s) PROVE TokenInv'
    <3>1. CASE phase[s] = "new"
      <4>1. RequestSession(s) \/ RefuseConflict(s)
        BY <2>1, <3>1, NewRequest
      <4>2. live' = live
        BY <4>1 DEF RequestSession, RefuseConflict
      <4>3. live["token"] \subseteq Sessions
        BY DEF TypeOK, Kinds, HookKinds
      <4> QED BY <2>1, <3>1, <4>2, <4>3, RequestFrame DEF TokenInv
    <3>2. CASE phase[s] # "new"
      <4>1. phase'[s] \notin {"new", "refused"}
        BY <2>1, <3>2, RequestFrame
           DEF TypeOK, Phases, InProgress, BeforeRow, AfterRow, Ended
      <4>2. live'["token"] \subseteq live["token"] \cup {s}
        BY <2>1, RequestFrame DEF Kinds, HookKinds
      <4>3. \A q \in Sessions \ {s} : phase'[q] = phase[q]
        BY <2>1, RequestFrame
      <4>4. live["token"] \subseteq Sessions
        BY DEF TypeOK, Kinds, HookKinds
      <4> QED BY <4>1, <4>2, <4>3, <4>4 DEF TokenInv
    <3> QED BY <3>1, <3>2
  <2>2. ASSUME NEW t \in Threads, Terminate(t) PROVE TokenInv'
    BY <2>2, TerminateFrame DEF TokenInv, Kinds, HookKinds
  <2>3. ASSUME NEW s \in Sessions, DeleteToken(s) PROVE TokenInv'
    BY <2>3 DEF DeleteToken, DeleteObject, TokenInv, TypeOK, Kinds, HookKinds
  <2>4. ASSUME NEW b \in Backends, Crash(b) PROVE TokenInv'
    BY <2>4 DEF Crash, TokenInv, TypeOK, Kinds, HookKinds
  <2>5. CASE \/ \E t \in Routes, s \in Sessions : TerminateSession(t, s)
             \/ \E r \in Reapers : IdleJob(r)
             \/ \E u \in Users : RevokeAccess(u)
             \/ \E c \in Combos : RemoveConnectionMethod(c)
             \/ UNCHANGED vars
    <3>1. UNCHANGED <<phase, live>>
      BY <2>5 DEF TerminateSession, IdleJob, IdleTick, TerminateIdleSession, IdleJobAborts,
                  KillOrphan, RevokeAccess, RemoveConnectionMethod, vars
    <3> QED BY <3>1 DEF TokenInv
  <2> QED BY <2>1, <2>2, <2>3, <2>4, <2>5 DEF Next
<1>3. TypeOK /\ SessionsInv /\ TokenInv => TokensExplained
  <2> SUFFICES ASSUME TypeOK, SessionsInv, TokenInv, NEW s \in live["token"],
                      s \notin rows, phase[s] # "failed", s \notin early
               PROVE  phase[s] \in InProgress
    BY DEF TokensExplained
  <2>1. s \in Sessions
    BY DEF TypeOK, Kinds, HookKinds
  <2>2. phase[s] # "done"
    BY <2>1 DEF SessionsInv, CleanTermination, HookKinds
  <2> QED BY <2>1, <2>2 DEF TokenInv, TypeOK, Phases, Ended
<1> QED BY <1>1, <1>2, <1>3, TypeCorrect, SessionsInvariant, PTL DEF Spec

\* No two requests of a user for a combination are between the conflict check and the
\* insertion of the row at the same time.
ChecksDoNotOverlap ==
    \A r, s \in Sessions :
        r # s /\ SameCombination(r, s) => ~ (phase[r] \in BeforeRow /\ phase[s] \in BeforeRow)

\* While a session is listed no other one of its combination is, or is on the way.
ConflictInv ==
    \A r, s \in Sessions :
        r # s /\ SameCombination(r, s) /\ r \in rows => s \notin rows /\ phase[s] \notin BeforeRow

\* OneSessionPerCombination is violated, and only by overlapping requests: where the
\* requests of a user for a combination follow one another, raise_if_conflicting_sessions
\* suffices, whatever fails, crashes or is terminated meanwhile.
THEOREM ConflictCheckSuffices ==
    Spec /\ []ChecksDoNotOverlap => []OneSessionPerCombination
<1>1. Init => ConflictInv
  BY DEF Init, ConflictInv
<1>2. TypeOK /\ ConflictInv /\ ChecksDoNotOverlap /\ [Next]_vars => ConflictInv'
  <2> SUFFICES ASSUME TypeOK, ConflictInv, ChecksDoNotOverlap, [Next]_vars PROVE ConflictInv'
    OBVIOUS
  <2>1. ASSUME NEW q \in Sessions, Request(q) PROVE ConflictInv'
    <3> SUFFICES ASSUME NEW r \in Sessions, NEW s \in Sessions, r # s, SameCombination(r, s),
                        r \in rows'
                 PROVE  s \notin rows' /\ phase'[s] \notin BeforeRow
      BY DEF ConflictInv, SameCombination
    <3> HIDE DEF ConflictInv, ChecksDoNotOverlap
    <3>0. SameCombination(s, r)
      BY DEF SameCombination
    <3>1. CASE r \in rows
      <4>1. s \notin rows /\ phase[s] \notin BeforeRow
        BY <3>1 DEF ConflictInv
      <4>2. s \notin rows'
        BY <2>1, <4>1, RequestFrame DEF BeforeRow
      <4>3. CASE q = s /\ phase[s] = "new"
        <5>1. ~ RequestSession(s)
          BY <3>1 DEF RequestSession
        <5>2. RefuseConflict(s)
          BY <2>1, <4>3, <5>1, NewRequest
        <5>3. phase'[s] = "refused"
          BY <5>2 DEF RefuseConflict, Leave, TypeOK
        <5> QED BY <4>2, <5>3 DEF BeforeRow
      <4>4. CASE q # s \/ phase[s] # "new"
        <5>1. phase'[s] \notin BeforeRow
          BY <2>1, <4>1, <4>4, RequestFrame
             DEF TypeOK, Phases, InProgress, BeforeRow, AfterRow, Ended
        <5> QED BY <4>2, <5>1
      <4> QED BY <4>3, <4>4
    <3>2. CASE r \notin rows
      <4>1. q = r /\ phase[r] = "service" /\ rows' = rows \cup {r}
        BY <2>1, <3>2, RequestFrame
      <4>2. phase[s] \notin BeforeRow
        BY <4>1 DEF ChecksDoNotOverlap, BeforeRow
      <4>3. s \notin rows
        BY <3>0, <4>1 DEF ConflictInv, BeforeRow
      <4>4. phase'[s] = phase[s]
        BY <2>1, <4>1, RequestFrame
      <4> QED BY <4>1, <4>2, <4>3, <4>4
    <3> QED BY <3>1, <3>2
  <2>2. ASSUME NEW t \in Threads, Terminate(t) PROVE ConflictInv'
    BY <2>2, TerminateFrame DEF ConflictInv, SameCombination
  <2>3. ASSUME NEW b \in Backends, Crash(b) PROVE ConflictInv'
    BY <2>3 DEF Crash, ConflictInv, SameCombination, TypeOK, BeforeRow
  <2>4. CASE \/ \E t \in Routes, s \in Sessions : TerminateSession(t, s)
             \/ \E r \in Reapers : IdleJob(r)
             \/ \E s \in Sessions : DeleteToken(s)
             \/ \E u \in Users : RevokeAccess(u)
             \/ \E c \in Combos : RemoveConnectionMethod(c)
             \/ UNCHANGED vars
    <3>1. UNCHANGED <<phase, rows>>
      BY <2>4 DEF TerminateSession, IdleJob, IdleTick, TerminateIdleSession, IdleJobAborts,
                  KillOrphan, DeleteToken, RevokeAccess, RemoveConnectionMethod, vars
    <3> QED BY <3>1 DEF ConflictInv, SameCombination
  <2> QED BY <2>1, <2>2, <2>3, <2>4 DEF Next
<1>3. TypeOK /\ ConflictInv => OneSessionPerCombination
  BY DEF TypeOK, ConflictInv, OneSessionPerCombination
<1> QED BY <1>1, <1>2, <1>3, TypeCorrect, PTL DEF Spec

\* A user asks for one session with TeamForCapella at most.
T4CRequestsDistinct ==
    \A r, s \in Sessions : HasT4C(r) /\ HasT4C(s) /\ Owner[r] = Owner[s] => r = s

\* The steps of a termination after the credential was removed and before the row is.
Unregistered == (HookSteps \ {"t4c"}) \cup {"row"}

\* The request of s has registered its credential and no termination took it away.
Registered(s) ==
    /\ HasT4C(s) /\ Owner[s] \in access
    /\ phase[s] # "checked"
    /\ phase[s] \in BeforeRow \/ s \in rows
    /\ \A t \in Threads : thread[t].session = s => thread[t].step \notin Unregistered

\* TeamForCapella knows no user of whom no request has come that far.
UnknownInv ==
    \A s \in Sessions :
        HasT4C(s) /\ phase[s] \in {"new", "checked"} => credential[Owner[s]] = NoSession

\* It knows the password of every registered session, unless something failed.
RegisteredInv ==
    faults = 0 /\ crashes = 0 =>
        \A s \in Sessions : Registered(s) => credential[Owner[s]] = s

\* A step that changes no credential, registers no session and takes no request back.
LEMMA RegistrationKept ==
    ASSUME UnknownInv, RegisteredInv, credential' = credential,
           faults' = 0 => faults = 0, crashes' = 0 => crashes = 0,
           \A s \in Sessions : phase'[s] \in {"new", "checked"} => phase[s] \in {"new", "checked"},
           \A s \in Sessions : Registered(s)' => Registered(s)
    PROVE  UnknownInv' /\ RegisteredInv'
<1>1. UnknownInv'
  BY DEF UnknownInv, HasT4C
<1>2. RegisteredInv'
  BY DEF RegisteredInv
<1> QED BY <1>1, <1>2

\* A step of a request registers the credential of its session.
LEMMA RequestRegisters ==
    ASSUME TypeOK, SessionsInv, UnknownInv, RegisteredInv, T4CRequestsDistinct,
           NEW s \in Sessions, Request(s)
    PROVE  UnknownInv' /\ RegisteredInv'
<1> USE SessionsAssumption
<1>1. CASE RegisterT4CUser(s)
  <2>1. phase[s] = "checked" /\ phase' = [phase EXCEPT ![s] = "t4c"]
    BY <1>1 DEF RegisterT4CUser, Running, Advance
  <2>2. credential' = [credential EXCEPT ![Owner[s]] =
            IF HasT4C(s) /\ Owner[s] \in access /\ @ = NoSession THEN s ELSE @]
    BY <1>1 DEF RegisterT4CUser
  <2>3. UNCHANGED <<rows, access, thread, faults, crashes>>
    BY <1>1 DEF RegisterT4CUser
  <2>4. ASSUME NEW q \in Sessions, HasT4C(q), q # s
        PROVE  credential'[Owner[q]] = credential[Owner[q]] /\ phase'[q] = phase[q]
    <3>1. CASE HasT4C(s)
      <4>1. Owner[q] # Owner[s]
        BY <2>4, <3>1 DEF T4CRequestsDistinct
      <4> QED BY <2>1, <2>2, <2>4, <4>1 DEF TypeOK
    <3>2. CASE ~ HasT4C(s)
      BY <2>1, <2>2, <2>4, <3>2 DEF TypeOK
    <3> QED BY <3>1, <3>2
  <2>5. phase'[s] = "t4c"
    BY <2>1 DEF TypeOK
  <2>6. ASSUME HasT4C(s), Owner[s] \in access PROVE credential'[Owner[s]] = s
    <3>1. credential[Owner[s]] = NoSession
      BY <2>1, <2>6 DEF UnknownInv
    <3> QED BY <2>2, <2>6, <3>1 DEF TypeOK
  <2>7. UnknownInv'
    <3> SUFFICES ASSUME NEW q \in Sessions, HasT4C(q), phase'[q] \in {"new", "checked"}
                 PROVE  credential'[Owner[q]] = NoSession
      BY DEF UnknownInv, HasT4C
    <3> QED BY <2>4, <2>5 DEF UnknownInv
  <2>8. RegisteredInv'
    <3> SUFFICES ASSUME faults = 0, crashes = 0, NEW q \in Sessions, Registered(q)'
                 PROVE  credential'[Owner[q]] = q
      BY <2>3 DEF RegisteredInv
    <3>1. HasT4C(q) /\ Owner[q] \in access
      BY <2>3 DEF Registered, HasT4C
    <3>2. CASE q = s
      BY <2>6, <3>1, <3>2
    <3>3. CASE q # s
      <4>1. Registered(q)
        BY <2>3, <2>4, <3>1, <3>3 DEF Registered, HasT4C
      <4> QED BY <2>4, <3>1, <3>3, <4>1 DEF RegisteredInv
    <3> QED BY <3>2, <3>3
  <2> QED BY <2>7, <2>8
<1>2. CASE ~ RegisterT4CUser(s) /\ ~ RegisterT4CUserFails(s)
  <2>1. /\ UNCHANGED <<credential, access, crashes>>
        /\ faults' = 0 => faults = 0
        /\ phase[s] = "checked" => phase'[s] = "failed"
        /\ phase'[s] = "checked" => phase[s] = "new"
    BY <1>2 DEF Request, TypeOK, RequestSession, RefuseConflict,
       CreateSessionToken, AwaitHooks, ResumeRequest, RejectRequest, CreateSessionPod,
       CreateDisruptionBudget, CreateSessionService, CreateRow, CreateGuacamoleUser,
       CreateGuacamoleConnection, CreateNetworkPolicy, CreateConfigMap, CreateSidecar,
       UpdateConfig, RowVanished, RequestFails, CreateClusterObject, Running, Leave, Advance,
       LastHook
  <2>2. ASSUME NEW q \in Sessions, phase'[q] \in {"new", "checked"}
        PROVE  phase[q] \in {"new", "checked"}
    BY <2>1, <2>2, RequestFrame DEF TypeOK, Phases, InProgress, BeforeRow, AfterRow, Ended
  <2>3. ASSUME NEW q \in Sessions, Registered(q)' PROVE Registered(q)
    <3>1. CASE q # s
      BY <2>1, <2>3, <3>1, RequestFrame DEF Registered, HasT4C
    <3>2. CASE q = s
      <4>1. thread' = thread /\ HasT4C(s) /\ Owner[s] \in access
        BY <2>1, <2>3, <3>2, RequestFrame DEF Registered, HasT4C
      <4>2. phase[s] # "checked" /\ (phase[s] \in BeforeRow \/ s \in rows)
        <5>1. s \notin rows \/ phase[s] \in AfterRow
          BY RequestFrame DEF SessionsInv, RowInv, Ended
        <5>2. CASE s \in rows
          BY <5>1, <5>2 DEF AfterRow
        <5>3. CASE s \notin rows
          BY <2>1, <2>3, <3>2, <5>3, RequestFrame
             DEF Registered, TypeOK, Phases, InProgress, BeforeRow, AfterRow, Ended
        <5> QED BY <5>2, <5>3
      <4> QED BY <2>3, <3>2, <4>1, <4>2 DEF Registered
    <3> QED BY <3>1, <3>2
  <2> QED BY <2>1, <2>2, <2>3, RegistrationKept
<1>3. CASE RegisterT4CUserFails(s)
  <2>1. faults' # 0 /\ credential' = credential
    BY <1>3 DEF RegisterT4CUserFails, TypeOK
  <2>2. UnknownInv'
    BY <1>3, <2>1 DEF RegisterT4CUserFails, UnknownInv, HasT4C, TypeOK, Advance
  <2>3. RegisteredInv'
    BY <2>1 DEF RegisteredInv
  <2> QED BY <2>2, <2>3
<1> QED BY <1>1, <1>2, <1>3

\* A termination removes the credential of its own session and then deletes the row.
LEMMA TerminateRegisters ==
    ASSUME TypeOK, SessionsInv, UnknownInv, RegisteredInv, T4CRequestsDistinct,
           NEW t \in Threads, Terminate(t)
    PROVE  UnknownInv' /\ RegisteredInv'
<1> DEFINE q == thread[t].session
<1> USE SessionsAssumption DEF At, Idle, Target
<1>1. CASE RemoveT4CUser(t)
  <2>1. q \in Sessions /\ thread[t].step = "t4c"
    BY <1>1 DEF RemoveT4CUser, SessionsInv, ThreadInv
  <2>2. /\ thread' = [thread EXCEPT ![t].step = "token"]
        /\ UNCHANGED <<phase, rows, access, faults, crashes>>
        /\ credential' = [credential EXCEPT ![Owner[q]] =
               IF HasT4C(q) /\ (Owner[q] \in access \/ thread[t].admin) THEN NoSession ELSE @]
    BY <1>1 DEF RemoveT4CUser, GoTo
  <2>3. thread'[t].step = "token" /\ thread'[t].session = q
    BY <2>2 DEF TypeOK, Terminations
  <2>4. ASSUME NEW s \in Sessions, HasT4C(s), s # q
        PROVE  credential'[Owner[s]] = credential[Owner[s]]
    <3>1. CASE HasT4C(q)
      <4>1. Owner[s] # Owner[q]
        BY <2>1, <2>4, <3>1 DEF T4CRequestsDistinct
      <4> QED BY <2>1, <2>2, <4>1 DEF TypeOK
    <3>2. CASE ~ HasT4C(q)
      BY <2>1, <2>2, <3>2 DEF TypeOK
    <3> QED BY <3>1, <3>2
  <2>5. UnknownInv'
    BY <2>1, <2>2, <2>4 DEF UnknownInv, HasT4C, TypeOK
  <2>6. RegisteredInv'
    <3> SUFFICES ASSUME faults = 0, crashes = 0, NEW s \in Sessions, Registered(s)'
                 PROVE  credential'[Owner[s]] = s
      BY <2>2 DEF RegisteredInv
    <3>1. s # q
      BY <2>3 DEF Registered, Unregistered, HookSteps
    <3>2. HasT4C(s)
      BY DEF Registered, HasT4C
    <3>3. ASSUME NEW u \in Threads, thread[u].session = s PROVE thread[u].step \notin Unregistered
      <4>1. u # t
        BY <3>1, <3>3
      <4> QED BY <2>2, <3>3, <4>1 DEF Registered, TypeOK
    <3>4. Registered(s)
      BY <2>2, <3>2, <3>3 DEF Registered
    <3> QED BY <2>4, <3>1, <3>2, <3>4 DEF RegisteredInv
  <2> QED BY <2>5, <2>6
<1>2. CASE RemoveT4CUserFails(t) \/ TerminationFails(t)
  <2>1. faults' # 0 /\ UNCHANGED <<credential, phase>>
    BY <1>2 DEF RemoveT4CUserFails, TerminationFails, TypeOK
  <2> QED BY <2>1 DEF UnknownInv, RegisteredInv, HasT4C
<1>3. CASE \/ RevokeSessionToken(t) \/ DeleteGuacamoleUser(t) \/ DeleteGuacamoleConnection(t)
           \/ DeleteNetworkPolicy(t) \/ DeleteConfigMap(t) \/ DeleteSidecar(t)
           \/ SessionVanished(t) \/ DeleteRow(t)
           \/ KillPod(t) \/ KillDisruptionBudget(t) \/ KillService(t)
  <2>1. UNCHANGED <<phase, credential, access, faults, crashes>> /\ rows' \subseteq rows
    BY <1>3, TerminateFrame
       DEF RevokeSessionToken, DeleteGuacamoleUser, DeleteGuacamoleConnection, DeleteNetworkPolicy,
           DeleteConfigMap, DeleteSidecar, SessionVanished, DeleteRow, KillPod,
           KillDisruptionBudget, KillService, ReadAndDelete
  <2>2. ASSUME thread[t].step \in Unregistered
        PROVE  \/ thread'[t].session = q /\ thread'[t].step \in Unregistered
               \/ q \notin rows' /\ phase[q] \notin BeforeRow
    <3>1. phase[q] \notin BeforeRow
      BY <2>2 DEF SessionsInv, ThreadInv, Unregistered, HookSteps, BeforeRow, AfterRow
    <3>2. CASE RevokeSessionToken(t)
      BY <3>2 DEF RevokeSessionToken, TypeOK, Terminations, Unregistered, HookSteps
    <3>3. CASE \/ DeleteGuacamoleUser(t) \/ DeleteGuacamoleConnection(t)
               \/ DeleteNetworkPolicy(t) \/ DeleteConfigMap(t) \/ DeleteSidecar(t)
      BY <3>3 DEF DeleteGuacamoleUser, DeleteGuacamoleConnection, DeleteNetworkPolicy,
                  DeleteConfigMap, DeleteSidecar, ReadAndDelete, TypeOK, Terminations,
                  Unregistered, HookSteps
    <3>4. CASE SessionVanished(t)
      BY <3>1, <3>4 DEF SessionVanished, Readable
    <3>5. CASE DeleteRow(t)
      BY <3>1, <3>5 DEF DeleteRow
    <3>6. CASE KillPod(t) \/ KillDisruptionBudget(t) \/ KillService(t)
      BY <2>2, <3>6 DEF KillPod, KillDisruptionBudget, KillService, ReadAndDelete,
                        Unregistered, HookSteps
    <3> QED BY <1>3, <3>2, <3>3, <3>4, <3>5, <3>6
  <2>3. ASSUME NEW s \in Sessions, Registered(s)' PROVE Registered(s)
    <3>1. ASSUME NEW u \in Threads, thread[u].session = s PROVE thread[u].step \notin Unregistered
      <4>1. CASE u = t
        BY <2>1, <2>2, <2>3, <3>1, <4>1 DEF Registered
      <4>2. CASE u # t
        BY <2>3, <3>1, <4>2, TerminateFrame DEF Registered
      <4> QED BY <4>1, <4>2
    <3> QED BY <2>1, <2>3, <3>1 DEF Registered, HasT4C
  <2> QED BY <2>1, <2>3, RegistrationKept
<1> QED BY <1>1, <1>2, <1>3 DEF Terminate

\* A thread that was idle goes to a step at which the credential is still registered.
LEMMA StartRegisters ==
    ASSUME UnknownInv, RegisteredInv, NEW t \in Threads, Idle(t),
           \A u \in Threads \ {t} : thread'[u] = thread[u],
           UNCHANGED <<phase, rows, credential, access, faults, crashes>>
    PROVE  UnknownInv' /\ RegisteredInv'
<1>1. ASSUME NEW s \in Sessions, Registered(s)' PROVE Registered(s)
  BY <1>1 DEF Registered, HasT4C, Idle, Unregistered, HookSteps
<1> QED BY <1>1, RegistrationKept

\* SessionCredentialRegistered is violated even if nothing fails, and only because one
\* user may hold two sessions with TeamForCapella: if nobody asks for a second one, the
\* password of every answered session is registered until its termination begins.
THEOREM OneT4CSessionKeepsItsCredential ==
    T4CRequestsDistinct /\ Spec => [](faults = 0 /\ crashes = 0 => SessionCredentialRegistered)
<1> SUFFICES ASSUME T4CRequestsDistinct
             PROVE  Spec => [](faults = 0 /\ crashes = 0 => SessionCredentialRegistered)
  OBVIOUS
<1>1. Init => UnknownInv /\ RegisteredInv
  BY SessionsAssumption DEF Init, UnknownInv, RegisteredInv, Registered, BeforeRow
<1>2. TypeOK /\ SessionsInv /\ UnknownInv /\ RegisteredInv /\ [Next]_vars
        => UnknownInv' /\ RegisteredInv'
  <2> SUFFICES ASSUME TypeOK, SessionsInv, UnknownInv, RegisteredInv, [Next]_vars
               PROVE  UnknownInv' /\ RegisteredInv'
    OBVIOUS
  <2>1. ASSUME NEW t \in Routes, NEW s \in Sessions, TerminateSession(t, s)
        PROVE  UnknownInv' /\ RegisteredInv'
    <3>1. \A u \in Threads \ {t} : thread'[u] = thread[u]
      BY <2>1 DEF TerminateSession, Load, TypeOK
    <3> QED BY <2>1, <3>1, StartRegisters DEF TerminateSession, Threads
  <2>2. ASSUME NEW r \in Reapers, IdleJob(r) PROVE UnknownInv' /\ RegisteredInv'
    <3>1. ASSUME NEW A \in SUBSET Alerting, IdleTick(r, A) PROVE UnknownInv' /\ RegisteredInv'
      <4>1. UNCHANGED <<phase, rows, credential, access, thread, faults, crashes>>
        BY <3>1 DEF IdleTick
      <4> QED BY <4>1, RegistrationKept DEF Registered, HasT4C
    <3>2. ASSUME NEW s \in Sessions,
                 TerminateIdleSession(r, s) \/ IdleJobAborts(r, s) \/ KillOrphan(r, s)
          PROVE  UnknownInv' /\ RegisteredInv'
      <4>1. \A u \in Threads \ {r} : thread'[u] = thread[u]
        BY <3>2 DEF TypeOK, TerminateIdleSession, IdleJobAborts, KillOrphan, Load, Abort
      <4>2. Idle(r) /\ UNCHANGED <<phase, rows, credential, access, faults, crashes>>
        BY <3>2 DEF TerminateIdleSession, IdleJobAborts, KillOrphan, Visit
      <4> QED BY <4>1, <4>2, StartRegisters DEF Threads
    <3> QED BY <2>2, <3>1, <3>2 DEF IdleJob
  <2>3. CASE \/ \E s \in Sessions : DeleteToken(s)
             \/ \E u \in Users : RevokeAccess(u)
             \/ \E c \in Combos : RemoveConnectionMethod(c)
             \/ UNCHANGED vars
    <3>1. /\ UNCHANGED <<phase, rows, credential, thread, faults, crashes>>
          /\ access' \subseteq access
      BY <2>3 DEF DeleteToken, RevokeAccess, RemoveConnectionMethod, vars
    <3> QED BY <3>1, RegistrationKept DEF Registered, HasT4C
  <2>4. ASSUME NEW b \in Backends, Crash(b) PROVE UnknownInv' /\ RegisteredInv'
    <3>1. crashes' # 0 /\ credential' = credential
      BY <2>4 DEF Crash, TypeOK
    <3>2. \A s \in Sessions : phase'[s] \in {"new", "checked"} => phase[s] \in {"new", "checked"}
      BY <2>4 DEF Crash, TypeOK
    <3> QED BY <3>1, <3>2 DEF UnknownInv, RegisteredInv, HasT4C
  <2> QED BY <2>1, <2>2, <2>3, <2>4, RequestRegisters, TerminateRegisters DEF Next
<1>3. TypeOK /\ RegisteredInv => (faults = 0 /\ crashes = 0 => SessionCredentialRegistered)
  <2> SUFFICES ASSUME RegisteredInv, faults = 0, crashes = 0, TypeOK,
                      NEW s \in rows, phase[s] = "done", HasT4C(s), Owner[s] \in access,
                      \A t \in Threads : Target(t) # s
               PROVE  credential[Owner[s]] = s
    BY DEF SessionCredentialRegistered
  <2>1. s \in Sessions
    BY DEF TypeOK
  <2>2. Registered(s)
    BY DEF Registered, Target
  <2> QED BY <2>1, <2>2 DEF RegisteredInv
<1> QED BY <1>1, <1>2, <1>3, TypeCorrect, SessionsInvariant, PTL DEF Spec

=============================================================================
