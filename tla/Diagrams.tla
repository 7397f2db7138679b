------------------------------- MODULE Diagrams -------------------------------
(***************************************************************************)
(* ModelDiagramDialogComponent: the exported diagrams of a model.  The     *)
(* dialog reads the list of diagrams, then, as the user scrolls, each of   *)
(* them; clearing the cache starts all over.                               *)
(*                                                                         *)
(* An export is a commit on the branch of the diagram cache or a job of    *)
(* the model's repository.  The backend (GitHandler.get_file_or_artifact)  *)
(* reads the branch first and names no job then; else it reads the last    *)
(* successful job, whose id the list names and the dialog sends along with *)
(* every diagram it asks for.  A file of the branch is cached under its    *)
(* date, which is read anew each time; the artifact of a job never changes,*)
(* so its cache is left out.                                               *)
(***************************************************************************)
EXTENDS Integers, Sequences, SequencesExt, Api

CONSTANTS
    Uuids,           \* the diagrams
    MaxExports,      \* bound on the commits of the branch, and on the jobs
    MaxDiagramCalls  \* bound on the requests under way

Index == "index"
Files == Uuids \cup {Index}

ASSUME DiagramsAssumption ==
    Index \notin Uuids /\ MaxExports \in Nat /\ MaxDiagramCalls \in Nat \ {0}

VARIABLES
    diagramsOpen,     \* the dialog is open
    diagramMetadata,  \* the export the list is of, or NotRead
    diagrams,         \* of each diagram: NotRead, Awaited, Broken or its export
    diagramHead,      \* the repository: the last commit of the branch, 0 without one
    diagramJob,       \* the repository: the last successful job, 0 without one
    diagramFiles,     \* the backend: the cached files of the branch
    diagramCalls,     \* the requests under way
    diagramsLate      \* the cache was cleared while an answer was awaited

dialogOfDiagrams == <<diagramsOpen, diagramMetadata, diagrams, diagramsLate>>
diagramVars == <<dialogOfDiagrams, diagramHead, diagramJob, diagramFiles, diagramCalls>>

Export(source, number) == [of |-> source, at |-> number]
NotRead == Export("nothing", 0)
Awaited == Export("awaited", 0)
Broken == Export("broken", 0)
Exports == {Export(source, n) : source \in {"branch", "job"}, n \in 1 .. MaxExports}

Model == "model"
NoJob == 0

\* job: the job a diagram is asked of; dated: the date of the file, once it is read.
DiagramCall(request, file, job) ==
    [request |-> request, file |-> file, job |-> job, dated |-> 0, served |-> FALSE, answer |-> NotRead]
MetadataCall == DiagramCall(GetDiagramMetadata(Model), Index, NoJob)
ClearCall == DiagramCall(EmptyCache(Model), Index, NoJob)
IsCall(call, pattern) == call.request = pattern.request
IsDiagram(call) == call.request.about = "diagram"

\* diagramMetadata.job_id: none if the list was read from the branch.
JobOf(metadata) == IF metadata.of = "job" THEN metadata.at ELSE NoJob

NoDiagrams == [uuid \in Uuids |-> NotRead]
NoFile == [dated |-> 0, content |-> 0]
EmptyFiles == [file \in Files |-> NoFile]

DialogOpens ==
    /\ diagramsOpen' = TRUE
    /\ diagramMetadata' = NotRead
    /\ diagrams' = NoDiagrams
    /\ diagramCalls' = <<MetadataCall>>
    /\ diagramsLate' = FALSE

DiagramsInit ==
    /\ diagramsOpen = TRUE
    /\ diagramMetadata = NotRead
    /\ diagrams = NoDiagrams
    /\ diagramHead = 0 /\ diagramJob = 0
    /\ diagramFiles = EmptyFiles
    /\ diagramCalls = <<MetadataCall>>
    /\ diagramsLate = FALSE

----------------------------------------------------------------------------
(* The repository, and other users of the backend *)

DiagramsCommitted ==
    /\ diagramHead < MaxExports
    /\ diagramHead' = diagramHead + 1
    /\ UNCHANGED <<dialogOfDiagrams, diagramJob, diagramFiles, diagramCalls>>

JobEnds ==
    /\ diagramJob < MaxExports
    /\ diagramJob' = diagramJob + 1
    /\ UNCHANGED <<dialogOfDiagrams, diagramHead, diagramFiles, diagramCalls>>

\* Mutant: what is cached is used whatever its date.
IsAnyFile(cached, dated) == cached # NoFile

IsCurrent(cached, dated) == cached.dated = dated

\* get_file, after the date of the file was read: its content then comes from the cache or
\* the head of the branch.
FileRead(file, dated) ==
    IF IsCurrent(diagramFiles[file], dated)
    THEN diagramFiles[file]
    ELSE [dated |-> dated, content |-> diagramHead]

\* A request of another dialog, or a download, which names no job, leaves its file in the
\* cache; a file expires, or another dialog clears the cache.
OthersRead(file) ==
    /\ \E dated \in 1 .. diagramHead : diagramFiles' = [diagramFiles EXCEPT ![file] = FileRead(file, dated)]
    /\ UNCHANGED <<dialogOfDiagrams, diagramHead, diagramJob, diagramCalls>>

FileExpires(file) ==
    /\ diagramFiles' = [diagramFiles EXCEPT ![file] = NoFile]
    /\ UNCHANGED <<dialogOfDiagrams, diagramHead, diagramJob, diagramCalls>>

----------------------------------------------------------------------------
(* The dialog *)

\* The dialog is opened again; what an earlier one sent is left to the others.
OpenDiagrams == DialogOpens /\ UNCHANGED <<diagramHead, diagramJob, diagramFiles>>

ClearCache ==
    /\ diagramsOpen /\ Len(diagramCalls) < MaxDiagramCalls
    /\ diagramMetadata' = NotRead
    /\ diagrams' = NoDiagrams
    /\ diagramCalls' = Append(diagramCalls, ClearCall)
    /\ diagramsLate' = (diagramsLate \/ diagramCalls # <<>>)
    /\ UNCHANGED <<diagramsOpen, diagramHead, diagramJob, diagramFiles>>

\* lazyLoadDiagram: a diagram that is listed scrolls into view.
LazyLoadDiagram(uuid) ==
    LET call == DiagramCall(GetDiagram(Model, uuid), uuid, JobOf(diagramMetadata)) IN
    /\ diagramsOpen /\ diagramMetadata # NotRead /\ diagrams[uuid] = NotRead
    /\ Len(diagramCalls) < MaxDiagramCalls
    /\ diagrams' = [diagrams EXCEPT ![uuid] = Awaited]
    /\ diagramCalls' = Append(diagramCalls, call)
    /\ UNCHANGED <<diagramsOpen, diagramMetadata, diagramHead, diagramJob, diagramFiles, diagramsLate>>

----------------------------------------------------------------------------
(* The backend, and the answers *)

\* get_last_updated_for_file: without a job to read, the branch is looked up.
ReadDate(i) ==
    LET call == diagramCalls[i] IN
    /\ ~call.served /\ call.dated = 0 /\ ~IsCall(call, ClearCall)
    /\ call.job = NoJob /\ diagramHead > 0
    /\ diagramCalls' = [diagramCalls EXCEPT ![i].dated = diagramHead]
    /\ UNCHANGED <<dialogOfDiagrams, diagramHead, diagramJob, diagramFiles>>

AnswerCall(i, answer) ==
    /\ ~diagramCalls[i].served
    /\ diagramCalls' = [diagramCalls EXCEPT ![i] = [@ EXCEPT !.served = TRUE, !.answer = answer]]
    /\ UNCHANGED <<dialogOfDiagrams, diagramHead, diagramJob>>

ReadFile(i) ==
    LET call == diagramCalls[i]
        read == FileRead(call.file, call.dated)
    IN  /\ call.dated # 0
        /\ diagramFiles' = [diagramFiles EXCEPT ![call.file] = read]
        /\ AnswerCall(i, Export("branch", read.content))

\* get_artifact: of the job asked for, or of the last one if the branch does not have the
\* file or could not be read.
ReadArtifact(i) ==
    LET call == diagramCalls[i]
        job == IF call.job = NoJob THEN diagramJob ELSE call.job
    IN  /\ ~IsCall(call, ClearCall) /\ job # 0
        /\ AnswerCall(i, Export("job", job))
        /\ UNCHANGED diagramFiles

ServeClear(i) ==
    /\ IsCall(diagramCalls[i], ClearCall)
    /\ diagramFiles' = EmptyFiles
    /\ AnswerCall(i, NotRead)

DiagramAnswered(i) ==
    LET call == diagramCalls[i]
        rest == RemoveAt(diagramCalls, i)
    IN  /\ call.served
        /\ diagramCalls' = IF IsCall(call, ClearCall) THEN Append(rest, MetadataCall) ELSE rest
        /\ diagramMetadata' = IF IsCall(call, MetadataCall) THEN call.answer ELSE diagramMetadata
        /\ diagrams' = IF IsDiagram(call) THEN [diagrams EXCEPT ![call.file] = call.answer] ELSE diagrams
        /\ UNCHANGED <<diagramsOpen, diagramHead, diagramJob, diagramFiles, diagramsLate>>

\* Without metadata the dialog closes; a diagram that fails is shown as broken.
DiagramFailed(i) ==
    LET call == diagramCalls[i] IN
    /\ diagramCalls' = RemoveAt(diagramCalls, i)
    /\ diagramsOpen' = (diagramsOpen /\ ~IsCall(call, MetadataCall))
    /\ diagrams' = IF IsDiagram(call) THEN [diagrams EXCEPT ![call.file] = Broken] ELSE diagrams
    /\ UNCHANGED <<diagramMetadata, diagramHead, diagramJob, diagramFiles, diagramsLate>>

DiagramsNext ==
    \/ DiagramsCommitted
    \/ JobEnds
    \/ \E file \in Files : OthersRead(file) \/ FileExpires(file)
    \/ OpenDiagrams
    \/ ClearCache
    \/ \E uuid \in Uuids : LazyLoadDiagram(uuid)
    \/ \E i \in DOMAIN diagramCalls :
          \/ ReadDate(i) \/ ReadFile(i) \/ ReadArtifact(i) \/ ServeClear(i)
          \/ DiagramAnswered(i) \/ DiagramFailed(i)

DiagramsSpec == DiagramsInit /\ [][DiagramsNext]_diagramVars

----------------------------------------------------------------------------
(* Properties *)

DiagramsTypeOK ==
    /\ {diagramsOpen, diagramsLate} \subseteq BOOLEAN
    /\ diagramMetadata \in Exports \cup {NotRead}
    /\ diagrams \in [Uuids -> Exports \cup {NotRead, Awaited, Broken}]
    /\ {diagramHead, diagramJob} \subseteq 0 .. MaxExports
    /\ diagramFiles \in [Files -> [dated : 0 .. MaxExports, content : 0 .. MaxExports]]
    /\ Len(diagramCalls) <= MaxDiagramCalls

\* Under a list that names a job, every diagram is of that job.  Under a list of the
\* branch, no diagram of the branch is older than the list, whatever the cache held, but
\* it may be newer, and one the branch could not give is of the last job instead.  Unless
\* the cache was cleared while an answer was still awaited.
DiagramsMatchList ==
    ~diagramsLate /\ diagramMetadata # NotRead =>
        \A uuid \in Uuids : LET shown == diagrams[uuid] IN
            /\ diagramMetadata.of = "job" /\ shown \in Exports => shown = diagramMetadata
            /\ diagramMetadata.of = "branch" /\ shown.of = "branch" => shown.at >= diagramMetadata.at

=============================================================================
