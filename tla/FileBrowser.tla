------------------------------ MODULE FileBrowser ------------------------------
(***************************************************************************)
(* The file browser of a session in the frontend                           *)
(* (active-sessions/file-browser-dialog): the tree of the workspace, the   *)
(* files staged for upload, and the marks that show them in the tree.      *)
(*                                                                         *)
(* A path is a directory and a name; directories do not nest and no file   *)
(* has the name of a directory.                                            *)
(***************************************************************************)
EXTENDS Naturals, Sequences, SequencesExt, FiniteSets, Api

CONSTANTS
    Directories, Names, \* of the workspace
    FileSize,           \* FileSize[n]: the size of the local file named n
    UploadLimit,        \* 30 MB
    MaxStaged           \* bound on the files that are staged

VARIABLES
    fbOpen,    \* the dialog is open
    fbLoaded,  \* the tree was loaded once
    fbRemote,  \* paths of the workspace
    fbTree,    \* fbTree[p]: {} when the tree has no p, else its flags
    fbStaged,  \* filesToUpload: names and the paths of their directories
    fbAsked    \* requests under way, at most one of each

fbVars == <<fbOpen, fbLoaded, fbRemote, fbTree, fbStaged, fbAsked>>

Paths == Directories \X Names
Flags == {"shown", "isNew", "isModified"}
Session == "session"
Marked == {p \in Paths : fbTree[p] \cap {"isNew", "isModified"} # {}}

FileBrowserInit ==
    /\ fbOpen = TRUE /\ fbLoaded = FALSE
    /\ fbRemote \in SUBSET Paths
    /\ fbTree = [p \in Paths |-> {}]
    /\ fbStaged = <<>>
    /\ fbAsked = {ListFiles(Session)}

\* The box for hidden files is ticked: the tree is loaded anew.
LoadFiles ==
    /\ fbOpen /\ ListFiles(Session) \notin fbAsked
    /\ fbAsked' = fbAsked \cup {ListFiles(Session)}
    /\ UNCHANGED <<fbOpen, fbLoaded, fbRemote, fbTree, fbStaged>>

FilesReturn ==
    /\ fbOpen /\ ListFiles(Session) \in fbAsked
    /\ fbAsked' = fbAsked \ {ListFiles(Session)}
    /\ fbLoaded' = TRUE
    /\ fbTree' = [p \in Paths |-> IF p \in fbRemote THEN {"shown"} ELSE {}]
    /\ UNCHANGED <<fbOpen, fbRemote, fbStaged>>

FilesFail ==
    /\ fbOpen /\ ListFiles(Session) \in fbAsked
    /\ fbOpen' = FALSE
    /\ fbAsked' = fbAsked \ {ListFiles(Session)}
    /\ UNCHANGED <<fbLoaded, fbRemote, fbTree, fbStaged>>

\* download_in_progress, which disables the other buttons.
Downloading == \E p \in Paths : DownloadFile(Session, p) \in fbAsked

Download(p) ==
    /\ fbOpen /\ fbTree[p] = {"shown"} /\ ~Downloading
    /\ fbAsked' = fbAsked \cup {DownloadFile(Session, p)}
    /\ UNCHANGED <<fbOpen, fbLoaded, fbRemote, fbTree, fbStaged>>

DownloadReturns(p) ==
    /\ DownloadFile(Session, p) \in fbAsked
    /\ fbAsked' = fbAsked \ {DownloadFile(Session, p)}
    /\ UNCHANGED <<fbOpen, fbLoaded, fbRemote, fbTree, fbStaged>>

\* stageFile, after the user agreed to overwrite a file that the tree shows.  Two
\* pairs are never equal for `includes`: a file may be staged twice.
AddFile(p) ==
    /\ fbOpen /\ fbLoaded /\ ~Downloading /\ Len(fbStaged) < MaxStaged
    /\ fbTree' = [fbTree EXCEPT ![p] = IF @ = {} THEN {"shown", "isNew"} ELSE @ \cup {"isModified"}]
    /\ fbStaged' = Append(fbStaged, [name |-> p[2], prefix |-> p[1]])
    /\ UNCHANGED <<fbOpen, fbLoaded, fbRemote, fbAsked>>

\* findIndex over the staged files, counted from 0, with the path of the file itself
\* where the path of its directory was stored.
IndexOf(path, name) ==
    LET found == {k \in DOMAIN fbStaged : fbStaged[k].name = name /\ fbStaged[k].prefix = path}
    IN  IF found = {} THEN [found |-> FALSE, at |-> Len(fbStaged)]
        ELSE [found |-> TRUE, at |-> CHOOSE k \in found : \A j \in found : k <= j]

\* An index of 0 removes nothing, an index of -1 the last file: splice(-1, 1).
RemoveFileFromSelection(p) ==
    LET index == IndexOf(p, p[2]) IN
    fbStaged' = IF fbStaged = <<>> \/ (index.found /\ index.at = 1) THEN fbStaged
                ELSE RemoveAt(fbStaged, index.at)

RemoveFileFromTree(p) ==
    fbTree' = [fbTree EXCEPT ![p] = IF "isModified" \in @ THEN @ \ {"isModified"} ELSE {}]

\* removeFile: the user takes a marked file back.
RemoveFile(p) ==
    /\ fbOpen /\ ~Downloading /\ p \in Marked
    /\ RemoveFileFromSelection(p) /\ RemoveFileFromTree(p)
    /\ UNCHANGED <<fbOpen, fbLoaded, fbRemote, fbAsked>>

AskToDelete(p) ==
    /\ fbOpen /\ fbTree[p] = {"shown"}
    /\ fbAsked' = fbAsked \cup {DeleteFile(Session, p)}
    /\ UNCHANGED <<fbOpen, fbLoaded, fbRemote, fbTree, fbStaged>>

\* The file is gone, and removeFile is called for it too.
DeleteReturns(p) ==
    /\ fbOpen /\ DeleteFile(Session, p) \in fbAsked
    /\ fbAsked' = fbAsked \ {DeleteFile(Session, p)}
    /\ fbRemote' = fbRemote \ {p}
    /\ RemoveFileFromSelection(p) /\ RemoveFileFromTree(p)
    /\ UNCHANGED <<fbOpen, fbLoaded>>

TotalSize == FoldSeq(LAMBDA staged, size : size + FileSize[staged.name], 0, fbStaged)

Submit ==
    /\ fbOpen /\ fbStaged # <<>> /\ TotalSize <= UploadLimit
    /\ fbAsked' = fbAsked \cup {UploadFiles(Session, fbStaged)}
    /\ UNCHANGED <<fbOpen, fbLoaded, fbRemote, fbTree, fbStaged>>

Uploads == {request \in fbAsked : request.verb = "POST"}

UploadReturns ==
    \E request \in Uploads :
        /\ fbAsked' = fbAsked \ {request}
        /\ fbRemote' = fbRemote \cup {<<f.prefix, f.name>> : f \in ToSet(request.key[2])}
        /\ fbOpen' = FALSE
        /\ UNCHANGED <<fbLoaded, fbTree, fbStaged>>

RequestFails ==
    \E request \in fbAsked \ {ListFiles(Session)} :
        /\ fbAsked' = fbAsked \ {request}
        /\ UNCHANGED <<fbOpen, fbLoaded, fbRemote, fbTree, fbStaged>>

FileBrowserNext ==
    \/ LoadFiles \/ FilesReturn \/ FilesFail \/ Submit \/ UploadReturns \/ RequestFails
    \/ \E p \in Paths : AddFile(p) \/ RemoveFile(p) \/ AskToDelete(p) \/ DeleteReturns(p)
                         \/ Download(p) \/ DownloadReturns(p)

FileBrowserSpec == FileBrowserInit /\ [][FileBrowserNext]_fbVars

----------------------------------------------------------------------------
(* Properties *)

\* The files to be uploaded are marked in the tree, so that the user sees before
\* submitting what the workspace will receive.
StagedAreMarked == fbOpen => \A staged \in ToSet(fbStaged) : <<staged.prefix, staged.name>> \in Marked

=============================================================================
