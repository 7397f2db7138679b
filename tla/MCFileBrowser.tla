----------------------------- MODULE MCFileBrowser -----------------------------
(* Instance of FileBrowser for TLC.                                            *)
EXTENDS FileBrowser

SmallFiles == [n \in Names |-> 1]

=============================================================================
