CONSTANTS
    Directories = {d}
    Names = {n1, n2}
    FileSize <- SmallFiles
    UploadLimit = 2
    MaxStaged = 3
SPECIFICATION FileBrowserSpec
INVARIANT StagedAreMarked
CHECK_DEADLOCK FALSE
