\* cft new -E ./a/p3: the excluded file spelled with a leading ./
CONSTANTS
    p1 = p1
    p2 = p2
    p3 = p3
    NoFile = NoFile
    Flow = "layout"
    FilePaths <- MCFilePaths
    DirNames <- MCDirNames
    DirOf <- MCDirOf
    Anc <- MCAnc
    LayoutChoices <- LayoutFlowLayouts
    Preloaded = {}
    IsPackageTpl = FALSE
    PkgDefault = {}
    Excludes <- UncleanExcludes
    DiskChoices <- MCDiskChoices
    OutIsCwd = TRUE
    CwdFiles = {}
    MaxFiles = 0
INIT Init
NEXT Next
\* The command ends after Persist or Degenerate: "persisted", "failed" and
\* "reverted" are final states of a terminating program.
CHECK_DEADLOCK FALSE
PROPERTIES
    ExcludedUntouched
