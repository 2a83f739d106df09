\* cft new: Init, traverse-all Generate, Persist, Degenerate.
CONSTANTS
    p1 = p1
    p2 = p2
    p3 = p3
    NoFile = NoFile
    Flow = "layout"
    FilePaths <- MCFilePaths
    DirNames <- MCDirNames
    DirOf <- MCDirOf
    Anc <- MCAnc
    LayoutChoices <- LayoutFlowLayouts
    Preloaded = {}
    IsPackageTpl = FALSE
    PkgDefault = {}
    Excludes <- CleanExcludes
    DiskChoices <- MCDiskChoices
    OutIsCwd = TRUE
    CwdFiles = {}
    MaxFiles = 0
INIT Init
NEXT Next
\* The command ends after Persist or Degenerate: "persisted", "failed" and
\* "reverted" are final states of a terminating program.
CHECK_DEADLOCK FALSE
INVARIANTS
    TypeOK
    PersistedAll
PROPERTIES
    ExcludedUntouched
    FileSetRefinement
