\* The plugin: Init, named Generate, GetFormatAndExcludedFiles, protoc writes.
CONSTANTS
    p1 = p1
    p2 = p2
    p3 = p3
    NoFile = NoFile
    Flow = "package"
    FilePaths <- MCFilePaths
    DirNames <- MCDirNames
    DirOf <- MCDirOf
    Anc <- MCAnc
    LayoutChoices <- PackageFlowLayouts
    Preloaded = {p1}
    IsPackageTpl = TRUE
    PkgDefault = {p1}
    Excludes <- CleanExcludes
    DiskChoices <- MCDiskChoices
    OutIsCwd = TRUE
    CwdFiles = {}
    MaxFiles = 2
INIT Init
NEXT Next
\* The command ends when the plugin has answered: "written" and "failed" are
\* final states of a terminating program.
CHECK_DEADLOCK FALSE
PROPERTIES
    ExcludedUntouched
