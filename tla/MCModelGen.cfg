CONSTANTS
    a = a
    b = b
    c = c
    d = d
    e = e
    f = f
    g = g
    Models <- MCModels
    Roots <- MCRoots
    Package0 <- MCPackage0
    PackageName <- MCPackageName
    FileBase <- MCFileBase
    Imports0 <- MCImports0
    EmptyModels <- MCEmpty
    ProjPackage = "p"
    ModelDir = "m"
    NeedModel = TRUE
    MaxDepth = 6
SPECIFICATION Spec
\* The walk ends: GeneratePackage returns after the last root.
CHECK_DEADLOCK FALSE
INVARIANTS
    TypeOK
    ImportClosureRegistered
