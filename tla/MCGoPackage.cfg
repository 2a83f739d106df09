\* cft model/client on a proto whose go_package starts with the module's
\* name without being inside the module.
CONSTANTS
    f1 = f1
    f2 = f2
    Files = {f1, f2}
    WellKnown = {f2}
    Package <- MCPackage
    ModelDir <- MCModelDir
    GoPackageChoices <- MCGoPackageChoices
    TrimChoices <- MCTrimChoices
SPECIFICATION Spec
\* fixGoPackage runs once per plugin invocation.
CHECK_DEADLOCK FALSE
INVARIANT
    ModelFilesInModelDir
