\* cft new -mod x, then cft client -sg shop with and without -client_dir.
CONSTANTS
    NoModuleV = NoModuleV
    NoInvocationV = NoInvocationV
    NoModule <- NoModuleV
    NoInvocation <- NoInvocationV
    Invocations <- MCPlainClientInvocations
    AbsDir = "/abs"
    DefaultModelDir <- MCDefaultModelDir
    IdlRel <- MCIdlRel
    ServiceNames <- MCServiceNames
    LayoutSeq <- MCLayoutSeq
    GoModFile <- MCGoModFile
    MaxCommands = 3
INIT Init
NEXT Next
\* The user stops after MaxCommands commands; cft itself always exits.
CHECK_DEADLOCK FALSE
PROPERTIES
    ClientFilesTogether
