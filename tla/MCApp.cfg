\* A sequence of up to three cft commands in one directory.
CONSTANTS
    NoModuleV = NoModuleV
    NoInvocationV = NoInvocationV
    NoModule <- NoModuleV
    NoInvocation <- NoInvocationV
    Invocations <- MCInvocations
    AbsDir = "/abs"
    DefaultModelDir <- MCDefaultModelDir
    IdlRel <- MCIdlRel
    ServiceNames <- MCServiceNames
    LayoutSeq <- MCLayoutSeq
    GoModFile <- MCGoModFile
    MaxCommands = 3
INIT Init
NEXT Next
\* The user stops after MaxCommands commands; cft itself always exits.
CHECK_DEADLOCK FALSE
INVARIANTS
    TypeOK
    
    
