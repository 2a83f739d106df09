\* cft with -vv or not and zero, one or a malformed -protoc-plugins entry,
\* over every failure of the plugin's Run.
CONSTANTS
    PluginArgChoices <- MCPluginArgChoices
    WarningChoices <- MCWarningChoices
SPECIFICATION Spec
\* Both processes exit: "exited" is final.
CHECK_DEADLOCK FALSE
INVARIANT
    LoggedReported
