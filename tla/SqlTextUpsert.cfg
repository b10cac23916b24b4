SPECIFICATION Spec
CONSTANTS
    Statements <- MCConditional
    Defaults <- MCDefaults
    Fresh <- MCFresh
INVARIANT SafeReplaysTheSame
CHECK_DEADLOCK FALSE
