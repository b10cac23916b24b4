SPECIFICATION Spec
CONSTANTS
    Statements <- MCStatements
    Defaults <- MCDefaults
    Fresh <- MCFresh
INVARIANTS
    TypeOK
    SafeIsSettled
    ReplayMeansOriginal
    ReplayCannotRollBack
    StrictIsExact
CHECK_DEADLOCK FALSE
