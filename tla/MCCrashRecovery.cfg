CONSTANTS
    NoFile = NoFile
    Corrupt = Corrupt
    Builds = {"debug", "release"}
    DevEnvs = {"unset", "0", "1"}
    TornWrites = TRUE
    ApplyFails = TRUE

SPECIFICATION Spec

INVARIANTS
    TypeOK
    RecoverChoicePersisted

PROPERTY
    DevModeStaysLocal
