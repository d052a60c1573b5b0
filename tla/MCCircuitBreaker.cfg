CONSTANTS
    Callers <- MCCallers
    FailureThreshold <- MCFailureThreshold
    RecoveryTimeout <- MCRecoveryTimeout
SPECIFICATION FairSpec
INVARIANTS
    TypeOK
    StateConsistent
    OneProbePerOpening
    TrialHasOwner
PROPERTIES
    WedgeIsPermanent
    HalfOpenResolves
