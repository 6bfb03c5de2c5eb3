SPECIFICATION Spec
CONSTANTS
    Jobs <- AllJobs
    CalledOn <- AllTargets
    Signatures <- SomeSignatures
INVARIANTS
    ValuesArrive
    FrameKept
    StateCoherent
    CallSite
CHECK_DEADLOCK FALSE
