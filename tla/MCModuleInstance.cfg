SPECIFICATION Spec
CONSTANTS
    Limits <- MCLimits
    BuiltinModule <- MCBuiltinModule
    Builtins <- MCBuiltins
    PageBytes = 8
    MaxPages = 4
    BlobBytes <- MCBlobBytes
    Plans <- MCPlans
    Values <- MCValues
    Probes <- MCProbes
INVARIANTS
    InstanceAsDeclared
    AcceptsExactly
CHECK_DEADLOCK FALSE
