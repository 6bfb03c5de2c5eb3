SPECIFICATION Spec
CONSTANTS
    CondBits = 8
    JumpBits = 9
    Plans <- MCPlans
INVARIANTS
    BranchesLand
    NoFalseLimit
    StackChecked
CHECK_DEADLOCK FALSE
