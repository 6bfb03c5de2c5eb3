SPECIFICATION Spec
CONSTANTS
    CondBits = 8
    JumpBits = 9
    Plans <- MCPlans
INVARIANT
    StackCheckedAlways
CHECK_DEADLOCK FALSE
