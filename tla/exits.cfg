SPECIFICATION Spec
CONSTANTS
    None = None
    EntryPrice = 10
    HardStop = 7
    HardTarget = 14
    Policies <- MCPolicies
    Prices = {6, 7, 9, 10, 11, 12, 13, 14}
    SessionEnd = 3
INVARIANTS
    HardExitsAreImmutable

    
CHECK_DEADLOCK FALSE
