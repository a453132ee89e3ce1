\* Every rule, day by day through two leap years.
SPECIFICATION Walk
CONSTANTS
    NoDate = NoDate
    None = NoDate
    Rule <- MCRule
    WalkStart <- MCWalkStart
    WalkEnd <- MCWalkEnd
    Horizon = 8
CHECK_DEADLOCK FALSE
INVARIANTS OnTheDay ShownStaysRight
