\* One record of any kind, four days, two approvals.
SPECIFICATION Spec
CONSTANTS
    Rec = {"al"}
    Kind <- MCKind
    Ceiling = 1
    None = None
    LastDay = 3
    MaxChanges = 2
    MaxGrants = 2
INVARIANTS AutoDateIsTrue AutoWithinCeiling
PROPERTIES OnlyApprovedIsApplied
