\* Jobs over four records, people committing all the while.
SPECIFICATION Spec
CONSTANTS
    j1 = j1
    j2 = j2
    j3 = j3
    Job = {j1, j2}
    Rec = {1, 2, 3, 4}
    Cpa = {1, 2, 3, 4}
    Manual = {4}
    TextOnly = {2}
    Tooling = {1}
    Value = {1, 2}
    NoValue = 0
    MaxShared = 3
    HandStamps = 1
    Margin = 1
    Cycle = 2
    DueDays = 1
    Attempts = 2
    CodeChanges = TRUE
    Slow = TRUE
    LastDay = 2
    MaxEdits = 1
CONSTRAINT OneOrQuiet
SYMMETRY JobSymmetry
INVARIANTS OneAtATime CohortUnderCap AsOfNotFresher StatusIsLive
PROPERTIES StampsWhatWasFetched PushLosesNothing
