\* Three people on a cap of one, the nightly pass and two other invocations.
SPECIFICATION FairRosterSpec
CONSTANTS
    Person = {"ann", "bob", "cat"}
    Default = {"ann"}
    Cron = "cron"
    Load = {"load", "hook"}
    MaxPlanChanges = 3
INVARIANTS ChoiceIsKept
PROPERTIES PaidRosterRuns CapSettles
