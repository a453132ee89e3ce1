SPECIFICATION Spec
CONSTANTS
    MaxEdits = 2
    MaxLaws = 3
    LastDay = 4
INVARIANTS SettledIsTrue PageMirrorsApi NoOldNewsByMail RecentReallyHappened
