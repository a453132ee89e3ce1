\* Two requests at once on one row, or one at a time on two, every operation.
SPECIFICATION Spec
CONSTANTS
    q1 = q1
    q2 = q2
    Mailbox = {"m1", "m2"}
    State = {"ga", "tx"}
    Request = {q1, q2}
    Op = {"signup", "add", "confirm", "unsubscribed", "renewed", "nextcycle", "rearm", "renew", "edit", "remove", "bounce"}
    OwnDate = {FALSE}
    MaxRow = 2
    MaxToken = 3
    LastTick = 2
SYMMETRY RequestSymmetry
CONSTRAINT OneOrTwo
CHECK_DEADLOCK FALSE
INVARIANTS DoubleOptIn OptOutSticks
PROPERTIES RemovedStaysOff
