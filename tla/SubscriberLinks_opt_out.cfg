\* An opt-out of one of two lines, which the firm then removes.
SPECIFICATION Spec
CONSTANTS
    q1 = q1
    q2 = q2
    Mailbox = {"m1"}
    State = {"ga", "tx"}
    Request = {q1}
    Op = {"add", "unsubscribed", "remove"}
    OwnDate = {FALSE}
    MaxRow = 2
    MaxToken = 2
    LastTick = 3
CHECK_DEADLOCK FALSE
INVARIANTS OptOutIsPermanent
