\* Two additions or edits racing for the last seat beside a removal.
SPECIFICATION Spec
CONSTANTS
    q1 = q1
    q2 = q2
    q3 = q3
    ann = ann
    bob = bob
    cat = cat
    dan = dan
    ga = ga
    tx = tx
    nc = nc
    Adder = {q1, q2}
    Editor = {q1, q2}
    Remover = {q3}
    Person = {ann, bob, cat}
    State = {ga, tx}
    Ask <- AskAny
    Start <- StartPermit
    MaxId = 4
    LastTick = 1
    Cap = 2
    PerPerson = 2
    EntityLines = 2
    EntityPerType = 1
    ChecksFail = TRUE
SYMMETRY RequestSymmetry
CHECK_DEADLOCK FALSE
INVARIANTS CeilingsAtRest SeatGoesToSomeone
PROPERTIES GrowsWithinCap
