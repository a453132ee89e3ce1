------------------------------- MODULE SeatGate -------------------------------
(***************************************************************************)
(* The staff cap of a firm's roster: worker/src/seat_usage.ts and the      *)
(* three handlers of worker/src/index.ts that change the roster,           *)
(* handleFirmLicenseCreate, -Patch and -Delete.                            *)
(*                                                                         *)
(* The cap counts people, not lines.  Nothing serialises two requests, so  *)
(* both gates are optimistic: read the roster, decide, write, read again   *)
(* and undo the write if the roster is now past a limit.  Every await is a *)
(* step of its own.  A request is served once: `req' keeps how it ended.   *)
(*                                                                         *)
(* A line's license type is its state together with `entity': every state  *)
(* has at most one "-firm" type (seat_usage.ts:52-53).  Each person has a  *)
(* mailbox of their own, so cooldown_key and the person key agree.         *)
(***************************************************************************)
EXTENDS Integers, FiniteSets, Sequences

CONSTANTS
    Adder,           \* requests that may turn out to be a POST /firm/licenses
    Editor,          \* requests that may turn out to be a PATCH
    Remover,         \* requests that may turn out to be a DELETE
    Ask,             \* what a POST or a PATCH may ask a line to say
    Person,          \* mailboxes that may be on the roster
    State,           \* licensing states
    Start,           \* the roster to begin with, a sequence of lines
    MaxId,           \* bound: lines ever created
    LastTick,        \* bound: clock readings explored
    Cap,             \* seatCapForFirmTier
    PerPerson,       \* PER_PERSON_LINE_CEILING
    EntityLines,     \* FIRM_ENTITY_LINE_CEILING
    EntityPerType,   \* FIRM_ENTITY_LINES_PER_TYPE
    ChecksFail       \* may the second read throw, or the Worker be killed?

Request == Adder \cup Editor \cup Remover
Id == 1..MaxId

Fields == [who : Person, state : State, entity : BOOLEAN]

ASSUME StartAssumption ==
    /\ Start \in Seq(Fields) /\ Len(Start) <= MaxId /\ Ask \subseteq Fields
    /\ Person # {} /\ State # {} /\ MaxId # 0
ASSUME RequestAssumption == IsFiniteSet(Request)
ASSUME LimitAssumption ==
    /\ {Cap, PerPerson, EntityLines, EntityPerType, LastTick, MaxId} \subseteq Nat
    /\ ChecksFail \in BOOLEAN

VARIABLES
    roster,   \* the firm's subscriber rows: what each says, created_at (at),
              \* last_edited_at (edited) and status
    req,      \* the local state of each request
    clock     \* what nowIso() reads

vars == <<roster, req, clock>>

-----------------------------------------------------------------------------
(* seat_usage.ts: what a roster uses, and the two gates.                    *)

Listed(r) == {i \in DOMAIN r : r[i].status = "live"}
EntityRows(r) == {i \in Listed(r) : r[i].entity}
PersonRows(r, w) == {i \in Listed(r) : ~r[i].entity /\ r[i].who = w}
People(r) == {w \in Person : PersonRows(r, w) # {}}
SameType(r, st) == {i \in EntityRows(r) : r[i].state = st}

CanAdd(r, f) ==
    IF f.entity
      THEN /\ Cardinality(EntityRows(r)) < EntityLines
           /\ Cardinality(SameType(r, f.state)) < EntityPerType
      ELSE /\ Cardinality(PersonRows(r, f.who)) < PerPerson
           /\ PersonRows(r, f.who) = {} => Cardinality(People(r)) < Cap

(* An edit may keep a count where it is, even past its limit.               *)
GrowsPast(before, after, limit) ==
    Cardinality(after) > Cardinality(before) /\ Cardinality(after) > limit

CanEdit(r, i, f) ==
    LET after == [r EXCEPT ![i].who = f.who, ![i].state = f.state,
                           ![i].entity = f.entity]
    IN  i \in Listed(r) =>
          /\ f.entity =>
               /\ ~GrowsPast(EntityRows(r), EntityRows(after), EntityLines)
               /\ ~GrowsPast(SameType(r, f.state), SameType(after, f.state),
                             EntityPerType)
          /\ ~f.entity => ~GrowsPast(PersonRows(r, f.who),
                                     PersonRows(after, f.who), PerPerson)
          /\ ~GrowsPast(People(r), People(after), Cap)

(* Slips a change to the code might make are set beside what they replace:  *)
(* ranking only the strictly older lines ahead, or every other line.        *)
BeforeStrictly(r, j, i) == j # i /\ r[j].at < r[i].at
BeforeAlways(r, j, i) == j # i

(* byAgeYielding: the line under test, i, comes last among equal ages.      *)
Before(r, j, i) == j # i /\ r[j].at <= r[i].at
Ahead(r, S, i) == {j \in S : Before(r, j, i)}

(* Slip: the re-check looks at the seats only.                              *)
AddStandsSeatsOnly(r, i) ==
    \/ r[i].entity
    \/ Ahead(r, PersonRows(r, r[i].who), i) # {}
    \/ Cardinality({w \in People(r) : Ahead(r, PersonRows(r, w), i) # {}}) < Cap

(* addViolatesAfterInsert, the other way round: may the new line stay?      *)
AddStands(r, i) ==
    IF r[i].entity
      THEN /\ Cardinality(Ahead(r, EntityRows(r), i)) < EntityLines
           /\ Cardinality(Ahead(r, SameType(r, r[i].state), i)) < EntityPerType
      ELSE LET mine == Ahead(r, PersonRows(r, r[i].who), i)
           IN  /\ Cardinality(mine) < PerPerson
               /\ mine = {} =>
                    Cardinality({w \in People(r) :
                                   Ahead(r, PersonRows(r, w), i) # {}}) < Cap

Holds(l, f) == l.who = f.who /\ l.state = f.state /\ l.entity = f.entity

(* editViolatesAfterUpdate: judged as if the line still held `prior'.  A    *)
(* line that no longer holds what was written belongs to a later edit.      *)
EditStands(r, i, prior, f) ==
    i \in Listed(r) /\ Holds(r[i], f) =>
      CanEdit([r EXCEPT ![i].who = prior.who, ![i].state = prior.state,
                        ![i].entity = prior.entity], i, f)

(* findActiveOrPending                                                      *)
Taken(r, w, st) == {i \in Listed(r) : r[i].who = w /\ r[i].state = st}

-----------------------------------------------------------------------------
Blank == [who |-> CHOOSE w \in Person : TRUE, state |-> CHOOSE st \in State : TRUE,
          entity |-> FALSE]

AsLine(f, at, status) ==
    [who |-> f.who, state |-> f.state, entity |-> f.entity, at |-> at,
     edited |-> 0, status |-> status]

InitialRoster ==
    [i \in Id |-> IF i <= Len(Start) THEN AsLine(Start[i], 0, "live")
                                     ELSE AsLine(Blank, 0, "unused")]

Init ==
    /\ roster = InitialRoster
    /\ req = [q \in Request |->
                [pc |-> "idle", op |-> "add", id |-> 1, f |-> Blank,
                 prior |-> AsLine(Blank, 0, "unused"), stamp |-> 0,
                 status |-> "unused"]]
    /\ clock = 0

At(q, op, pc) == req[q].op = op /\ req[q].pc = pc
Goto(q, pc) == req' = [req EXCEPT ![q].pc = pc]

(* handleFirmLicenseCreate asks findActiveOrPending (a 409 ends it) ...     *)
AddCheck(q, f) ==
    /\ q \in Adder /\ req[q].pc = "idle"
    /\ req' = [req EXCEPT ![q].f = f,
                 ![q].pc = IF Taken(roster, f.who, f.state) = {}
                             THEN "decide" ELSE "refused"]
    /\ UNCHANGED <<roster, clock>>

(* ... reads the roster and decides ...                                     *)
AddDecide(q) ==
    /\ At(q, "add", "decide")
    /\ Goto(q, IF CanAdd(roster, req[q].f) THEN "stamp" ELSE "refused")
    /\ UNCHANGED <<roster, clock>>

(* ... addPending reads the clock before it sends the INSERT ...            *)
AddStamp(q) ==
    /\ At(q, "add", "stamp")
    /\ req' = [req EXCEPT ![q].pc = "insert", ![q].stamp = clock]
    /\ UNCHANGED <<roster, clock>>

AddInsert(q) ==
    /\ At(q, "add", "insert")
    /\ \E i \in Id :
         /\ roster[i].status = "unused"
         /\ \A j \in 1..(i - 1) : roster[j].status # "unused"
         /\ roster' = [roster EXCEPT ![i] = AsLine(req[q].f, req[q].stamp, "live")]
         /\ req' = [req EXCEPT ![q].pc = "recheck", ![q].id = i]
    /\ UNCHANGED clock

(* ... reads the roster again, and if the line is still there judges it ... *)
AddRecheck(q) ==
    /\ At(q, "add", "recheck")
    /\ Goto(q, IF req[q].id \in Listed(roster) /\ ~AddStands(roster, req[q].id)
                 THEN "undo" ELSE "done")
    /\ UNCHANGED <<roster, clock>>

(* ... and takes it off with removeFirmLicense.                             *)
AddUndo(q) ==
    /\ At(q, "add", "undo")
    /\ roster' = [roster EXCEPT ![req[q].id].status = "removed"]
    /\ Goto(q, "undone")
    /\ UNCHANGED clock

(* handleFirmLicensePatch reads the line; a removed one is refused ...      *)
EditRead(q, i, f) ==
    /\ q \in Editor /\ req[q].pc = "idle" /\ i \in Listed(roster)
    /\ req' = [req EXCEPT ![q].pc = "conflict", ![q].op = "edit", ![q].id = i,
                          ![q].f = f, ![q].prior = roster[i]]
    /\ UNCHANGED <<roster, clock>>

(* ... findActiveOrPending, when the mailbox or the state changes: LIMIT 1, *)
(* any of the matching lines, the edited one among them ...                 *)
EditConflict(q) ==
    /\ At(q, "edit", "conflict")
    /\ LET r == req[q]
           same == Taken(roster, r.f.who, r.f.state)
           moved == r.f.who # r.prior.who \/ r.f.state # r.prior.state
       IN  \/ (~moved \/ same = {} \/ r.id \in same) /\ Goto(q, "decide")
           \/ moved /\ same \ {r.id} # {} /\ Goto(q, "refused")
    /\ UNCHANGED <<roster, clock>>

EditDecide(q) ==
    /\ At(q, "edit", "decide")
    /\ Goto(q, IF CanEdit(roster, req[q].id, req[q].f) THEN "select" ELSE "refused")
    /\ UNCHANGED <<roster, clock>>

(* ... updateFirmLicense selects the row once more, for its status ...      *)
EditSelect(q) ==
    /\ At(q, "edit", "select")
    /\ req' = [req EXCEPT ![q].pc = "write", ![q].status = roster[req[q].id].status]
    /\ UNCHANGED <<roster, clock>>

(* ... and writes all of it; a new mailbox starts over as pending ...       *)
EditWrite(q) ==
    /\ At(q, "edit", "write")
    /\ LET r == req[q]
       IN  roster' = [roster EXCEPT ![r.id] =
                        [who |-> r.f.who, state |-> r.f.state, entity |-> r.f.entity,
                         at |-> @.at, edited |-> clock,
                         status |-> IF r.f.who # r.prior.who THEN "live" ELSE r.status]]
    /\ req' = [req EXCEPT ![q].pc = "recheck", ![q].stamp = clock]
    /\ UNCHANGED clock

EditRecheck(q) ==
    /\ At(q, "edit", "recheck")
    /\ Goto(q, IF EditStands(roster, req[q].id, req[q].prior, req[q].f)
                 THEN "done" ELSE "restore")
    /\ UNCHANGED <<roster, clock>>

(* restoreFirmLicenseAfterLostEdit, unless the row was edited again.        *)
EditRestore(q) ==
    /\ At(q, "edit", "restore")
    /\ LET r == req[q]
           own == Holds(roster[r.id], r.f) /\ roster[r.id].edited = r.stamp
       IN  /\ roster' = IF own THEN [roster EXCEPT ![r.id] = r.prior] ELSE roster
           /\ Goto(q, IF own THEN "undone" ELSE "done")
    /\ UNCHANGED clock

(* handleFirmLicenseDelete: removeFirmLicense, one unconditional UPDATE.    *)
Remove(q, i) ==
    /\ q \in Remover /\ req[q].pc = "idle" /\ i \in Listed(roster)
    /\ roster' = [roster EXCEPT ![i].status = "removed"]
    /\ req' = [req EXCEPT ![q].pc = "done", ![q].op = "remove", ![q].id = i]
    /\ UNCHANGED clock

(* The second read or the undo throws, or the Worker dies: the write stands. *)
LoseCheck(q) ==
    /\ ChecksFail /\ req[q].pc \in {"recheck", "undo", "restore"}
    /\ Goto(q, "lost")
    /\ UNCHANGED <<roster, clock>>

Tick == clock < LastTick /\ clock' = clock + 1 /\ UNCHANGED <<roster, req>>

AddStep(q) == AddDecide(q) \/ AddStamp(q) \/ AddInsert(q) \/ AddRecheck(q) \/ AddUndo(q)
EditStep(q) == \/ EditConflict(q) \/ EditDecide(q) \/ EditSelect(q)
               \/ EditWrite(q) \/ EditRecheck(q) \/ EditRestore(q)

Next ==
    \/ \E q \in Request :
         \/ \E f \in Ask : AddCheck(q, f)
         \/ \E i \in Id, f \in Ask : EditRead(q, i, f)
         \/ \E i \in Id : Remove(q, i)
         \/ AddStep(q) \/ EditStep(q) \/ LoseCheck(q)
    \/ Tick

Spec == Init /\ [][Next]_vars

-----------------------------------------------------------------------------
(* Properties.                                                              *)

Line == [who : Person, state : State, entity : BOOLEAN, at : Nat, edited : Nat,
         status : {"unused", "live", "removed"}]

Local == [pc : {"idle", "refused", "decide", "stamp", "insert", "conflict", "select",
                "write", "recheck", "undo", "restore", "undone", "done", "lost"},
          op : {"add", "edit", "remove"}, id : Id, f : Fields, prior : Line,
          stamp : Nat, status : {"unused", "live", "removed"}]

(* Every row and every request keeps its shape.                             *)
TypeOK == roster \in [Id -> Line] /\ req \in [Request -> Local] /\ clock \in Nat

Ended == {"idle", "refused", "undone", "done", "lost"}
AtRest == \A q \in Request : req[q].pc \in Ended

Larger(a, b) == IF a > b THEN a ELSE b
Seats(r) == Cardinality(People(r))

(* The roster as its owner may rely on it: without the additions, and with  *)
(* the old values of the edits, that are still to be judged.                *)
Unjudged(op, i) ==
    {q \in Request : req[q].op = op /\ req[q].id = i
                     /\ req[q].pc \in {"recheck", "undo", "restore"}
                     /\ Holds(roster[i], req[q].f)}
Settled ==
    [i \in Id |->
       IF Unjudged("add", i) # {} THEN [roster[i] EXCEPT !.status = "unused"]
       ELSE IF Unjudged("edit", i) # {}
         THEN LET q == CHOOSE q \in Unjudged("edit", i) : TRUE
              IN  [req[q].prior EXCEPT !.status = roster[i].status]
         ELSE roster[i]]

(* Lines are numbered in the order their inserts commit.  An insert has     *)
(* overtaken another when it carries the later created_at of the two.       *)
New(i) == i > Len(Start) /\ roster[i].status # "unused"
Overtaken == \E i, j \in Id : i < j /\ New(j) /\ roster[j].at < roster[i].at
Tied == \E i, j \in Id : i < j /\ New(i) /\ New(j) /\ roster[i].at = roster[j].at
Lost == Cardinality({q \in Request : req[q].pc = "lost"})
Edited == \E q \in Request : req[q].op = "edit"

(* What the two gates promise together: whatever adds and edits race, the   *)
(* people whose lines have been accepted become more only while that leaves *)
(* them within the cap.  A roster that was over it is frozen, not purged.   *)
(* "If the re-read itself throws, the add stands" (index.ts:8735-8736): a   *)
(* lost check costs one seat at most.  Nothing is promised of inserts that  *)
(* overtake one another.                                                    *)
GrowsWithinCap ==
    [][Seats(Settled') > Seats(Settled) =>
         Seats(Settled') <= Cap + Lost' \/ Overtaken']_vars

(* The line ceilings, at rest: per person, per firm, per firm permit.       *)
CeilingsAtRest ==
    AtRest /\ ~Overtaken /\ ~Edited =>
      /\ \A w \in Person :
           Cardinality(PersonRows(roster, w))
             <= Lost + Larger(PerPerson, Cardinality(PersonRows(InitialRoster, w)))
      /\ Cardinality(EntityRows(roster))
           <= Lost + Larger(EntityLines, Cardinality(EntityRows(InitialRoster)))
      /\ \A st \in State :
           Cardinality(SameType(roster, st))
             <= Lost + Larger(EntityPerType, Cardinality(SameType(InitialRoster, st)))

(* Racers that do not share a millisecond do not undo each other: an add    *)
(* that was taken back was taken back for a seat, or a line, that somebody  *)
(* else got and has kept.                                                   *)
SeatGoesToSomeone ==
    AtRest /\ ~Tied /\ ~Edited /\ (\A q \in Remover : req[q].pc = "idle") =>
      \A q \in Request :
        (At(q, "add", "undone") /\ ~req[q].f.entity) =>
           \/ Seats(roster) >= Cap
           \/ Cardinality(PersonRows(roster, req[q].f.who)) >= PerPerson
=============================================================================
