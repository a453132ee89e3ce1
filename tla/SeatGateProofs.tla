----------------------------- MODULE SeatGateProofs -----------------------------
(***************************************************************************)
(* Proofs about SeatGate, for any number of additions and removals, any    *)
(* roster to begin with and any limits.                                    *)
(***************************************************************************)
EXTENDS SeatGate, FiniteSetTheorems, WellFoundedInduction, TLAPS

-----------------------------------------------------------------------------
(* Sets of natural numbers.                                                *)

\* The least member of a set of numbers.
LEMMA LeastMember ==
    ASSUME NEW S, S \subseteq Nat, S # {}
    PROVE  \E m \in S : \A n \in S : m <= n
<1> DEFINE Less == {ss \in Nat \X Nat : ss[1] < ss[2]}
<1>1. IsWellFoundedOn(Less, Nat)
  BY NatLessThanWellFounded, Zenon DEF OpToRel
<1> HIDE DEF Less
<1>2. PICK m \in S : \A n \in S : ~ (<<n, m>> \in Less)
  BY <1>1, WFMin, Zenon
<1>3. ASSUME NEW n \in S PROVE m <= n
  <2>1. <<n, m>> \notin Less
    BY <1>2, Zenon
  <2>2. ~ (n < m)
    BY <2>1 DEF Less
  <2> QED
    BY <2>2
<1> QED
  BY <1>3

\* The greatest member of a set of numbers up to n.
LEMMA GreatestMember ==
    ASSUME NEW n \in Nat, NEW S, S \subseteq 1..n, S # {}
    PROVE  \E m \in S : \A k \in S : k <= m
<1> DEFINE T == {d \in Nat : n - d \in S}
<1>1. T \subseteq Nat
  OBVIOUS
<1>2. T # {}
  <2>1. PICK k \in S : TRUE
    OBVIOUS
  <2>2. n - k \in Nat /\ n - (n - k) = k
    OBVIOUS
  <2>3. n - k \in T
    BY <2>1, <2>2
  <2> QED
    BY <2>3
<1>3. PICK d \in T : \A e \in T : d <= e
  BY <1>1, <1>2, LeastMember
<1>4. ASSUME NEW k \in S PROVE k <= n - d
  <2>1. n - k \in Nat /\ n - (n - k) = k
    OBVIOUS
  <2>2. n - k \in T
    BY <2>1
  <2>3. d <= n - k
    BY <1>3, <2>2
  <2> QED
    BY <1>3, <2>1, <2>3
<1> QED
  BY <1>3, <1>4

-----------------------------------------------------------------------------
(* Types.                                                                  *)

LEMMA BlankTyped == Blank \in Fields
BY StartAssumption DEF Blank, Fields

LEMMA InitTyped == Init => TypeOK
<1> SUFFICES ASSUME Init PROVE TypeOK
  OBVIOUS
<1>1. MaxId \in Nat /\ 1 \in Id
  BY StartAssumption, LimitAssumption DEF Id
<1>2. \A f \in Fields, at \in Nat, s \in {"unused", "live", "removed"} : AsLine(f, at, s) \in Line
  BY DEF AsLine, Line, Fields
<1>3. roster \in [Id -> Line]
  <2>1. \A i \in Id : i <= Len(Start) => Start[i] \in Fields
    BY <1>1, StartAssumption DEF Id
  <2> QED
    BY <1>2, <2>1, BlankTyped DEF Init, InitialRoster
<1> QED
  BY <1>1, <1>2, <1>3, BlankTyped DEF Init, TypeOK, Local

\* A request's step keeps the types if what it leaves behind has them.
LEMMA LocalTyped ==
    ASSUME TypeOK, NEW q \in Request, NEW local \in Local, req' = [req EXCEPT ![q] = local],
           NEW i \in Id, NEW line \in Line,
           roster' = roster \/ roster' = [roster EXCEPT ![i] = line],
           clock' = clock
    PROVE  TypeOK'
BY DEF TypeOK

\* An addition takes its steps within the types.
LEMMA AddTyped ==
    ASSUME TypeOK, NEW q \in Request,
           AddStep(q) \/ (\E f \in Ask : AddCheck(q, f)) \/ LoseCheck(q)
    PROVE  TypeOK'
<1>1. req[q] \in Local /\ roster[req[q].id] \in Line /\ req[q].id \in Id /\ clock \in Nat
      /\ req[q].f \in Fields /\ req[q].stamp \in Nat
  BY DEF TypeOK, Local
<1>2. CASE \E f \in Ask : AddCheck(q, f)
  <2>1. PICK f \in Ask : AddCheck(q, f)
    BY <1>2
  <2> DEFINE local == [req[q] EXCEPT !.f = f,
                         !.pc = IF Taken(roster, f.who, f.state) = {}
                                  THEN "decide" ELSE "refused"]
  <2>2. local \in Local
    BY <1>1, StartAssumption DEF Local
  <2>3. req' = [req EXCEPT ![q] = local] /\ roster' = roster /\ clock' = clock
    BY <2>1 DEF AddCheck, TypeOK
  <2> HIDE DEF local
  <2> QED
    BY <1>1, <2>2, <2>3, LocalTyped
<1>3. CASE AddInsert(q)
  <2>1. PICK i \in Id :
           /\ roster' = [roster EXCEPT ![i] = AsLine(req[q].f, req[q].stamp, "live")]
           /\ req' = [req EXCEPT ![q].pc = "recheck", ![q].id = i]
    BY <1>3 DEF AddInsert
  <2> DEFINE local == [req[q] EXCEPT !.pc = "recheck", !.id = i]
             line == AsLine(req[q].f, req[q].stamp, "live")
  <2>2. local \in Local /\ line \in Line
    BY <1>1 DEF Local, AsLine, Line, Fields
  <2>3. req' = [req EXCEPT ![q] = local] /\ roster' = [roster EXCEPT ![i] = line]
    BY <2>1 DEF TypeOK
  <2>4. clock' = clock
    BY <1>3 DEF AddInsert
  <2> HIDE DEF local, line
  <2> QED
    BY <2>2, <2>3, <2>4, LocalTyped
<1>4. CASE AddStamp(q)
  <2> DEFINE local == [req[q] EXCEPT !.pc = "insert", !.stamp = clock]
  <2>1. local \in Local
    BY <1>1 DEF Local
  <2>2. req' = [req EXCEPT ![q] = local] /\ roster' = roster /\ clock' = clock
    BY <1>4 DEF AddStamp, TypeOK
  <2> HIDE DEF local
  <2> QED
    BY <1>1, <2>1, <2>2, LocalTyped
<1>5. ASSUME NEW pc \in {"stamp", "refused", "undo", "done", "undone", "lost"}, Goto(q, pc),
             roster' = roster \/ roster' = [roster EXCEPT ![req[q].id].status = "removed"],
             clock' = clock
      PROVE  TypeOK'
  <2> DEFINE local == [req[q] EXCEPT !.pc = pc]
             line == [roster[req[q].id] EXCEPT !.status = "removed"]
  <2>1. local \in Local /\ line \in Line
    BY <1>1 DEF Local, Line
  <2>2. req' = [req EXCEPT ![q] = local]
    BY <1>5 DEF Goto, TypeOK
  <2>3. roster' = roster \/ roster' = [roster EXCEPT ![req[q].id] = line]
    BY <1>5, <1>1 DEF TypeOK
  <2> HIDE DEF local, line
  <2> QED
    BY <1>1, <1>5, <2>1, <2>2, <2>3, LocalTyped
<1>6. CASE AddDecide(q) \/ AddRecheck(q) \/ AddUndo(q) \/ LoseCheck(q)
  BY <1>6, <1>5 DEF AddDecide, AddRecheck, AddUndo, LoseCheck
<1> QED
  BY <1>2, <1>3, <1>4, <1>6 DEF AddStep

\* So does an edit, and a removal.
LEMMA EditTyped ==
    ASSUME TypeOK, NEW q \in Request,
           \/ EditStep(q)
           \/ \E i \in Id, f \in Ask : EditRead(q, i, f)
           \/ \E i \in Id : Remove(q, i)
    PROVE  TypeOK'
<1>1. req[q] \in Local /\ roster[req[q].id] \in Line /\ req[q].id \in Id /\ clock \in Nat
      /\ req[q].f \in Fields /\ req[q].prior \in Line
      /\ req[q].status \in {"unused", "live", "removed"}
  BY DEF TypeOK, Local
<1>2. CASE \E i \in Id, f \in Ask : EditRead(q, i, f)
  <2>1. PICK i \in Id, f \in Ask : EditRead(q, i, f)
    BY <1>2
  <2> DEFINE local == [req[q] EXCEPT !.pc = "conflict", !.op = "edit", !.id = i,
                         !.f = f, !.prior = roster[i]]
  <2>2. local \in Local
    <3>1. f \in Fields /\ roster[i] \in Line
      BY StartAssumption DEF TypeOK
    <3> QED
      BY <1>1, <3>1 DEF Local
  <2>3. req' = [req EXCEPT ![q] = local] /\ roster' = roster /\ clock' = clock
    BY <2>1 DEF EditRead, TypeOK
  <2> HIDE DEF local
  <2> QED
    BY <1>1, <2>2, <2>3, LocalTyped
<1>3. CASE \E i \in Id : Remove(q, i)
  <2>1. PICK i \in Id : Remove(q, i)
    BY <1>3
  <2> DEFINE local == [req[q] EXCEPT !.pc = "done", !.op = "remove", !.id = i]
             line == [roster[i] EXCEPT !.status = "removed"]
  <2>2. local \in Local /\ line \in Line
    <3>1. local \in Local
      BY <1>1 DEF Local
    <3>2. roster[i] \in Line
      BY DEF TypeOK
    <3>3. line \in Line
      BY <3>2 DEF Line
    <3> QED
      BY <3>1, <3>3
  <2>3. /\ req' = [req EXCEPT ![q] = local] /\ roster' = [roster EXCEPT ![i] = line]
        /\ clock' = clock
    BY <2>1 DEF Remove, TypeOK
  <2> HIDE DEF local, line
  <2> QED
    BY <2>2, <2>3, LocalTyped
<1>4. ASSUME NEW pc \in {"decide", "refused", "select", "done", "undone", "restore"}, Goto(q, pc),
             roster' = roster \/ roster' = [roster EXCEPT ![req[q].id] = req[q].prior],
             clock' = clock
      PROVE  TypeOK'
  <2> DEFINE local == [req[q] EXCEPT !.pc = pc]
  <2>1. local \in Local
    BY <1>1 DEF Local
  <2>2. req' = [req EXCEPT ![q] = local]
    BY <1>4 DEF Goto, TypeOK
  <2> HIDE DEF local
  <2> QED
    BY <1>1, <1>4, <2>1, <2>2, LocalTyped
<1>5. CASE EditConflict(q) \/ EditDecide(q) \/ EditRecheck(q) \/ EditRestore(q)
  BY <1>5, <1>4 DEF EditConflict, EditDecide, EditRecheck, EditRestore
<1>6. CASE EditSelect(q)
  <2> DEFINE local == [req[q] EXCEPT !.pc = "write", !.status = roster[req[q].id].status]
  <2>1. local \in Local
    BY <1>1 DEF Local, Line
  <2>2. req' = [req EXCEPT ![q] = local] /\ roster' = roster /\ clock' = clock
    BY <1>6 DEF EditSelect, TypeOK
  <2> HIDE DEF local
  <2> QED
    BY <1>1, <2>1, <2>2, LocalTyped
<1>7. CASE EditWrite(q)
  <2> DEFINE local == [req[q] EXCEPT !.pc = "recheck", !.stamp = clock]
             r == req[q]
             line == [who |-> r.f.who, state |-> r.f.state, entity |-> r.f.entity,
                      at |-> roster[r.id].at, edited |-> clock,
                      status |-> IF r.f.who # r.prior.who THEN "live" ELSE r.status]
  <2>1. local \in Local /\ line \in Line
    BY <1>1 DEF Local, Line, Fields
  <2>2. req' = [req EXCEPT ![q] = local]
    BY <1>7 DEF EditWrite, TypeOK
  <2>3. roster' = [roster EXCEPT ![req[q].id] = line] /\ clock' = clock
    BY <1>7 DEF EditWrite, TypeOK
  <2> HIDE DEF local, line
  <2> QED
    BY <1>1, <2>1, <2>2, <2>3, LocalTyped
<1> QED
  BY <1>2, <1>3, <1>5, <1>6, <1>7 DEF EditStep

LEMMA NextTyped == TypeOK /\ [Next]_vars => TypeOK'
<1> SUFFICES ASSUME TypeOK, [Next]_vars PROVE TypeOK'
  OBVIOUS
<1>1. CASE Tick
  BY <1>1 DEF Tick, TypeOK
<1>2. CASE UNCHANGED vars
  BY <1>2 DEF vars, TypeOK
<1> QED
  BY <1>1, <1>2, AddTyped, EditTyped DEF Next

\* Rows and requests keep their shape.
THEOREM SeatsTypeCorrect == Spec => []TypeOK
BY InitTyped, NextTyped, PTL DEF Spec

-----------------------------------------------------------------------------
(* What the requests and the rows have to do with each other, as long as   *)
(* nobody edits.                                                           *)

Inserted(q) == /\ req[q].op = "add"
               /\ req[q].pc \in {"recheck", "undo", "undone", "done", "lost"}
Used(i) == roster[i].status # "unused"

\* A request that has not begun is no edit; only an edit restores.
Begun == \A q \in Request : /\ req[q].pc = "idle" => req[q].op = "add"
                            /\ req[q].pc = "restore" => req[q].op = "edit"

\* Whatever an addition inserted is in a row of its own, behind the rows the
\* firm had to begin with.
Placed ==
    \A q \in Request : Inserted(q) =>
      LET i == req[q].id
      IN  i > Len(Start) /\ Used(i) /\ Holds(roster[i], req[q].f) /\ roster[i].at = req[q].stamp
Apart ==
    \A p, q \in Request : (Inserted(p) /\ Inserted(q) /\ req[p].id = req[q].id) => p = q
Owned == \A i \in Id : New(i) => \E q \in Request : Inserted(q) /\ req[q].id = i

\* The rows the firm had to begin with may be removed, nothing else.
Kept ==
    \A i \in Id : i <= Len(Start) =>
      /\ Used(i) /\ InitialRoster[i].status = "live"
      /\ Holds(roster[i], InitialRoster[i]) /\ roster[i].at = 0

\* Rows are used in order.
Packed == \A i, j \in Id : (j < i /\ Used(i)) => Used(j)

\* A row is removed by the addition that takes it back, or on request.
TakenBack == \A q \in Request : (Inserted(q) /\ req[q].pc = "undone") =>
                                   roster[req[q].id].status = "removed"
Gone ==
    \A i \in Id : roster[i].status = "removed" =>
      \/ \E q \in Remover : req[q].pc # "idle"
      \/ \E q \in Request : Inserted(q) /\ req[q].pc = "undone" /\ req[q].id = i

Rows == Placed /\ Apart /\ Owned /\ Kept /\ Packed /\ TakenBack /\ Gone

Earlier(S, i) == {j \in S : j < i}

\* A line that passed its second look had room among the lines inserted
\* before it, and still has.
Fits(i) ==
    IF roster[i].entity
      THEN /\ Cardinality(Earlier(EntityRows(roster), i)) < EntityLines
           /\ Cardinality(Earlier(SameType(roster, roster[i].state), i)) < EntityPerType
      ELSE Cardinality(Earlier(PersonRows(roster, roster[i].who), i)) < PerPerson
Judged ==
    \A q \in Request : (Inserted(q) /\ req[q].pc = "done" /\ req[q].id \in Listed(roster)) =>
                          Fits(req[q].id)

\* A line that failed it was ranked behind enough lines of its own person,
\* or behind lines of enough people, counting those removed since.
EverOf(w) == {j \in Id : Used(j) /\ ~roster[j].entity /\ roster[j].who = w}
Crowded(i) == Cardinality(Ahead(roster, EverOf(roster[i].who), i)) >= PerPerson
Late(i) == Cardinality({w \in Person : Ahead(roster, EverOf(w), i) # {}}) >= Cap
Beaten ==
    \A q \in Request :
      (Inserted(q) /\ req[q].pc \in {"undo", "undone"} /\ ~req[q].f.entity) =>
         Crowded(req[q].id) \/ Late(req[q].id)

SeatInv == /\ TypeOK /\ Begun
           /\ ~Edited => Rows /\ Beaten /\ (~Overtaken => Judged)

-----------------------------------------------------------------------------
(* The steps of additions and removals.                                    *)

\* Going on to the next step of a request changes nothing else about it.
LEMMA Going ==
    ASSUME TypeOK, NEW q \in Request, NEW pc, Goto(q, pc)
    PROVE  /\ \A p \in Request \ {q} : req'[p] = req[p]
           /\ req'[q].pc = pc /\ req'[q].op = req[q].op /\ req'[q].id = req[q].id
           /\ req'[q].f = req[q].f /\ req'[q].stamp = req[q].stamp
<1>1. req[q] \in Local
  BY DEF TypeOK
<1> QED
  BY <1>1 DEF Goto, TypeOK, Local

\* A request that takes the first steps of an addition.
LEMMA Starting ==
    ASSUME TypeOK, NEW q \in Request,
           (\E f \in Ask : AddCheck(q, f)) \/ AddDecide(q) \/ AddStamp(q)
    PROVE  /\ roster' = roster /\ clock' = clock
           /\ \A p \in Request \ {q} : req'[p] = req[p]
           /\ req'[q].op = req[q].op /\ req'[q].id = req[q].id
           /\ req[q].pc \in {"idle", "decide", "stamp"}
           /\ req'[q].pc \in {"decide", "refused", "stamp", "insert"}
<1>1. req[q] \in Local
  BY DEF TypeOK
<1>2. CASE \E f \in Ask : AddCheck(q, f)
  <2>1. PICK f \in Ask : AddCheck(q, f)
    BY <1>2
  <2>2. PICK pc \in {"decide", "refused"} : req' = [req EXCEPT ![q].f = f, ![q].pc = pc]
    BY <2>1 DEF AddCheck
  <2>3. req'[q].op = req[q].op /\ req'[q].id = req[q].id /\ req'[q].pc = pc
    BY <1>1, <2>2 DEF TypeOK, Local
  <2>4. /\ roster' = roster /\ clock' = clock /\ req[q].pc = "idle"
        /\ \A p \in Request \ {q} : req'[p] = req[p]
    BY <2>1, <2>2 DEF AddCheck, TypeOK
  <2> QED
    BY <2>3, <2>4
<1>3. CASE AddDecide(q)
  <2>1. PICK pc \in {"stamp", "refused"} : Goto(q, pc)
    BY <1>3 DEF AddDecide
  <2> QED
    BY <1>3, <2>1, Going DEF AddDecide, At
<1>4. CASE AddStamp(q)
  BY <1>1, <1>4 DEF AddStamp, At, TypeOK, Local
<1> QED
  BY <1>2, <1>3, <1>4

\* A request that takes a step of an edit, or begins one, is an edit.
LEMMA Editing ==
    ASSUME TypeOK, NEW q \in Request,
           EditStep(q) \/ \E i \in Id, f \in Ask : EditRead(q, i, f)
    PROVE  /\ \A p \in Request \ {q} : req'[p] = req[p]
           /\ req'[q].op = "edit" /\ req'[q].pc # "idle"
<1>1. req[q] \in Local
  BY DEF TypeOK
<1>2. CASE \E i \in Id, f \in Ask : EditRead(q, i, f)
  <2>1. PICK i \in Id, f \in Ask : EditRead(q, i, f)
    BY <1>2
  <2> DEFINE local == [req[q] EXCEPT !.pc = "conflict", !.op = "edit", !.id = i,
                         !.f = f, !.prior = roster[i]]
  <2>2. local.op = "edit" /\ local.pc = "conflict"
    BY <1>1 DEF Local
  <2>3. req' = [req EXCEPT ![q] = local]
    BY <2>1 DEF EditRead, TypeOK
  <2> HIDE DEF local
  <2> QED
    BY <2>2, <2>3 DEF TypeOK
<1>3. CASE EditConflict(q) \/ EditDecide(q) \/ EditRecheck(q) \/ EditRestore(q)
  <2>1. PICK pc \in {"decide", "refused", "select", "done", "restore", "undone"} : Goto(q, pc)
    BY <1>3 DEF EditConflict, EditDecide, EditRecheck, EditRestore
  <2>2. req[q].op = "edit"
    BY <1>3 DEF EditConflict, EditDecide, EditRecheck, EditRestore, At
  <2> QED
    BY <2>1, <2>2, Going
<1>4. CASE EditSelect(q)
  BY <1>1, <1>4 DEF EditSelect, At, TypeOK, Local
<1>5. CASE EditWrite(q)
  BY <1>1, <1>5 DEF EditWrite, At, TypeOK, Local
<1> QED
  BY <1>2, <1>3, <1>4, <1>5 DEF EditStep

\* A request that removes a row.
LEMMA Deleting ==
    ASSUME TypeOK, NEW q \in Request, NEW i \in Id, Remove(q, i)
    PROVE  /\ \A p \in Request \ {q} : req'[p] = req[p]
           /\ req[q].pc = "idle" /\ q \in Remover
           /\ req'[q].op = "remove" /\ req'[q].pc = "done"
<1>1. req[q] \in Local
  BY DEF TypeOK
<1> QED
  BY <1>1 DEF Remove, TypeOK, Local

LEMMA NextBegun ==
    ASSUME TypeOK, Begun, [Next]_vars
    PROVE  Begun'
<1>1. CASE UNCHANGED vars \/ Tick
  BY <1>1 DEF vars, Tick, Begun
<1>2. ASSUME NEW q \in Request, (\E f \in Ask : AddCheck(q, f)) \/ AddDecide(q) \/ AddStamp(q)
      PROVE  Begun'
  BY <1>2, Starting DEF Begun
<1>3. ASSUME NEW q \in Request, AddInsert(q)
      PROVE  Begun'
  <2>1. req[q] \in Local
    BY DEF TypeOK
  <2> QED
    BY <1>3, <2>1 DEF AddInsert, Begun, TypeOK, Local
<1>4. ASSUME NEW q \in Request, AddRecheck(q) \/ AddUndo(q) \/ LoseCheck(q)
      PROVE  Begun'
  <2>1. PICK pc \in {"undo", "done", "undone", "lost"} : Goto(q, pc)
    BY <1>4 DEF AddRecheck, AddUndo, LoseCheck
  <2> QED
    BY <2>1, Going DEF Begun
<1>5. ASSUME NEW q \in Request, EditStep(q) \/ \E i \in Id, f \in Ask : EditRead(q, i, f)
      PROVE  Begun'
  BY <1>5, Editing DEF Begun
<1>6. ASSUME NEW q \in Request, NEW i \in Id, Remove(q, i)
      PROVE  Begun'
  BY <1>6, Deleting DEF Begun
<1> QED
  BY <1>1, <1>2, <1>3, <1>4, <1>5, <1>6 DEF Next, AddStep

\* A request that takes a step of an addition, and changes no row.
Moves(q) ==
    /\ roster' = roster
    /\ \A p \in Request \ {q} : req'[p] = req[p]
    /\ req'[q].op = req[q].op /\ req'[q].id = req[q].id /\ req'[q].pc # "undone"
    /\ (Inserted(q) \/ Inserted(q)') =>
          /\ Inserted(q) /\ Inserted(q)'
          /\ req'[q].f = req[q].f /\ req'[q].stamp = req[q].stamp
          /\ req[q].pc \in {"recheck", "undo"}
          /\ \/ AddRecheck(q)
             \/ req'[q].pc = "lost"
    /\ req[q].pc # "idle" => req'[q].pc # "idle"

\* As long as nobody edits, a step inserts a row, removes one, or moves a
\* request.
LEMMA StepKinds ==
    ASSUME TypeOK, Begun, [Next]_vars, ~Edited'
    PROVE  /\ ~Edited
           /\ \/ UNCHANGED <<roster, req>>
              \/ \E q \in Request :
                    AddInsert(q) \/ AddUndo(q) \/ Moves(q) \/ \E i \in Id : Remove(q, i)
<1>1. CASE UNCHANGED vars \/ Tick
  BY <1>1 DEF vars, Tick, Edited
<1>2. ASSUME NEW q \in Request, AddInsert(q) \/ AddUndo(q) \/ \E i \in Id : Remove(q, i)
      PROVE  ~Edited
  <2>1. req[q] \in Local
    BY DEF TypeOK
  <2>2. CASE AddInsert(q)
    BY <2>1, <2>2 DEF AddInsert, At, Edited, TypeOK, Local
  <2>3. CASE AddUndo(q)
    BY <2>3, Going DEF AddUndo, Edited
  <2>4. CASE \E i \in Id : Remove(q, i)
    <3>1. req[q].op = "add"
      BY <2>4, Deleting DEF Begun
    <3> QED
      BY <2>4, <3>1, Deleting DEF Edited
  <2> QED
    BY <1>2, <2>2, <2>3, <2>4
<1>3. ASSUME NEW q \in Request, (\E f \in Ask : AddCheck(q, f)) \/ AddDecide(q) \/ AddStamp(q)
      PROVE  ~Edited /\ Moves(q)
  BY <1>3, Starting DEF Edited, Moves, Inserted
<1>4. ASSUME NEW q \in Request, AddRecheck(q) \/ LoseCheck(q)
      PROVE  ~Edited /\ Moves(q)
  <2>1. PICK pc \in {"undo", "done", "lost"} : Goto(q, pc) /\ (LoseCheck(q) => pc = "lost")
    BY <1>4 DEF AddRecheck, LoseCheck, At
  <2>2. ~Edited
    BY <2>1, Going DEF Edited
  <2>3. roster' = roster /\ req[q].pc \in {"recheck", "undo"}
    BY <1>4, <2>2 DEF AddRecheck, LoseCheck, At, Begun, Edited
  <2> QED
    BY <1>4, <2>1, <2>2, <2>3, Going DEF Moves, Inserted
<1>5. ASSUME NEW q \in Request, EditStep(q) \/ \E i \in Id, f \in Ask : EditRead(q, i, f)
      PROVE  FALSE
  BY <1>5, Editing DEF Edited
<1> QED
  BY <1>1, <1>2, <1>3, <1>4, <1>5 DEF Next, AddStep

\* What an insert does.
LEMMA Inserting ==
    ASSUME TypeOK, NEW q \in Request, AddInsert(q)
    PROVE  \E i \in Id :
              /\ ~Used(i) /\ \A j \in Id : j < i => Used(j)
              /\ roster'[i] = AsLine(req[q].f, req[q].stamp, "live")
              /\ \A j \in Id \ {i} : roster'[j] = roster[j]
              /\ \A p \in Request \ {q} : req'[p] = req[p]
              /\ req[q].op = "add" /\ req'[q].op = "add"
              /\ req[q].pc = "insert" /\ req'[q].pc = "recheck" /\ req'[q].id = i
              /\ req'[q].f = req[q].f /\ req'[q].stamp = req[q].stamp
<1>1. PICK i \in Id :
        /\ roster[i].status = "unused"
        /\ \A j \in 1..(i - 1) : roster[j].status # "unused"
        /\ roster' = [roster EXCEPT ![i] = AsLine(req[q].f, req[q].stamp, "live")]
        /\ req' = [req EXCEPT ![q].pc = "recheck", ![q].id = i]
  BY DEF AddInsert
<1>2. \A j \in Id : j < i => j \in 1..(i - 1)
  BY LimitAssumption DEF Id
<1>3. req[q] \in Local
  BY DEF TypeOK
<1>4. /\ req[q].op = "add" /\ req[q].pc = "insert"
  BY DEF AddInsert, At
<1>5. /\ req'[q].op = "add" /\ req'[q].pc = "recheck" /\ req'[q].id = i
      /\ req'[q].f = req[q].f /\ req'[q].stamp = req[q].stamp
      /\ \A p \in Request \ {q} : req'[p] = req[p]
  BY <1>1, <1>3, <1>4 DEF TypeOK, Local
<1>6. /\ roster'[i] = AsLine(req[q].f, req[q].stamp, "live")
      /\ \A j \in Id \ {i} : roster'[j] = roster[j]
  BY <1>1 DEF TypeOK
<1> QED
  BY <1>1, <1>2, <1>4, <1>5, <1>6 DEF Used

\* What taking a row off does: nothing else about the row changes.
LEMMA Removing ==
    ASSUME TypeOK, NEW q \in Request,
           NEW i \in Id, (AddUndo(q) /\ i = req[q].id) \/ Remove(q, i)
    PROVE  /\ roster'[i].status = "removed" /\ roster'[i].at = roster[i].at
           /\ Holds(roster'[i], roster[i])
           /\ \A j \in Id \ {i} : roster'[j] = roster[j]
           /\ \A p \in Request \ {q} : req'[p] = req[p]
<1>1. roster[i] \in Line /\ req[q] \in Local
  BY DEF TypeOK
<1>2. roster' = [roster EXCEPT ![i].status = "removed"]
  BY DEF AddUndo, Remove
<1>3. \A p \in Request \ {q} : req'[p] = req[p]
  BY DEF AddUndo, Remove, Goto, TypeOK
<1> QED
  BY <1>1, <1>2, <1>3 DEF TypeOK, Line, Holds

\* Only a used row is removed; the request that removes it was one before.
LEMMA RemovalSteps ==
    ASSUME TypeOK, Rows, NEW q \in Request,
           NEW i \in Id, (AddUndo(q) /\ i = req[q].id) \/ Remove(q, i)
    PROVE  /\ Used(i)
           /\ \/ /\ Inserted(q) /\ Inserted(q)' /\ i = req[q].id /\ req'[q].pc = "undone"
                 /\ req'[q].id = req[q].id /\ req'[q].f = req[q].f
                 /\ req'[q].stamp = req[q].stamp
                 /\ req[q].pc = "undo"
              \/ ~Inserted(q) /\ ~Inserted(q)' /\ q \in Remover /\ req'[q].pc # "idle"
<1>1. CASE AddUndo(q) /\ i = req[q].id
  BY <1>1, Going DEF AddUndo, At, Inserted, Rows, Placed
<1>2. CASE Remove(q, i)
  BY <1>2, Deleting DEF Remove, Listed, Used, Inserted
<1> QED
  BY <1>1, <1>2

\* The three kinds of steps keep what requests and rows have to do with
\* each other.
LEMMA InsertKeepsRows ==
    ASSUME TypeOK, Rows, NEW q \in Request, AddInsert(q)
    PROVE  Rows'
<1>1. PICK i \in Id :
        /\ ~Used(i) /\ \A j \in Id : j < i => Used(j)
        /\ roster'[i] = AsLine(req[q].f, req[q].stamp, "live")
        /\ \A j \in Id \ {i} : roster'[j] = roster[j]
        /\ \A p \in Request \ {q} : req'[p] = req[p]
        /\ req[q].op = "add" /\ req'[q].op = "add"
        /\ req[q].pc = "insert" /\ req'[q].pc = "recheck" /\ req'[q].id = i
        /\ req'[q].f = req[q].f /\ req'[q].stamp = req[q].stamp
  BY Inserting
<1>2. /\ roster'[i].status = "live" /\ Holds(roster'[i], req[q].f)
      /\ roster'[i].at = req[q].stamp /\ Used(i)'
  BY <1>1 DEF AsLine, Holds, Used
<1>3. ~Inserted(q) /\ Inserted(q)'
  BY <1>1 DEF Inserted
<1>4. \A p \in Request \ {q} : Inserted(p)' <=> Inserted(p)
  BY <1>1 DEF Inserted
<1>5. \A j \in Id \ {i} : Used(j)' <=> Used(j)
  BY <1>1 DEF Used
<1>6. \A p \in Request : Inserted(p) => req[p].id \in Id \ {i}
  BY <1>1 DEF Rows, Placed, TypeOK, Local
<1>7. i > Len(Start)
  <2>1. ~(i <= Len(Start))
    BY <1>1 DEF Rows, Kept
  <2> QED
    BY <2>1, StartAssumption, LimitAssumption DEF Id
<1>8. Placed'
  BY <1>1, <1>2, <1>4, <1>5, <1>6, <1>7 DEF Rows, Placed
<1>9. Apart'
  BY <1>1, <1>3, <1>4, <1>6 DEF Rows, Apart
<1>10. Owned'
  <2> SUFFICES ASSUME NEW j \in Id, New(j)' PROVE \E p \in Request : Inserted(p)' /\ req'[p].id = j
    BY DEF Owned
  <2>1. CASE j = i
    BY <2>1, <1>1, <1>3
  <2>2. CASE j # i
    BY <2>2, <1>1, <1>3, <1>4 DEF Rows, Owned, New
  <2> QED
    BY <2>1, <2>2
<1>11. Kept'
  BY <1>1, <1>5 DEF Rows, Kept
<1>12. Packed'
  <2> SUFFICES ASSUME NEW j \in Id, NEW k \in Id, k < j, Used(j)' PROVE Used(k)'
    BY DEF Packed
  <2> QED
    BY <1>1, <1>2, <1>5 DEF Rows, Packed
<1>13. TakenBack'
  BY <1>1, <1>4, <1>6 DEF Rows, TakenBack
<1>14. Gone'
  <2> SUFFICES ASSUME NEW j \in Id, roster'[j].status = "removed"
               PROVE  \/ \E p \in Remover : req'[p].pc # "idle"
                      \/ \E p \in Request : Inserted(p)' /\ req'[p].pc = "undone" /\ req'[p].id = j
    BY DEF Gone
  <2>1. j # i /\ roster[j].status = "removed"
    BY <1>1, <1>2
  <2>2. CASE \E p \in Remover : req[p].pc # "idle"
    BY <2>2, <1>1 DEF Request
  <2>3. CASE \E p \in Request : Inserted(p) /\ req[p].pc = "undone" /\ req[p].id = j
    BY <2>3, <1>1, <1>3, <1>4
  <2> QED
    BY <2>1, <2>2, <2>3 DEF Rows, Gone
<1> QED
  BY <1>8, <1>9, <1>10, <1>11, <1>12, <1>13, <1>14 DEF Rows

LEMMA RemovalKeepsRows ==
    ASSUME TypeOK, Rows, NEW q \in Request,
           NEW i \in Id, (AddUndo(q) /\ i = req[q].id) \/ Remove(q, i)
    PROVE  Rows'
<1>1. /\ roster'[i].status = "removed" /\ roster'[i].at = roster[i].at
      /\ Holds(roster'[i], roster[i])
      /\ \A j \in Id \ {i} : roster'[j] = roster[j]
      /\ \A p \in Request \ {q} : req'[p] = req[p]
  BY Removing
<1>2. Used(i)
  BY RemovalSteps
<1>3. \/ /\ Inserted(q) /\ Inserted(q)' /\ i = req[q].id /\ req'[q].pc = "undone"
         /\ req'[q].id = req[q].id /\ req'[q].f = req[q].f /\ req'[q].stamp = req[q].stamp
      \/ ~Inserted(q) /\ ~Inserted(q)' /\ q \in Remover /\ req'[q].pc # "idle"
  BY RemovalSteps
<1>4. \A p \in Request : Inserted(p)' <=> Inserted(p)
  BY <1>1, <1>3 DEF Inserted
<1>5. \A j \in Id : /\ Used(j)' <=> Used(j)
                    /\ Holds(roster'[j], roster[j]) /\ roster'[j].at = roster[j].at
  BY <1>1, <1>2 DEF Used, Holds
<1>6. \A p \in Request : Inserted(p) =>
        req'[p].id = req[p].id /\ req'[p].f = req[p].f /\ req'[p].stamp = req[p].stamp
        /\ req[p].id \in Id
  BY <1>1, <1>3 DEF TypeOK, Local
<1>7. Placed'
  BY <1>4, <1>5, <1>6 DEF Rows, Placed, Holds
<1>8. Apart'
  BY <1>4, <1>6 DEF Rows, Apart
<1>9. Owned'
  <2> SUFFICES ASSUME NEW j \in Id, New(j)' PROVE \E p \in Request : Inserted(p)' /\ req'[p].id = j
    BY DEF Owned
  <2>1. New(j)
    BY <1>5 DEF New, Used
  <2>2. PICK p \in Request : Inserted(p) /\ req[p].id = j
    BY <2>1 DEF Rows, Owned
  <2> QED
    BY <2>2, <1>4, <1>6
<1>10. Kept'
  BY <1>5 DEF Rows, Kept, Holds
<1>11. Packed'
  BY <1>5 DEF Rows, Packed
<1>12. TakenBack'
  <2> SUFFICES ASSUME NEW p \in Request, Inserted(p)', req'[p].pc = "undone"
               PROVE  roster'[req'[p].id].status = "removed"
    BY DEF TakenBack
  <2>1. Inserted(p) /\ req'[p].id = req[p].id /\ req[p].id \in Id
    BY <1>4, <1>6
  <2>2. CASE req[p].id = i
    BY <2>1, <2>2, <1>1
  <2>3. CASE req[p].id # i
    <3>1. p # q
      BY <2>1, <2>3, <1>3
    <3> QED
      BY <2>1, <2>3, <3>1, <1>1 DEF Rows, TakenBack
  <2> QED
    BY <2>2, <2>3
<1>13. Gone'
  <2> SUFFICES ASSUME NEW j \in Id, roster'[j].status = "removed"
               PROVE  \/ \E p \in Remover : req'[p].pc # "idle"
                      \/ \E p \in Request : Inserted(p)' /\ req'[p].pc = "undone" /\ req'[p].id = j
    BY DEF Gone
  <2>1. CASE j = i
    BY <2>1, <1>3
  <2>2. CASE j # i
    <3>1. roster[j].status = "removed"
      BY <2>2, <1>1
    <3>2. CASE \E p \in Remover : req[p].pc # "idle"
      <4>1. PICK p \in Remover : req[p].pc # "idle"
        BY <3>2
      <4>2. p = q => req'[p].pc # "idle"
        BY <1>3
      <4> QED
        BY <4>1, <4>2, <1>1 DEF Request
    <3>3. CASE \E p \in Request : Inserted(p) /\ req[p].pc = "undone" /\ req[p].id = j
      <4>1. PICK p \in Request : Inserted(p) /\ req[p].pc = "undone" /\ req[p].id = j
        BY <3>3
      <4>2. p # q
        BY <4>1, <2>2, <1>3
      <4> QED
        BY <4>1, <4>2, <1>1, <1>4
    <3> QED
      BY <3>1, <3>2, <3>3 DEF Rows, Gone
  <2> QED
    BY <2>1, <2>2
<1> QED
  BY <1>7, <1>8, <1>9, <1>10, <1>11, <1>12, <1>13 DEF Rows

LEMMA MoveKeepsRows ==
    ASSUME TypeOK, Rows, NEW q \in Request, Moves(q)
    PROVE  Rows'
<1>1. /\ roster' = roster
      /\ \A p \in Request \ {q} : req'[p] = req[p]
      /\ req'[q].id = req[q].id /\ req'[q].pc # "undone"
      /\ (Inserted(q) \/ Inserted(q)') =>
            /\ Inserted(q) /\ Inserted(q)'
            /\ req'[q].f = req[q].f /\ req'[q].stamp = req[q].stamp
            /\ req[q].pc \in {"recheck", "undo"}
      /\ req[q].pc # "idle" => req'[q].pc # "idle"
  BY DEF Moves
<1>2. \A p \in Request : Inserted(p)' <=> Inserted(p)
  BY <1>1 DEF Inserted
<1>3. \A p \in Request : Inserted(p) =>
        /\ req'[p].id = req[p].id /\ req'[p].f = req[p].f /\ req'[p].stamp = req[p].stamp
        /\ req'[p].pc = "undone" <=> req[p].pc = "undone"
  BY <1>1
<1>4. Placed'
  BY <1>1, <1>2, <1>3 DEF Rows, Placed, Used
<1>5. Apart'
  BY <1>2, <1>3 DEF Rows, Apart
<1>6. Owned'
  <2> SUFFICES ASSUME NEW j \in Id, New(j)' PROVE \E p \in Request : Inserted(p)' /\ req'[p].id = j
    BY DEF Owned
  <2>1. PICK p \in Request : Inserted(p) /\ req[p].id = j
    BY <1>1 DEF Rows, Owned, New
  <2> QED
    BY <2>1, <1>2, <1>3
<1>7. Kept' /\ Packed'
  BY <1>1 DEF Rows, Kept, Packed, Used
<1>8. TakenBack'
  BY <1>1, <1>2, <1>3 DEF Rows, TakenBack
<1>9. Gone'
  <2> SUFFICES ASSUME NEW j \in Id, roster[j].status = "removed"
               PROVE  \/ \E p \in Remover : req'[p].pc # "idle"
                      \/ \E p \in Request : Inserted(p)' /\ req'[p].pc = "undone" /\ req'[p].id = j
    BY <1>1 DEF Gone
  <2>1. CASE \E p \in Remover : req[p].pc # "idle"
    BY <2>1, <1>1 DEF Request
  <2>2. CASE \E p \in Request : Inserted(p) /\ req[p].pc = "undone" /\ req[p].id = j
    BY <2>2, <1>2, <1>3
  <2> QED
    BY <2>1, <2>2 DEF Rows, Gone
<1> QED
  BY <1>4, <1>5, <1>6, <1>7, <1>8, <1>9 DEF Rows

LEMMA NextKeepsRows ==
    ASSUME TypeOK, Begun, Rows, [Next]_vars, ~Edited'
    PROVE  Rows'
<1>1. CASE UNCHANGED <<roster, req>>
  BY <1>1 DEF Rows, Placed, Apart, Owned, Kept, Packed, TakenBack, Gone, Used, Inserted, New
<1>2. ASSUME NEW q \in Request, AddUndo(q)
      PROVE  Rows'
  <2>1. req[q].id \in Id
    BY DEF TypeOK, Local
  <2> QED
    BY <1>2, <2>1, RemovalKeepsRows
<1> QED
  BY <1>1, <1>2, StepKinds, InsertKeepsRows, MoveKeepsRows, RemovalKeepsRows

-----------------------------------------------------------------------------
(* What a step leaves as it was.                                           *)

\* A used row keeps its fields and its date; a row comes into use live and
\* behind the others, and none is revived.
LEMMA Steady ==
    ASSUME TypeOK, Begun, Rows, [Next]_vars, ~Edited'
    PROVE  /\ \A i \in Id : Used(i) =>
                 Used(i)' /\ Holds(roster'[i], roster[i]) /\ roster'[i].at = roster[i].at
           /\ \A i, j \in Id : (i \in Listed(roster')) =>
                 i \in Listed(roster) \/ (~Used(i) /\ (Used(j) => j < i))
           /\ DOMAIN roster = Id /\ DOMAIN roster' = Id
<1>1. CASE UNCHANGED <<roster, req>>
  BY <1>1 DEF Used, Holds, Listed, TypeOK
<1>2. ASSUME NEW q \in Request, AddInsert(q)
      PROVE  /\ \A i \in Id : Used(i) =>
                 Used(i)' /\ Holds(roster'[i], roster[i]) /\ roster'[i].at = roster[i].at
             /\ \A i, j \in Id : (i \in Listed(roster')) =>
                 i \in Listed(roster) \/ (~Used(i) /\ (Used(j) => j < i))
  <2>1. PICK k \in Id :
          /\ ~Used(k) /\ \A j \in Id : j < k => Used(j)
          /\ \A j \in Id \ {k} : roster'[j] = roster[j]
    BY <1>2, Inserting
  <2>2. \A j \in Id : Used(j) => j < k
    BY <2>1, LimitAssumption DEF Rows, Packed, Id
  <2> QED
    BY <2>1, <2>2 DEF Used, Holds, Listed, TypeOK
<1>3. ASSUME NEW q \in Request, NEW k \in Id, (AddUndo(q) /\ k = req[q].id) \/ Remove(q, k)
      PROVE  /\ \A i \in Id : Used(i) =>
                 Used(i)' /\ Holds(roster'[i], roster[i]) /\ roster'[i].at = roster[i].at
             /\ \A i, j \in Id : (i \in Listed(roster')) =>
                 i \in Listed(roster) \/ (~Used(i) /\ (Used(j) => j < i))
  <2>1. /\ roster'[k].status = "removed" /\ roster'[k].at = roster[k].at
        /\ Holds(roster'[k], roster[k])
        /\ \A j \in Id \ {k} : roster'[j] = roster[j]
    BY <1>3, Removing
  <2> QED
    BY <2>1 DEF Used, Holds, Listed, TypeOK
<1>4. ASSUME NEW q \in Request, Moves(q)
      PROVE  roster' = roster
  BY <1>4 DEF Moves
<1>5. DOMAIN roster = Id /\ DOMAIN roster' = Id
  BY NextTyped DEF TypeOK
<1>6. \A q \in Request : req[q].id \in Id
  BY DEF TypeOK, Local
<1>7. CASE roster' = roster
  BY <1>7, <1>5 DEF Used, Holds, Listed
<1> QED
  BY <1>1, <1>2, <1>3, <1>4, <1>5, <1>6, <1>7, StepKinds, Zenon

\* What an addition inserted it keeps; only a second look ends in "done" or
\* "undo", and only "undo" in "undone".
LEMMA SteadyRequests ==
    ASSUME TypeOK, Begun, Rows, [Next]_vars, ~Edited', NEW p \in Request, Inserted(p)'
    PROVE  \/ req'[p].pc = "recheck"
           \/ /\ Inserted(p) /\ req'[p].id = req[p].id /\ req'[p].f = req[p].f
              /\ \/ req'[p].pc = req[p].pc
                 \/ AddRecheck(p) /\ roster' = roster
                 \/ req[p].pc = "undo" /\ req'[p].pc = "undone"
                 \/ req'[p].pc = "lost"
<1>1. CASE UNCHANGED <<roster, req>>
  BY <1>1 DEF Inserted
<1>2. ASSUME NEW q \in Request, AddInsert(q)
      PROVE  p # q => req'[p] = req[p]
  BY <1>2, Inserting
<1>3. ASSUME NEW q \in Request, AddInsert(q)
      PROVE  req'[q].pc = "recheck"
  BY <1>3, Inserting
<1>4. ASSUME NEW q \in Request, NEW i \in Id, (AddUndo(q) /\ i = req[q].id) \/ Remove(q, i)
      PROVE  \/ p # q /\ req'[p] = req[p]
             \/ /\ p = q /\ Inserted(q) /\ req'[q].pc = "undone" /\ req[q].pc = "undo"
                /\ req'[q].id = req[q].id /\ req'[q].f = req[q].f
  BY <1>4, RemovalSteps, Removing
<1>5. ASSUME NEW q \in Request, Moves(q)
      PROVE  \/ p # q /\ req'[p] = req[p]
             \/ /\ p = q /\ Inserted(q) /\ req'[q].id = req[q].id /\ req'[q].f = req[q].f
                /\ (AddRecheck(q) /\ roster' = roster) \/ req'[q].pc = "lost"
  BY <1>5 DEF Moves
<1>6. \A q \in Request : req[q].id \in Id
  BY DEF TypeOK, Local
<1>7. req'[p] = req[p] => Inserted(p)
  BY DEF Inserted
<1>8. PICK q \in Request : AddInsert(q) \/ AddUndo(q) \/ Moves(q) \/ (\E i \in Id : Remove(q, i))
                           \/ UNCHANGED <<roster, req>>
  BY StepKinds
<1>9. CASE AddInsert(q)
  BY <1>9, <1>2, <1>3, <1>7
<1>10. CASE AddUndo(q) \/ \E i \in Id : Remove(q, i)
  BY <1>10, <1>4, <1>6, <1>7
<1>11. CASE Moves(q)
  BY <1>11, <1>5, <1>7
<1> QED
  BY <1>1, <1>8, <1>9, <1>10, <1>11

-----------------------------------------------------------------------------
(* Counting.                                                               *)

LEMMA RowsCounted ==
    ASSUME NEW S \in SUBSET Id, NEW T \in SUBSET S
    PROVE  /\ IsFiniteSet(S) /\ Cardinality(S) \in Nat
           /\ IsFiniteSet(T) /\ Cardinality(T) \in Nat /\ Cardinality(T) <= Cardinality(S)
<1>1. IsFiniteSet(Id)
  BY LimitAssumption, FS_Interval DEF Id
<1>2. IsFiniteSet(S)
  BY <1>1, FS_Subset
<1> QED
  BY <1>2, FS_Subset, FS_CardinalityType

\* There are no more people than rows.
LEMMA PeopleCounted ==
    ASSUME NEW r, NEW W, \A w \in W : \E j \in Id : r[j].who = w, NEW V \in SUBSET W
    PROVE  /\ IsFiniteSet(W) /\ Cardinality(W) \in Nat
           /\ IsFiniteSet(V) /\ Cardinality(V) \in Nat /\ Cardinality(V) <= Cardinality(W)
<1> DEFINE T == {r[j].who : j \in Id}
           f == [j \in Id |-> r[j].who]
<1>1. IsFiniteSet(Id)
  BY RowsCounted
<1>2. f \in Surjection(Id, T)
  BY DEF Surjection
<1>3. IsFiniteSet(T)
  <2> HIDE DEF f, T
  <2> QED
    BY <1>1, <1>2, FS_Surjection
<1>4. W \subseteq T
  OBVIOUS
<1> HIDE DEF T
<1>5. IsFiniteSet(W)
  BY <1>3, <1>4, FS_Subset
<1> QED
  BY <1>5, FS_Subset, FS_CardinalityType

-----------------------------------------------------------------------------
(* A line that passed its second look keeps its room.                      *)

LEMMA OvertakenStays ==
    ASSUME TypeOK, Begun, Rows, [Next]_vars, ~Edited', Overtaken
    PROVE  Overtaken'
<1>1. PICK i \in Id, j \in Id : i < j /\ New(j) /\ roster[j].at < roster[i].at
  BY DEF Overtaken
<1>2. Used(i) /\ Used(j)
  BY <1>1 DEF New, Used, Rows, Packed
<1>3. /\ roster'[i].at = roster[i].at /\ roster'[j].at = roster[j].at /\ Used(j)'
  BY <1>2, Steady
<1> QED
  BY <1>1, <1>3 DEF Overtaken, New, Used

\* The room a line has does not shrink.
LEMMA FitsStays ==
    ASSUME TypeOK, Begun, Rows, [Next]_vars, ~Edited',
           NEW i \in Id, Used(i), Fits(i)
    PROVE  Fits(i)'
<1>1. /\ roster'[i].entity = roster[i].entity /\ roster'[i].who = roster[i].who
      /\ roster'[i].state = roster[i].state
  BY Steady DEF Holds
<1>2. ASSUME NEW j \in Id, j < i, j \in Listed(roster')
      PROVE  /\ j \in Listed(roster)
             /\ roster'[j].entity = roster[j].entity /\ roster'[j].who = roster[j].who
             /\ roster'[j].state = roster[j].state
  <2>1. ~(i < j)
    BY <1>2, LimitAssumption DEF Id
  <2>2. j \in Listed(roster)
    BY <1>2, <2>1, Steady
  <2>3. Used(j)
    BY <2>2 DEF Listed, Used
  <2> QED
    BY <2>2, <2>3, Steady DEF Holds
<1>3. Listed(roster) \subseteq Id /\ Listed(roster') \subseteq Id
  BY Steady DEF Listed
<1>4. CASE roster[i].entity
  <2>1. Earlier(EntityRows(roster'), i) \subseteq Earlier(EntityRows(roster), i)
    BY <1>2, <1>3 DEF Earlier, EntityRows
  <2>2. Earlier(SameType(roster', roster[i].state), i)
          \subseteq Earlier(SameType(roster, roster[i].state), i)
    BY <1>2, <1>3 DEF Earlier, EntityRows, SameType
  <2>3. /\ Earlier(EntityRows(roster), i) \subseteq Id
        /\ Earlier(SameType(roster, roster[i].state), i) \subseteq Id
    BY <1>3 DEF Earlier, EntityRows, SameType
  <2>4. /\ Cardinality(Earlier(EntityRows(roster), i)) < EntityLines
        /\ Cardinality(Earlier(SameType(roster, roster[i].state), i)) < EntityPerType
    BY <1>4 DEF Fits
  <2>5. Cardinality(Earlier(EntityRows(roster'), i)) < EntityLines
    BY <2>1, <2>3, <2>4, RowsCounted, LimitAssumption
  <2>6. Cardinality(Earlier(SameType(roster', roster[i].state), i)) < EntityPerType
    BY <2>2, <2>3, <2>4, RowsCounted, LimitAssumption
  <2> QED
    BY <1>1, <1>4, <2>5, <2>6 DEF Fits
<1>5. CASE ~roster[i].entity
  <2>1. Earlier(PersonRows(roster', roster[i].who), i)
          \subseteq Earlier(PersonRows(roster, roster[i].who), i)
    BY <1>2, <1>3 DEF Earlier, PersonRows
  <2>2. Earlier(PersonRows(roster, roster[i].who), i) \subseteq Id
    BY <1>3 DEF Earlier, PersonRows
  <2>3. Cardinality(Earlier(PersonRows(roster, roster[i].who), i)) < PerPerson
    BY <1>5 DEF Fits
  <2>4. Cardinality(Earlier(PersonRows(roster', roster[i].who), i)) < PerPerson
    BY <2>1, <2>2, <2>3, RowsCounted, LimitAssumption
  <2> QED
    BY <1>1, <1>5, <2>4 DEF Fits
<1> QED
  BY <1>4, <1>5

\* Where no insert has overtaken another, the lines ranked ahead include all
\* the ones inserted before.
LEMMA StandsThenFits ==
    ASSUME TypeOK, NEW i \in Id, New(i), ~Overtaken, AddStands(roster, i)
    PROVE  Fits(i)
<1>1. ASSUME NEW S, S \subseteq Id
      PROVE  /\ Cardinality(Earlier(S, i)) <= Cardinality(Ahead(roster, S, i))
             /\ Cardinality(Earlier(S, i)) \in Nat /\ Cardinality(Ahead(roster, S, i)) \in Nat
  <2>1. ASSUME NEW j \in S, j < i PROVE Before(roster, j, i)
    <3>1. ~(roster[i].at < roster[j].at)
      BY <1>1, <2>1 DEF Overtaken
    <3>2. roster[i].at \in Nat /\ roster[j].at \in Nat /\ i \in Int /\ j \in Int
      BY <1>1, LimitAssumption DEF TypeOK, Line, Id
    <3> QED
      BY <2>1, <3>1, <3>2 DEF Before
  <2>2. Earlier(S, i) \subseteq Ahead(roster, S, i)
    BY <2>1 DEF Earlier, Ahead
  <2>3. Ahead(roster, S, i) \subseteq Id
    BY <1>1 DEF Ahead
  <2> QED
    BY <2>2, <2>3, RowsCounted
<1>2. /\ EntityRows(roster) \subseteq Id /\ SameType(roster, roster[i].state) \subseteq Id
      /\ PersonRows(roster, roster[i].who) \subseteq Id
  BY DEF EntityRows, SameType, PersonRows, Listed, TypeOK
<1>3. CASE roster[i].entity
  <2>1. /\ Cardinality(Ahead(roster, EntityRows(roster), i)) < EntityLines
        /\ Cardinality(Ahead(roster, SameType(roster, roster[i].state), i)) < EntityPerType
    BY <1>3 DEF AddStands
  <2>2. Cardinality(Earlier(EntityRows(roster), i)) < EntityLines
    BY <1>1, <1>2, <2>1, LimitAssumption
  <2>3. Cardinality(Earlier(SameType(roster, roster[i].state), i)) < EntityPerType
    BY <1>1, <1>2, <2>1, LimitAssumption
  <2> QED
    BY <1>3, <2>2, <2>3 DEF Fits
<1>4. CASE ~roster[i].entity
  <2>1. Cardinality(Ahead(roster, PersonRows(roster, roster[i].who), i)) < PerPerson
    BY <1>4 DEF AddStands
  <2>2. Cardinality(Earlier(PersonRows(roster, roster[i].who), i)) < PerPerson
    BY <1>1, <1>2, <2>1, LimitAssumption
  <2> QED
    BY <1>4, <2>2 DEF Fits
<1> QED
  BY <1>3, <1>4

LEMMA NextJudged ==
    ASSUME TypeOK, Begun, Rows, [Next]_vars, ~Edited', ~Overtaken', ~Overtaken => Judged
    PROVE  Judged'
<1> SUFFICES ASSUME NEW p \in Request, Inserted(p)', req'[p].pc = "done",
                    req'[p].id \in Listed(roster')
             PROVE  Fits(req[p].id)'
  BY DEF Judged
<1>1. PICK i \in Id : i = req[p].id
  BY DEF TypeOK, Local
<1>2. /\ Inserted(p) /\ req'[p].id = i
      /\ req[p].pc = "done" \/ (AddRecheck(p) /\ roster' = roster)
  BY <1>1, SteadyRequests
<1>3. New(i) /\ Used(i)
  BY <1>1, <1>2 DEF Rows, Placed, New, Used
<1>4. ~Overtaken /\ Judged
  BY OvertakenStays
<1>5. i \in Listed(roster)
  BY <1>2, <1>3, Steady
<1>6. ASSUME req[p].pc = "done"
      PROVE  Fits(i)
  BY <1>1, <1>2, <1>4, <1>5, <1>6 DEF Judged
<1>7. ASSUME AddRecheck(p) /\ roster' = roster
      PROVE  Fits(i)
  <2>1. PICK pc : Goto(p, pc) /\ pc = IF req[p].id \in Listed(roster) /\ ~AddStands(roster, req[p].id)
                                        THEN "undo" ELSE "done"
    BY <1>7 DEF AddRecheck
  <2>2. AddStands(roster, i)
    BY <1>1, <1>5, <2>1, Going
  <2> QED
    BY <1>3, <1>4, <2>2, StandsThenFits
<1>8. Fits(i)
  BY <1>2, <1>6, <1>7
<1>9. Fits(i)'
  BY <1>3, <1>8, FitsStays
<1> QED
  BY <1>2, <1>9 DEF Fits

-----------------------------------------------------------------------------
(* A line that failed its second look was, and stays, ranked behind enough *)
(* others.                                                                 *)

LEMMA AheadStays ==
    ASSUME TypeOK, Begun, Rows, [Next]_vars, ~Edited', NEW i \in Id, Used(i), NEW w
    PROVE  Ahead(roster, EverOf(w), i) \subseteq Ahead(roster, EverOf(w), i)'
<1> SUFFICES ASSUME NEW j \in Ahead(roster, EverOf(w), i)
             PROVE  j \in Ahead(roster, EverOf(w), i)'
  OBVIOUS
<1>1. /\ j \in Id /\ Used(j) /\ ~roster[j].entity /\ roster[j].who = w
      /\ j # i /\ roster[j].at <= roster[i].at
  BY DEF Ahead, EverOf, Before
<1>2. /\ Used(j)' /\ roster'[j].entity = roster[j].entity /\ roster'[j].who = roster[j].who
      /\ roster'[j].at = roster[j].at /\ roster'[i].at = roster[i].at
  BY <1>1, Steady DEF Holds
<1> QED
  BY <1>1, <1>2 DEF Ahead, EverOf, Before

LEMMA CrowdedStays ==
    ASSUME TypeOK, Begun, Rows, [Next]_vars, ~Edited', NEW i \in Id, Used(i), Crowded(i)
    PROVE  Crowded(i)'
<1>1. PICK w : w = roster[i].who
  OBVIOUS
<1>2. roster'[i].who = w
  BY <1>1, Steady DEF Holds
<1>3. Ahead(roster, EverOf(w), i) \subseteq Ahead(roster, EverOf(w), i)'
  BY AheadStays
<1>4. Ahead(roster, EverOf(w), i)' \subseteq Id
  BY DEF Ahead, EverOf
<1>5. Cardinality(Ahead(roster, EverOf(w), i)) >= PerPerson
  BY <1>1 DEF Crowded
<1>6. Cardinality(Ahead(roster, EverOf(w), i)') >= PerPerson
  BY <1>3, <1>4, <1>5, RowsCounted, LimitAssumption
<1> QED
  BY <1>2, <1>6 DEF Crowded

LEMMA LateStays ==
    ASSUME TypeOK, Begun, Rows, [Next]_vars, ~Edited', NEW i \in Id, Used(i), Late(i)
    PROVE  Late(i)'
<1> DEFINE V == {w \in Person : Ahead(roster, EverOf(w), i) # {}}
           W == {w \in Person : Ahead(roster, EverOf(w), i)' # {}}
<1>1. V \subseteq W
  BY AheadStays
<1>2. \A w \in W : \E j \in Id : roster'[j].who = w
  BY DEF Ahead, EverOf
<1>3. Cardinality(V) >= Cap
  BY DEF Late
<1>4. Late(i)' <=> Cardinality(W) >= Cap
  BY DEF Late
<1> HIDE DEF V, W
<1>5. /\ Cardinality(W) \in Nat /\ Cardinality(V) \in Nat
      /\ Cardinality(V) <= Cardinality(W)
  BY <1>1, <1>2, PeopleCounted
<1> QED
  BY <1>3, <1>4, <1>5, LimitAssumption

\* Failing the second look is being ranked behind enough others.
LEMMA FailsThenBeaten ==
    ASSUME TypeOK, NEW i \in Id, ~roster[i].entity, ~AddStands(roster, i)
    PROVE  Crowded(i) \/ Late(i)
<1> DEFINE mine == Ahead(roster, PersonRows(roster, roster[i].who), i)
           V == {w \in People(roster) : Ahead(roster, PersonRows(roster, w), i) # {}}
           W == {w \in Person : Ahead(roster, EverOf(w), i) # {}}
<1>1. ~(Cardinality(mine) < PerPerson) \/ ~(Cardinality(V) < Cap)
  BY DEF AddStands
<1>2. \A w : Ahead(roster, PersonRows(roster, w), i) \subseteq Ahead(roster, EverOf(w), i)
  BY DEF Ahead, PersonRows, EverOf, Listed, Used, TypeOK
<1>3. Ahead(roster, EverOf(roster[i].who), i) \subseteq Id
  BY DEF Ahead, EverOf
<1>4. CASE ~(Cardinality(mine) < PerPerson)
  <2>1. mine \subseteq Ahead(roster, EverOf(roster[i].who), i)
    BY <1>2
  <2> HIDE DEF mine
  <2>2. Cardinality(Ahead(roster, EverOf(roster[i].who), i)) >= PerPerson
    BY <1>3, <1>4, <2>1, RowsCounted, LimitAssumption
  <2> QED
    BY <2>2 DEF Crowded
<1>5. CASE ~(Cardinality(V) < Cap)
  <2>1. V \subseteq W
    BY <1>2 DEF People
  <2>2. \A w \in W : \E j \in Id : roster[j].who = w
    BY DEF Ahead, EverOf
  <2>3. Late(i) <=> Cardinality(W) >= Cap
    BY DEF Late
  <2> HIDE DEF V, W
  <2>4. /\ Cardinality(W) \in Nat /\ Cardinality(V) \in Nat
        /\ Cardinality(V) <= Cardinality(W)
    BY <2>1, <2>2, PeopleCounted
  <2> QED
    BY <1>5, <2>3, <2>4, LimitAssumption
<1> QED
  BY <1>1, <1>4, <1>5

LEMMA NextBeaten ==
    ASSUME TypeOK, Begun, Rows, [Next]_vars, ~Edited', Beaten
    PROVE  Beaten'
<1> SUFFICES ASSUME NEW p \in Request, Inserted(p)', req'[p].pc \in {"undo", "undone"},
                    ~req'[p].f.entity
             PROVE  Crowded(req[p].id)' \/ Late(req[p].id)'
  BY DEF Beaten
<1>1. PICK i \in Id : i = req[p].id
  BY DEF TypeOK, Local
<1>2. /\ Inserted(p) /\ req'[p].id = i /\ ~req[p].f.entity
      /\ req[p].pc \in {"undo", "undone"} \/ (AddRecheck(p) /\ roster' = roster)
  BY <1>1, SteadyRequests
<1>3. Used(i) /\ ~roster[i].entity
  BY <1>1, <1>2 DEF Rows, Placed, Holds
<1>4. ASSUME req[p].pc \in {"undo", "undone"}
      PROVE  Crowded(i) \/ Late(i)
  BY <1>1, <1>2, <1>4 DEF Beaten
<1>5. ASSUME AddRecheck(p) /\ roster' = roster
      PROVE  Crowded(i) \/ Late(i)
  <2>1. PICK pc : Goto(p, pc) /\ pc = IF req[p].id \in Listed(roster) /\ ~AddStands(roster, req[p].id)
                                        THEN "undo" ELSE "done"
    BY <1>5 DEF AddRecheck
  <2>2. ~AddStands(roster, i)
    BY <1>1, <2>1, Going
  <2> QED
    BY <1>3, <2>2, FailsThenBeaten
<1>6. Crowded(i)' \/ Late(i)'
  BY <1>2, <1>3, <1>4, <1>5, CrowdedStays, LateStays
<1> QED
  BY <1>2, <1>6 DEF Crowded, Late

-----------------------------------------------------------------------------
(* The invariant.                                                          *)

LEMMA InitSeatInv == Init => SeatInv
<1> SUFFICES ASSUME Init PROVE SeatInv
  OBVIOUS
<1>1. TypeOK
  BY InitTyped
<1>2. \A q \in Request : req[q].pc = "idle" /\ req[q].op = "add"
  BY DEF Init
<1>3. \A i \in Id : /\ i <= Len(Start) => roster[i].status = "live" /\ roster[i].at = 0
                    /\ ~(i <= Len(Start)) => roster[i].status = "unused"
                    /\ roster[i] = InitialRoster[i]
  BY DEF Init, InitialRoster, AsLine
<1>4. Len(Start) \in Nat /\ Id \subseteq Nat
  BY StartAssumption, LimitAssumption DEF Id
<1>5. Begun /\ Placed /\ Apart /\ TakenBack /\ Beaten /\ Judged
  BY <1>2 DEF Begun, Placed, Apart, TakenBack, Beaten, Judged, Inserted
<1>6. Owned /\ Gone
  <2>1. ASSUME NEW i \in Id PROVE roster[i].status # "removed" /\ ~New(i)
    <3>1. CASE i <= Len(Start)
      BY <1>3, <1>4, <3>1 DEF New
    <3>2. CASE ~(i <= Len(Start))
      BY <1>3, <3>2 DEF New
    <3> QED
      BY <3>1, <3>2
  <2> QED
    BY <2>1 DEF Owned, Gone
<1>7. Kept /\ Packed
  BY <1>3, <1>4 DEF Kept, Packed, Used, Holds
<1> QED
  BY <1>1, <1>5, <1>6, <1>7 DEF SeatInv, Rows

LEMMA NextSeatInv == SeatInv /\ [Next]_vars => SeatInv'
<1> SUFFICES ASSUME SeatInv, [Next]_vars PROVE SeatInv'
  OBVIOUS
<1>1. TypeOK' /\ Begun'
  BY NextTyped, NextBegun DEF SeatInv
<1>2. ASSUME ~Edited'
      PROVE  Rows' /\ Beaten' /\ (~Overtaken' => Judged')
  <2>1. TypeOK /\ Begun /\ Rows /\ Beaten /\ (~Overtaken => Judged)
    BY <1>2, StepKinds DEF SeatInv
  <2> QED
    BY <1>2, <2>1, NextKeepsRows, NextBeaten, NextJudged
<1> QED
  BY <1>1, <1>2 DEF SeatInv

LEMMA SeatInvHolds == Spec => []SeatInv
BY InitSeatInv, NextSeatInv, PTL DEF Spec

-----------------------------------------------------------------------------
(* The line ceilings.                                                      *)

LEMMA UnionCounted ==
    ASSUME NEW S \in SUBSET Id, NEW A \in SUBSET Id, NEW B \in SUBSET Id, S \subseteq A \cup B
    PROVE  Cardinality(S) <= Cardinality(A) + Cardinality(B)
<1>1. /\ IsFiniteSet(A) /\ IsFiniteSet(B) /\ Cardinality(A) \in Nat /\ Cardinality(B) \in Nat
      /\ A \cap B \subseteq A /\ A \cup B \subseteq Id
  BY RowsCounted
<1>2. Cardinality(A \cup B) = Cardinality(A) + Cardinality(B) - Cardinality(A \cap B)
  BY <1>1, FS_Union
<1>3. Cardinality(A \cap B) \in Nat
  BY <1>1, RowsCounted
<1>4. Cardinality(S) <= Cardinality(A \cup B) /\ Cardinality(S) \in Nat
      /\ Cardinality(A \cup B) \in Nat
  BY <1>1, RowsCounted
<1> QED
  BY <1>1, <1>2, <1>3, <1>4

\* A set of lines in which every one that was checked had room among the
\* earlier ones is within the limit, but for those there from the start and
\* those whose check was lost.
LEMMA Room ==
    ASSUME NEW S \in SUBSET Id, NEW L \in SUBSET Id, NEW D \in SUBSET S, NEW S0 \in SUBSET Id,
           NEW limit \in Nat,
           \A i \in S : i \in L \/ i \in D \/ i \in S0,
           \A d \in D, i \in S0 : i < d,
           \A d \in D : Cardinality(Earlier(S, d)) < limit
    PROVE  Cardinality(S) <= Cardinality(L) + Larger(limit, Cardinality(S0))
<1>1. /\ Cardinality(S) \in Nat /\ Cardinality(L) \in Nat /\ Cardinality(S0) \in Nat
      /\ Cardinality(D) \in Nat
  BY RowsCounted
<1>2. CASE D = {}
  <2>1. Cardinality(S) <= Cardinality(L) + Cardinality(S0)
    BY <1>2, UnionCounted
  <2> QED
    BY <1>1, <2>1 DEF Larger
<1>3. CASE D # {}
  <2>1. PICK d \in D : \A k \in D : k <= d
    <3>1. D \subseteq 1..MaxId
      BY DEF Id
    <3> QED
      BY <1>3, <3>1, GreatestMember, LimitAssumption
  <2> DEFINE E == Earlier(S, d)
  <2>2. E \in SUBSET Id /\ E \cup {d} \in SUBSET Id /\ Cardinality(E) < limit /\ d \notin E
    <3>1. d \in Id
      OBVIOUS
    <3>2. d \in Int
      <4>1. Id \subseteq Int
        BY LimitAssumption DEF Id
      <4> QED
        BY <3>1, <4>1
    <3>3. E \subseteq Id /\ d \notin E
      <4>1. E \subseteq S
        BY DEF Earlier
      <4>2. S \subseteq Id
        OBVIOUS
      <4>3. ~(d < d)
        BY <3>2
      <4>4. d \notin E
        BY <4>3 DEF Earlier
      <4> QED
        BY <4>1, <4>2, <4>4
    <3>4. Cardinality(E) < limit
      OBVIOUS
    <3> HIDE DEF E
    <3> QED
      BY <3>1, <3>3, <3>4
  <2>3. S \subseteq L \cup (E \cup {d})
    <3> SUFFICES ASSUME NEW i \in S, i \notin L PROVE i < d \/ i = d
      BY DEF Earlier
    <3>1. i \in D \/ i \in S0
      OBVIOUS
    <3>2. i \in Int /\ d \in Int
      BY LimitAssumption DEF Id
    <3> QED
      BY <2>1, <3>1, <3>2
  <2> HIDE DEF E
  <2>4. /\ Cardinality(E) \in Nat /\ IsFiniteSet(E)
        /\ Cardinality(E \cup {d}) = Cardinality(E) + 1
    BY <2>2, RowsCounted, FS_AddElement
  <2>5. Cardinality(S) <= Cardinality(L) + Cardinality(E \cup {d})
    BY <2>2, <2>3, UnionCounted
  <2>6. Cardinality(E) + 1 <= limit
    BY <2>2, <2>4
  <2> QED
    BY <1>1, <2>4, <2>5, <2>6 DEF Larger
<1> QED
  BY <1>2, <1>3

LostRows == {i \in Id : \E q \in Request : Inserted(q) /\ req[q].id = i /\ req[q].pc = "lost"}

\* Every lost check leaves one line behind at most.
LEMMA LostCounted == Cardinality(LostRows) <= Lost
<1> DEFINE T == {q \in Request : req[q].pc = "lost"}
           owner == [i \in LostRows |-> CHOOSE q \in Request :
                        Inserted(q) /\ req[q].id = i /\ req[q].pc = "lost"]
<1>1. \A i \in LostRows : owner[i] \in T /\ req[owner[i]].id = i
  BY DEF LostRows
<1>2. owner \in Injection(LostRows, T)
  <2>1. DOMAIN owner = LostRows /\ owner \in [LostRows -> T]
    BY <1>1
  <2>2. \A i, j \in LostRows : owner[i] = owner[j] => i = j
    <3> HIDE DEF owner
    <3> QED
      BY <1>1
  <2> HIDE DEF owner
  <2> QED
    BY <2>1, <2>2 DEF Injection, IsInjective
<1> HIDE DEF owner
<1>3. IsFiniteSet(T)
  BY RequestAssumption, FS_Subset
<1>4. Cardinality(LostRows) <= Cardinality(T)
  BY <1>2, <1>3, FS_Injection
<1> QED
  BY <1>4 DEF Lost

LEMMA Ceiling ==
    ASSUME TypeOK, Rows, AtRest,
           NEW S, S \subseteq Listed(roster), NEW S0 \in SUBSET Id, NEW limit \in Nat,
           \A i \in S : i <= Len(Start) => i \in S0,
           \A i \in S0 : i <= Len(Start),
           \A q \in Request : (Inserted(q) /\ req[q].pc = "done" /\ req[q].id \in S) =>
                                Cardinality(Earlier(S, req[q].id)) < limit
    PROVE  Cardinality(S) <= Lost + Larger(limit, Cardinality(S0))
<1> DEFINE D == {i \in S : \E q \in Request : /\ Inserted(q) /\ req[q].pc = "done"
                                             /\ req[q].id = i}
<1>1. Len(Start) \in Nat /\ Id \subseteq Nat /\ S \subseteq Id
  BY StartAssumption, LimitAssumption DEF Id, Listed, TypeOK
<1>2. ASSUME NEW i \in S PROVE i \in LostRows \/ i \in D \/ i \in S0
  <2>1. CASE i <= Len(Start)
    BY <2>1
  <2>2. CASE ~(i <= Len(Start))
    <3>1. i \in Id /\ roster[i].status = "live"
      BY <1>1 DEF Listed
    <3>2. New(i)
      BY <1>1, <2>2, <3>1 DEF New
    <3>3. PICK q \in Request : Inserted(q) /\ req[q].id = i
      BY <3>1, <3>2 DEF Rows, Owned
    <3>4. req[q].pc \in {"undone", "done", "lost"}
      BY <3>3 DEF Inserted, AtRest, Ended
    <3>5. req[q].pc # "undone"
      BY <3>1, <3>3 DEF Rows, TakenBack
    <3> QED
      BY <3>1, <3>3, <3>4, <3>5 DEF LostRows
  <2> QED
    BY <2>1, <2>2
<1>3. ASSUME NEW d \in D, NEW i \in S0 PROVE i < d
  <2>1. PICK q \in Request : Inserted(q) /\ req[q].id = d
    OBVIOUS
  <2>2. d > Len(Start)
    BY <2>1 DEF Rows, Placed
  <2>3. d \in Nat /\ i \in Nat /\ i <= Len(Start)
    BY <1>1
  <2> HIDE DEF D
  <2> QED
    BY <1>1, <2>2, <2>3
<1>4. \A d \in D : Cardinality(Earlier(S, d)) < limit
  OBVIOUS
<1>5. LostRows \in SUBSET Id /\ D \in SUBSET S
  BY DEF LostRows
<1> HIDE DEF D
<1>6. Cardinality(S) <= Cardinality(LostRows) + Larger(limit, Cardinality(S0))
  BY <1>1, <1>2, <1>3, <1>4, <1>5, Room
<1>7. /\ Cardinality(S) \in Nat /\ Cardinality(LostRows) \in Nat
      /\ Larger(limit, Cardinality(S0)) \in Nat
  BY <1>1, <1>5, RowsCounted DEF Larger
<1>8. Lost \in Nat
  <2>1. IsFiniteSet({q \in Request : req[q].pc = "lost"})
    BY RequestAssumption, FS_Subset
  <2> QED
    BY <2>1, FS_CardinalityType DEF Lost
<1> QED
  BY <1>6, <1>7, <1>8, LostCounted

\* At rest, unless inserts have overtaken one another: per person, per firm
\* and per firm permit, the lines are within the limit, or as many as there
\* were to begin with, and one more for every check that was lost.
THEOREM CeilingsKept == Spec => []CeilingsAtRest
<1>1. SeatInv => CeilingsAtRest
  <2> SUFFICES ASSUME SeatInv, AtRest, ~Overtaken, ~Edited
               PROVE  /\ \A w \in Person :
                            Cardinality(PersonRows(roster, w))
                              <= Lost + Larger(PerPerson, Cardinality(PersonRows(InitialRoster, w)))
                      /\ Cardinality(EntityRows(roster))
                            <= Lost + Larger(EntityLines, Cardinality(EntityRows(InitialRoster)))
                      /\ \A st \in State :
                            Cardinality(SameType(roster, st))
                              <= Lost + Larger(EntityPerType, Cardinality(SameType(InitialRoster, st)))
    BY DEF CeilingsAtRest
  <2>1. TypeOK /\ Rows /\ Judged
    BY DEF SeatInv
  <2>2. \A i \in Listed(InitialRoster) : i \in Id /\ i <= Len(Start)
    BY DEF Listed, InitialRoster, AsLine
  <2>3. ASSUME NEW i \in Listed(roster), i <= Len(Start)
        PROVE  i \in Listed(InitialRoster) /\ Holds(roster[i], InitialRoster[i])
    BY <2>1, <2>3 DEF Rows, Kept, Listed, TypeOK, InitialRoster
  <2>4. ASSUME NEW w \in Person
        PROVE  Cardinality(PersonRows(roster, w))
                 <= Lost + Larger(PerPerson, Cardinality(PersonRows(InitialRoster, w)))
    <3>1. \A i \in PersonRows(roster, w) : i <= Len(Start) => i \in PersonRows(InitialRoster, w)
      BY <2>3 DEF PersonRows, Holds
    <3>2. PersonRows(roster, w) \subseteq Listed(roster)
      BY DEF PersonRows
    <3>3. /\ PersonRows(InitialRoster, w) \in SUBSET Id
          /\ \A i \in PersonRows(InitialRoster, w) : i <= Len(Start)
      BY <2>2 DEF PersonRows
    <3>4. \A q \in Request :
            (Inserted(q) /\ req[q].pc = "done" /\ req[q].id \in PersonRows(roster, w)) =>
               Cardinality(Earlier(PersonRows(roster, w), req[q].id)) < PerPerson
      BY <2>1, <3>2 DEF Judged, Fits, PersonRows
    <3> QED
      BY <2>1, <3>1, <3>2, <3>3, <3>4, Ceiling, LimitAssumption
  <2>5. Cardinality(EntityRows(roster))
          <= Lost + Larger(EntityLines, Cardinality(EntityRows(InitialRoster)))
    <3>1. \A i \in EntityRows(roster) : i <= Len(Start) => i \in EntityRows(InitialRoster)
      BY <2>3 DEF EntityRows, Holds
    <3>2. EntityRows(roster) \subseteq Listed(roster)
      BY DEF EntityRows
    <3>3. /\ EntityRows(InitialRoster) \in SUBSET Id
          /\ \A i \in EntityRows(InitialRoster) : i <= Len(Start)
      BY <2>2 DEF EntityRows
    <3>4. \A q \in Request :
            (Inserted(q) /\ req[q].pc = "done" /\ req[q].id \in EntityRows(roster)) =>
               Cardinality(Earlier(EntityRows(roster), req[q].id)) < EntityLines
      BY <2>1, <3>2 DEF Judged, Fits, EntityRows
    <3> QED
      BY <2>1, <3>1, <3>2, <3>3, <3>4, Ceiling, LimitAssumption
  <2>6. ASSUME NEW st \in State
        PROVE  Cardinality(SameType(roster, st))
                 <= Lost + Larger(EntityPerType, Cardinality(SameType(InitialRoster, st)))
    <3>1. \A i \in SameType(roster, st) : i <= Len(Start) => i \in SameType(InitialRoster, st)
      BY <2>3 DEF SameType, EntityRows, Holds
    <3>2. SameType(roster, st) \subseteq Listed(roster)
      BY DEF SameType, EntityRows
    <3>3. /\ SameType(InitialRoster, st) \in SUBSET Id
          /\ \A i \in SameType(InitialRoster, st) : i <= Len(Start)
      BY <2>2 DEF SameType, EntityRows
    <3>4. \A q \in Request :
            (Inserted(q) /\ req[q].pc = "done" /\ req[q].id \in SameType(roster, st)) =>
               Cardinality(Earlier(SameType(roster, st), req[q].id)) < EntityPerType
      BY <2>1, <3>2 DEF Judged, Fits, SameType, EntityRows
    <3> QED
      BY <2>1, <3>1, <3>2, <3>3, <3>4, Ceiling, LimitAssumption
  <2> QED
    BY <2>4, <2>5, <2>6
<1> QED
  BY <1>1, SeatInvHolds, PTL

-----------------------------------------------------------------------------
(* Racers that do not share a millisecond do not undo each other.          *)

\* The row of an addition to a person's lines that was taken back.
Undone(i) == /\ ~roster[i].entity
             /\ \E q \in Request : Inserted(q) /\ req[q].id = i /\ req[q].pc = "undone"
Quiet == AtRest /\ ~Tied /\ ~Edited /\ \A q \in Remover : req[q].pc = "idle"

LEMMA UndoneRows ==
    ASSUME SeatInv, Quiet
    PROVE  /\ \A i \in Id : (Used(i) /\ ~roster[i].entity /\ i \notin Listed(roster)) => Undone(i)
           /\ \A i \in Id : Undone(i) => Crowded(i) \/ Late(i)
           /\ \A i, j \in Id : (Undone(i) /\ Undone(j) /\ i # j) => roster[i].at # roster[j].at
           /\ \A i \in Id : roster[i].at \in Nat
<1>1. TypeOK /\ Rows /\ Beaten
  BY DEF SeatInv, Quiet
<1>2. \A i \in Id : roster[i] \in Line
  BY <1>1 DEF TypeOK
<1>3. ASSUME NEW i \in Id, Used(i), ~roster[i].entity, i \notin Listed(roster)
      PROVE  Undone(i)
  <2>1. roster[i].status = "removed"
    BY <1>1, <1>2, <1>3 DEF Used, Listed, TypeOK, Line
  <2> QED
    BY <1>1, <1>3, <2>1 DEF Rows, Gone, Quiet, Undone
<1>4. ASSUME NEW i \in Id, Undone(i)
      PROVE  New(i) /\ (Crowded(i) \/ Late(i))
  <2>1. PICK q \in Request : Inserted(q) /\ req[q].id = i /\ req[q].pc = "undone"
    BY <1>4 DEF Undone
  <2>2. New(i) /\ Holds(roster[i], req[q].f)
    BY <1>1, <2>1 DEF Rows, Placed, New, Used
  <2> QED
    BY <1>1, <1>4, <2>1, <2>2 DEF Beaten, Holds, Undone
<1>5. ASSUME NEW i \in Id, NEW j \in Id, Undone(i), Undone(j), i # j
      PROVE  roster[i].at # roster[j].at
  <2>1. New(i) /\ New(j)
    BY <1>4, <1>5
  <2>2. i < j \/ j < i
    BY <1>5, LimitAssumption DEF Id
  <2> QED
    BY <2>1, <2>2 DEF Quiet, Tied
<1> QED
  BY <1>2, <1>3, <1>4, <1>5 DEF Line

\* The first addition to be taken back for want of a line is ranked behind
\* lines that are still there.
LEMMA FirstCrowded ==
    ASSUME SeatInv, Quiet, NEW c \in Id, Undone(c), Crowded(c),
           \A b \in Id : (Undone(b) /\ Late(b)) => roster[c].at <= roster[b].at
    PROVE  Cardinality(PersonRows(roster, roster[c].who)) >= PerPerson
<1> DEFINE w == roster[c].who
           Mine == {k \in Id : Undone(k) /\ Crowded(k) /\ roster[k].who = w}
           Dates == {roster[k].at : k \in Mine}
<1>1. Dates \subseteq Nat /\ Dates # {} /\ c \in Mine
  BY UndoneRows
<1>2. PICK m \in Dates : \A n \in Dates : m <= n
  BY <1>1, LeastMember
<1>3. PICK k \in Mine : roster[k].at = m
  OBVIOUS
<1>4. ASSUME NEW j \in Ahead(roster, EverOf(w), k)
      PROVE  j \in PersonRows(roster, w)
  <2>1. /\ j \in Id /\ Used(j) /\ ~roster[j].entity /\ roster[j].who = w
        /\ j # k /\ roster[j].at <= roster[k].at
    BY DEF Ahead, EverOf, Before
  <2>2. ASSUME j \notin Listed(roster)
        PROVE  FALSE
    <3>1. Undone(j)
      BY <2>1, <2>2, UndoneRows
    <3>2. Undone(k) /\ k \in Id /\ roster[k].at <= roster[c].at
      BY <1>1, <1>2, <1>3
    <3>3. roster[j].at \in Nat /\ roster[k].at \in Nat /\ roster[c].at \in Nat
          /\ roster[j].at # roster[k].at
      BY <2>1, <3>1, <3>2, UndoneRows
    <3>4. roster[j].at < roster[k].at
      BY <2>1, <3>3
    <3>5. ~Crowded(j)
      <4>1. SUFFICES ASSUME Crowded(j) PROVE FALSE
        OBVIOUS
      <4>2. roster[j].at \in Dates
        BY <2>1, <3>1, <4>1
      <4>3. roster[k].at <= roster[j].at
        BY <1>2, <1>3, <4>2
      <4> QED
        BY <3>3, <3>4, <4>3
    <3>6. Late(j)
      BY <2>1, <3>1, <3>5, UndoneRows
    <3>7. roster[c].at <= roster[j].at
      BY <2>1, <3>1, <3>6
    <3> QED
      BY <3>2, <3>3, <3>4, <3>7
  <2> QED
    BY <2>1, <2>2 DEF PersonRows
<1>5. Cardinality(Ahead(roster, EverOf(w), k)) >= PerPerson
  BY <1>3 DEF Crowded
<1>6. PersonRows(roster, w) \subseteq Id
  BY DEF PersonRows, Listed, SeatInv, TypeOK
<1>7. Ahead(roster, EverOf(w), k) \subseteq PersonRows(roster, w)
  BY <1>4
<1> HIDE DEF w
<1>8. Cardinality(PersonRows(roster, w)) >= PerPerson
  BY <1>5, <1>6, <1>7, RowsCounted, LimitAssumption
<1> QED
  BY <1>8 DEF w

\* At rest, with no edits, no removals and no two inserts in one millisecond:
\* if an addition was taken back, the seats are all taken or its person has
\* all the lines a person may have.
THEOREM SeatWasTaken == Spec => []SeatGoesToSomeone
<1>1. SeatInv => SeatGoesToSomeone
  <2> SUFFICES ASSUME SeatInv, Quiet,
                      NEW q \in Request, At(q, "add", "undone"), ~req[q].f.entity
               PROVE  \/ Seats(roster) >= Cap
                      \/ Cardinality(PersonRows(roster, req[q].f.who)) >= PerPerson
    BY DEF SeatGoesToSomeone, Quiet
  <2>1. TypeOK /\ Rows /\ PerPerson \in Nat /\ Cap \in Nat
    BY LimitAssumption DEF SeatInv, Quiet
  <2>2. PICK i \in Id : i = req[q].id
    BY <2>1 DEF TypeOK, Local
  <2>3. Inserted(q) /\ Holds(roster[i], req[q].f)
    BY <2>1, <2>2 DEF Inserted, At, Rows, Placed
  <2>4. Undone(i)
    BY <2>2, <2>3 DEF Undone, At, Holds
  <2>5. CASE \A b \in Id : ~(Undone(b) /\ Late(b))
    <3>1. Crowded(i)
      BY <2>4, <2>5, UndoneRows
    <3> QED
      BY <2>3, <2>4, <2>5, <3>1, FirstCrowded DEF Holds
  <2>6. CASE PerPerson = 0
    <3>1. PersonRows(roster, req[q].f.who) \subseteq Id
      BY <2>1 DEF PersonRows, Listed, TypeOK
    <3> QED
      BY <2>6, <3>1, RowsCounted
  <2>7. CASE PerPerson # 0 /\ \E b \in Id : Undone(b) /\ Late(b)
    <3> DEFINE Lates == {k \in Id : Undone(k) /\ Late(k)}
               Dates == {roster[k].at : k \in Lates}
    <3>1. Dates \subseteq Nat /\ Dates # {}
      BY <2>7, UndoneRows
    <3>2. PICK m \in Dates : \A n \in Dates : m <= n
      BY <3>1, LeastMember
    <3>3. PICK b \in Lates : roster[b].at = m
      OBVIOUS
    <3> DEFINE V == {w \in Person : Ahead(roster, EverOf(w), b) # {}}
    <3>4. ASSUME NEW w \in Person, Ahead(roster, EverOf(w), b) # {}
          PROVE  w \in People(roster)
      <4>1. PICK j : j \in Ahead(roster, EverOf(w), b)
        BY <3>4
      <4>2. /\ j \in Id /\ Used(j) /\ ~roster[j].entity /\ roster[j].who = w
            /\ j # b /\ roster[j].at <= roster[b].at
        BY <4>1 DEF Ahead, EverOf, Before
      <4>3. CASE j \in Listed(roster)
        BY <4>2, <4>3 DEF PersonRows, People
      <4>4. CASE j \notin Listed(roster)
        <5>1. Undone(j) /\ roster[j].at # roster[b].at /\ roster[j].at \in Nat /\ roster[b].at \in Nat
          BY <4>2, <4>4, <3>3, UndoneRows
        <5>2. roster[j].at < roster[b].at
          BY <4>2, <5>1
        <5>3. \A k \in Id : (Undone(k) /\ Late(k)) => roster[b].at <= roster[k].at
          BY <3>2, <3>3
        <5>4. ~Late(j)
          BY <4>2, <5>1, <5>2, <5>3
        <5>5. Crowded(j)
          BY <4>2, <5>1, <5>4, UndoneRows
        <5>6. ASSUME NEW k \in Id, Undone(k), Late(k)
              PROVE  roster[j].at <= roster[k].at
          <6>1. roster[b].at <= roster[k].at /\ roster[k].at \in Nat
            BY <5>3, <5>6, UndoneRows
          <6> QED
            BY <5>1, <5>2, <6>1
        <5>7. Cardinality(PersonRows(roster, w)) >= PerPerson
          BY <4>2, <5>1, <5>5, <5>6, FirstCrowded
        <5>8. PersonRows(roster, w) # {}
          <6>1. Cardinality({}) = 0
            BY FS_EmptySet
          <6> QED
            BY <2>1, <2>7, <5>7, <6>1
        <5> QED
          BY <5>8 DEF People
      <4> QED
        BY <4>3, <4>4
    <3>5. V \subseteq People(roster) /\ Cardinality(V) >= Cap
      BY <3>3, <3>4 DEF Late
    <3>6. \A w \in People(roster) : \E j \in Id : roster[j].who = w
      BY <2>1 DEF People, PersonRows, Listed, TypeOK
    <3> HIDE DEF V
    <3>7. /\ Cardinality(V) \in Nat /\ Cardinality(People(roster)) \in Nat
          /\ Cardinality(V) <= Cardinality(People(roster))
      BY <3>5, <3>6, PeopleCounted
    <3> QED
      BY <2>1, <3>5, <3>7 DEF Seats
  <2> QED
    BY <2>5, <2>6, <2>7
<1> QED
  BY <1>1, SeatInvHolds, PTL

-----------------------------------------------------------------------------
(* The seats.  Between the two looks of an addition the roster may hold    *)
(* more people than the cap; the lines that have been accepted do not, if  *)
(* nobody edits and a newcomer is asked for once.                          *)

AnotherLine(w, i) == \E j \in EverOf(w) : j # i

\* People with a line from the beginning.
Known(w) == \E i \in PersonRows(roster, w) : i <= Len(Start)
KnownPeople == {w \in Person : Known(w)}

\* Who is added has, and keeps, a line from the beginning, or has no other
\* line.  Two lines of one newcomer each count that person as existing
\* because of the other, and then no cap is kept.
NewcomersOnce ==
    \A i \in Id : New(i) /\ ~roster[i].entity =>
       Known(roster[i].who) \/ EverOf(roster[i].who) = {i}

\* An addition that passed the first look had room, or a line beside it.
Admitted ==
    \A q \in Request :
      /\ (req[q].op = "add" /\ req[q].pc \in {"stamp", "insert"} /\ ~req[q].f.entity) =>
            EverOf(req[q].f.who) # {} \/ Cardinality(KnownPeople) < Cap
      /\ (Inserted(q) /\ ~req[q].f.entity) =>
            AnotherLine(req[q].f.who, req[q].id) \/ Cardinality(KnownPeople) < Cap

\* A line that passed the second look had a seat behind the people of the
\* lines inserted before it, and still has, or it had a line beside it.
PeopleBefore(i) == {w \in Person : Earlier(PersonRows(roster, w), i) # {}}
Seat(i) == AnotherLine(roster[i].who, i) \/ Cardinality(PeopleBefore(i)) < Cap
Seated ==
    \A q \in Request :
      (Inserted(q) /\ req[q].pc = "done" /\ req[q].id \in Listed(roster) /\ ~req[q].f.entity) =>
         Seat(req[q].id)

CapInv == SeatInv /\ (~Edited => Admitted /\ (~Overtaken => Seated))

\* Lines do not disappear, and people who have one from the beginning do not
\* become more.
LEMMA LinesStay ==
    ASSUME TypeOK, Begun, Rows, [Next]_vars, ~Edited', NEW w
    PROVE  /\ EverOf(w) \subseteq EverOf(w)'
           /\ \A i \in Id : i <= Len(Start) /\ i \in PersonRows(roster', w)
                              => i \in PersonRows(roster, w)
<1>1. ASSUME NEW i \in EverOf(w) PROVE i \in EverOf(w)'
  BY <1>1, Steady DEF EverOf, Holds
<1>2. ASSUME NEW i \in Id, i <= Len(Start), i \in PersonRows(roster', w)
      PROVE  i \in PersonRows(roster, w)
  <2>1. Used(i)
    BY <1>2 DEF Rows, Kept
  <2>2. i \in Listed(roster)
    BY <1>2, <2>1, Steady DEF PersonRows
  <2> QED
    BY <1>2, <2>1, <2>2, Steady DEF PersonRows, Holds
<1> QED
  BY <1>1, <1>2

LEMMA KnownStays ==
    ASSUME TypeOK, Begun, Rows, [Next]_vars, ~Edited'
    PROVE  /\ \A w : Known(w)' => Known(w)
           /\ Cardinality(KnownPeople) < Cap => Cardinality(KnownPeople') < Cap
<1>1. ASSUME NEW w, Known(w)' PROVE Known(w)
  <2>1. PICK i \in PersonRows(roster', w) : i <= Len(Start)
    BY <1>1 DEF Known
  <2>2. i \in Id
    BY <2>1, Steady DEF PersonRows, Listed
  <2> QED
    BY <2>1, <2>2, LinesStay DEF Known
<1>2. KnownPeople' \subseteq KnownPeople
  BY <1>1 DEF KnownPeople
<1>3. \A w \in KnownPeople : \E j \in Id : roster[j].who = w
  BY Steady DEF KnownPeople, Known, PersonRows, Listed
<1>4. /\ Cardinality(KnownPeople) \in Nat /\ Cardinality(KnownPeople') \in Nat
      /\ Cardinality(KnownPeople') <= Cardinality(KnownPeople)
  BY <1>2, <1>3, PeopleCounted
<1> QED
  BY <1>1, <1>4, LimitAssumption

-----------------------------------------------------------------------------
(* The first look.                                                         *)

\* Passing it is having room, or having a line.
LEMMA CanAddThenAdmitted ==
    ASSUME TypeOK, NEW f \in Fields, ~f.entity, CanAdd(roster, f)
    PROVE  EverOf(f.who) # {} \/ Cardinality(KnownPeople) < Cap
<1>1. CASE PersonRows(roster, f.who) # {}
  BY <1>1 DEF PersonRows, EverOf, Listed, Used, TypeOK
<1>2. CASE PersonRows(roster, f.who) = {}
  <2>1. Cardinality(People(roster)) < Cap
    BY <1>2 DEF CanAdd
  <2>2. KnownPeople \subseteq People(roster)
    BY DEF KnownPeople, Known, People
  <2>3. \A w \in People(roster) : \E j \in Id : roster[j].who = w
    BY DEF People, PersonRows, Listed, TypeOK
  <2>4. /\ Cardinality(People(roster)) \in Nat /\ Cardinality(KnownPeople) \in Nat
        /\ Cardinality(KnownPeople) <= Cardinality(People(roster))
    BY <2>2, <2>3, PeopleCounted
  <2> QED
    BY <2>1, <2>4, LimitAssumption
<1> QED
  BY <1>1, <1>2

\* A request between its two looks.
Admitting(q) == req[q].op = "add" /\ req[q].pc \in {"stamp", "insert"}

\* It came there by passing the first look, and asks for what it asked then.
LEMMA AdmittingSteps ==
    ASSUME TypeOK, Begun, [Next]_vars, ~Edited', NEW p \in Request, Admitting(p)'
    PROVE  /\ req'[p].f = req[p].f
           /\ Admitting(p) \/ CanAdd(roster, req[p].f)
<1>1. CASE UNCHANGED vars \/ Tick
  BY <1>1 DEF vars, Tick, Admitting
<1>2. ASSUME NEW q \in Request, req'[q].pc \notin {"stamp", "insert"},
             \A r \in Request \ {q} : req'[r] = req[r]
      PROVE  req'[p].f = req[p].f /\ Admitting(p)
  <2>1. p # q
    BY <1>2 DEF Admitting
  <2> QED
    BY <1>2, <2>1 DEF Admitting
<1>3. ASSUME NEW q \in Request, AddDecide(q) \/ AddStamp(q)
      PROVE  /\ req'[p].f = req[p].f
             /\ Admitting(p) \/ CanAdd(roster, req[p].f)
  <2>1. req[q] \in Local
    BY DEF TypeOK
  <2>2. CASE p # q
    <3>1. req'[p] = req[p]
      BY <1>3, <2>2, Starting
    <3> QED
      BY <3>1 DEF Admitting
  <2>3. CASE p = q /\ AddDecide(q)
    <3>1. PICK pc : Goto(q, pc) /\ pc = IF CanAdd(roster, req[q].f) THEN "stamp" ELSE "refused"
      BY <2>3 DEF AddDecide
    <3>2. req'[q].f = req[q].f /\ req'[q].pc = pc
      BY <3>1, Going
    <3> QED
      BY <2>3, <3>1, <3>2 DEF Admitting
  <2>4. CASE p = q /\ AddStamp(q)
    BY <2>1, <2>4 DEF AddStamp, At, Admitting, TypeOK, Local
  <2> QED
    BY <1>3, <2>2, <2>3, <2>4
<1>4. ASSUME NEW q \in Request, \E f \in Ask : AddCheck(q, f)
      PROVE  req'[q].pc \notin {"stamp", "insert"} /\ \A r \in Request \ {q} : req'[r] = req[r]
  <2>1. PICK f \in Ask : AddCheck(q, f)
    BY <1>4
  <2>2. req[q] \in Local
    BY DEF TypeOK
  <2> QED
    BY <2>1, <2>2 DEF AddCheck, TypeOK, Local
<1>5. ASSUME NEW q \in Request, AddInsert(q)
      PROVE  req'[q].pc \notin {"stamp", "insert"} /\ \A r \in Request \ {q} : req'[r] = req[r]
  BY <1>5, Inserting
<1>6. ASSUME NEW q \in Request, AddRecheck(q) \/ AddUndo(q) \/ LoseCheck(q)
      PROVE  req'[q].pc \notin {"stamp", "insert"} /\ \A r \in Request \ {q} : req'[r] = req[r]
  <2>1. PICK pc \in {"undo", "done", "undone", "lost"} : Goto(q, pc)
    BY <1>6 DEF AddRecheck, AddUndo, LoseCheck
  <2> QED
    BY <2>1, Going
<1>7. ASSUME NEW q \in Request, NEW i \in Id, Remove(q, i)
      PROVE  req'[q].pc \notin {"stamp", "insert"} /\ \A r \in Request \ {q} : req'[r] = req[r]
  BY <1>7, Deleting
<1>8. ASSUME NEW q \in Request, EditStep(q) \/ \E i \in Id, f \in Ask : EditRead(q, i, f)
      PROVE  FALSE
  BY <1>8, Editing DEF Edited
<1> QED
  BY <1>1, <1>2, <1>3, <1>4, <1>5, <1>6, <1>7, <1>8 DEF Next, AddStep

\* What was inserted stays so, and says the same.
LEMMA InsertedKeeps ==
    ASSUME TypeOK, Begun, Rows, [Next]_vars, ~Edited', NEW p \in Request, Inserted(p)'
    PROVE  /\ Inserted(p) => req'[p].f = req[p].f /\ req'[p].id = req[p].id
           /\ ~Inserted(p) => AddInsert(p)
<1>1. req'[p] = req[p] => Inserted(p)
  BY DEF Inserted
<1>2. ASSUME NEW q \in Request, AddInsert(q)
      PROVE  (p # q /\ req'[p] = req[p]) \/ (p = q /\ ~Inserted(p))
  <2>1. req[q].pc = "insert" /\ (p # q => req'[p] = req[p])
    BY <1>2, Inserting
  <2> QED
    BY <2>1 DEF Inserted
<1>3. ASSUME NEW q \in Request, NEW i \in Id, (AddUndo(q) /\ i = req[q].id) \/ Remove(q, i)
      PROVE  \/ req'[p] = req[p]
             \/ Inserted(p) /\ req'[p].id = req[p].id /\ req'[p].f = req[p].f
  BY <1>3, RemovalSteps, Removing
<1>4. ASSUME NEW q \in Request, Moves(q)
      PROVE  \/ req'[p] = req[p]
             \/ /\ Inserted(p) /\ req'[p].id = req[p].id /\ req'[p].f = req[p].f
  BY <1>4 DEF Moves
<1>5. \A q \in Request : req[q].id \in Id
  BY DEF TypeOK, Local
<1>6. PICK q \in Request : AddInsert(q) \/ AddUndo(q) \/ Moves(q) \/ (\E i \in Id : Remove(q, i))
                           \/ UNCHANGED <<roster, req>>
  BY StepKinds
<1>7. CASE AddInsert(q)
  BY <1>1, <1>2, <1>7
<1>8. CASE AddUndo(q) \/ \E i \in Id : Remove(q, i)
  BY <1>1, <1>3, <1>5, <1>8
<1>9. CASE Moves(q)
  BY <1>1, <1>4, <1>9
<1>10. CASE UNCHANGED <<roster, req>>
  BY <1>1, <1>10
<1> QED
  BY <1>6, <1>7, <1>8, <1>9, <1>10

LEMMA NextAdmitted ==
    ASSUME TypeOK, Begun, Rows, [Next]_vars, ~Edited', Admitted
    PROVE  Admitted'
<1>1. ASSUME NEW p \in Request, Admitting(p)', ~req'[p].f.entity
      PROVE  (EverOf(req[p].f.who) # {} \/ Cardinality(KnownPeople) < Cap)'
  <2>1. PICK w : w = req[p].f.who
    OBVIOUS
  <2>2. req'[p].f = req[p].f /\ (Admitting(p) \/ CanAdd(roster, req[p].f))
    BY <1>1, AdmittingSteps
  <2>3. req[p].f \in Fields
    BY DEF TypeOK, Local
  <2>4. EverOf(w) # {} \/ Cardinality(KnownPeople) < Cap
    BY <1>1, <2>1, <2>2, <2>3, CanAddThenAdmitted DEF Admitted, Admitting
  <2>5. EverOf(w)' # {} \/ Cardinality(KnownPeople') < Cap
    BY <2>4, LinesStay, KnownStays
  <2> QED
    BY <2>1, <2>2, <2>5
<1>2. ASSUME NEW p \in Request, Inserted(p)', ~req'[p].f.entity
      PROVE  (AnotherLine(req[p].f.who, req[p].id) \/ Cardinality(KnownPeople) < Cap)'
  <2>1. CASE Inserted(p)
    <3>1. PICK w, i : w = req[p].f.who /\ i = req[p].id
      OBVIOUS
    <3>2. req'[p].f = req[p].f /\ req'[p].id = req[p].id
      BY <1>2, <2>1, InsertedKeeps
    <3>3. AnotherLine(w, i) \/ Cardinality(KnownPeople) < Cap
      BY <1>2, <2>1, <3>1, <3>2 DEF Admitted
    <3>4. AnotherLine(w, i)' \/ Cardinality(KnownPeople') < Cap
      BY <3>3, LinesStay, KnownStays DEF AnotherLine
    <3> QED
      BY <3>1, <3>2, <3>4
  <2>2. CASE ~Inserted(p)
    <3>1. AddInsert(p)
      BY <1>2, <2>2, InsertedKeeps
    <3>2. PICK i \in Id : /\ ~Used(i) /\ req'[p].id = i /\ req'[p].f = req[p].f
                          /\ req[p].op = "add" /\ req[p].pc = "insert"
      BY <3>1, Inserting
    <3>3. PICK w : w = req[p].f.who
      OBVIOUS
    <3>4. EverOf(w) # {} \/ Cardinality(KnownPeople) < Cap
      BY <1>2, <3>2, <3>3 DEF Admitted
    <3>5. \A j \in EverOf(w) : j # i
      BY <3>2 DEF EverOf
    <3>6. AnotherLine(w, i)' \/ Cardinality(KnownPeople') < Cap
      BY <3>4, <3>5, LinesStay, KnownStays DEF AnotherLine
    <3> QED
      BY <3>2, <3>3, <3>6
  <2> QED
    BY <2>1, <2>2
<1> QED
  BY <1>1, <1>2 DEF Admitted, Admitting

-----------------------------------------------------------------------------
(* The second look.                                                        *)

\* Where no insert has overtaken another, passing it is having a seat.
LEMMA StandsThenSeat ==
    ASSUME TypeOK, NEW i \in Id, New(i), ~Overtaken, ~roster[i].entity, AddStands(roster, i)
    PROVE  Seat(i)
<1> DEFINE V == {w \in People(roster) : Ahead(roster, PersonRows(roster, w), i) # {}}
<1>1. \A w : PersonRows(roster, w) \subseteq Id
  BY DEF PersonRows, Listed, TypeOK
<1>2. CASE Ahead(roster, PersonRows(roster, roster[i].who), i) # {}
  BY <1>1, <1>2 DEF Ahead, Before, PersonRows, Listed, EverOf, Used, Seat, AnotherLine
<1>3. CASE Ahead(roster, PersonRows(roster, roster[i].who), i) = {}
  <2>1. Cardinality(V) < Cap
    BY <1>3 DEF AddStands
  <2>2. ASSUME NEW w \in Person, Earlier(PersonRows(roster, w), i) # {}
        PROVE  w \in V
    <3>1. PICK j \in PersonRows(roster, w) : j < i
      BY <2>2 DEF Earlier
    <3>2. j \in Id
      BY <1>1, <3>1
    <3>3. ~(roster[i].at < roster[j].at)
      BY <3>1, <3>2 DEF Overtaken
    <3>4. roster[i].at \in Nat /\ roster[j].at \in Nat /\ i \in Int /\ j \in Int
      BY <3>2, LimitAssumption DEF TypeOK, Line, Id
    <3>5. Before(roster, j, i)
      BY <3>1, <3>3, <3>4 DEF Before
    <3> QED
      BY <2>2, <3>1, <3>5 DEF Ahead, People
  <2>3. PeopleBefore(i) \subseteq V
    BY <2>2 DEF PeopleBefore
  <2>4. \A w \in V : \E j \in Id : roster[j].who = w
    BY <1>1 DEF Ahead, PersonRows
  <2> HIDE DEF V
  <2>5. /\ Cardinality(V) \in Nat /\ Cardinality(PeopleBefore(i)) \in Nat
        /\ Cardinality(PeopleBefore(i)) <= Cardinality(V)
    BY <2>3, <2>4, PeopleCounted
  <2> QED
    BY <2>1, <2>5, LimitAssumption DEF Seat
<1> QED
  BY <1>2, <1>3

\* A seat stays.
LEMMA SeatStays ==
    ASSUME TypeOK, Begun, Rows, [Next]_vars, ~Edited', NEW i \in Id, Used(i), Seat(i)
    PROVE  Seat(i)'
<1>1. PICK w : w = roster[i].who
  OBVIOUS
<1>2. roster'[i].who = w
  BY <1>1, Steady DEF Holds
<1>3. CASE AnotherLine(w, i)
  <2>1. AnotherLine(w, i)'
    BY <1>3, LinesStay DEF AnotherLine
  <2> QED
    BY <1>2, <2>1 DEF Seat
<1>4. CASE Cardinality(PeopleBefore(i)) < Cap
  <2>1. ASSUME NEW v, NEW j \in PersonRows(roster', v), j < i
        PROVE  j \in PersonRows(roster, v)
    <3>1. j \in Listed(roster') /\ j \in Id
      BY <2>1, Steady DEF PersonRows, Listed
    <3>2. ~(i < j)
      BY <2>1, <3>1, LimitAssumption DEF Id
    <3>3. j \in Listed(roster)
      BY <3>1, <3>2, Steady
    <3>4. Used(j)
      BY <3>3 DEF Listed, Used
    <3> QED
      BY <2>1, <3>1, <3>3, <3>4, Steady DEF PersonRows, Holds
  <2>2. PeopleBefore(i)' \subseteq PeopleBefore(i)
    BY <2>1 DEF PeopleBefore, Earlier
  <2>3. \A v \in PeopleBefore(i) : \E j \in Id : roster[j].who = v
    BY Steady DEF PeopleBefore, Earlier, PersonRows, Listed
  <2>4. /\ Cardinality(PeopleBefore(i)) \in Nat /\ Cardinality(PeopleBefore(i)') \in Nat
        /\ Cardinality(PeopleBefore(i)') <= Cardinality(PeopleBefore(i))
    BY <2>2, <2>3, PeopleCounted
  <2>5. Cardinality(PeopleBefore(i)') < Cap
    BY <1>4, <2>4, LimitAssumption
  <2> QED
    BY <2>5 DEF Seat
<1> QED
  BY <1>1, <1>3, <1>4 DEF Seat

LEMMA NextSeated ==
    ASSUME TypeOK, Begun, Rows, [Next]_vars, ~Edited', ~Overtaken', ~Overtaken => Seated
    PROVE  Seated'
<1> SUFFICES ASSUME NEW p \in Request, Inserted(p)', req'[p].pc = "done",
                    req'[p].id \in Listed(roster'), ~req'[p].f.entity
             PROVE  Seat(req[p].id)'
  BY DEF Seated
<1>1. PICK i \in Id : i = req[p].id
  BY DEF TypeOK, Local
<1>2. /\ Inserted(p) /\ req'[p].id = i /\ req'[p].f = req[p].f
      /\ req[p].pc = "done" \/ (AddRecheck(p) /\ roster' = roster)
  BY <1>1, SteadyRequests
<1>3. New(i) /\ Used(i) /\ ~roster[i].entity
  BY <1>1, <1>2 DEF Rows, Placed, New, Used, Holds
<1>4. ~Overtaken /\ Seated
  BY OvertakenStays
<1>5. i \in Listed(roster)
  BY <1>2, <1>3, Steady
<1>6. ASSUME req[p].pc = "done"
      PROVE  Seat(i)
  BY <1>1, <1>2, <1>4, <1>5, <1>6 DEF Seated
<1>7. ASSUME AddRecheck(p) /\ roster' = roster
      PROVE  Seat(i)
  <2>1. PICK pc : Goto(p, pc) /\ pc = IF req[p].id \in Listed(roster) /\ ~AddStands(roster, req[p].id)
                                        THEN "undo" ELSE "done"
    BY <1>7 DEF AddRecheck
  <2>2. AddStands(roster, i)
    BY <1>1, <1>5, <2>1, Going
  <2> QED
    BY <1>3, <1>4, <2>2, StandsThenSeat
<1>8. Seat(i)'
  BY <1>2, <1>3, <1>6, <1>7, SeatStays
<1> QED
  BY <1>2, <1>8 DEF Seat

LEMMA CapInvHolds == Spec => []CapInv
<1>1. Init => CapInv
  <2> SUFFICES ASSUME Init PROVE CapInv
    OBVIOUS
  <2>1. \A q \in Request : req[q].pc = "idle"
    BY DEF Init
  <2>2. Admitted /\ Seated
    BY <2>1 DEF Admitted, Seated, Inserted
  <2> QED
    BY <2>2, InitSeatInv DEF CapInv
<1>2. CapInv /\ [Next]_vars => CapInv'
  <2> SUFFICES ASSUME CapInv, [Next]_vars PROVE CapInv'
    OBVIOUS
  <2>1. SeatInv'
    BY NextSeatInv DEF CapInv
  <2>2. ASSUME ~Edited'
        PROVE  Admitted' /\ (~Overtaken' => Seated')
    <3>1. TypeOK /\ Begun
      BY DEF CapInv, SeatInv
    <3>2. ~Edited
      BY <2>2, <3>1, StepKinds
    <3>3. Rows /\ Admitted /\ (~Overtaken => Seated)
      BY <3>2 DEF CapInv, SeatInv
    <3> QED
      BY <2>2, <3>1, <3>3, NextAdmitted, NextSeated
  <2> QED
    BY <2>1, <2>2 DEF CapInv
<1> QED
  BY <1>1, <1>2, PTL DEF Spec

-----------------------------------------------------------------------------
(* The lines that have been accepted.                                      *)

\* Without edits these are the live lines that no addition has still to judge.
LEMMA SettledRows ==
    ASSUME TypeOK, Begun, Rows, ~Edited, NEW w
    PROVE  /\ DOMAIN Settled = Id
           /\ \A i \in Id : Settled[i].who = roster[i].who
           /\ PersonRows(Settled, w) = {i \in PersonRows(roster, w) : Unjudged("add", i) = {}}
<1>1. \A i \in Id : Unjudged("edit", i) = {}
  BY DEF Edited, Unjudged
<1>2. Settled = [i \in Id |-> IF Unjudged("add", i) # {} THEN [roster[i] EXCEPT !.status = "unused"]
                                                         ELSE roster[i]]
  BY <1>1 DEF Settled
<1>3. ASSUME NEW i \in Id
      PROVE  /\ Settled[i].who = roster[i].who /\ Settled[i].entity = roster[i].entity
             /\ Settled[i].status = "live" <=> roster[i].status = "live" /\ Unjudged("add", i) = {}
  <2>1. roster[i] \in Line
    BY DEF TypeOK
  <2>2. CASE Unjudged("add", i) = {}
    BY <1>2, <2>2
  <2>3. CASE Unjudged("add", i) # {}
    <3>1. Settled[i] = [roster[i] EXCEPT !.status = "unused"]
      BY <1>2, <2>3
    <3> QED
      BY <2>1, <2>3, <3>1 DEF Line
  <2> QED
    BY <2>2, <2>3
<1>4. DOMAIN Settled = Id /\ DOMAIN roster = Id
  BY <1>2 DEF TypeOK
<1> QED
  BY <1>3, <1>4 DEF PersonRows, Listed

\* Each of them was there from the beginning, or its addition is through.
LEMMA SettledFrom ==
    ASSUME TypeOK, Begun, Rows, ~Edited, NEW w, NEW i \in PersonRows(Settled, w)
    PROVE  /\ i \in Id /\ i \in PersonRows(roster, w) /\ roster[i].who = w /\ ~roster[i].entity
           /\ \/ i <= Len(Start)
              \/ /\ New(i)
                 /\ \E q \in Request : /\ Inserted(q) /\ req[q].id = i /\ ~req[q].f.entity
                                       /\ req[q].f.who = w /\ req[q].pc \in {"done", "lost"}
<1>1. /\ i \in PersonRows(roster, w) /\ Unjudged("add", i) = {}
  BY SettledRows
<1>2. i \in Id /\ roster[i].status = "live" /\ roster[i].who = w /\ ~roster[i].entity
  BY <1>1 DEF PersonRows, Listed, TypeOK
<1>3. CASE ~(i <= Len(Start))
  <2>1. New(i)
    BY <1>2, <1>3, StartAssumption, LimitAssumption DEF New, Id
  <2>2. PICK q \in Request : Inserted(q) /\ req[q].id = i
    BY <1>2, <2>1 DEF Rows, Owned
  <2>3. Holds(roster[i], req[q].f)
    BY <2>2 DEF Rows, Placed
  <2>4. req[q].pc \notin {"recheck", "undo"}
    BY <1>1, <2>2, <2>3 DEF Unjudged, Inserted
  <2>5. req[q].pc # "undone"
    BY <1>2, <2>2 DEF Rows, TakenBack
  <2> QED
    BY <1>1, <1>2, <2>1, <2>2, <2>3, <2>4, <2>5 DEF Inserted, Holds
<1> QED
  BY <1>1, <1>2, <1>3

\* A line from the beginning is among them.
LEMMA KnownSettled ==
    ASSUME TypeOK, Begun, Rows, ~Edited, NEW w \in Person, Known(w)
    PROVE  w \in People(Settled)
<1>1. PICK i \in PersonRows(roster, w) : i <= Len(Start)
  BY DEF Known
<1>2. i \in Id
  BY <1>1 DEF PersonRows, Listed, TypeOK
<1>3. Unjudged("add", i) = {}
  <2> SUFFICES ASSUME NEW q \in Unjudged("add", i) PROVE FALSE
    OBVIOUS
  <2>1. /\ q \in Request /\ req[q].op = "add" /\ req[q].id = i
        /\ req[q].pc \in {"recheck", "undo", "restore"}
    BY DEF Unjudged
  <2>2. Inserted(q)
    BY <2>1 DEF Inserted, Begun
  <2>3. i > Len(Start)
    BY <2>1, <2>2 DEF Rows, Placed
  <2> QED
    BY <1>1, <1>2, <2>3, StartAssumption, LimitAssumption DEF Id
<1> QED
  BY <1>1, <1>3, SettledRows DEF People

\* Two sets of people together.
LEMMA TogetherCounted ==
    ASSUME NEW V, NEW L, NEW W, IsFiniteSet(V), IsFiniteSet(L), W \subseteq V \cup L
    PROVE  Cardinality(W) <= Cardinality(V) + Cardinality(L)
<1>1. /\ IsFiniteSet(V \cup L)
      /\ Cardinality(V \cup L) = Cardinality(V) + Cardinality(L) - Cardinality(V \cap L)
  BY FS_Union
<1>2. IsFiniteSet(V \cap L) /\ IsFiniteSet(W) /\ Cardinality(W) <= Cardinality(V \cup L)
  <2>1. V \cap L \subseteq V
    OBVIOUS
  <2> QED
    BY <1>1, <2>1, FS_Subset
<1>3. /\ Cardinality(V) \in Nat /\ Cardinality(L) \in Nat /\ Cardinality(W) \in Nat
      /\ Cardinality(V \cap L) \in Nat /\ Cardinality(V \cup L) \in Nat
  BY <1>1, <1>2, FS_CardinalityType
<1> QED
  BY <1>1, <1>2, <1>3

LostPeople == {roster[i].who : i \in LostRows}

LEMMA LostPeopleCounted ==
    /\ IsFiniteSet(LostPeople) /\ Cardinality(LostPeople) \in Nat
    /\ Cardinality(LostPeople) <= Lost /\ Lost \in Nat
<1> DEFINE f == [i \in LostRows |-> roster[i].who]
<1>1. IsFiniteSet(LostRows) /\ Cardinality(LostRows) \in Nat
  <2>1. LostRows \in SUBSET Id
    BY DEF LostRows
  <2> QED
    BY <2>1, RowsCounted
<1>2. f \in Surjection(LostRows, LostPeople)
  BY DEF Surjection, LostPeople
<1>3. IsFiniteSet(LostPeople) /\ Cardinality(LostPeople) <= Cardinality(LostRows)
  <2> HIDE DEF f
  <2> QED
    BY <1>1, <1>2, FS_Surjection
<1>4. Lost \in Nat
  <2>1. IsFiniteSet({q \in Request : req[q].pc = "lost"})
    BY RequestAssumption, FS_Subset
  <2> QED
    BY <2>1, FS_CardinalityType DEF Lost
<1> QED
  BY <1>1, <1>3, <1>4, LostCounted, FS_CardinalityType

\* If the people known from the beginning leave a seat, whoever has been
\* accepted has one: take the last newcomer to have passed the second look.
LEMMA WithinCap ==
    ASSUME CapInv, ~Edited, ~Overtaken, NewcomersOnce, Cardinality(KnownPeople) < Cap
    PROVE  Seats(Settled) <= Cap + Lost
<1> DEFINE D == {i \in Id : /\ i \in Listed(roster) /\ ~roster[i].entity
                            /\ ~Known(roster[i].who)
                            /\ \E q \in Request : /\ Inserted(q) /\ req[q].id = i
                                                  /\ req[q].pc = "done"}
<1>1. TypeOK /\ Begun /\ Rows /\ Seated
  BY DEF CapInv, SeatInv
<1>2. Id \subseteq Nat /\ Len(Start) \in Nat /\ Cap \in Nat
  BY StartAssumption, LimitAssumption DEF Id
\* Whom a settled line belongs to.
<1>3. ASSUME NEW w \in People(Settled)
      PROVE  w \in KnownPeople \cup LostPeople \/ \E i \in D : roster[i].who = w
  <2>1. w \in Person /\ PersonRows(Settled, w) # {}
    BY DEF People
  <2>2. PICK i : i \in PersonRows(Settled, w)
    BY <2>1
  <2>3. /\ i \in Id /\ i \in PersonRows(roster, w) /\ roster[i].who = w /\ ~roster[i].entity
        /\ \/ i <= Len(Start)
           \/ /\ New(i)
              /\ \E q \in Request : /\ Inserted(q) /\ req[q].id = i /\ ~req[q].f.entity
                                    /\ req[q].f.who = w /\ req[q].pc \in {"done", "lost"}
    BY <1>1, <2>2, SettledFrom
  <2>4. CASE Known(w)
    BY <2>1, <2>4 DEF KnownPeople
  <2>5. CASE ~Known(w)
    <3>1. ~(i <= Len(Start))
      BY <2>3, <2>5 DEF Known
    <3>2. PICK q \in Request : Inserted(q) /\ req[q].id = i /\ req[q].pc \in {"done", "lost"}
      BY <2>3, <3>1
    <3>3. CASE req[q].pc = "lost"
      BY <2>3, <3>2, <3>3 DEF LostPeople, LostRows
    <3>4. CASE req[q].pc = "done"
      BY <2>3, <2>5, <3>2, <3>4 DEF PersonRows
    <3> QED
      BY <3>2, <3>3, <3>4
  <2> QED
    BY <2>4, <2>5
<1>4. ASSUME NEW V, IsFiniteSet(V), Cardinality(V) <= Cap,
             \A w \in People(Settled) : w \in V \cup LostPeople
      PROVE  Seats(Settled) <= Cap + Lost
  <2>1. Cardinality(People(Settled)) <= Cardinality(V) + Cardinality(LostPeople)
    BY <1>4, LostPeopleCounted, TogetherCounted
  <2>2. Cardinality(V) \in Nat /\ Cardinality(People(Settled)) \in Nat
    <3>1. People(Settled) \subseteq V \cup LostPeople
      BY <1>4
    <3>2. IsFiniteSet(V \cup LostPeople)
      BY <1>4, LostPeopleCounted, FS_Union
    <3> QED
      BY <1>4, <3>1, <3>2, FS_Subset, FS_CardinalityType
  <2> QED
    BY <1>2, <1>4, <2>1, <2>2, LostPeopleCounted DEF Seats
<1>5. \A w \in KnownPeople : \E j \in Id : roster[j].who = w
  BY <1>1 DEF KnownPeople, Known, PersonRows, Listed, TypeOK
<1>6. CASE D = {}
  <2>1. IsFiniteSet(KnownPeople) /\ Cardinality(KnownPeople) <= Cap
    BY <1>2, <1>5, PeopleCounted
  <2>2. \A w \in People(Settled) : w \in KnownPeople \cup LostPeople
    BY <1>3, <1>6
  <2> QED
    BY <1>4, <2>1, <2>2
<1>7. CASE D # {}
  <2>1. PICK j \in D : \A k \in D : k <= j
    <3>1. D \subseteq 1..MaxId
      BY DEF Id
    <3> HIDE DEF D
    <3> QED
      BY <1>7, <3>1, GreatestMember, LimitAssumption
  <2>2. /\ j \in Id /\ j \in Listed(roster) /\ ~roster[j].entity /\ ~Known(roster[j].who)
        /\ \E q \in Request : Inserted(q) /\ req[q].id = j /\ req[q].pc = "done"
    OBVIOUS
  <2>3. PICK q \in Request : Inserted(q) /\ req[q].id = j /\ req[q].pc = "done"
    BY <2>2
  <2>4. New(j) /\ Holds(roster[j], req[q].f)
    BY <1>1, <2>2, <2>3 DEF Rows, Placed, New, Used
  <2>5. EverOf(roster[j].who) = {j}
    BY <2>2, <2>4 DEF NewcomersOnce
  <2>6. Cardinality(PeopleBefore(j)) < Cap
    BY <1>1, <2>2, <2>3, <2>4, <2>5 DEF Seated, Seat, AnotherLine, Holds
  <2> DEFINE V == PeopleBefore(j) \cup {roster[j].who}
  <2>7. IsFiniteSet(PeopleBefore(j)) /\ Cardinality(PeopleBefore(j)) \in Nat
    <3>1. \A w \in PeopleBefore(j) : \E k \in Id : roster[k].who = w
      BY <1>1 DEF PeopleBefore, Earlier, PersonRows, Listed, TypeOK
    <3> QED
      BY <3>1, PeopleCounted
  <2>8. IsFiniteSet(V) /\ Cardinality(V) <= Cap
    <3>1. /\ IsFiniteSet({roster[j].who}) /\ Cardinality({roster[j].who}) = 1
      BY FS_Singleton
    <3>2. Cardinality(V) <= Cardinality(PeopleBefore(j)) + 1 /\ IsFiniteSet(V)
      BY <2>7, <3>1, TogetherCounted, FS_Union
    <3>3. Cardinality(V) \in Nat
      BY <3>2, FS_CardinalityType
    <3> HIDE DEF V
    <3> QED
      BY <1>2, <2>6, <2>7, <3>2, <3>3
  <2>9. ASSUME NEW w \in People(Settled), w \notin LostPeople
        PROVE  w \in V
    <3>1. w \in Person
      BY DEF People
    <3>2. CASE w \in KnownPeople
      <4>1. PICK i \in PersonRows(roster, w) : i <= Len(Start)
        BY <3>2 DEF KnownPeople, Known
      <4>2. i \in Id
        BY <1>1, <4>1 DEF PersonRows, Listed, TypeOK
      <4>3. i < j
        BY <1>2, <2>2, <2>4, <4>1, <4>2 DEF New
      <4> QED
        BY <3>1, <4>1, <4>3 DEF PeopleBefore, Earlier
    <3>3. CASE \E i \in D : roster[i].who = w
      <4>1. PICK i \in D : roster[i].who = w
        BY <3>3
      <4>2. /\ i \in Id /\ i \in PersonRows(roster, w)
        BY <4>1 DEF PersonRows
      <4>3. i <= j
        BY <2>1, <4>1
      <4>4. i = j \/ i < j
        BY <1>2, <2>2, <4>2, <4>3
      <4> QED
        BY <3>1, <4>1, <4>2, <4>4 DEF PeopleBefore, Earlier
    <3> HIDE DEF D, V
    <3> QED
      BY <1>3, <2>9, <3>2, <3>3
  <2> HIDE DEF D, V
  <2> QED
    BY <1>4, <2>8, <2>9
<1> QED
  BY <1>6, <1>7

\* Past that they are all people known from the beginning.
PastCapKnown ==
    ~Overtaken /\ ~(Seats(Settled) <= Cap + Lost) => \A w \in People(Settled) : Known(w)

LEMMA NewcomersWithinCap == CapInv /\ ~Edited /\ NewcomersOnce => PastCapKnown
<1> SUFFICES ASSUME CapInv, ~Edited, NewcomersOnce, ~Overtaken, ~(Seats(Settled) <= Cap + Lost),
                    NEW w \in People(Settled), ~Known(w)
             PROVE  FALSE
  BY DEF PastCapKnown
<1>1. TypeOK /\ Begun /\ Rows /\ Admitted
  BY DEF CapInv, SeatInv
<1>2. ~(Cardinality(KnownPeople) < Cap)
  BY WithinCap
<1>3. PICK i : i \in PersonRows(Settled, w)
  BY DEF People
<1>4. /\ i \in Id /\ i \in PersonRows(roster, w) /\ roster[i].who = w /\ ~roster[i].entity
      /\ \/ i <= Len(Start)
         \/ /\ New(i)
            /\ \E q \in Request : /\ Inserted(q) /\ req[q].id = i /\ ~req[q].f.entity
                                  /\ req[q].f.who = w /\ req[q].pc \in {"done", "lost"}
  BY <1>1, <1>3, SettledFrom
<1>5. ~(i <= Len(Start))
  BY <1>4 DEF Known
<1>6. EverOf(w) = {i}
  BY <1>4, <1>5 DEF NewcomersOnce
<1>7. AnotherLine(w, i)
  BY <1>1, <1>2, <1>4, <1>5 DEF Admitted
<1> QED
  BY <1>6, <1>7 DEF AnotherLine

\* As long as nobody edits and a newcomer is asked for once, any number of
\* additions and removals may race: the people whose lines have been accepted
\* become more only within the cap, and one more for every check that was
\* lost, unless inserts have overtaken one another.
THEOREM RacersKeepTheCap == Spec /\ [](NewcomersOnce /\ ~Edited) => GrowsWithinCap
<1>1. ASSUME CapInv, PastCapKnown', [Next]_vars, ~Edited, ~Edited', ~Overtaken',
             ~(Seats(Settled') <= Cap + Lost')
      PROVE  ~(Seats(Settled') > Seats(Settled))
  <2>1. TypeOK /\ Begun /\ Rows
    BY <1>1 DEF CapInv, SeatInv
  <2>2. ASSUME NEW w \in People(Settled')
        PROVE  w \in People(Settled)
    <3>1. w \in Person
      BY DEF People
    <3>2. Known(w)'
      BY <1>1 DEF PastCapKnown, Seats, People
    <3>3. Known(w)
      BY <1>1, <2>1, <3>2, KnownStays
    <3> QED
      BY <1>1, <2>1, <3>1, <3>3, KnownSettled
  <2>3. People(Settled') \subseteq People(Settled)
    BY <2>2
  <2>4. \A w \in People(Settled) : \E j \in Id : Settled[j].who = w
    BY <1>1, <2>1, SettledRows DEF People, PersonRows, Listed
  <2>5. /\ Cardinality(People(Settled)) \in Nat /\ Cardinality(People(Settled')) \in Nat
        /\ Cardinality(People(Settled')) <= Cardinality(People(Settled))
    BY <2>3, <2>4, PeopleCounted
  <2> QED
    BY <2>5 DEF Seats
<1>2. CapInv /\ PastCapKnown' /\ [Next]_vars /\ ~Edited /\ (~Edited)'
        => [Seats(Settled') > Seats(Settled) =>
              Seats(Settled') <= Cap + Lost' \/ Overtaken']_vars
  BY <1>1
<1> QED
  BY <1>2, NewcomersWithinCap, CapInvHolds, PTL DEF Spec, GrowsWithinCap

=============================================================================
