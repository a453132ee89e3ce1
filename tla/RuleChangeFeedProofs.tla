------------------------ MODULE RuleChangeFeedProofs ------------------------
(***************************************************************************)
(* Proofs about RuleChangeFeed, for every number of days, of edits and of  *)
(* moves of the law.                                                       *)
(***************************************************************************)
EXTENDS RuleChangeFeed, TLAPS

Adopts(status) == status \in {"ENACTED", "ADOPTED_RULE"}

(* What was written of an adopted change was true that day: since then the *)
(* change was at most delayed or withdrawn, and a date that had come by    *)
(* the day of verification has come.                                       *)
WasTrue(status, eff, verified) ==
    Adopts(status) =>
        /\ law.status \in {status, "DIED_WITHDRAWN"} /\ eff <= law.eff
        /\ eff # 0 /\ eff <= verified => InForce /\ law.eff = eff

RecordTrue ==
    LET r == record IN
    /\ r.verified # 0
    /\ r.forward # 0 => r.verified < r.forward /\ WasTrue(r.status, r.forward, r.verified)
    /\ r.recent # 0 => WasTrue(r.status, r.recent, r.verified)
    /\ r.recent # 0 /\ Adopts(r.status) => InForce /\ law.eff = r.recent

FileTrue == file.status # "none" => WasTrue(file.status, file.eff, file.verified)

EventTrue(e) == e.kind = "rule_change" => WasTrue(e.status, e.eff, e.verified)

\* A dated event that is not flagged as coming did take effect.
RecentTrue(e) ==
    e.kind = "rule_change" /\ Adopted(e) /\ ~e.upcoming => InForce /\ law.eff = e.eff

(* The record, the file and every event that was made of them. *)
TruthInv ==
    /\ RecordTrue /\ FileTrue
    /\ \A s \in Source : EventTrue(feed[s]) /\ EventTrue(bundle[s])
    /\ RecentTrue(feed["mobility"])
    /\ \A m \in mailed : ~m.late

-----------------------------------------------------------------------------

LEMMA InitTyped == Init => TypeOK /\ TruthInv
<1> SUFFICES ASSUME Init PROVE TypeOK /\ TruthInv
  OBVIOUS
<1>1. NoEvent \in Event /\ NoEvent.kind = "none"
  BY BoundAssumption DEF NoEvent, Event, DayOrNone
<1>2. feed \in [Source -> Event] /\ bundle \in [Source -> Event]
      /\ \A s \in Source : feed[s].kind = "none" /\ bundle[s].kind = "none"
  BY <1>1 DEF Init
<1>3. TypeOK
  BY <1>2, BoundAssumption DEF Init, TypeOK, LawType, RecordType, FileType, DayOrNone
<1>4. TruthInv
  BY <1>2 DEF Init, TruthInv, RecordTrue, FileTrue, EventTrue, RecentTrue, WasTrue, Adopts, Source
<1> QED
  BY <1>3, <1>4

\* What the builder makes of the record (build).
LEMMA MobilityMade ==
    ASSUME TypeOK, NEW today \in {day, day - 1}, NEW e, e = MobilityEvent(record, today)
    PROVE  /\ e \in Event
           /\ e.kind = "source_conflict" => e.eff = 0
           /\ e.kind = "rule_change" => /\ e.status \in Status /\ e.status = record.status
                                        /\ e.verified = record.verified
                                        /\ e.eff # 0 /\ e.eff = Dated(record, today)
                                        /\ e.upcoming = (e.eff > today)
<1> DEFINE r == record
           eff == Dated(record, today)
           rule == [kind |-> "rule_change", eff |-> eff, status |-> StatusOf(r),
                    verified |-> r.verified, upcoming |-> eff > today, needs |-> eff <= today]
           conflict == [NoEvent EXCEPT !.kind = "source_conflict", !.verified = r.verified]
<1>1. r \in RecordType /\ eff \in DayOrNone /\ today \in Int
  BY BoundAssumption DEF TypeOK, Dated, RecordType, DayOrNone
<1>2. NoEvent \in Event /\ NoEvent.kind = "none"
  BY BoundAssumption DEF NoEvent, Event, DayOrNone
<1>3. conflict \in Event /\ conflict.kind = "source_conflict" /\ conflict.eff = 0
  <2>1. NoEvent.eff = 0
    BY DEF NoEvent
  <2>2. r.verified \in DayOrNone
    BY <1>1 DEF RecordType
  <2> QED
    BY <1>2, <2>1, <2>2 DEF Event
<1>4. \/ e = rule /\ eff # 0 /\ r.status # "none"
      \/ e = conflict
      \/ e = NoEvent
  BY DEF MobilityEvent, StatusOf
<1>5. CASE e = rule /\ eff # 0 /\ r.status # "none"
  <2>1. rule \in Event /\ r.status \in Status
    BY <1>1, <1>5 DEF Event, StatusOf, RecordType
  <2> QED
    BY <1>5, <2>1 DEF StatusOf
<1> QED
  BY <1>2, <1>3, <1>4, <1>5

\* What the builder makes of the monitor's file (load_difflab_events).
LEMMA RegwatchMade ==
    ASSUME TypeOK, NEW today \in {day, day - 1}, NEW e, e = RegwatchEvent(file, today)
    PROVE  /\ e \in Event /\ e.kind # "source_conflict"
           /\ e.kind = "rule_change" => /\ e.status \in Status /\ e.status = file.status
                                        /\ e.verified = file.verified /\ e.eff = file.eff
                                        /\ file.status # "none"
<1>1. NoEvent \in Event /\ NoEvent.kind = "none"
  BY BoundAssumption DEF NoEvent, Event, DayOrNone
<1>2. CASE file.status = "none"
  BY <1>1, <1>2 DEF RegwatchEvent
<1>3. CASE file.status # "none"
  <2> DEFINE needs == IF file.claim # "none" /\ file.verified # 0 THEN file.claim = "yes"
                      ELSE file.eff # 0 /\ file.eff <= today
             coming == file.eff > today
  <2>1. file \in FileType
    BY DEF TypeOK
  <2>2. coming \in BOOLEAN
    OBVIOUS
  <2>3. needs \in BOOLEAN
    <3>1. CASE file.claim # "none" /\ file.verified # 0
      BY <3>1
    <3>2. CASE ~(file.claim # "none" /\ file.verified # 0)
      <4>1. needs = (file.eff # 0 /\ file.eff <= today)
        BY <3>2
      <4>2. (file.eff # 0 /\ file.eff <= today) \in BOOLEAN
        OBVIOUS
      <4> QED
        BY <4>1, <4>2
    <3> QED
      BY <3>1, <3>2
  <2>4. e = [kind |-> "rule_change", eff |-> file.eff, status |-> file.status,
             verified |-> file.verified, upcoming |-> coming, needs |-> needs]
    BY <1>3 DEF RegwatchEvent
  <2> HIDE DEF needs, coming
  <2> QED
    BY <1>3, <2>1, <2>2, <2>3, <2>4 DEF FileType, Event
<1> QED
  BY <1>2, <1>3

\* Every event of a new feed is one of the two.
LEMMA Built ==
    ASSUME TypeOK, Build
    PROVE  \E today \in {day, day - 1} :
             /\ feed' \in [Source -> Event]
             /\ feed'["mobility"] = MobilityEvent(record, today)
             /\ feed'["regwatch"] = RegwatchEvent(file, today)
<1>1. PICK today \in {day, day - 1} :
         feed' = [s \in Source |-> IF s = "mobility" THEN MobilityEvent(record, today)
                                   ELSE RegwatchEvent(file, today)]
  BY DEF Build
<1>2. MobilityEvent(record, today) \in Event
  BY MobilityMade
<1>3. RegwatchEvent(file, today) \in Event
  BY RegwatchMade
<1> QED
  BY <1>1, <1>2, <1>3 DEF Source

LEMMA NextTyped == TypeOK /\ [Next]_vars => TypeOK'
<1> SUFFICES ASSUME TypeOK, [Next]_vars PROVE TypeOK'
  OBVIOUS
<1>1. ASSUME NEW status \in Status, NEW eff \in {0} \cup Day, LawMoves(status, eff)
      PROVE  TypeOK'
  <2>1. law' \in LawType
    BY <1>1, BoundAssumption DEF LawMoves, LawType, DayOrNone, Day
  <2> QED
    BY <1>1, <2>1 DEF LawMoves, TypeOK
<1>2. CASE Research
  <2>1. record' \in RecordType
    BY <1>2, BoundAssumption DEF Research, RecordType, TypeOK, LawType, DayOrNone
  <2> QED
    BY <1>2, <2>1 DEF Research, TypeOK
<1>3. CASE ResearchConflict
  <2>1. record' \in RecordType
    <3>1. record \in RecordType /\ day \in DayOrNone /\ 0 \in DayOrNone
      BY BoundAssumption DEF TypeOK, DayOrNone
    <3>2. record' = [flux |-> TRUE, cited |-> record.cited, forward |-> 0, recent |-> 0,
                     status |-> record.status, conflict |-> TRUE, verified |-> day]
      BY <1>3, <3>1 DEF ResearchConflict, RecordType
    <3> QED
      BY <3>1, <3>2 DEF RecordType
  <2> QED
    BY <1>3, <2>1 DEF ResearchConflict, TypeOK
<1>4. CASE Monitor
  <2>1. file' \in FileType
    BY <1>4, BoundAssumption DEF Monitor, FileType, TypeOK, LawType, DayOrNone
  <2> QED
    BY <1>4, <2>1 DEF Monitor, TypeOK
<1>5. CASE Build
  <2>1. PICK today \in {day, day - 1} :
             /\ feed' \in [Source -> Event]
             /\ feed'["mobility"] = MobilityEvent(record, today)
             /\ feed'["regwatch"] = RegwatchEvent(file, today)
    BY <1>5, Built
  <2>2. /\ feed'["mobility"].kind = "source_conflict" => feed'["mobility"].eff = 0
        /\ feed'["mobility"].kind = "rule_change" => feed'["mobility"].status \in Status
    BY <2>1, MobilityMade
  <2>3. /\ feed'["regwatch"].kind # "source_conflict"
        /\ feed'["regwatch"].kind = "rule_change" => feed'["regwatch"].status \in Status
    BY <2>1, RegwatchMade
  <2>4. UNCHANGED <<day, law, record, file, bundle, claims>>
    BY <1>5 DEF Build
  <2> QED
    BY <2>1, <2>2, <2>3, <2>4 DEF TypeOK, Source
<1>6. CASE Render
  BY <1>6 DEF Render, TypeOK
<1>7. CASE Deploy
  BY <1>7 DEF Deploy, TypeOK
<1>8. CASE NextDay
  BY <1>8, BoundAssumption DEF NextDay, TypeOK, DayOrNone
<1>9. ASSUME NEW s \in Source, Alert(s) PROVE TypeOK'
  <2>1. EventId(s, bundle[s]) \in Source \X DayOrNone
    BY BoundAssumption DEF EventId, TypeOK, Event, DayOrNone
  <2> QED
    BY <1>9, <2>1 DEF Alert, TypeOK
<1>10. CASE UNCHANGED vars
  BY <1>10 DEF vars, TypeOK
<1> QED
  BY <1>1, <1>2, <1>3, <1>4, <1>5, <1>6, <1>7, <1>8, <1>9, <1>10 DEF Next

\* What the builder reads and publishes stays well typed, however the law, the
\* research, the builds and the deployments interleave
\* (scripts/build_change_events.py).
THEOREM FeedTypeCorrect == Spec => []TypeOK
BY InitTyped, NextTyped, PTL DEF Spec

-----------------------------------------------------------------------------
(* What was true stays true enough.                                        *)

\* What is in force stays so; what is adopted is at most delayed or withdrawn.
LEMMA LawStep ==
    ASSUME TypeOK, [Next]_vars
    PROVE  /\ InForce => InForce' /\ law' = law
           /\ Adopts(law.status) => /\ law'.status \in {law.status, "DIED_WITHDRAWN"}
                                    /\ law.eff <= law'.eff
           /\ law.status = "DIED_WITHDRAWN" => law' = law
<1>0. law \in LawType /\ day \in Int /\ law.eff \in Int
  BY BoundAssumption DEF TypeOK, LawType, DayOrNone
<1>1. ASSUME NEW status \in Status, NEW eff \in {0} \cup Day, LawMoves(status, eff)
      PROVE  /\ ~InForce
             /\ Adopts(law.status) => /\ law'.status \in {law.status, "DIED_WITHDRAWN"}
                                      /\ law.eff <= law'.eff
             /\ law.status # "DIED_WITHDRAWN"
  <2>1. eff \in Int
    BY BoundAssumption DEF Day
  <2>2. law' = [status |-> status, eff |-> eff] /\ ~InForce /\ (law.status = status => eff > law.eff)
        /\ (status = "DIED_WITHDRAWN" => eff = law.eff /\ law.status # "none")
        /\ (status = "PROPOSED" => law.status = "none")
        /\ (status = "ENACTED" => law.status \in {"PROPOSED", "ENACTED_DATE_PENDING", "ENACTED"})
        /\ (status = "ENACTED_DATE_PENDING" => law.status = "PROPOSED")
        /\ (status = "ADOPTED_RULE" => law.status \in {"PROPOSED", "ADOPTED_RULE"})
    BY <1>1 DEF LawMoves
  <2>3. law.status # "DIED_WITHDRAWN"
    BY <1>0, <2>1, <2>2 DEF Status
  <2>4. Adopts(law.status) => status \in {law.status, "DIED_WITHDRAWN"} /\ law.eff <= eff
    BY <1>0, <2>1, <2>2 DEF Adopts, Status
  <2> QED
    BY <2>2, <2>3, <2>4
<1>2. CASE NextDay
  BY <1>0, <1>2 DEF NextDay, InForce
<1>3. CASE UNCHANGED <<law, day>>
  BY <1>0, <1>3 DEF InForce
<1> QED
  BY <1>0, <1>1, <1>2, <1>3 DEF Next, vars, Research, ResearchConflict, Monitor, Build, Render,
                           Deploy, Alert

LEMMA Numbers ==
    ASSUME TypeOK
    PROVE  /\ day \in Int /\ law.eff \in Int
           /\ record.forward \in Int /\ record.recent \in Int /\ record.verified \in Int
           /\ file.eff \in Int /\ file.verified \in Int
           /\ \A s \in Source : /\ feed[s].eff \in Int /\ feed[s].verified \in Int
                                /\ bundle[s].eff \in Int /\ bundle[s].verified \in Int
<1>1. /\ day \in DayOrNone /\ law \in LawType /\ record \in RecordType /\ file \in FileType
      /\ \A s \in Source : feed[s] \in Event /\ bundle[s] \in Event
  BY DEF TypeOK
<1>2. DayOrNone \subseteq Int
  BY BoundAssumption DEF DayOrNone
<1> QED
  BY <1>1, <1>2 DEF LawType, RecordType, FileType, Event

\* A step keeps what is true of everything it does not write.
LEMMA KeptTrue ==
    ASSUME TypeOK, TypeOK', TruthInv, [Next]_vars
    PROVE  /\ record' = record => RecordTrue'
           /\ file' = file => FileTrue'
           /\ feed' = feed => /\ \A s \in Source : EventTrue(feed[s])'
                              /\ RecentTrue(feed["mobility"])'
           /\ bundle' = bundle => \A s \in Source : EventTrue(bundle[s])'
<1>0. law.eff \in Int /\ law'.eff \in Int
  BY Numbers, BoundAssumption DEF TypeOK, LawType, DayOrNone
<1>1. record' = record => RecordTrue'
  <2>1. record.forward \in Int /\ record.recent \in Int /\ record.verified \in Int
    BY Numbers
  <2>2. RecordTrue
    BY DEF TruthInv
  <2> QED
    BY <1>0, <2>1, <2>2, LawStep DEF RecordTrue, WasTrue, Adopts
<1>2. file' = file => FileTrue'
  <2>1. file.eff \in Int /\ file.verified \in Int
    BY Numbers
  <2>2. FileTrue
    BY DEF TruthInv
  <2> QED
    BY <1>0, <2>1, <2>2, LawStep DEF FileTrue, WasTrue, Adopts
<1>3. ASSUME NEW s \in Source, feed' = feed PROVE EventTrue(feed[s])'
  <2>1. feed[s].eff \in Int /\ feed[s].verified \in Int
    BY Numbers
  <2>2. EventTrue(feed[s])
    BY DEF TruthInv
  <2> QED
    BY <1>0, <1>3, <2>1, <2>2, LawStep DEF EventTrue, WasTrue, Adopts
<1>4. ASSUME NEW s \in Source, bundle' = bundle PROVE EventTrue(bundle[s])'
  <2>1. bundle[s].eff \in Int /\ bundle[s].verified \in Int
    BY Numbers
  <2>2. EventTrue(bundle[s])
    BY DEF TruthInv
  <2> QED
    BY <1>0, <1>4, <2>1, <2>2, LawStep DEF EventTrue, WasTrue, Adopts
<1>5. feed' = feed => RecentTrue(feed["mobility"])'
  BY LawStep DEF TruthInv, RecentTrue, Adopted
<1> QED
  BY <1>1, <1>2, <1>3, <1>4, <1>5

\* What is published of the record is true, whichever day the build host has.
LEMMA MobilityTrue ==
    ASSUME TypeOK, RecordTrue, NEW today \in {day, day - 1}, NEW e,
           e = MobilityEvent(record, today)
    PROVE  EventTrue(e) /\ RecentTrue(e)
<1> SUFFICES ASSUME e.kind = "rule_change" PROVE EventTrue(e) /\ RecentTrue(e)
  BY DEF EventTrue, RecentTrue
<1>1. /\ e.status = record.status /\ e.verified = record.verified
      /\ e.eff # 0 /\ e.eff = Dated(record, today) /\ e.upcoming = (e.eff > today)
  BY MobilityMade
<1>2. /\ record.forward \in Int /\ record.recent \in Int /\ today \in Int /\ day \in Int
      /\ today + 1 >= day
  BY Numbers
<1>3. CASE record.forward > today
  <2>1. e.eff = record.forward /\ e.upcoming
    BY <1>1, <1>3 DEF Dated
  <2> QED
    BY <1>1, <2>1 DEF RecordTrue, EventTrue, RecentTrue
<1>4. CASE ~(record.forward > today)
  <2>1. e.eff = record.recent /\ record.recent # 0
    BY <1>1, <1>4 DEF Dated
  <2> QED
    BY <1>1, <2>1 DEF RecordTrue, EventTrue, RecentTrue, Adopted, Adopts
<1> QED
  BY <1>3, <1>4

\* Research and the monitor write down what the law is.
LEMMA WritesTrue ==
    ASSUME TypeOK, TypeOK', TruthInv
    PROVE  /\ Research \/ ResearchConflict => RecordTrue'
           /\ Monitor => FileTrue'
<1>0. law.eff \in Int /\ day \in Int /\ day >= 1
  BY Numbers DEF TypeOK
<1>1. ASSUME Research PROVE RecordTrue'
  <2>1. PICK status \in {law.status, "none"}, cited \in BOOLEAN :
         record' = [flux |-> TRUE, cited |-> cited, status |-> status,
                    forward |-> IF law.eff > day THEN law.eff ELSE 0,
                    recent |-> IF InForce THEN law.eff ELSE 0,
                    conflict |-> FALSE, verified |-> day]
    BY <1>1 DEF Research
  <2>2. /\ record'.verified = day /\ record'.status = status
        /\ record'.forward = IF law.eff > day THEN law.eff ELSE 0
        /\ record'.recent = IF InForce THEN law.eff ELSE 0
    BY <2>1
  <2>3. law' = law /\ day' = day
    BY <1>1 DEF Research
  <2>4. InForce' <=> InForce
    BY <2>3 DEF InForce
  <2> QED
    BY <1>0, <2>2, <2>3, <2>4 DEF RecordTrue, WasTrue, Adopts, InForce
<1>2. ASSUME ResearchConflict PROVE RecordTrue'
  <2>1. record'.forward = 0 /\ record'.recent = 0 /\ record'.verified = day
    BY <1>2 DEF ResearchConflict, TypeOK, RecordType
  <2> QED
    BY <1>0, <2>1 DEF RecordTrue
<1>3. ASSUME Monitor PROVE FileTrue'
  <2>1. PICK claim \in {"yes", "no", "none"}, verified \in {0, day} :
         file' = [eff |-> law.eff, status |-> law.status, verified |-> verified, claim |-> claim]
    BY <1>3 DEF Monitor
  <2>2. file'.eff = law.eff /\ file'.status = law.status /\ file'.verified \in {0, day}
    BY <2>1
  <2>3. law' = law /\ day' = day
    BY <1>3 DEF Monitor
  <2>4. InForce' <=> InForce
    BY <2>3 DEF InForce
  <2>5. law.eff >= 0
    BY BoundAssumption DEF TypeOK, LawType, DayOrNone
  <2> QED
    BY <1>0, <2>2, <2>3, <2>4, <2>5 DEF FileTrue, WasTrue, Adopts, InForce
<1> QED
  BY <1>1, <1>2, <1>3

LEMMA NextTruth == TypeOK /\ TruthInv /\ [Next]_vars => TruthInv'
<1> SUFFICES ASSUME TypeOK, TruthInv, [Next]_vars PROVE TruthInv'
  OBVIOUS
<1>0. TypeOK'
  BY NextTyped
<1>1. RecordTrue'
  <2>1. record' = record \/ Research \/ ResearchConflict
    BY DEF Next, vars, LawMoves, Monitor, Build, Render, Deploy, Alert, NextDay
  <2> QED
    BY <1>0, <2>1, KeptTrue, WritesTrue
<1>2. FileTrue'
  <2>1. file' = file \/ Monitor
    BY DEF Next, vars, LawMoves, Research, ResearchConflict, Build, Render, Deploy, Alert, NextDay
  <2> QED
    BY <1>0, <2>1, KeptTrue, WritesTrue
<1>3. (\A s \in Source : EventTrue(feed[s])') /\ RecentTrue(feed["mobility"])'
  <2>1. CASE Build
    <3>1. PICK today \in {day, day - 1} :
             /\ feed'["mobility"] = MobilityEvent(record, today)
             /\ feed'["regwatch"] = RegwatchEvent(file, today)
      BY <2>1, Built
    <3>2. EventTrue(feed'["mobility"]) /\ RecentTrue(feed'["mobility"])
      BY <3>1, MobilityTrue DEF TruthInv
    <3>3. EventTrue(feed'["regwatch"])
      BY <3>1, RegwatchMade DEF TruthInv, FileTrue, EventTrue
    <3>4. law' = law /\ day' = day
      BY <2>1 DEF Build
    <3> QED
      BY <3>2, <3>3, <3>4 DEF EventTrue, RecentTrue, WasTrue, InForce, Source
  <2>2. feed' = feed \/ Build
    BY DEF Next, vars, LawMoves, Research, ResearchConflict, Monitor, Render, Deploy, Alert,
           NextDay
  <2> QED
    BY <1>0, <2>1, <2>2, KeptTrue
<1>4. \A s \in Source : EventTrue(bundle[s])'
  <2>1. CASE Deploy
    BY <2>1 DEF Deploy, TruthInv, EventTrue, WasTrue, InForce
  <2>2. bundle' = bundle \/ Deploy
    BY DEF Next, vars, LawMoves, Research, ResearchConflict, Monitor, Build, Render, Alert,
           NextDay
  <2> QED
    BY <1>0, <2>1, <2>2, KeptTrue
<1>5. \A m \in mailed' : ~m.late
  <2>1. ASSUME NEW s \in Source, Alert(s) PROVE ~InForce
    <3>1. /\ bundle[s].kind = "rule_change" /\ bundle[s].status = "ENACTED"
          /\ bundle[s].eff > day
      BY <2>1 DEF Alert, Emailable, Ahead
    <3>2. law.status \in {"ENACTED", "DIED_WITHDRAWN"} /\ bundle[s].eff <= law.eff
      BY <3>1 DEF TruthInv, EventTrue, WasTrue, Adopts
    <3>3. bundle[s].eff \in Int /\ law.eff \in Int /\ day \in Int
      BY Numbers
    <3> QED
      BY <3>1, <3>2, <3>3 DEF InForce
  <2>2. ASSUME NEW s \in Source, Alert(s) PROVE \A m \in mailed' : ~m.late
    BY <2>1, <2>2 DEF Alert, TruthInv
  <2>3. mailed' = mailed \/ \E s \in Source : Alert(s)
    BY DEF Next, vars, LawMoves, Research, ResearchConflict, Monitor, Build, Render, Deploy,
           NextDay
  <2> QED
    BY <2>2, <2>3 DEF TruthInv
<1> QED
  BY <1>1, <1>2, <1>3, <1>4, <1>5 DEF TruthInv

\* A change the record dates in the past did take effect that day, whatever the
\* law and the build did since (build_change_events.py:42-54).
THEOREM RecentHolds == Spec => []RecentReallyHappened
<1>1. TruthInv => RecentReallyHappened
  BY DEF TruthInv, RecentTrue, RecentReallyHappened
<1> QED
  BY <1>1, InitTyped, NextTruth, FeedTypeCorrect, PTL DEF Spec

\* No firm is mailed about a coming change that is in force already, whatever
\* the age of the bundle (scheduler.ts:925-944).
THEOREM NoOldNews == Spec => []NoOldNewsByMail
<1>1. TruthInv => NoOldNewsByMail
  BY DEF TruthInv, NoOldNewsByMail
<1> QED
  BY <1>1, InitTyped, NextTruth, FeedTypeCorrect, PTL DEF Spec

\* The page and the API agree on every adopted change of the same feed
\* (generate.py, assistant.ts:292-303).
THEOREM PageMirrors == Spec => []PageMirrorsApi
<1>1. TypeOK => PageMirrorsApi
  <2> SUFFICES ASSUME TypeOK, NEW s \in Source, feed[s].kind = "rule_change", Adopted(feed[s])
               PROVE  LET api == InForceStatus(feed[s], day)
                          shown == Section(feed[s], day)
                      IN  /\ shown = "upcoming" <=> api = "upcoming"
                          /\ shown = "passed, confirmed" <=> api = "settled"
                          /\ shown = "passed, pending" <=> api = "pending_reverification"
    BY DEF PageMirrorsApi
  <2>1. CASE feed[s].eff = 0
    BY <2>1 DEF InForceStatus, Section
  <2>2. CASE feed[s].eff # 0
    BY <2>2 DEF InForceStatus, Section, IsStillUpcoming, PendingReverification, Confirmed
  <2> QED
    BY <2>1, <2>2
<1> QED
  BY <1>1, FeedTypeCorrect, PTL

-----------------------------------------------------------------------------
(* What the assistant API calls settled.                                   *)

\* What the API calls settled, with the day it was verified, did take effect on
\* its date (assistant.ts:292-303).
THEOREM SettledHolds == Spec => []SettledIsTrue
<1>1. TypeOK /\ TruthInv => SettledIsTrue
  <2> SUFFICES ASSUME TypeOK, TruthInv, NEW s \in Source,
                      InForceStatus(bundle[s], day) = "settled", bundle[s].verified # 0
               PROVE  InForce /\ law.eff = bundle[s].eff
    BY DEF SettledIsTrue
  <2> DEFINE e == bundle[s]
  <2>1. e.kind = "rule_change" /\ Adopted(e) /\ e.eff # 0 /\ Confirmed(e)
    BY DEF InForceStatus
  <2>2. e.eff \in Int /\ e.verified \in Int
    BY Numbers
  <2>3. e.eff <= e.verified
    BY <2>1, <2>2 DEF Confirmed
  <2> QED
    BY <2>1, <2>3 DEF TruthInv, EventTrue, WasTrue, Adopted, Adopts
<1> QED
  BY <1>1, InitTyped, NextTruth, FeedTypeCorrect, PTL DEF Spec
=============================================================================
