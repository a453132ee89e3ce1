-------------------------- MODULE MCSubscriberLinks --------------------------
(* Small instances of SubscriberLinks for TLC.                              *)
EXTENDS SubscriberLinks, FiniteSets, TLC

CONSTANTS q1, q2

RequestSymmetry == Permutations(Request)

Busy == {q \in Request : req[q].pc # "idle"}
Used == {i \in Id : row[i].status # "none"}

(* No action tells two states apart: the first row is of "ga".              *)
GeorgiaFirst ==
    /\ \A q \in Busy : req[q].pc = "insert" /\ Used = {} => req[q].state = "ga"
    /\ 1 \in Used => row[1].state = "ga"

(* Two requests at once on one row, but not two edits, nor after a bounce.  *)
TwoOnOneRow ==
    /\ Used \subseteq {1} /\ minted <= 2
    /\ \A q \in Busy : req[q].pc = "insert" => req[q].state = "ga"
    /\ Cardinality({q \in Busy : req[q].op = "edit"}) <= 1
    /\ row[1].reason # "bounced"

(* One request at a time on two rows, which nothing renews or removes; one  *)
(* more click once two emails have come.                                    *)
OneOnTwoRows ==
    /\ Cardinality(Busy) <= 1 /\ crossed = {} /\ Cardinality(mail) <= 2
    /\ \A q \in Busy :
         req[q].op \in {"signup", "add", "confirm", "unsubscribed", "edit"}
    /\ \A i \in Used : row[i].reason \in {"none", "unsubscribed"}

OneOrTwo == GeorgiaFirst /\ (TwoOnOneRow \/ OneOnTwoRows)
=============================================================================
