--------------------------- MODULE MCActiveQueues ---------------------------
(***************************************************************************)
(* Instances of ActiveQueues for TLC.                                      *)
(***************************************************************************)
EXTENDS ActiveQueues, TLC
CONSTANTS q1, q2, k1, k2, app, helper

NameSymmetry == Permutations(Queues) \cup Permutations(Keys)

(* Bounds: several queues, or several messages, but not both at once; the  *)
(* routes of a variable are erased while there is one message at most, and *)
(* the third message arrives while nothing has been fetched or cleared.    *)
InUse(q) == q \in exists \/ worker[q] # "done" \/ \E k \in Keys : q \in route[k]
FewAtOnce ==
    /\ received <= 1 \/ \E q \in Queues : \A p \in Queues \ {q} : ~InUse(p)
    /\ received <= 1 \/ erased = {}
    /\ received <= 2 \/ mail \cup dropped = {}
=============================================================================
