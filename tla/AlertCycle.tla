----------------------------- MODULE AlertCycle -----------------------------
(***************************************************************************)
(* What contact manager and helm promise together for a contact and an     *)
(* alert id: an alert is raised, answered by a behavior that guards        *)
(* against the contact, and taken back when the behavior has released it.  *)
(* An alert may be forgotten on its way, and then nothing brings it back.  *)
(***************************************************************************)
CONSTANT Watched
VARIABLE stage

Stages == {"clear", "raised", "guarded", "released", "forgotten"}

(* From raised straight to released: spawned and completed at once.        *)
Moves == {<<"clear", "raised">>, <<"raised", "guarded">>,
          <<"raised", "released">>, <<"guarded", "released">>,
          <<"released", "clear">>,
          <<"raised", "forgotten">>, <<"guarded", "forgotten">>}

Init == stage = [p \in Watched |-> "clear"]

Next == /\ stage' \in [Watched -> Stages]
        /\ \A p \in Watched : \/ stage'[p] = stage[p]
                              \/ <<stage[p], stage'[p]>> \in Moves

Spec == Init /\ [][Next]_stage
=============================================================================
