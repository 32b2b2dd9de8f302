---------------------------- MODULE ContactLoop ----------------------------
(***************************************************************************)
(* Contact manager and helm together: the loop from an alert to a behavior *)
(* and from its end back to the contact manager, with a helm that may be   *)
(* parked, on standby, disabled, restarted or halted, and mail that may be *)
(* lost.                                                                   *)
(***************************************************************************)
EXTENDS ContactManager, BehaviorLife

vars == <<mailVars, managerVars, helmVars, behaviorVars>>

(* The helm posts its requests when it starts; a contact manager that is   *)
(* not there yet never sees them.                                          *)
Init ==
    /\ asked \in {{}, Requested}
    /\ alerts = None /\ resolving = None
    /\ ManagerInit /\ HelmInit

Manager == ManagerNext /\ UNCHANGED <<helmVars, behaviorVars>>
Helm == HelmNext /\ UNCHANGED managerVars

Next == Manager \/ Helm

(* Every application goes on fetching mail and iterating; that a duration  *)
(* is ever exceeded is not assumed.                                        *)
Fairness ==
    /\ \A a \in AlertIds :
         WF_vars(HandleAlertRequest(a) /\ UNCHANGED <<helmVars, behaviorVars>>)
    /\ \A p \in Pairs :
         /\ WF_vars(HandleResolved(p) /\ UNCHANGED <<helmVars, behaviorVars>>)
         /\ WF_vars(ReadAlert(p) /\ UNCHANGED managerVars)
    /\ WF_vars(PostAlerts /\ UNCHANGED <<helmVars, behaviorVars>>)
    /\ WF_vars(DrivesInTime /\ UNCHANGED managerVars)
    /\ WF_vars(IterateDisabled /\ UNCHANGED managerVars)

Spec == Init /\ [][Next]_vars
FairSpec == Spec /\ Fairness

-----------------------------------------------------------------------------
TypeOK ==
    /\ asked \subseteq AlertIds
    /\ alerts \in [Pairs -> Nat] /\ resolving \in [Pairs -> Nat]
    /\ range \in [Contacts -> Zones \cup {"unknown"}]
    /\ stale \subseteq Contacts
    /\ configured \subseteq AlertIds
    /\ alerted \subseteq Pairs
    /\ active \in [Contacts -> Int]
    /\ start \in StartModes /\ mode \in Modes
    /\ distance \in [Contacts -> Ranges \cup {"unknown"}]
    /\ idle \in [AlertIds -> Reasons] /\ failing \in BOOLEAN
    /\ deltas \in [Pairs -> Nat]
    /\ live \in [Pairs -> Nat] /\ done \in [Pairs -> Nat]
    /\ names \subseteq Pairs

(* Where an alert can be until the contact manager reads its resolution.   *)
Held(p) == alerts[p] + deltas[p] + live[p] + resolving[p]

(* An alert is in one place at a time: in the mail, in the info buffer,    *)
(* with a behavior, or in a resolution on its way back; there is none for  *)
(* a pair the contact manager takes for resolved.  So no contact gets two  *)
(* behaviors of one id, and postAlerts and handleMailResolved take turns.  *)
OneAtATime ==
    \A p \in Pairs : /\ Held(p) <= 1 /\ done[p] <= 1
                     /\ p \notin alerted => Held(p) = 0

(* m_map_node_alerts_active, an unsigned counter, counts the alerts that   *)
(* m_par has and never goes below zero.                                    *)
CountsAgree ==
    \A c \in Contacts :
        active[c] = Cardinality({a \in AlertIds : <<c, a>> \in alerted})

(* Without a prefix m_bhv_names has the names of exactly the behaviors     *)
(* that exist, and there are no two of one name.                           *)
NamesTell ==
    \A p \in Pairs : p[2] \notin Prefixed =>
        /\ p \in names <=> live[p] + done[p] > 0
        /\ live[p] + done[p] <= 1

(* How far the loop is for a pair. *)
Stage(p) ==
    IF p \notin alerted THEN "clear"
    ELSE IF alerts[p] + deltas[p] > 0 THEN "raised"
    ELSE IF live[p] > 0 THEN "guarded"
    ELSE IF resolving[p] > 0 THEN "released"
    ELSE "forgotten"

(* The two applications implement the cycle: in particular an alert that   *)
(* was forgotten is never raised again.                                    *)
Cycle == INSTANCE AlertCycle
         WITH Watched <- Pairs, stage <- [p \in Pairs |-> Stage(p)]
ImplementsCycle == Cycle!Spec

(* An alert is forgotten only by a helm that is restarted, not enabled or  *)
(* loses mail, or if the behavior of the previous alert has completed and  *)
(* still has the name; with a prefix it is not even then.                  *)
OnlyFaultsForget ==
    [][\A p \in Pairs : Stage(p) # "forgotten" /\ Stage(p)' = "forgotten" =>
           \/ HelmFails
           \/ mode \notin EnabledModes
           \/ p[2] \notin Prefixed /\ done[p] = 1]_vars

(* A contact in range of an alert, reported and near, gets its behavior    *)
(* from a helm that drives, unless the alert was forgotten.                *)
Threat(p) == /\ mode = "drive" /\ p[2] \in configured
             /\ range[p[1]] \in AlertZones /\ p[1] \notin stale
             /\ distance[p[1]] \notin CompleteZones
ThreatIsGuarded ==
    \A p \in Pairs : <>[]Threat(p) => []<>(Stage(p) \in {"guarded", "forgotten"})

(* When a contact stays far away its behaviors complete and are removed,   *)
(* and the contact manager is ready to alert for it again.                 *)
Away(p) == /\ mode = "drive" /\ ~failing /\ idle[p[2]] = "none"
           /\ distance[p[1]] \in CompleteZones
           /\ range[p[1]] \notin AlertZones \/ p[1] \in stale
AwayIsReleased ==
    \A p \in Pairs :
        <>[]Away(p) => <>[](/\ Stage(p) \in {"clear", "forgotten"}
                            /\ live[p] + done[p] = 0)
=============================================================================
