--------------------------- MODULE ContactManager ---------------------------
(***************************************************************************)
(* pBasicContactMgr: knows the contacts from their node reports and posts  *)
(* an alert for a contact that comes within range, once until somebody     *)
(* reports it resolved.                                                    *)
(*                                                                         *)
(* Mail is read one message at a time; OnNewMail reads a batch, which is   *)
(* one of the orders of these steps.                                       *)
(***************************************************************************)
EXTENDS ContactMail

CONSTANTS
    Zones,        \* distances, as far as they are told apart
    AlertZones,   \* those within the range of an alert
    FromFile,     \* alert ids of the configuration file
    Nameless      \* ids whose behaviors report the contact resolved without
                  \* the id, which resolves all its alerts

(* With several ids a nameless report would take back alerts of others     *)
(* whose behaviors still live; such configurations are left out.           *)
ASSUME ManagerAssumption ==
    /\ AlertZones \subseteq Zones /\ "unknown" \notin Zones
    /\ FromFile \subseteq AlertIds /\ IsFiniteSet(AlertIds)
    /\ \A a \in Nameless : AlertIds = {a}

VARIABLES
    range,        \* zone of each contact, or "unknown"
    stale,        \* contacts not heard of for longer than m_contact_max_age
    configured,   \* ids in m_map_alert_varname
    alerted,      \* m_par: pairs for which an alert has been posted
    active        \* m_map_node_alerts_active

managerVars == <<range, stale, configured, alerted, active>>

Known(c) == range[c] # "unknown"

ManagerInit ==
    /\ range = [c \in Contacts |-> "unknown"]
    /\ stale = {}
    /\ configured = FromFile
    /\ alerted = {}
    /\ active = [c \in Contacts |-> 0]

\* Mutant: every report makes the row anew.
AddVehicleAgain(c) ==
    /\ alerted' = alerted \ ({c} \X AlertIds)
    /\ active' = [active EXCEPT ![c] = 0]

(* A row of m_par and of the counters is made for a new vehicle only. *)
AddVehicle(c) ==
    /\ alerted' = IF Known(c) THEN alerted ELSE alerted \ ({c} \X AlertIds)
    /\ active' = IF Known(c) THEN active ELSE [active EXCEPT ![c] = 0]

(* A node report; z is the zone updateRanges finds in the next Iterate. *)
HandleNodeReport(c, z) ==
    /\ range' = [range EXCEPT ![c] = z]
    /\ stale' = stale \ {c}
    /\ AddVehicle(c)
    /\ UNCHANGED <<mailVars, configured>>

(* No report for longer than m_contact_max_age: the contact is retired. *)
Retires(c) ==
    /\ Known(c)
    /\ stale' = stale \cup {c}
    /\ UNCHANGED <<mailVars, range, configured, alerted, active>>

\* Mutant: a repeated request makes the column anew.
AddAlertIdAgain(a) == alerted' = alerted \ (Contacts \X {a})

(* A column of m_par is made for a new id only. *)
AddAlertId(a) ==
    alerted' = IF a \in configured THEN alerted ELSE alerted \ (Contacts \X {a})

HandleAlertRequest(a) ==
    /\ a \in asked
    /\ asked' = asked \ {a}
    /\ AddAlertId(a)
    /\ configured' = configured \cup {a}
    /\ UNCHANGED <<alerts, resolving, range, stale, active>>

(* setValue of m_par; without an id the whole row. *)
Resolved(p) == IF p[2] \in Nameless THEN {p[1]} \X AlertIds ELSE {p}

\* Mutant: a resolution is read once more than it was posted.
HandleResolvedTwice(p) ==
    /\ resolving[p] >= 0
    /\ resolving' = Less(resolving, p)
    /\ UNCHANGED <<asked, alerts, range, stale, configured, alerted, active>>

\* Mutant: only the counter of the active alerts is corrected.
HandleResolvedInPart(p) ==
    /\ resolving[p] > 0
    /\ resolving' = Less(resolving, p)
    /\ active' = [active EXCEPT ![p[1]] = @ - 1]
    /\ UNCHANGED <<asked, alerts, range, stale, configured, alerted>>

HandleResolved(p) ==
    /\ resolving[p] > 0
    /\ resolving' = Less(resolving, p)
    /\ IF Known(p[1]) /\ p[2] \in configured \cup Nameless
       THEN /\ active' = [active EXCEPT ![p[1]] = @ - 1]
            /\ alerted' = alerted \ Resolved(p)
       ELSE UNCHANGED <<active, alerted>>
    /\ UNCHANGED <<asked, alerts, range, stale, configured>>

\* Mutant: the age of a contact is compared the wrong way round.
DueRetired == {p \in Pairs : /\ p \notin alerted
                             /\ p[2] \in configured
                             /\ range[p[1]] \in AlertZones
                             /\ p[1] \in stale}

Due == {p \in Pairs : /\ p \notin alerted
                      /\ p[2] \in configured
                      /\ range[p[1]] \in AlertZones
                      /\ p[1] \notin stale}

(* Iterate: updateRanges is part of range, postSummaries changes nothing.  *)
PostAlerts ==
    /\ alerts' = Plus(alerts, One(Due))
    /\ alerted' = alerted \cup Due
    /\ active' = [c \in Contacts |->
                    active[c] + Cardinality({a \in AlertIds : <<c, a>> \in Due})]
    /\ UNCHANGED <<asked, resolving, range, stale, configured>>

ManagerReads ==
    \/ \E c \in Contacts, z \in Zones : HandleNodeReport(c, z)
    \/ \E a \in AlertIds : HandleAlertRequest(a)
    \/ \E p \in Pairs : HandleResolved(p)

ManagerNext ==
    \/ ManagerReads
    \/ \E c \in Contacts : Retires(c)
    \/ PostAlerts
=============================================================================
