---------------------------- MODULE ContactMail ----------------------------
(***************************************************************************)
(* What the contact manager and the helm say to each other about contacts. *)
(* An alert is about a pair of a contact and an alert id; a behavior is    *)
(* spawned for it and one day reports it resolved.                         *)
(*                                                                         *)
(* Mail of different pairs has no order that matters to either reader, so  *)
(* the mail in flight is counted for each pair.  Names and ids are taken   *)
(* to be in lower case: BasicContactMgr looks ids up as they are written   *)
(* and converted to lower case in turns, and works for no other.           *)
(***************************************************************************)
EXTENDS Integers, FiniteSets

CONSTANTS
    Contacts,   \* vehicles that send node reports
    AlertIds    \* ids of the alerts in the configuration and in requests

VARIABLES
    asked,      \* BCM_ALERT_REQUEST: ids requested by the helm
    alerts,     \* alerts posted, by pair
    resolving   \* CONTACT_RESOLVED, by pair

mailVars == <<asked, alerts, resolving>>

Pairs == Contacts \X AlertIds

(* Counters by pair. *)
None == [p \in Pairs |-> 0]
One(S) == [p \in Pairs |-> IF p \in S THEN 1 ELSE 0]
Plus(f, g) == [p \in Pairs |-> f[p] + g[p]]
Less(f, p) == [f EXCEPT ![p] = @ - 1]

=============================================================================
