------------------------- MODULE ContactLoopProofs -------------------------
(***************************************************************************)
(* The loop of alerts and behaviors is sound for any contacts, alert ids,  *)
(* distances and faults, and implements the cycle.                         *)
(***************************************************************************)
EXTENDS ContactLoop, FiniteSetTheorems, TLAPS

(* What was alerted is known and configured, so that its resolution is not *)
(* turned down, and neither a report nor a request starts it over.         *)
AlertedIsKnown ==
    \A p \in alerted : Known(p[1]) /\ p[2] \in configured

LoopInv == TypeOK /\ OneAtATime /\ NamesTell /\ AlertedIsKnown

LEMMA PairParts ==
    \A p \in Pairs : p = <<p[1], p[2]>> /\ p[1] \in Contacts /\ p[2] \in AlertIds
  BY DEF Pairs

LEMMA Counters ==
    ASSUME TypeOK, NEW p \in Pairs
    PROVE  /\ alerts[p] \in Nat /\ deltas[p] \in Nat /\ live[p] \in Nat
           /\ resolving[p] \in Nat /\ done[p] \in Nat
  BY DEF TypeOK

LEMMA LoopInit == Init => LoopInv
<1> SUFFICES ASSUME Init PROVE LoopInv
  OBVIOUS
<1>1. TypeOK
  <2>1. None \in [Pairs -> Nat]
    BY DEF None
  <2>2. /\ asked \subseteq AlertIds /\ configured \subseteq AlertIds
        /\ start \in StartModes /\ mode \in Modes
    BY ManagerAssumption, BehaviorAssumption
       DEF Init, ManagerInit, HelmInit, Modes, EnabledModes
  <2>3. /\ range \in [Contacts -> Zones \cup {"unknown"}]
        /\ distance \in [Contacts -> Ranges \cup {"unknown"}]
        /\ active \in [Contacts -> Int]
    BY DEF Init, ManagerInit, HelmInit
  <2>4. /\ stale \subseteq Contacts /\ alerted \subseteq Pairs
        /\ idle \in [AlertIds -> Reasons] /\ failing \in BOOLEAN
        /\ names \subseteq Pairs
    BY DEF Init, ManagerInit, HelmInit, Reasons
  <2>5. /\ alerts = None /\ resolving = None
        /\ deltas = None /\ live = None /\ done = None
    BY DEF Init, HelmInit
  <2> QED
    BY <2>1, <2>2, <2>3, <2>4, <2>5 DEF TypeOK
<1>2. OneAtATime
  BY DEF Init, ManagerInit, HelmInit, OneAtATime, Held, None
<1>3. NamesTell
  BY DEF Init, HelmInit, NamesTell, None
<1> QED
  BY <1>1, <1>2, <1>3 DEF LoopInv, AlertedIsKnown, Init, ManagerInit

(* Reports and requests find the rows and columns of m_par made already.   *)
LEMMA ReportKeeps ==
    ASSUME LoopInv, NEW c \in Contacts, NEW z \in Zones, HandleNodeReport(c, z)
    PROVE  alerted' = alerted
  BY PairParts DEF HandleNodeReport, AddVehicle, LoopInv, AlertedIsKnown, TypeOK

LEMMA RequestKeeps ==
    ASSUME LoopInv, NEW a \in AlertIds, HandleAlertRequest(a)
    PROVE  alerted' = alerted
  BY PairParts DEF HandleAlertRequest, AddAlertId, LoopInv, AlertedIsKnown, TypeOK

(* A report of a resolution takes back exactly the alert it is about.      *)
LEMMA ResolvedIsOne == \A p \in Pairs : Resolved(p) = {p}
  BY PairParts, ManagerAssumption DEF Resolved

LEMMA ResolvedTakes ==
    ASSUME LoopInv, NEW p \in Pairs, HandleResolved(p)
    PROVE  /\ p \in alerted /\ Held(p) = 1 /\ resolving[p] = 1
           /\ alerted' = alerted \ {p}
           /\ active' = [active EXCEPT ![p[1]] = @ - 1]
           /\ resolving' = [resolving EXCEPT ![p] = @ - 1]
<1>1. p \in alerted /\ Held(p) = 1 /\ resolving[p] = 1
  <2>1. resolving[p] > 0 /\ Held(p) <= 1 /\ (p \notin alerted => Held(p) = 0)
    BY DEF LoopInv, OneAtATime, HandleResolved
  <2> QED
    BY <2>1, Counters DEF LoopInv, Held
<1> QED
  BY <1>1, ResolvedIsOne DEF LoopInv, AlertedIsKnown, HandleResolved, Less

LEMMA ReportInv ==
    ASSUME LoopInv, NEW c \in Contacts, NEW z \in Zones,
           HandleNodeReport(c, z), UNCHANGED <<helmVars, behaviorVars>>
    PROVE  LoopInv'
<1>1. alerted' = alerted
  BY ReportKeeps
<1>2. TypeOK'
  BY <1>1, ManagerAssumption
     DEF HandleNodeReport, AddVehicle, LoopInv, TypeOK, mailVars, helmVars,
         behaviorVars
<1>3. OneAtATime' /\ NamesTell'
  BY <1>1 DEF HandleNodeReport, LoopInv, OneAtATime, NamesTell, Held, mailVars,
              helmVars, behaviorVars
<1>4. AlertedIsKnown'
  BY <1>1, ManagerAssumption
     DEF HandleNodeReport, LoopInv, AlertedIsKnown, Known, TypeOK
<1> QED
  BY <1>2, <1>3, <1>4 DEF LoopInv

LEMMA RequestInv ==
    ASSUME LoopInv, NEW a \in AlertIds, HandleAlertRequest(a),
           UNCHANGED <<helmVars, behaviorVars>>
    PROVE  LoopInv'
<1>1. alerted' = alerted
  BY RequestKeeps
<1>2. TypeOK'
  BY <1>1 DEF HandleAlertRequest, LoopInv, TypeOK, helmVars, behaviorVars
<1>3. OneAtATime' /\ NamesTell'
  BY <1>1 DEF HandleAlertRequest, LoopInv, OneAtATime, NamesTell, Held, helmVars,
              behaviorVars
<1>4. AlertedIsKnown'
  BY <1>1 DEF HandleAlertRequest, LoopInv, AlertedIsKnown, Known, TypeOK
<1> QED
  BY <1>2, <1>3, <1>4 DEF LoopInv

LEMMA ResolvedInv ==
    ASSUME LoopInv, NEW p \in Pairs, HandleResolved(p),
           UNCHANGED <<helmVars, behaviorVars>>
    PROVE  LoopInv'
<1>1. p \in alerted /\ Held(p) = 1 /\ resolving[p] = 1
  BY ResolvedTakes
<1>2. /\ alerted' = alerted \ {p}
      /\ active' = [active EXCEPT ![p[1]] = @ - 1]
      /\ resolving' = [resolving EXCEPT ![p] = @ - 1]
  BY ResolvedTakes
<1>3. TypeOK'
  <2>1. resolving' \in [Pairs -> Nat]
    BY <1>1, <1>2 DEF LoopInv, TypeOK
  <2>2. active' \in [Contacts -> Int]
    BY <1>2, PairParts DEF LoopInv, TypeOK
  <2> QED
    BY <1>2, <2>1, <2>2
       DEF HandleResolved, LoopInv, TypeOK, helmVars, behaviorVars
<1>4. \A q \in Pairs : /\ Held(q)' = IF q = p THEN 0 ELSE Held(q)
                       /\ done[q]' = done[q]
  BY <1>1, <1>2 DEF HandleResolved, Held, LoopInv, TypeOK, behaviorVars
<1>5. OneAtATime'
  BY <1>2, <1>4 DEF LoopInv, OneAtATime
<1>6. NamesTell'
  BY DEF LoopInv, NamesTell, behaviorVars
<1>7. AlertedIsKnown'
  BY <1>2 DEF LoopInv, AlertedIsKnown, HandleResolved, Known
<1> QED
  BY <1>3, <1>5, <1>6, <1>7 DEF LoopInv

LEMMA PostAlertsInv ==
    ASSUME LoopInv, PostAlerts, UNCHANGED <<helmVars, behaviorVars>>
    PROVE  LoopInv'
<1>1. alerts' = [p \in Pairs |-> alerts[p] + (IF p \in Due THEN 1 ELSE 0)]
  BY DEF PostAlerts, Plus, One
<1>2. alerted' = alerted \cup Due /\ Due \subseteq Pairs
  BY DEF PostAlerts, Due
<1>3. active' \in [Contacts -> Int]
  <2>1. \A c \in Contacts :
           Cardinality({a \in AlertIds : <<c, a>> \in Due}) \in Nat
    BY FS_Subset, FS_CardinalityType, ManagerAssumption
  <2> QED
    BY <2>1 DEF PostAlerts, LoopInv, TypeOK
<1>4. TypeOK'
  <2>1. alerts' \in [Pairs -> Nat]
    BY <1>1, Counters DEF LoopInv
  <2> QED
    BY <1>2, <1>3, <2>1 DEF PostAlerts, LoopInv, TypeOK, helmVars, behaviorVars
<1>5. \A p \in Pairs : Held(p)' = IF p \in Due THEN 1 ELSE Held(p)
  <2> SUFFICES ASSUME NEW p \in Pairs
               PROVE  Held(p)' = IF p \in Due THEN 1 ELSE Held(p)
    OBVIOUS
  <2>1. /\ alerts'[p] = alerts[p] + (IF p \in Due THEN 1 ELSE 0)
        /\ deltas' = deltas /\ live' = live /\ resolving' = resolving
    BY <1>1 DEF PostAlerts, behaviorVars
  <2>2. p \in Due => Held(p) = 0
    BY DEF Due, LoopInv, OneAtATime
  <2> QED
    BY <2>1, <2>2, Counters DEF Held, LoopInv
<1>6. OneAtATime'
  BY <1>2, <1>5 DEF LoopInv, OneAtATime, behaviorVars
<1>7. NamesTell'
  BY DEF LoopInv, NamesTell, behaviorVars
<1>8. AlertedIsKnown'
  BY <1>2, ManagerAssumption
     DEF LoopInv, AlertedIsKnown, PostAlerts, Known, Due
<1> QED
  BY <1>4, <1>6, <1>7, <1>8 DEF LoopInv

LEMMA RetiresInv ==
    ASSUME LoopInv, NEW c \in Contacts, Retires(c),
           UNCHANGED <<helmVars, behaviorVars>>
    PROVE  LoopInv'
  BY DEF Retires, LoopInv, TypeOK, OneAtATime, NamesTell, AlertedIsKnown, Held,
         Known, mailVars, helmVars, behaviorVars

LEMMA ManagerInv == ASSUME LoopInv, Manager PROVE LoopInv'
  BY ReportInv, RequestInv, ResolvedInv, PostAlertsInv, RetiresInv
     DEF Manager, ManagerNext, ManagerReads

(* What the helm reads and what changes around it.                         *)
LEMMA HelmReadsInv ==
    ASSUME LoopInv, NEW c \in Contacts, NEW z \in Ranges,
           UpdatePlatformInfo(c, z), UNCHANGED managerVars
    PROVE  LoopInv'
  BY DEF UpdatePlatformInfo, LoopInv, TypeOK, OneAtATime, NamesTell,
         AlertedIsKnown, Held, Known, mailVars, managerVars, behaviorVars

LEMMA ConditionsInv ==
    ASSUME LoopInv, NEW a \in AlertIds, NEW why \in Reasons, Conditions(a, why),
           UNCHANGED managerVars
    PROVE  LoopInv'
  BY DEF Conditions, LoopInv, TypeOK, OneAtATime, NamesTell, AlertedIsKnown,
         Held, Known, mailVars, managerVars, behaviorVars

LEMMA FailsInv == ASSUME LoopInv, Fails, UNCHANGED managerVars PROVE LoopInv'
  BY DEF Fails, LoopInv, TypeOK, OneAtATime, NamesTell, AlertedIsKnown, Held,
         Known, mailVars, managerVars, behaviorVars

(* Overrides, take-over and yielding: nothing but the mode changes.        *)
LEMMA ModeOnly ==
    ASSUME ModeChanges
    PROVE  /\ mode' \in Modes
           /\ UNCHANGED <<mailVars, start, distance, idle, failing, behaviorVars>>
  BY DEF ModeChanges, ChangeMode, TakeOver, Yield, ModeBecomes, Modes

LEMMA ModeChangesInv ==
    ASSUME LoopInv, ModeChanges, UNCHANGED managerVars
    PROVE  LoopInv'
  BY ModeOnly DEF LoopInv, TypeOK, OneAtATime, NamesTell, AlertedIsKnown,
                  Held, Known, mailVars, managerVars, behaviorVars

LEMMA ReadAlertInv ==
    ASSUME LoopInv, NEW p \in Pairs, ReadAlert(p), UNCHANGED managerVars
    PROVE  LoopInv'
<1>1. /\ alerts' = [alerts EXCEPT ![p] = @ - 1] /\ alerts[p] > 0
      /\ deltas' = [q \in Pairs |-> deltas[q] + (IF q = p THEN 1 ELSE 0)]
  BY DEF ReadAlert, Less, Plus, One
<1>2. alerts' \in [Pairs -> Nat] /\ deltas' \in [Pairs -> Nat]
  BY <1>1 DEF LoopInv, TypeOK
<1>3. TypeOK'
  BY <1>2 DEF ReadAlert, LoopInv, TypeOK, helmVars, managerVars
<1>4. \A q \in Pairs : Held(q)' = Held(q) /\ done'[q] = done[q]
  <2> SUFFICES ASSUME NEW q \in Pairs PROVE Held(q)' = Held(q) /\ done'[q] = done[q]
    OBVIOUS
  <2>1. /\ alerts'[q] = alerts[q] - (IF q = p THEN 1 ELSE 0)
        /\ deltas'[q] = deltas[q] + (IF q = p THEN 1 ELSE 0)
        /\ live' = live /\ resolving' = resolving /\ done' = done
    <3>1. alerts'[q] = alerts[q] - (IF q = p THEN 1 ELSE 0)
      BY <1>1, Counters DEF LoopInv, TypeOK
    <3>2. deltas'[q] = deltas[q] + (IF q = p THEN 1 ELSE 0)
      BY <1>1
    <3> QED
      BY <3>1, <3>2 DEF ReadAlert
  <2>2. /\ alerts[q] \in Nat /\ deltas[q] \in Nat /\ live[q] \in Nat
        /\ resolving[q] \in Nat
    BY Counters DEF LoopInv
  <2>3. Held(q)' = alerts'[q] + deltas'[q] + live[q] + resolving[q]
    BY <2>1 DEF Held
  <2> QED
    BY <2>1, <2>2, <2>3 DEF Held
<1>5. OneAtATime' /\ NamesTell' /\ AlertedIsKnown'
  BY <1>4 DEF LoopInv, OneAtATime, NamesTell, AlertedIsKnown, Known, ReadAlert,
              managerVars
<1> QED
  BY <1>3, <1>5 DEF LoopInv

LEMMA LoseAlertInv ==
    ASSUME LoopInv, NEW p \in Pairs, LoseAlert(p), UNCHANGED managerVars
    PROVE  LoopInv'
<1>1. alerts' = [alerts EXCEPT ![p] = @ - 1] /\ alerts[p] > 0
  BY DEF LoseAlert, Less
<1>2. alerts' \in [Pairs -> Nat]
  BY <1>1 DEF LoopInv, TypeOK
<1>3. TypeOK'
  BY <1>2 DEF LoseAlert, LoopInv, TypeOK, helmVars, managerVars, behaviorVars
<1>4. \A q \in Pairs : Held(q)' <= Held(q) /\ Held(q)' >= 0
  <2> SUFFICES ASSUME NEW q \in Pairs PROVE Held(q)' <= Held(q) /\ Held(q)' >= 0
    OBVIOUS
  <2>1. /\ alerts'[q] = alerts[q] - (IF q = p THEN 1 ELSE 0) /\ alerts'[q] \in Nat
        /\ deltas' = deltas /\ live' = live /\ resolving' = resolving
    BY <1>1, <1>2, Counters DEF LoseAlert, LoopInv, TypeOK, behaviorVars
  <2> QED
    BY <2>1, Counters DEF Held, LoopInv
<1>5. \A q \in Pairs : Held(q) \in Nat /\ Held(q)' \in Nat
  BY <1>3, Counters DEF Held, LoopInv, TypeOK
<1>6. OneAtATime'
  BY <1>4, <1>5 DEF LoopInv, OneAtATime, LoseAlert, managerVars, behaviorVars
<1>7. NamesTell' /\ AlertedIsKnown'
  BY DEF LoopInv, NamesTell, AlertedIsKnown, Known, LoseAlert, managerVars,
         behaviorVars
<1> QED
  BY <1>3, <1>6, <1>7 DEF LoopInv

LEMMA RestartInv ==
    ASSUME LoopInv, NEW m \in Modes, Restart(m), UNCHANGED managerVars
    PROVE  LoopInv'
<1>1. None \in [Pairs -> Nat]
  BY DEF None
<1>2. /\ deltas' = None /\ live' = None /\ done' = None /\ names' = {}
      /\ alerts' = alerts /\ resolving' = resolving
  BY DEF Restart, CleanUp
<1>3. asked' \subseteq AlertIds /\ mode' \in Modes
  BY BehaviorAssumption DEF Restart, LoopInv, TypeOK
<1>4. distance' \in [Contacts -> Ranges \cup {"unknown"}]
  BY DEF Restart, CleanUp
<1>5. TypeOK'
  BY <1>1, <1>2, <1>3, <1>4 DEF Restart, LoopInv, TypeOK, managerVars
<1>6. \A p \in Pairs : Held(p)' <= Held(p) /\ Held(p)' \in Nat /\ done'[p] = 0
  <2> SUFFICES ASSUME NEW p \in Pairs
               PROVE  Held(p)' <= Held(p) /\ Held(p)' \in Nat /\ done'[p] = 0
    OBVIOUS
  <2>1. deltas'[p] = 0 /\ live'[p] = 0 /\ done'[p] = 0
    BY <1>2 DEF None
  <2> QED
    BY <1>2, <2>1, Counters DEF Held, LoopInv
<1>7. OneAtATime'
  <2> SUFFICES ASSUME NEW p \in Pairs
               PROVE  Held(p)' <= 1 /\ done'[p] <= 1 /\ (p \notin alerted => Held(p)' = 0)
    BY DEF OneAtATime, managerVars
  <2>1. Held(p) <= 1 /\ (p \notin alerted => Held(p) = 0) /\ Held(p) \in Nat
    BY Counters DEF LoopInv, OneAtATime, Held
  <2> QED
    BY <1>6, <2>1
<1>8. NamesTell'
  BY <1>2 DEF NamesTell, None
<1>9. AlertedIsKnown'
  BY DEF LoopInv, AlertedIsKnown, Known, managerVars
<1> QED
  BY <1>5, <1>7, <1>8, <1>9 DEF LoopInv

LEMMA IterateDisabledInv ==
    ASSUME LoopInv, IterateDisabled, UNCHANGED managerVars
    PROVE  LoopInv'
<1>1. None \in [Pairs -> Nat] /\ deltas' = None
  BY DEF None, IterateDisabled
<1>2. TypeOK'
  BY <1>1 DEF IterateDisabled, LoopInv, TypeOK, mailVars, helmVars, managerVars
<1>3. OneAtATime'
  <2> SUFFICES ASSUME NEW p \in Pairs
               PROVE  Held(p)' <= 1 /\ done'[p] <= 1 /\ (p \notin alerted => Held(p)' = 0)
    BY DEF OneAtATime, managerVars
  <2>1. /\ Held(p) <= 1 /\ (p \notin alerted => Held(p) = 0) /\ done[p] <= 1
    BY DEF LoopInv, OneAtATime
  <2>2. Held(p)' = alerts[p] + live[p] + resolving[p] /\ done' = done
    BY <1>1, Counters DEF IterateDisabled, Held, mailVars, None, LoopInv
  <2> QED
    BY <2>1, <2>2, Counters DEF LoopInv, Held
<1>4. NamesTell' /\ AlertedIsKnown'
  BY DEF LoopInv, NamesTell, AlertedIsKnown, Known, IterateDisabled, managerVars
<1> QED
  BY <1>2, <1>3, <1>4 DEF LoopInv

(* An iteration of a helm that drives moves what is held for a pair: an    *)
(* alert becomes a behavior or goes, a behavior stays or becomes a report. *)
LEMMA Moved ==
    ASSUME LoopInv, NEW reached, NEW ran, NEW expired \in SUBSET MayExpire,
           IterateDrives(reached, ran, expired), NEW p \in Pairs
    PROVE  /\ deltas'[p] = 0 /\ alerts' = alerts
           /\ Spawned(p) \in Nat /\ Spawned(p) <= deltas[p]
           /\ \/ /\ live'[p] = Many(p) /\ resolving'[p] = resolving[p]
                 /\ done'[p] = 0 \/ done'[p] = done[p]
              \/ /\ live'[p] = 0 /\ resolving'[p] = resolving[p] + Many(p)
                 /\ p \in reached
                 /\ \/ done'[p] = Many(p) /\ p \notin expired
                    \/ done'[p] = 0 /\ live[p] = 1 /\ p \in expired
<1> DEFINE completed == Completed(ran, expired)
           timedOut == TimedOut(ran, expired)
           ended == completed \cup timedOut
<1>1. /\ live'[p] = IF p \in ended THEN 0 ELSE Many(p)
      /\ done'[p] = (IF p \in reached THEN 0 ELSE done[p])
                    + (IF p \in completed THEN Many(p) ELSE 0)
      /\ resolving'[p] = resolving[p] + (IF p \in ended THEN Many(p) ELSE 0)
      /\ deltas'[p] = 0 /\ alerts' = alerts
      /\ ran \subseteq reached
  BY DEF IterateDrives, None, Turns
<1>2. Spawned(p) \in Nat /\ Spawned(p) <= deltas[p]
  BY Counters DEF Spawned, LoopInv
<1>3. Many(p) \in Nat
  BY <1>2, Counters DEF Many, LoopInv
<1>4. /\ completed \subseteq ran \ expired /\ timedOut \subseteq ran \cap expired
      /\ p \in expired => live[p] > 0
  BY DEF Completed, TimedOut, MayExpire
<1>5. live[p] <= 1
  BY Counters DEF LoopInv, OneAtATime, Held
<1> HIDE DEF completed, timedOut
<1> QED
  BY <1>1, <1>2, <1>3, <1>4, <1>5, Counters DEF LoopInv

LEMMA DrivesInv ==
    ASSUME LoopInv, Drives, UNCHANGED managerVars
    PROVE  LoopInv'
<1>1. PICK reached, ran \in SUBSET Pairs, expired \in SUBSET MayExpire :
          IterateDrives(reached, ran, expired)
  BY DEF Drives
<1>2. TypeOK'
  <2>1. \A p \in Pairs : Spawned(p) \in Nat
    BY <1>1, Moved
  <2>2. \A p \in Pairs : Many(p) \in Nat
    BY <2>1, Counters DEF Many, LoopInv
  <2>3. live' \in [Pairs -> Nat]
    BY <1>1, <2>2 DEF IterateDrives
  <2>4. done' \in [Pairs -> Nat]
    BY <1>1, <2>2, Counters DEF IterateDrives, LoopInv
  <2>5. resolving' \in [Pairs -> Nat]
    BY <1>1, <2>2, Counters DEF IterateDrives, LoopInv
  <2>6. deltas' \in [Pairs -> Nat]
    BY <1>1 DEF IterateDrives, None
  <2>7. names' \subseteq Pairs
    BY <1>1 DEF IterateDrives, NamesLeft, LoopInv, TypeOK
  <2>8. asked' \subseteq AlertIds
    BY <1>1, BehaviorAssumption DEF IterateDrives, AskedAgain, LoopInv, TypeOK
  <2> QED
    BY <1>1, <2>3, <2>4, <2>5, <2>6, <2>7, <2>8
       DEF IterateDrives, LoopInv, TypeOK, helmVars, managerVars
<1>3. OneAtATime'
  <2> SUFFICES ASSUME NEW p \in Pairs
               PROVE  /\ Held(p)' <= 1 /\ done'[p] <= 1
                      /\ p \notin alerted => Held(p)' = 0
    BY DEF OneAtATime, managerVars
  <2>1. /\ Held(p) <= 1 /\ (p \notin alerted => Held(p) = 0) /\ done[p] <= 1
    BY DEF LoopInv, OneAtATime
  <2>2. Held(p)' = alerts[p] + live'[p] + resolving'[p]
    BY <1>1, Moved, <1>2, Counters DEF Held, TypeOK
  <2>3. Held(p)' = alerts[p] + Many(p) + resolving[p] /\ Spawned(p) <= deltas[p]
    BY <1>1, <2>2, Moved, Counters DEF LoopInv, Many
  <2>4. Held(p)' <= Held(p) /\ Held(p)' \in Nat /\ Many(p) <= 1
    BY <1>1, <2>1, <2>3, Moved, Counters DEF LoopInv, Held, Many
  <2>5. done'[p] \in {0, done[p], Many(p)}
    BY <1>1, Moved
  <2> QED
    BY <2>1, <2>4, <2>5, Counters DEF LoopInv, Held
<1>4. NamesTell'
  <2> SUFFICES ASSUME NEW p \in Pairs, p[2] \notin Prefixed
               PROVE  /\ p \in names' <=> live'[p] + done'[p] > 0
                      /\ live'[p] + done'[p] <= 1
    BY DEF NamesTell
  <2>1. /\ p \in names <=> live[p] + done[p] > 0
        /\ live[p] + done[p] <= 1
    BY DEF LoopInv, NamesTell
  <2>2. Spawned(p) = IF p \in names \/ deltas[p] = 0 THEN 0 ELSE 1
    BY DEF Spawned
  <2>3. p \in names' <=> /\ p \in names \/ Spawned(p) > 0
                         /\ ~(p \in reached /\ done[p] > 0)
                         /\ p \notin TimedOut(ran, expired)
    BY <1>1 DEF IterateDrives, NamesLeft
  <2>4. /\ live'[p] = IF p \in Completed(ran, expired) \cup TimedOut(ran, expired)
                      THEN 0 ELSE Many(p)
        /\ done'[p] = (IF p \in reached THEN 0 ELSE done[p])
                      + (IF p \in Completed(ran, expired) THEN Many(p) ELSE 0)
    BY <1>1 DEF IterateDrives
  <2>5. /\ p \in TimedOut(ran, expired) => live[p] > 0 /\ p \in reached
        /\ p \in Completed(ran, expired) => p \in reached
        /\ ~(p \in Completed(ran, expired) /\ p \in TimedOut(ran, expired))
    BY <1>1 DEF Completed, TimedOut, MayExpire, IterateDrives, Turns
  <2>6. Many(p) = live[p] + Spawned(p)
    BY DEF Many
  <2> QED
    BY <2>1, <2>2, <2>3, <2>4, <2>5, <2>6, Counters DEF LoopInv
<1>5. AlertedIsKnown'
  BY DEF LoopInv, AlertedIsKnown, Known, managerVars
<1> QED
  BY <1>2, <1>3, <1>4, <1>5 DEF LoopInv

LEMMA HelmInv == ASSUME LoopInv, Helm PROVE LoopInv'
<1>1. CASE HelmReads
  BY <1>1, HelmReadsInv, ReadAlertInv DEF HelmReads, Helm
<1>2. CASE HelmFails
  BY <1>2, FailsInv, LoseAlertInv, RestartInv DEF HelmFails, Helm
<1>3. CASE \E a \in Idles \cap AlertIds, why \in Reasons : Conditions(a, why)
  BY <1>3, ConditionsInv DEF Helm
<1>4. CASE ModeChanges
  BY <1>4, ModeChangesInv DEF Helm
<1>5. CASE IterateDisabled
  BY <1>5, IterateDisabledInv DEF Helm
<1>6. CASE Drives
  BY <1>6, DrivesInv DEF Helm
<1> QED
  BY <1>1, <1>2, <1>3, <1>4, <1>5, <1>6 DEF Helm, HelmNext

LEMMA LoopStep == LoopInv /\ [Next]_vars => LoopInv'
<1> SUFFICES ASSUME LoopInv, [Next]_vars PROVE LoopInv'
  OBVIOUS
<1>1. CASE UNCHANGED vars
  BY <1>1 DEF vars, LoopInv, TypeOK, OneAtATime, NamesTell, AlertedIsKnown,
              Held, Known, mailVars, managerVars, helmVars, behaviorVars
<1> QED
  BY <1>1, ManagerInv, HelmInv DEF Next

LEMMA LoopAlways == Spec => []LoopInv
  BY LoopInit, LoopStep, PTL DEF Spec

(* Every field keeps its type, and the counters stay natural numbers.      *)
THEOREM TypeCorrect == Spec => []TypeOK
<1>1. LoopInv => TypeOK
  BY DEF LoopInv
<1> QED
  BY <1>1, LoopAlways, PTL

(* An alert is in one place at a time, and nowhere for a pair that is      *)
(* taken for resolved, whatever mail, helm and operator do.                *)
THEOREM AlertsAreSingle == Spec => []OneAtATime
<1>1. LoopInv => OneAtATime
  BY DEF LoopInv
<1> QED
  BY <1>1, LoopAlways, PTL

(* Without a prefix m_bhv_names has the names of the behaviors that exist. *)
THEOREM NamesAreTrue == Spec => []NamesTell
<1>1. LoopInv => NamesTell
  BY DEF LoopInv
<1> QED
  BY <1>1, LoopAlways, PTL

-----------------------------------------------------------------------------
(* The cycle: what every step does to the stage of a pair.                 *)
LEMMA StageKept ==
    ASSUME NEW p \in Pairs,
           alerts'[p] + deltas'[p] = alerts[p] + deltas[p],
           live'[p] = live[p], resolving'[p] = resolving[p],
           p \in alerted' <=> p \in alerted
    PROVE  Stage(p)' = Stage(p)
  BY DEF Stage

(* At each stage the alert is in the one place that gives it its name.     *)
LEMMA StageIs ==
    ASSUME LoopInv, NEW p \in Pairs
    PROVE  /\ p \in alerted => Held(p) \in {0, 1}
           /\ Stage(p) = "clear" <=> p \notin alerted
           /\ Stage(p) = "raised" <=> p \in alerted /\ alerts[p] + deltas[p] = 1
           /\ Stage(p) = "guarded" <=> p \in alerted /\ live[p] = 1
           /\ Stage(p) = "released" <=> p \in alerted /\ resolving[p] = 1
           /\ Stage(p) = "forgotten" <=> p \in alerted /\ Held(p) = 0
           /\ Stage(p) \in Cycle!Stages
<1>1. /\ Held(p) <= 1 /\ (p \notin alerted => Held(p) = 0)
      /\ Held(p) = alerts[p] + deltas[p] + live[p] + resolving[p]
  BY DEF LoopInv, OneAtATime, Held
<1> QED
  BY <1>1, Counters DEF LoopInv, Stage, Cycle!Stages

Move(p) == Stage(p)' = Stage(p) \/ <<Stage(p), Stage(p)'>> \in Cycle!Moves

(* Taken together: a move of the cycle, and a fault where one forgets.     *)
Sound(p) ==
    /\ Move(p)
    /\ Stage(p) # "forgotten" /\ Stage(p)' = "forgotten" =>
           \/ HelmFails
           \/ mode \notin EnabledModes
           \/ p[2] \notin Prefixed /\ done[p] = 1

LEMMA ManagerMoves == ASSUME LoopInv, LoopInv', Manager, NEW p \in Pairs PROVE Sound(p)
<1>1. deltas' = deltas /\ live' = live
  BY DEF Manager, behaviorVars
<1>2. ASSUME NEW c \in Contacts, NEW z \in Zones, HandleNodeReport(c, z)
      PROVE  Sound(p)
  <2>1. alerted' = alerted
    BY <1>2, ReportKeeps
  <2> QED
    BY <1>1, <1>2, <2>1, StageKept DEF HandleNodeReport, mailVars, Sound, Move
<1>3. ASSUME NEW a \in AlertIds, HandleAlertRequest(a) PROVE Sound(p)
  <2>1. alerted' = alerted
    BY <1>3, RequestKeeps
  <2> QED
    BY <1>1, <1>3, <2>1, StageKept DEF HandleAlertRequest, Sound, Move
<1>4. ASSUME NEW q \in Pairs, HandleResolved(q) PROVE Sound(p)
  <2>1. q \in alerted /\ resolving[q] = 1 /\ alerts' = alerts
    BY <1>4, ResolvedTakes DEF HandleResolved
  <2>2. alerted' = alerted \ {q} /\ resolving' = [resolving EXCEPT ![q] = @ - 1]
    BY <1>4, ResolvedTakes
  <2>3. CASE p = q
    <3>1. Stage(p) = "released" /\ Stage(p)' = "clear"
      BY <2>1, <2>2, <2>3, StageIs DEF Stage
    <3> QED
      BY <3>1 DEF Sound, Move, Cycle!Moves
  <2>4. CASE p # q
    <3>1. resolving'[p] = resolving[p]
      BY <2>2, <2>4 DEF LoopInv, TypeOK
    <3> QED
      BY <1>1, <2>1, <2>2, <2>4, <3>1, StageKept DEF Sound, Move
  <2> QED
    BY <2>3, <2>4
<1>5. ASSUME NEW c \in Contacts, Retires(c) PROVE Sound(p)
  BY <1>1, <1>5, StageKept DEF Retires, mailVars, Sound, Move
<1>6. CASE PostAlerts
  <2>1. /\ alerts'[p] = alerts[p] + (IF p \in Due THEN 1 ELSE 0)
        /\ alerted' = alerted \cup Due /\ resolving' = resolving
    BY <1>6 DEF PostAlerts, Plus, One
  <2>2. CASE p \in Due
    <3>1. p \notin alerted /\ Held(p) = 0
      BY <2>2 DEF Due, LoopInv, OneAtATime
    <3>2. alerts'[p] + deltas'[p] = 1
      BY <1>1, <2>1, <2>2, <3>1, Counters DEF LoopInv, Held
    <3>3. Stage(p) = "clear" /\ Stage(p)' = "raised"
      BY <2>1, <2>2, <3>1, <3>2 DEF Stage
    <3> QED
      BY <3>3 DEF Sound, Move, Cycle!Moves
  <2>3. CASE p \notin Due
    BY <1>1, <2>1, <2>3, Counters, StageKept DEF LoopInv, Sound, Move
  <2> QED
    BY <2>2, <2>3
<1> QED
  BY <1>2, <1>3, <1>4, <1>5, <1>6 DEF Manager, ManagerNext, ManagerReads

LEMMA HelmMoves == ASSUME LoopInv, LoopInv', Helm, NEW p \in Pairs PROVE Sound(p)
<1>1. alerted' = alerted
  BY DEF Helm, managerVars
<1>2. CASE p \notin alerted
  BY <1>1, <1>2 DEF Stage, Sound, Move
<1>3. ASSUME p \in alerted, NEW c \in Contacts, NEW z \in Ranges,
             UpdatePlatformInfo(c, z)
      PROVE  Sound(p)
  BY <1>1, <1>3, StageKept
     DEF UpdatePlatformInfo, mailVars, behaviorVars, Sound, Move
<1>4. ASSUME p \in alerted, NEW q \in Pairs, ReadAlert(q) PROVE Sound(p)
  <2>1. alerts'[p] = alerts[p] - (IF p = q THEN 1 ELSE 0)
    BY <1>4, Counters DEF ReadAlert, Less, LoopInv, TypeOK
  <2>2. deltas'[p] = deltas[p] + (IF p = q THEN 1 ELSE 0)
    BY <1>4 DEF ReadAlert, Plus, One
  <2>3. alerts'[p] + deltas'[p] = alerts[p] + deltas[p]
    BY <2>1, <2>2, Counters DEF LoopInv
  <2> QED
    BY <1>1, <1>4, <2>3, StageKept DEF ReadAlert, Sound, Move
<1>5. CASE HelmFails
  <2>1. \/ Stage(p)' = Stage(p)
        \/ Stage(p) \in {"raised", "guarded"} /\ Stage(p)' = "forgotten"
    <3>1. CASE Fails
      BY <1>1, <3>1, StageKept DEF Fails, mailVars, behaviorVars
    <3>2. ASSUME NEW q \in Pairs, LoseAlert(q)
          PROVE  \/ Stage(p)' = Stage(p)
                 \/ Stage(p) = "raised" /\ Stage(p)' = "forgotten"
      <4>1. /\ alerts'[p] = alerts[p] - (IF p = q THEN 1 ELSE 0)
            /\ deltas' = deltas /\ live' = live /\ resolving' = resolving
        BY <3>2, Counters DEF LoseAlert, Less, LoopInv, TypeOK, behaviorVars
      <4> QED
        BY <1>1, <3>2, <4>1, Counters
           DEF Stage, LoseAlert, LoopInv, OneAtATime, Held
    <3>3. ASSUME NEW m \in Modes, Restart(m)
          PROVE  \/ Stage(p)' = Stage(p)
                 \/ Stage(p) \in {"raised", "guarded"} /\ Stage(p)' = "forgotten"
      <4>1. /\ alerts' = alerts /\ resolving' = resolving
            /\ deltas'[p] = 0 /\ live'[p] = 0
        BY <3>3 DEF Restart, CleanUp, None
      <4> QED
        BY <1>1, <4>1, Counters DEF Stage, LoopInv, OneAtATime, Held
    <3> QED
      BY <1>5, <3>1, <3>2, <3>3 DEF HelmFails
  <2> QED
    BY <1>5, <2>1 DEF Sound, Move, Cycle!Moves
<1>6. ASSUME NEW a \in AlertIds, NEW why \in Reasons, Conditions(a, why)
      PROVE  Sound(p)
  BY <1>1, <1>6, StageKept DEF Conditions, mailVars, behaviorVars, Sound, Move
<1>7. CASE ModeChanges
  BY <1>1, <1>7, ModeOnly, StageKept DEF mailVars, behaviorVars, Sound, Move
<1>8. CASE IterateDisabled
  <2>1. /\ mode \notin EnabledModes
        /\ alerts' = alerts /\ resolving' = resolving /\ live' = live
        /\ deltas'[p] = 0
    BY <1>8 DEF IterateDisabled, mailVars, None
  <2>2. \/ Stage(p)' = Stage(p)
        \/ Stage(p) = "raised" /\ Stage(p)' = "forgotten"
    BY <1>1, <2>1, Counters DEF Stage, LoopInv, OneAtATime, Held
  <2> QED
    BY <2>1, <2>2 DEF Sound, Move, Cycle!Moves
<1>9. ASSUME p \in alerted, Drives PROVE Sound(p)
  <2>1. PICK reached, ran \in SUBSET Pairs, expired \in SUBSET MayExpire :
            IterateDrives(reached, ran, expired)
    BY <1>9 DEF Drives
  <2>2. /\ deltas'[p] = 0 /\ alerts' = alerts
        /\ \/ live'[p] = Many(p) /\ resolving'[p] = resolving[p]
           \/ live'[p] = 0 /\ resolving'[p] = resolving[p] + Many(p)
    BY <2>1, Moved
  <2>3. /\ Many(p) = live[p] + Spawned(p)
        /\ Spawned(p) \in Nat /\ Spawned(p) <= deltas[p]
    BY <2>1, Moved DEF Many
  <2>4. /\ Held(p) <= 1
        /\ Held(p) = alerts[p] + deltas[p] + live[p] + resolving[p]
        /\ done[p] <= 1
    BY DEF LoopInv, OneAtATime, Held
  <2>5. deltas[p] = 1 /\ Spawned(p) = 0 => p[2] \notin Prefixed /\ done[p] = 1
    <3> SUFFICES ASSUME deltas[p] = 1, Spawned(p) = 0
                 PROVE  p[2] \notin Prefixed /\ done[p] = 1
      OBVIOUS
    <3>1. p[2] \notin Prefixed /\ p \in names
      BY DEF Spawned
    <3>2. live[p] + done[p] > 0 /\ live[p] = 0
      BY <3>1, <2>4, Counters DEF LoopInv, NamesTell
    <3> QED
      BY <3>1, <3>2, <2>4, Counters DEF LoopInv
  <2>6. \/ Stage(p)' = Stage(p)
        \/ Stage(p) = "raised" /\ Stage(p)' \in {"guarded", "released"}
        \/ Stage(p) = "guarded" /\ Stage(p)' = "released"
        \/ /\ Stage(p) = "raised" /\ Stage(p)' = "forgotten"
           /\ deltas[p] = 1 /\ Spawned(p) = 0
    BY <1>1, <1>9, <2>2, <2>3, <2>4, Counters DEF Stage, LoopInv
  <2> QED
    BY <2>5, <2>6 DEF Sound, Move, Cycle!Moves
<1> QED
  BY <1>2, <1>3, <1>4, <1>5, <1>6, <1>7, <1>8, <1>9
     DEF Helm, HelmNext, HelmReads

LEMMA EveryStepIsSound ==
    ASSUME LoopInv, LoopInv', [Next]_vars
    PROVE  /\ \A p \in Pairs : Sound(p) \/ UNCHANGED vars
           /\ UNCHANGED vars => \A p \in Pairs : Stage(p)' = Stage(p)
<1>1. ASSUME UNCHANGED vars, NEW p \in Pairs PROVE Stage(p)' = Stage(p)
  BY <1>1, StageKept DEF vars, mailVars, managerVars, behaviorVars
<1> QED
  BY <1>1, ManagerMoves, HelmMoves DEF Next

(* Contact manager and helm implement the cycle of raised, guarded and     *)
(* released alerts; one that was forgotten stays so.                       *)
THEOREM LoopImplementsCycle == Spec => ImplementsCycle
<1>1. Init => Cycle!Init
  BY DEF Init, ManagerInit, Cycle!Init, Stage
<1>2. LoopInv /\ LoopInv' /\ [Next]_vars => [Cycle!Next]_[p \in Pairs |-> Stage(p)]
  <2> SUFFICES ASSUME LoopInv, LoopInv', [Next]_vars
               PROVE  [Cycle!Next]_[p \in Pairs |-> Stage(p)]
    OBVIOUS
  <2>1. CASE UNCHANGED vars
    BY <2>1, EveryStepIsSound
  <2>2. CASE ~UNCHANGED vars
    <3>1. \A p \in Pairs : Move(p)
      BY <2>2, EveryStepIsSound DEF Sound
    <3>2. \A p \in Pairs : Stage(p)' \in Cycle!Stages
      BY DEF Stage, Cycle!Stages
    <3> QED
      BY <3>1, <3>2 DEF Cycle!Next, Move
  <2> QED
    BY <2>1, <2>2
<1> QED
  BY <1>1, <1>2, LoopAlways, PTL DEF Spec, ImplementsCycle, Cycle!Spec

(* Only a restart, a helm that is not enabled, lost mail or the name of a  *)
(* behavior that has just completed make an alert be forgotten.            *)
THEOREM OnlyFaults == Spec => OnlyFaultsForget
<1>1. LoopInv /\ LoopInv' /\ [Next]_vars =>
        [\A p \in Pairs : Stage(p) # "forgotten" /\ Stage(p)' = "forgotten" =>
           \/ HelmFails
           \/ mode \notin EnabledModes
           \/ p[2] \notin Prefixed /\ done[p] = 1]_vars
  BY EveryStepIsSound DEF Sound
<1> QED
  BY <1>1, LoopAlways, PTL DEF Spec, OnlyFaultsForget

-----------------------------------------------------------------------------
(* The counters: how many alerts of a contact are in a set of pairs.       *)
Ids(c, S) == {a \in AlertIds : <<c, a>> \in S}

LEMMA IdsAreFinite ==
    ASSUME NEW c, NEW S
    PROVE  IsFiniteSet(Ids(c, S)) /\ Cardinality(Ids(c, S)) \in Nat
<1>1. IsFiniteSet(AlertIds) /\ Ids(c, S) \in SUBSET AlertIds
  BY ManagerAssumption DEF Ids
<1>2. IsFiniteSet(Ids(c, S))
  BY <1>1, FS_Subset
<1> QED
  BY <1>2, FS_CardinalityType

LEMMA CountsKept ==
    ASSUME CountsAgree, alerted' = alerted, active' = active
    PROVE  CountsAgree'
  BY DEF CountsAgree

LEMMA CountsReport ==
    ASSUME LoopInv, CountsAgree, NEW c \in Contacts, NEW z \in Zones,
           HandleNodeReport(c, z)
    PROVE  CountsAgree'
<1>1. alerted' = alerted
  BY ReportKeeps
<1>2. CASE Known(c)
  BY <1>1, <1>2, CountsKept DEF HandleNodeReport, AddVehicle
<1>3. CASE ~Known(c)
  <2>1. Ids(c, alerted) = {}
    BY <1>3, PairParts DEF Ids, LoopInv, AlertedIsKnown
  <2>2. active[c] = 0
    BY <2>1, FS_EmptySet DEF CountsAgree, Ids
  <2>3. active' = active
    BY <1>3, <2>2 DEF HandleNodeReport, AddVehicle, LoopInv, TypeOK
  <2> QED
    BY <1>1, <2>3, CountsKept
<1> QED
  BY <1>2, <1>3

LEMMA CountsResolved ==
    ASSUME LoopInv, CountsAgree, NEW p \in Pairs, HandleResolved(p)
    PROVE  CountsAgree'
<1>1. p \in alerted
  BY ResolvedTakes
<1>2. /\ alerted' = alerted \ {p}
      /\ active' = [active EXCEPT ![p[1]] = @ - 1]
  BY ResolvedTakes
<1> SUFFICES ASSUME NEW c \in Contacts
             PROVE  active'[c] = Cardinality(Ids(c, alerted'))
  BY DEF CountsAgree, Ids
<1>3. active[c] = Cardinality(Ids(c, alerted))
  BY DEF CountsAgree, Ids
<1>4. CASE c = p[1]
  <2>1. p[2] \in Ids(c, alerted) /\ Ids(c, alerted') = Ids(c, alerted) \ {p[2]}
    BY <1>1, <1>2, <1>4, PairParts DEF Ids
  <2>2. Cardinality(Ids(c, alerted')) = Cardinality(Ids(c, alerted)) - 1
    <3>1. IsFiniteSet(Ids(c, alerted))
      BY IdsAreFinite
    <3>2. Cardinality(Ids(c, alerted) \ {p[2]}) = Cardinality(Ids(c, alerted)) - 1
      BY <2>1, <3>1, FS_RemoveElement
    <3> QED
      BY <2>1, <3>2
  <2> QED
    BY <1>2, <1>3, <1>4, <2>2 DEF LoopInv, TypeOK
<1>5. CASE c # p[1]
  <2>1. Ids(c, alerted') = Ids(c, alerted)
    BY <1>2, <1>5, PairParts DEF Ids
  <2>2. active'[c] = active[c]
    BY <1>2, <1>5 DEF LoopInv, TypeOK
  <2> QED
    BY <1>3, <2>1, <2>2
<1> QED
  BY <1>4, <1>5

LEMMA CountsPosted ==
    ASSUME LoopInv, CountsAgree, PostAlerts
    PROVE  CountsAgree'
<1> SUFFICES ASSUME NEW c \in Contacts
             PROVE  active'[c] = Cardinality(Ids(c, alerted'))
  BY DEF CountsAgree, Ids
<1>1. active[c] = Cardinality(Ids(c, alerted))
  BY DEF CountsAgree, Ids
<1>2. active'[c] = active[c] + Cardinality(Ids(c, Due))
  BY DEF PostAlerts, Ids
<1>3. /\ Ids(c, alerted') = Ids(c, alerted) \cup Ids(c, Due)
      /\ Ids(c, alerted) \cap Ids(c, Due) = {}
  BY DEF PostAlerts, Ids, Due
<1>4. Cardinality(Ids(c, alerted'))
        = Cardinality(Ids(c, alerted)) + Cardinality(Ids(c, Due))
  BY <1>3, IdsAreFinite, FS_Union, FS_EmptySet
<1> QED
  BY <1>1, <1>2, <1>4

LEMMA CountsStep == LoopInv /\ CountsAgree /\ [Next]_vars => CountsAgree'
<1> SUFFICES ASSUME LoopInv, CountsAgree, [Next]_vars PROVE CountsAgree'
  OBVIOUS
<1>1. CASE UNCHANGED vars
  BY <1>1, CountsKept DEF vars, managerVars
<1>2. CASE Helm
  BY <1>2, CountsKept DEF Helm, managerVars
<1>3. ASSUME NEW a \in AlertIds, HandleAlertRequest(a) PROVE CountsAgree'
  <2>1. alerted' = alerted
    BY <1>3, RequestKeeps
  <2> QED
    BY <1>3, <2>1, CountsKept DEF HandleAlertRequest
<1>4. ASSUME NEW c \in Contacts, Retires(c) PROVE CountsAgree'
  BY <1>4, CountsKept DEF Retires
<1> QED
  BY <1>1, <1>2, <1>3, <1>4, CountsReport, CountsResolved, CountsPosted
     DEF Next, Manager, ManagerNext, ManagerReads

(* The unsigned counters of active alerts never go below zero: they always *)
(* are what m_par has in a row.                                            *)
THEOREM CountsAreRight == Spec => []CountsAgree
<1>1. Init => CountsAgree
  BY FS_EmptySet DEF Init, ManagerInit, CountsAgree
<1> QED
  BY <1>1, CountsStep, LoopAlways, PTL DEF Spec

-----------------------------------------------------------------------------
(***************************************************************************)
(* Why a threat is guarded, and a contact that is away released: no step   *)
(* leads away from it, and at every stage there is an application whose    *)
(* next turn leads nearer.                                                 *)
(***************************************************************************)
(* Alerts are raised by postAlerts, resolutions by an iteration that drives.*)
LEMMA WhoPosts ==
    ASSUME LoopInv, [Next]_vars, NEW p \in Pairs
    PROVE  /\ alerts'[p] <= alerts[p] \/ p \in Due
           /\ resolving'[p] <= resolving[p] \/ Drives
<1>0. alerts[p] \in Nat /\ resolving[p] \in Nat
  BY Counters DEF LoopInv
<1>1. CASE UNCHANGED vars
  BY <1>0, <1>1 DEF vars, mailVars
<1>2. CASE ManagerReads \/ (\E c \in Contacts : Retires(c))
  <2>1. alerts' = alerts
    BY <1>2 DEF ManagerReads, HandleNodeReport, HandleAlertRequest,
                HandleResolved, Retires, mailVars
  <2>2. \/ resolving' = resolving
        \/ \E q \in Pairs : resolving' = [resolving EXCEPT ![q] = @ - 1]
    BY <1>2 DEF ManagerReads, HandleNodeReport, HandleAlertRequest,
                HandleResolved, Retires, mailVars, Less
  <2>3. resolving'[p] \in {resolving[p], resolving[p] - 1}
    BY <2>2 DEF LoopInv, TypeOK
  <2> QED
    BY <1>0, <2>1, <2>3
<1>3. CASE PostAlerts
  <2>1. /\ alerts'[p] = alerts[p] + (IF p \in Due THEN 1 ELSE 0)
        /\ resolving' = resolving
    BY <1>3 DEF PostAlerts, Plus, One
  <2> QED
    BY <1>0, <2>1
<1>4. CASE HelmReads
  <2>1. resolving' = resolving
    BY <1>4 DEF HelmReads, UpdatePlatformInfo, ReadAlert, mailVars
  <2>2. \/ alerts' = alerts
        \/ \E q \in Pairs : alerts' = [alerts EXCEPT ![q] = @ - 1]
    BY <1>4 DEF HelmReads, UpdatePlatformInfo, ReadAlert, mailVars, Less
  <2>3. alerts'[p] \in {alerts[p], alerts[p] - 1}
    BY <2>2 DEF LoopInv, TypeOK
  <2> QED
    BY <1>0, <2>1, <2>3
<1>5. CASE HelmFails
  <2>1. resolving' = resolving
    BY <1>5 DEF HelmFails, Fails, LoseAlert, Restart, mailVars
  <2>2. \/ alerts' = alerts
        \/ \E q \in Pairs : alerts' = [alerts EXCEPT ![q] = @ - 1]
    BY <1>5 DEF HelmFails, Fails, LoseAlert, Restart, mailVars, Less
  <2>3. alerts'[p] \in {alerts[p], alerts[p] - 1}
    BY <2>2 DEF LoopInv, TypeOK
  <2> QED
    BY <1>0, <2>1, <2>3
<1>6. CASE \/ \E a \in Idles \cap AlertIds, why \in Reasons : Conditions(a, why)
           \/ ModeChanges
           \/ IterateDisabled
  BY <1>0, <1>6, ModeOnly DEF Conditions, IterateDisabled, mailVars
<1>7. CASE Drives
  <2>1. alerts' = alerts
    BY <1>7 DEF Drives, IterateDrives
  <2> QED
    BY <1>0, <1>7, <2>1
<1> QED
  BY <1>1, <1>2, <1>3, <1>4, <1>5, <1>6, <1>7
     DEF Next, Manager, ManagerNext, Helm, HelmNext

\* How many turns a pair is from a behavior that guards.
Left(p) ==
    CASE Stage(p) = "released" -> 4
      [] Stage(p) = "clear" -> 3
      [] Stage(p) = "raised" -> IF alerts[p] > 0 THEN 2 ELSE 1
      [] OTHER -> 0

\* The turn that leads nearer: of the contact manager, which reads the old
\* resolution and posts the alert, then of the helm, which reads the alert
\* and spawns the behavior.
Advances(p) ==
    \/ Stage(p) = "released" /\ HandleResolved(p)
    \/ Stage(p) = "clear" /\ PostAlerts
    \/ Stage(p) = "raised" /\ alerts[p] > 0 /\ ReadAlert(p)
    \/ Stage(p) = "raised" /\ alerts[p] = 0 /\ Drives

(* While a contact is a threat that is neither guarded nor forgotten no    *)
(* step leads back, and the turn of whose turn it is leads on.  A fault    *)
(* may end this by forgetting the alert, after which no turn is left to be *)
(* taken; but none sends the alert back to an earlier turn.                *)
ThreatAdvances ==
    [][\A p \in Pairs : Threat(p) /\ Stage(p) \notin {"guarded", "forgotten"} =>
          /\ Left(p)' <= Left(p)
          /\ Advances(p) => Left(p)' < Left(p)]_vars

LEMMA LeftIs ==
    ASSUME NEW p \in Pairs
    PROVE  /\ Stage(p) = "released" => Left(p) = 4
           /\ Stage(p) = "clear" => Left(p) = 3
           /\ Stage(p) = "raised" /\ alerts[p] > 0 => Left(p) = 2
           /\ Stage(p) = "raised" /\ ~(alerts[p] > 0) => Left(p) = 1
           /\ Stage(p) \in {"guarded", "forgotten"} => Left(p) = 0
  BY DEF Left

LEMMA LeftIsPrimed ==
    ASSUME NEW p \in Pairs
    PROVE  /\ Stage(p)' = "released" => Left(p)' = 4
           /\ Stage(p)' = "clear" => Left(p)' = 3
           /\ Stage(p)' = "raised" /\ alerts'[p] > 0 => Left(p)' = 2
           /\ Stage(p)' = "raised" /\ ~(alerts'[p] > 0) => Left(p)' = 1
           /\ Stage(p)' \in {"guarded", "forgotten"} => Left(p)' = 0
  BY DEF Left

(* No behavior is spawned and over in one iteration beside a near contact. *)
LEMMA NotReleasedAtOnce ==
    ASSUME LoopInv, LoopInv', [Next]_vars, NEW p \in Pairs, Threat(p),
           Stage(p) = "raised"
    PROVE  Stage(p)' # "released"
<1> SUFFICES ASSUME Stage(p)' = "released" PROVE FALSE
  OBVIOUS
<1>1. /\ alerts[p] + deltas[p] = 1 /\ live[p] = 0 /\ resolving[p] = 0
  BY StageIs, Counters DEF LoopInv, OneAtATime, Held
<1>2. resolving'[p] > 0
  BY DEF Stage
<1>3. Drives
  BY <1>1, <1>2, WhoPosts, Counters DEF LoopInv, TypeOK
<1>4. PICK reached, ran \in SUBSET Pairs, expired \in SUBSET MayExpire :
          IterateDrives(reached, ran, expired)
  BY <1>3 DEF Drives
<1>5. p \notin Completed(ran, expired) \cup TimedOut(ran, expired)
  BY <1>1 DEF Completed, TimedOut, MayExpire, FarAway, Threat
<1>6. resolving'[p] = resolving[p] + 0
  BY <1>4, <1>5 DEF IterateDrives
<1> QED
  BY <1>1, <1>2, <1>6

(* Contact manager and helm bring a behavior to a threat by turns, none of *)
(* which is undone as long as the alert is not forgotten.                  *)
THEOREM ThreatsAdvance == Spec => ThreatAdvances
<1> DEFINE Nearer(p) ==
        Threat(p) /\ Stage(p) \notin {"guarded", "forgotten"} =>
          /\ Left(p)' <= Left(p)
          /\ Advances(p) => Left(p)' < Left(p)
<1>1. ASSUME LoopInv, LoopInv', [Next]_vars, NEW p \in Pairs PROVE Nearer(p)
  <2> SUFFICES ASSUME Threat(p), Stage(p) \notin {"guarded", "forgotten"}
               PROVE  /\ Left(p)' <= Left(p)
                      /\ Advances(p) => Left(p)' < Left(p)
    OBVIOUS
  <2>1. Move(p)
    BY <1>1, EveryStepIsSound DEF Sound, Move
  <2>2. /\ Stage(p) \in {"clear", "raised", "released"}
        /\ alerts[p] \in Nat /\ alerts'[p] \in Nat
    <3>1. Stage(p) \in Cycle!Stages
      BY DEF Stage, Cycle!Stages
    <3> QED
      BY <1>1, <3>1 DEF LoopInv, TypeOK, Cycle!Stages
  <2>3. CASE Stage(p) = "released"
    <3>1. Stage(p)' \in {"released", "clear"}
      BY <2>1, <2>3 DEF Move, Cycle!Moves
    <3>2. HandleResolved(p) => Stage(p)' = "clear"
      <4>1. HandleResolved(p) => p \notin alerted'
        BY <1>1, ResolvedTakes
      <4> QED
        BY <4>1 DEF Stage
    <3>3. Advances(p) => HandleResolved(p)
      BY <2>3 DEF Advances
    <3>4. Left(p) = 4 /\ (Stage(p)' = "clear" => Left(p)' = 3)
          /\ (Stage(p)' = "released" => Left(p)' = 4)
      BY <2>3, LeftIs, LeftIsPrimed
    <3> QED
      BY <3>1, <3>2, <3>3, <3>4
  <2>4. CASE Stage(p) = "clear"
    <3>1. Stage(p)' \in {"clear", "raised"}
      BY <2>1, <2>4 DEF Move, Cycle!Moves
    <3>2. Left(p) = 3 /\ (Stage(p)' = "clear" => Left(p)' = 3)
          /\ (Stage(p)' = "raised" => Left(p)' \in {1, 2})
      BY <2>4, LeftIs, LeftIsPrimed
    <3>3. Advances(p) => Stage(p)' = "raised"
      <4>1. Advances(p) => PostAlerts
        BY <2>4 DEF Advances
      <4>2. p \in Due
        BY <1>1, <2>4, StageIs DEF Due, Threat
      <4>3. PostAlerts => p \in alerted'
        BY <4>2 DEF PostAlerts
      <4> QED
        BY <3>1, <4>1, <4>3 DEF Stage
    <3> QED
      BY <3>1, <3>2, <3>3
  <2>5. CASE Stage(p) = "raised"
    <3>1. Stage(p)' \in {"raised", "guarded", "forgotten"}
      BY <1>1, <2>1, <2>5, NotReleasedAtOnce DEF Move, Cycle!Moves
    <3>2. alerts'[p] <= alerts[p]
      <4>1. p \notin Due
        BY <1>1, <2>5, StageIs DEF Due
      <4> QED
        BY <1>1, <4>1, WhoPosts
    <3>3. /\ alerts[p] > 0 => Left(p) = 2
          /\ ~(alerts[p] > 0) => Left(p) = 1
          /\ Stage(p)' = "raised" /\ alerts'[p] > 0 => Left(p)' = 2
          /\ Stage(p)' = "raised" /\ ~(alerts'[p] > 0) => Left(p)' = 1
          /\ Stage(p)' \in {"guarded", "forgotten"} => Left(p)' = 0
      BY <2>5, LeftIs, LeftIsPrimed
    <3>4. Left(p)' <= Left(p)
      BY <2>2, <3>1, <3>2, <3>3
    <3>5. ASSUME alerts[p] > 0, ReadAlert(p) PROVE Left(p)' < Left(p)
      <4>1. alerts[p] = 1
        BY <1>1, <2>2, <2>5, <3>5, StageIs, Counters DEF LoopInv
      <4>2. alerts'[p] = 0
        BY <1>1, <3>5, <4>1 DEF ReadAlert, Less, LoopInv, TypeOK
      <4> QED
        BY <3>1, <3>3, <3>5, <4>2
    <3>6. ASSUME alerts[p] = 0, Drives PROVE Left(p)' < Left(p)
      <4>1. alerts'[p] = 0 /\ deltas'[p] = 0
        BY <1>1, <3>6, Moved DEF Drives
      <4>2. Stage(p)' # "raised"
        BY <4>1 DEF Stage
      <4> QED
        BY <3>1, <3>3, <3>6, <4>2
    <3> QED
      BY <2>5, <3>4, <3>5, <3>6 DEF Advances
  <2> QED
    BY <2>2, <2>3, <2>4, <2>5
<1>2. LoopInv /\ LoopInv' /\ [Next]_vars => [\A p \in Pairs : Nearer(p)]_vars
  BY <1>1
<1> QED
  BY <1>2, LoopAlways, PTL DEF Spec, ThreatAdvances

\* What there is of a pair, weighted by the turns it needs to be gone.
Load(p) == 6 * alerts[p] + 4 * (deltas[p] + live[p]) + resolving[p] + done[p]

\* The turn that takes something off it.
Unloads(p) ==
    \/ alerts[p] > 0 /\ ReadAlert(p)
    \/ deltas[p] + live[p] + done[p] > 0 /\ Drives
    \/ resolving[p] > 0 /\ HandleResolved(p)

(* While a contact is away nothing is added to what contact manager and    *)
(* helm hold for it, whatever fails, and the turn of who holds some of it  *)
(* takes some off: its behaviors complete, are removed, and the resolution *)
(* is read.                                                                *)
AwayAdvances ==
    [][\A p \in Pairs : Away(p) =>
          /\ Load(p)' <= Load(p)
          /\ Unloads(p) => Load(p)' < Load(p)]_vars

(* When they hold nothing more, the next alert may be raised, unless one   *)
(* was forgotten, and there is no behavior.                                *)
UnloadedIsReleased ==
    \A p \in Pairs : Load(p) = 0 => /\ Stage(p) \in {"clear", "forgotten"}
                                    /\ live[p] + done[p] = 0

LEMMA HelmUnloads ==
    ASSUME LoopInv, LoopInv', Drives, NEW p \in Pairs, Away(p)
    PROVE  /\ Load(p)' <= Load(p)
           /\ deltas[p] + live[p] + done[p] > 0 => Load(p)' < Load(p)
<1>1. PICK reached, ran \in SUBSET Pairs, expired \in SUBSET MayExpire :
          IterateDrives(reached, ran, expired)
  BY DEF Drives
<1>2. p \in ran /\ p \in reached
  BY <1>1 DEF IterateDrives, Turns, Away
<1>3. p \in Completed(ran, expired) \cup TimedOut(ran, expired)
  BY <1>2 DEF Completed, TimedOut, FarAway, Away
<1>4. /\ live'[p] = 0 /\ deltas'[p] = 0 /\ alerts' = alerts
      /\ resolving'[p] = resolving[p] + Many(p)
      /\ done'[p] \in {0, Many(p)}
  <2>1. Many(p) \in Nat
    BY <1>1, Moved, Counters DEF Many, LoopInv
  <2> QED
    BY <1>1, <1>2, <1>3, <2>1 DEF IterateDrives, None
<1>5. Many(p) \in Nat /\ Many(p) <= live[p] + deltas[p]
  BY <1>1, Moved, Counters DEF Many, LoopInv
<1>6. /\ alerts[p] \in Nat /\ deltas[p] \in Nat /\ live[p] \in Nat
      /\ resolving[p] \in Nat /\ done[p] \in Nat
  BY Counters DEF LoopInv
<1>7. /\ Load(p) = 6 * alerts[p] + 4 * (deltas[p] + live[p]) + resolving[p]
                   + done[p]
      /\ Load(p)' = 6 * alerts[p] + resolving[p] + Many(p) + done'[p]
  BY <1>4, <1>5, <1>6 DEF Load
<1> QED
  BY <1>4, <1>5, <1>6, <1>7

(* Contact manager and helm clear away what they hold for a contact that   *)
(* has left, and then the next alert may be raised.                        *)
THEOREM AwayUnloads == Spec => AwayAdvances /\ []UnloadedIsReleased
<1> DEFINE Less2(p) ==
        Away(p) => /\ Load(p)' <= Load(p)
                   /\ Unloads(p) => Load(p)' < Load(p)
<1>1. LoopInv => UnloadedIsReleased
  <2> SUFFICES ASSUME LoopInv, NEW p \in Pairs, Load(p) = 0
               PROVE  /\ Stage(p) \in {"clear", "forgotten"}
                      /\ live[p] + done[p] = 0
    BY DEF UnloadedIsReleased
  <2>1. /\ alerts[p] \in Nat /\ deltas[p] \in Nat /\ live[p] \in Nat
        /\ resolving[p] \in Nat /\ done[p] \in Nat
    BY Counters DEF LoopInv
  <2>2. /\ alerts[p] = 0 /\ deltas[p] = 0 /\ live[p] = 0
        /\ resolving[p] = 0 /\ done[p] = 0
    <3>1. PICK a, b, l, r, d \in Nat :
              /\ a = alerts[p] /\ b = deltas[p] /\ l = live[p]
              /\ r = resolving[p] /\ d = done[p]
      BY <2>1
    <3>2. 6 * a + 4 * (b + l) + r + d = 0
      BY <3>1 DEF Load
    <3>3. a = 0 /\ b = 0 /\ l = 0 /\ r = 0 /\ d = 0
      BY <3>2
    <3> QED
      BY <3>1, <3>3
  <2> QED
    BY <2>2 DEF Stage
<1>2. ASSUME LoopInv, LoopInv', [Next]_vars, NEW p \in Pairs PROVE Less2(p)
  <2> SUFFICES ASSUME Away(p)
               PROVE  /\ Load(p)' <= Load(p)
                      /\ Unloads(p) => Load(p)' < Load(p)
    OBVIOUS
  <2>1. /\ alerts[p] \in Nat /\ deltas[p] \in Nat /\ live[p] \in Nat
        /\ resolving[p] \in Nat /\ done[p] \in Nat
        /\ alerts'[p] \in Nat /\ deltas'[p] \in Nat /\ live'[p] \in Nat
        /\ resolving'[p] \in Nat /\ done'[p] \in Nat
    BY <1>2 DEF LoopInv, TypeOK
  <2>2. p \notin Due
    BY DEF Due, Away
  <2>3. CASE Drives
    <3>1. /\ Load(p)' <= Load(p)
          /\ deltas[p] + live[p] + done[p] > 0 => Load(p)' < Load(p)
      BY <1>2, <2>3, HelmUnloads
    <3>2. ~(alerts[p] > 0 /\ ReadAlert(p))
      BY <2>1, <2>3 DEF Drives, IterateDrives, ReadAlert, Less, None, Plus, One
    <3>3. ~(resolving[p] > 0 /\ HandleResolved(p))
      <4> SUFFICES ASSUME HandleResolved(p) PROVE FALSE
        OBVIOUS
      <4>1. resolving[p] = 1 /\ resolving'[p] = resolving[p] - 1
        BY <1>2, ResolvedTakes DEF LoopInv, TypeOK
      <4>2. PICK reached, ran \in SUBSET Pairs, expired \in SUBSET MayExpire :
                IterateDrives(reached, ran, expired)
        BY <2>3 DEF Drives
      <4>3. \/ resolving'[p] = resolving[p]
            \/ resolving'[p] = resolving[p] + Many(p)
        BY <1>2, <4>2, Moved
      <4>4. Many(p) \in Nat
        BY <1>2, <2>1, <4>2, Moved DEF Many
      <4> QED
        BY <4>1, <4>3, <4>4
    <3> QED
      BY <3>1, <3>2, <3>3 DEF Unloads
  <2>4. CASE ~Drives
    <3>1. alerts'[p] <= alerts[p] /\ resolving'[p] <= resolving[p]
      BY <1>2, <2>2, <2>4, WhoPosts
    <3>2. live'[p] \in {live[p], 0} /\ done'[p] \in {done[p], 0}
      <4>1. CASE UNCHANGED vars \/ Manager
        BY <4>1 DEF vars, Manager, behaviorVars
      <4>2. CASE Helm
        BY <2>4, <4>2, ModeOnly DEF Helm, HelmNext, HelmReads,
           UpdatePlatformInfo, ReadAlert, HelmFails, Fails, LoseAlert, Restart,
           CleanUp, None, Conditions, IterateDisabled, behaviorVars
      <4> QED
        BY <1>2, <4>1, <4>2 DEF Next
    <3>3. \/ deltas'[p] \in {deltas[p], 0}
          \/ alerts'[p] = alerts[p] - 1 /\ deltas'[p] = deltas[p] + 1
      <4>1. CASE UNCHANGED vars \/ Manager
        BY <4>1 DEF vars, Manager, behaviorVars
      <4>2. ASSUME NEW q \in Pairs, ReadAlert(q)
            PROVE  \/ deltas'[p] = deltas[p]
                   \/ alerts'[p] = alerts[p] - 1 /\ deltas'[p] = deltas[p] + 1
        <5>1. deltas'[p] = deltas[p] + (IF p = q THEN 1 ELSE 0)
          BY <4>2 DEF ReadAlert, Plus, One
        <5>2. p = q => alerts'[p] = alerts[p] - 1
          BY <1>2, <4>2 DEF ReadAlert, Less, LoopInv, TypeOK
        <5> QED
          BY <2>1, <5>1, <5>2
      <4>3. CASE Helm /\ ~(\E q \in Pairs : ReadAlert(q))
        BY <2>4, <4>3, ModeOnly DEF Helm, HelmNext, HelmReads,
           UpdatePlatformInfo, HelmFails, Fails, LoseAlert, Restart, CleanUp,
           None, Conditions, IterateDisabled, behaviorVars
      <4> QED
        BY <1>2, <4>1, <4>2, <4>3 DEF Next
    <3>4. Unloads(p) => alerts'[p] < alerts[p] \/ resolving'[p] < resolving[p]
      <4>1. ReadAlert(p) => alerts'[p] = alerts[p] - 1
        BY <1>2 DEF ReadAlert, Less, LoopInv, TypeOK
      <4>2. HandleResolved(p) => resolving'[p] = resolving[p] - 1
        BY <1>2, ResolvedTakes DEF LoopInv, TypeOK
      <4> QED
        BY <2>1, <2>4, <4>1, <4>2 DEF Unloads
    <3>5. /\ live'[p] <= live[p] /\ done'[p] <= done[p]
          /\ \/ deltas'[p] <= deltas[p]
             \/ alerts'[p] = alerts[p] - 1 /\ deltas'[p] = deltas[p] + 1
      BY <2>1, <3>2, <3>3
    <3>6. PICK a, b, l, r, d \in Nat :
              /\ a = alerts[p] /\ b = deltas[p] /\ l = live[p]
              /\ r = resolving[p] /\ d = done[p]
      BY <2>1
    <3>7. PICK a2, b2, l2, r2, d2 \in Nat :
              /\ a2 = alerts'[p] /\ b2 = deltas'[p] /\ l2 = live'[p]
              /\ r2 = resolving'[p] /\ d2 = done'[p]
      BY <2>1
    <3>8. /\ Load(p) = 6 * a + 4 * (b + l) + r + d
          /\ Load(p)' = 6 * a2 + 4 * (b2 + l2) + r2 + d2
      BY <3>6, <3>7 DEF Load
    <3>9. /\ a2 <= a /\ r2 <= r /\ l2 <= l /\ d2 <= d
          /\ b2 <= b \/ (a2 = a - 1 /\ b2 = b + 1)
          /\ Unloads(p) => a2 < a \/ r2 < r
      BY <3>1, <3>4, <3>5, <3>6, <3>7
    <3>10. 6 * a2 + 4 * (b2 + l2) + r2 + d2 <= 6 * a + 4 * (b + l) + r + d
      BY <3>9
    <3>11. a2 < a \/ r2 < r =>
              6 * a2 + 4 * (b2 + l2) + r2 + d2 < 6 * a + 4 * (b + l) + r + d
      BY <3>9
    <3> QED
      BY <3>8, <3>9, <3>10, <3>11
  <2> QED
    BY <2>3, <2>4
<1>3. LoopInv /\ LoopInv' /\ [Next]_vars => [\A p \in Pairs : Less2(p)]_vars
  BY <1>2
<1> QED
  BY <1>1, <1>3, LoopAlways, PTL DEF Spec, AwayAdvances
=============================================================================
