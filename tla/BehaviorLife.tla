---------------------------- MODULE BehaviorLife ----------------------------
(***************************************************************************)
(* The behaviors pHelmIvP spawns from templates: an alert reaches the info *)
(* buffer, a behavior is spawned for it unless its name is in use, runs,   *)
(* completes when the contact is far enough away or its time is up, says   *)
(* so, and is removed.                                                     *)
(*                                                                         *)
(* Each template has one alert id and takes a name for each contact.  What *)
(* behaviors decide is in Helm; here only their number is kept, by pair.   *)
(***************************************************************************)
EXTENDS ContactMail

CONSTANTS
    Ranges,         \* distances, as far as behaviors tell them apart
    CompleteZones,  \* those at which a behavior has completed
    Prefixed,       \* ids whose template puts a prefix before the name
    Requested,      \* ids whose template posts a BCM_ALERT_REQUEST
    StartModes,     \* subset of {"drive", "park", "standby"}: how the
                    \* configuration may have the helm start
    Expire,         \* ids whose behaviors have a duration
    Faults,         \* subset of {"restart", "malconfig", "lost", "halt"}
    Idles           \* ids whose behaviors may be idle

(* PARK and DRIVE are the modes of a helm that is enabled; STANDBY is that *)
(* of a helm that waits, DISABLED of a primary that has yielded.           *)
EnabledModes == {"drive", "park"}
Modes == EnabledModes \cup {"standby", "malconfig", "disabled"}

(* Why isRunnable says "idle": a condition fails, or a variable that must  *)
(* be fresh is stale (NO_STARVE).                                          *)
Reasons == {"none", "condition", "starve"}

ASSUME BehaviorAssumption ==
    /\ CompleteZones \subseteq Ranges /\ "unknown" \notin Ranges
    /\ Requested \subseteq AlertIds /\ Prefixed \subseteq AlertIds
    /\ StartModes \subseteq EnabledModes \cup {"standby"}

VARIABLES
    start,      \* the mode its configuration has the helm start in
    mode,       \* status and control of the helm
    distance,   \* range behaviors find to each contact, or "unknown"
    idle,       \* why the behaviors of an id are idle
    failing,    \* does a behavior post a BHV_ERROR?
    deltas,     \* alerts in the info buffer since it was last cleared
    live,       \* behaviors that have not completed
    done,       \* behaviors that have completed and are not yet removed
    names       \* m_bhv_names, by pair

helmVars == <<start, mode, distance, idle, failing>>
behaviorVars == <<deltas, live, done, names>>

HelmInit ==
    /\ start \in StartModes /\ mode = start
    /\ distance = [c \in Contacts |-> "unknown"]
    /\ idle = [a \in AlertIds |-> "none"] /\ failing = FALSE
    /\ deltas = None /\ live = None /\ done = None
    /\ names = {}

(* A helm that is disabled does not look at its mail.                      *)
LooksAtMail == mode # "disabled"

(* Node reports and the behaviors' own extrapolation. *)
UpdatePlatformInfo(c, z) ==
    /\ LooksAtMail
    /\ distance' = [distance EXCEPT ![c] = z]
    /\ UNCHANGED <<mailVars, start, mode, idle, failing, behaviorVars>>

(* A template's behaviors become idle, or may run.                         *)
Conditions(a, why) ==
    /\ LooksAtMail
    /\ idle' = [idle EXCEPT ![a] = why]
    /\ UNCHANGED <<mailVars, start, mode, distance, failing, behaviorVars>>

(* A behavior begins or stops failing. *)
Fails ==
    /\ "halt" \in Faults
    /\ failing' = ~failing
    /\ UNCHANGED <<mailVars, start, mode, distance, idle, behaviorVars>>

ModeBecomes(m) ==
    /\ mode' = m
    /\ UNCHANGED <<mailVars, start, distance, idle, failing, behaviorVars>>

(* MOOS_MANUAL_OVERRIDE, which only shows if the helm is enabled, or an    *)
(* all-stop that parks it.                                                 *)
ChangeMode(m) ==
    /\ mode \in EnabledModes /\ m \in EnabledModes
    /\ ModeBecomes(m)

(* A standby helm takes over; whether it drives depends on the overrides   *)
(* it has read.                                                            *)
TakeOver(m) ==
    /\ mode = "standby" /\ m \in EnabledModes
    /\ ModeBecomes(m)

(* A primary hears of a helm that has taken over, and is disabled.         *)
Yield ==
    /\ LooksAtMail /\ start # "standby"
    /\ ModeBecomes("disabled")

ReadAlert(p) ==
    /\ LooksAtMail
    /\ alerts[p] > 0
    /\ alerts' = Less(alerts, p)
    /\ deltas' = Plus(deltas, One({p}))
    /\ UNCHANGED <<asked, resolving, helmVars, live, done, names>>

(* The helm skips mail that seems too old, and a disabled helm all mail.   *)
LoseAlert(p) ==
    /\ "lost" \in Faults \/ ~LooksAtMail
    /\ alerts[p] > 0
    /\ alerts' = Less(alerts, p)
    /\ UNCHANGED <<asked, resolving, helmVars, behaviorVars>>

(* The mode OnStartUp leaves a helm in that is restarted.  A STANDBY line  *)
(* puts it back on standby, START_ENGAGED gives or takes control; without  *)
(* that line a helm that starts in PARK keeps what control it has.         *)
(* Warnings about the configuration are never taken back.                  *)
StartsUpIn(m) ==
    \/ m = "malconfig" /\ ("malconfig" \in Faults \/ mode = m)
    \/ /\ "restart" \in Faults /\ mode # "malconfig"
       /\ m = start \/ (start = "park" /\ m = mode)

CleanUp ==
    /\ distance' = [c \in Contacts |-> "unknown"]
    /\ deltas' = None /\ live' = None /\ done' = None /\ names' = {}

(* RESTART_HELM: buffer and behaviors are deleted.  Without a behavior     *)
(* file in the pHelmIvP block (see Helm) the new behaviors post their      *)
(* requests again.                                                         *)
Restart(m) ==
    /\ LooksAtMail /\ StartsUpIn(m)
    /\ mode' = m
    /\ asked' = IF m = "malconfig" THEN asked ELSE asked \cup Requested
    /\ CleanUp
    /\ UNCHANGED <<alerts, resolving, start, idle, failing>>

(* Iterate of a helm that is not enabled.  One that is parked comes back   *)
(* before it clears the buffer, and changes nothing.                       *)
IterateDisabled ==
    /\ mode \notin EnabledModes
    /\ deltas' = None
    /\ UNCHANGED <<mailVars, helmVars, live, done, names>>

\* Mutant: the name is not looked for.
SpawnedAlways(p) == deltas[p]

\* Mutant: a behavior that fails keeps others from being spawned.
SpawnedUnlessFailing(p) == IF failing \/ p \in names THEN 0 ELSE deltas[p]

(* handlePossibleSpawnings looks for the name as the alert gives it, which *)
(* is the name of a behavior only if the template has no prefix.           *)
Spawned(p) ==
    IF p[2] \in Prefixed THEN deltas[p]
    ELSE IF p \in names \/ deltas[p] = 0 THEN 0 ELSE 1

\* Mutant: the range is compared the wrong way round.
FarAwayReversed(p) == distance[p[1]] \in Ranges \ CompleteZones

(* The range at which a behavior that runs completes.                      *)
FarAway(p) == distance[p[1]] \in CompleteZones

(* The pairs whose finished and whose other behaviors have their turn; a   *)
(* behavior that fails ends the iteration for those that come after it,    *)
(* and a finished one comes before the one spawned after it.               *)
Turns(reached, ran) ==
    /\ ran \subseteq reached /\ reached \subseteq Pairs
    /\ failing \/ ran = Pairs

Many(p) == live[p] + Spawned(p)

(* Completed in this iteration: said so, and removed when next reached.    *)
Completed(ran, expired) ==
    {p \in ran \ expired : idle[p[2]] = "none" /\ FarAway(p)}

(* Its duration is exceeded: said so and removed at once, which isRunnable *)
(* looks at after the conditions, and before it asks whether a variable is *)
(* stale.  A duration begins to run in the iteration that spawns the       *)
(* behavior.                                                               *)
TimedOut(ran, expired) ==
    {p \in ran \cap expired : idle[p[2]] # "condition"}

(* The names left by removeCompletedBehaviors.                             *)
NamesLeft(reached, timedOut) ==
    (names \cup {p \in Pairs : Spawned(p) > 0})
    \ {p \in Pairs : (p \in reached /\ done[p] > 0) \/ p \in timedOut}

(* onHelmStart of a spawned behavior asks for the alert once more; whether *)
(* that is posted depends on what was posted under its name before.        *)
AskedAgain == {a \in Requested : \E c \in Contacts : Spawned(<<c, a>>) > 0}

(* Iterate of a helm that drives: spawn, run, post, remove and clear.      *)
IterateDrives(reached, ran, expired) ==
    LET completed == Completed(ran, expired)
        timedOut == TimedOut(ran, expired)
        ended == completed \cup timedOut
    IN /\ mode = "drive"
       /\ Turns(reached, ran)
       /\ live' = [p \in Pairs |-> IF p \in ended THEN 0 ELSE Many(p)]
       /\ done' = [p \in Pairs |-> (IF p \in reached THEN 0 ELSE done[p])
                                   + (IF p \in completed THEN Many(p) ELSE 0)]
       /\ resolving' = [p \in Pairs |->
                          resolving[p] + (IF p \in ended THEN Many(p) ELSE 0)]
       /\ names' = NamesLeft(reached, timedOut)
       /\ asked' \in {asked \cup again : again \in SUBSET AskedAgain}
       /\ deltas' = None
       /\ UNCHANGED <<alerts, helmVars>>

MayExpire == {p \in Pairs : p[2] \in Expire /\ live[p] > 0}

Drives == \E reached, ran \in SUBSET Pairs, expired \in SUBSET MayExpire :
              IterateDrives(reached, ran, expired)

(* An iteration in which no behavior's duration is exceeded.                *)
DrivesInTime ==
    \E reached, ran \in SUBSET Pairs : IterateDrives(reached, ran, {})

HelmReads ==
    \/ \E c \in Contacts, z \in Ranges : UpdatePlatformInfo(c, z)
    \/ \E p \in Pairs : ReadAlert(p)

HelmFails ==
    \/ Fails
    \/ \E p \in Pairs : LoseAlert(p)
    \/ \E m \in Modes : Restart(m)

ModeChanges ==
    \/ \E m \in EnabledModes : ChangeMode(m) \/ TakeOver(m)
    \/ Yield

HelmNext ==
    \/ HelmReads
    \/ HelmFails
    \/ \E a \in Idles \cap AlertIds, why \in Reasons : Conditions(a, why)
    \/ ModeChanges
    \/ IterateDisabled
    \/ Drives
=============================================================================
