-------------------------------- MODULE Helm --------------------------------
(***************************************************************************)
(* The helms of one vehicle (pHelmIvP): who is allowed to drive, and what  *)
(* the vehicle is left doing when nobody is.                               *)
(*                                                                         *)
(* A mission may run several helms: primaries, and standby helms that take *)
(* over when the IVPHELM_STATE of the primary stops coming.  Each is a     *)
(* process that fetches its mail, gives it to OnNewMail and then runs      *)
(* Iterate.  OnNewMail is one step for every message, since the helms'     *)
(* processes interleave; Iterate is one step.  An operator posts           *)
(* MOOS_MANUAL_OVERRIDE and RESTART_HELM.                                  *)
(*                                                                         *)
(* The decision variables (speed, course, ...) are posted together, so one *)
(* value stands for all of them: "move" for a decision of the helm engine, *)
(* "zero" for an all-stop.  What the engine decides is not modelled, only  *)
(* which of the four kinds of result it gives.  Reading mail takes no      *)
(* time: the clock stands still while a helm is in OnNewMail.              *)
(***************************************************************************)
EXTENDS Integers, Sequences, FiniteSets

CONSTANTS
    Helms,
    StandbyHelms,       \* those configured with STANDBY = Threshold
    Misconfigured,      \* those whose configuration has an error
    BehaviorsInConfig,  \* those whose block has a line that cannot be read
                        \* twice: BEHAVIORS, or NODE_SKEW
    StartEngaged,       \* those with START_ENGAGED = true
    StartDisengaged,    \* those with START_ENGAGED = false
    AllowPark,          \* m_allow_override
    ParkOnAllStop,      \* m_park_on_allstop
    Threshold,          \* m_standby_threshold, in ticks of the clock
    SkewPossible,       \* may mail be ignored for its skew?
    MayCrash,           \* helms whose process may die
    Orders,             \* what the operator may post
    MaxOrders,          \* bound: messages of the operator
    QueueSize           \* ROS_IVP_NAMESPACE_SUBSCRIBER_MAX_QUEUE_SIZE

ASSUME HelmAssumption ==
    /\ StandbyHelms \subseteq Helms
    /\ Misconfigured \subseteq Helms
    /\ BehaviorsInConfig \subseteq Helms
    /\ StartEngaged \subseteq Helms
    /\ StartDisengaged \subseteq Helms \ StartEngaged
    /\ MayCrash \subseteq Helms
    /\ {AllowPark, ParkOnAllStop, SkewPossible} \subseteq BOOLEAN
    /\ Threshold \in Nat
    /\ Orders \subseteq {"TRUE", "FALSE", "RESTART"}
    /\ MaxOrders \in Nat
    /\ QueueSize \in Nat \ {0}
    /\ "operator" \notin Helms

VARIABLES
    status,     \* m_helm_status
    hasControl, \* m_has_control
    out,        \* m_allstop_msg, m_no_decisions and the last DESIRED_* posted
    heard,      \* is m_standby_last_heartbeat set?
    age,        \* m_curr_time - m_standby_last_heartbeat, up to Threshold + 1
    told,       \* helms that have posted DISABLED
    pc,         \* where each helm is in its main loop
    inbox,      \* mail that has reached the process, oldest first
    batch,      \* mail OnNewMail has still to handle
    running,    \* helms whose process is alive
    cycled,     \* helms that have iterated since the clock ticked
    late,       \* has a helm ever missed a tick?
    posted      \* messages the operator has posted

statusVars == <<status, hasControl>>
beatVars == <<heard, age>>
mailVars == <<inbox, batch>>
worldVars == <<running, cycled, late, posted>>
vars == <<statusVars, out, beatVars, told, pc, mailVars, worldVars>>

Statuses == {"STANDBY", "PARK", "DRIVE", "DISABLED", "MALCONFIG"}

\* Mail of a variable that OnNewMail handles itself.
Mail == [var : {"IVPHELM_STATE"}, from : Helms, val : Statuses]
        \cup [var : {"MOOS_MANUAL_OVERRIDE"}, from : {"operator"},
              val : {"TRUE", "FALSE"}]
        \cup [var : {"RESTART_HELM"}, from : {"operator"}, val : {"RESTART"}]

-----------------------------------------------------------------------------
(***************************************************************************)
(* Status and all-stop.                                                    *)
(***************************************************************************)
Enabled(s) == s \in {"PARK", "DRIVE"}

\* Mutant: any helm that has control drives.
SettledInDrive(s, control) ==
    IF control THEN "DRIVE" ELSE IF s = "DRIVE" THEN "PARK" ELSE s

\* The end of helmStatusUpdate: apply what m_has_control says.
Settled(s, control) ==
    IF Enabled(s) THEN IF control THEN "DRIVE" ELSE "PARK" ELSE s

NoDecision == {"NothingToDo", "MissingDecVars"}

\* Mutant: the all-stop is announced although the zeros are held back.
PostAllStopEarly(h, s, msg) ==
    LET o == out[h]
        shown == IF msg = "" THEN o.allstop ELSE msg
        count == IF msg \notin NoDecision THEN 0
                 ELSE IF o.noDecisions = 0 THEN 1 ELSE 2
    IN IF ~Enabled(s) \/ msg = o.allstop
       THEN o
       ELSE [allstop |-> shown,
             noDecisions |-> count,
             desired |-> IF shown = "clear" \/ count = 1 THEN o.desired
                                                         ELSE "zero"]

\* Mutant: every iteration without a decision counts as the first.
PostAllStopNever(h, s, msg) ==
    LET o == out[h]
        shown == IF msg = "" THEN o.allstop ELSE msg
        count == IF msg \in NoDecision THEN 1 ELSE 0
    IN IF ~Enabled(s) \/ msg = o.allstop
       THEN o
       ELSE [allstop |-> IF count = 1 THEN "IncompleteOrEmptyDecision"
                                      ELSE shown,
             noDecisions |-> count,
             desired |-> IF shown = "clear" \/ count = 1 THEN o.desired
                                                         ELSE "zero"]

(* postAllStop(msg) of helm h, whose status is s: the message is posted    *)
(* and so are zeros, unless all is clear or this is the first iteration in *)
(* a row without a decision.  The empty message asks to post the present   *)
(* one again.                                                              *)
PostAllStop(h, s, msg) ==
    LET o == out[h]
        shown == IF msg = "" THEN o.allstop ELSE msg
        count == IF msg \notin NoDecision THEN 0
                 ELSE IF o.noDecisions = 0 THEN 1 ELSE 2
    IN IF ~Enabled(s) \/ msg = o.allstop
       THEN o
       ELSE [allstop |-> IF count = 1 THEN "IncompleteOrEmptyDecision"
                                      ELSE shown,
             noDecisions |-> count,
             desired |-> IF shown = "clear" \/ count = 1 THEN o.desired
                                                         ELSE "zero"]

\* Does reading the configuration give a warning?  addBehaviorFile refuses
\* a file it has been given before (and handleConfigNodeSkew a vehicle).
ConfigWarning(h, again) ==
    h \in Misconfigured \/ (again /\ h \in BehaviorsInConfig)

(* OnStartUp: what becomes of m_has_control, which stays as it is without  *)
(* a START_ENGAGED line, and of the status.                                *)
StartUpControl(h, again, control) ==
    /\ ~ConfigWarning(h, again)
    /\ h \in StartEngaged \/ (control /\ h \notin StartDisengaged)

StartUpStatus(h, again, s) ==
    IF ConfigWarning(h, again) THEN "MALCONFIG"
    ELSE IF h \in StandbyHelms THEN "STANDBY" ELSE s

Init ==
    /\ status = [h \in Helms |-> StartUpStatus(h, FALSE, "PARK")]
    /\ hasControl = [h \in Helms |-> StartUpControl(h, FALSE, FALSE)]
    /\ out = [h \in Helms |->
                 [allstop |-> "", noDecisions |-> 0, desired |-> "none"]]
    /\ heard = [h \in Helms |-> FALSE]
    /\ age = [h \in Helms |-> 0]
    /\ told = {}
    /\ pc = [h \in Helms |-> "fetch"]
    /\ inbox = [h \in Helms |-> <<>>]
    /\ batch = [h \in Helms |-> <<>>]
    /\ running = Helms
    /\ cycled = {}
    /\ late = FALSE
    /\ posted = 0

-----------------------------------------------------------------------------
(***************************************************************************)
(* The world: mail, the clock, the operator, and the death of a process.   *)
(***************************************************************************)
\* A helm whose configuration was bad when it started has registered for
\* nothing.  The others get all IVPHELM_STATE, their own included.
Listening == running \ Misconfigured

\* The positions of the mail of variable v in a box.
Of(v, box) == {n \in DOMAIN box : box[n].var = v}

\* ROS keeps a queue for each variable, and drops the oldest when it is full.
MadeRoom(v, box) ==
    IF Cardinality(Of(v, box)) < QueueSize
    THEN box
    ELSE [n \in 1..Len(box) - 1 |->
             IF \E i \in 1..n : i \in Of(v, box) THEN box[n + 1] ELSE box[n]]

Publish(m) ==
    inbox' = [g \in Helms |->
                 IF g \in Listening
                 THEN Append(MadeRoom(m.var, inbox[g]), m)
                 ELSE inbox[g]]

Tick ==
    /\ \A h \in running : pc[h] # "reading"
    /\ cycled' = {}
    /\ late' = (late \/ ~(running \subseteq cycled))
    /\ age' = [h \in Helms |->
                  IF heard[h] /\ age[h] <= Threshold THEN age[h] + 1
                                                     ELSE age[h]]
    /\ UNCHANGED <<statusVars, out, heard, told, pc, mailVars, running, posted>>

Order(val) ==
    /\ posted < MaxOrders
    /\ posted' = posted + 1
    /\ Publish([var |-> IF val = "RESTART" THEN "RESTART_HELM"
                                           ELSE "MOOS_MANUAL_OVERRIDE",
                from |-> "operator", val |-> val])
    /\ UNCHANGED <<statusVars, out, beatVars, told, pc, batch, running, cycled, late>>

Crash(h) ==
    /\ h \in running \cap MayCrash
    /\ running' = running \ {h}
    /\ inbox' = [inbox EXCEPT ![h] = <<>>]
    /\ batch' = [batch EXCEPT ![h] = <<>>]
    /\ pc' = [pc EXCEPT ![h] = "dead"]
    /\ UNCHANGED <<statusVars, out, beatVars, told, cycled, late, posted>>

-----------------------------------------------------------------------------
(***************************************************************************)
(* OnNewMail.                                                              *)
(***************************************************************************)
\* A disabled helm does not look at its mail; a helm without mail goes on.
FetchMail(h) ==
    LET reads == inbox[h] # <<>> /\ status[h] # "DISABLED" IN
    /\ pc[h] = "fetch"
    /\ pc' = [pc EXCEPT ![h] = IF reads THEN "reading" ELSE "iterate"]
    /\ batch' = [batch EXCEPT ![h] = IF reads THEN inbox[h] ELSE <<>>]
    /\ inbox' = [inbox EXCEPT ![h] = <<>>]
    /\ UNCHANGED <<statusVars, out, beatVars, told, worldVars>>

Reads(h, var) ==
    /\ pc[h] = "reading"
    /\ batch[h] # <<>>
    /\ Head(batch[h]).var = var
    /\ batch' = [batch EXCEPT ![h] = Tail(@)]
    /\ UNCHANGED <<told, pc, inbox, worldVars>>

\* Mail that seems too old, or too new, is skipped.  (A helm's own mail is
\* not exempt: messages that come through ROS name no community.)
SkipSkewed(h) ==
    /\ SkewPossible
    /\ batch[h] # <<>>
    /\ Reads(h, Head(batch[h]).var)
    /\ UNCHANGED <<statusVars, out, beatVars>>

ReadOverride(h) ==
    LET off == Head(batch[h]).val = "FALSE" IN
    /\ Reads(h, "MOOS_MANUAL_OVERRIDE")
    /\ IF off \/ AllowPark
       THEN /\ hasControl' = [hasControl EXCEPT ![h] = off]
            /\ status' = [status EXCEPT ![h] = Settled(@, off)]
       ELSE UNCHANGED statusVars
    /\ UNCHANGED <<out, beatVars>>

\* Mutant: disabled first, and then too late to stop the vehicle.
ReadStateDisables(h) ==
    LET m == Head(batch[h])
        s == status[h]
        other == m.from # h
        again == other /\ h \in StandbyHelms /\ s # "STANDBY"
        yields == other /\ h \notin StandbyHelms /\ m.val # "STANDBY" IN
    /\ Reads(h, "IVPHELM_STATE")
    /\ IF other /\ h \in StandbyHelms /\ s = "STANDBY"
       THEN /\ heard' = [heard EXCEPT ![h] = TRUE]
            /\ age' = [age EXCEPT ![h] = 0]
       ELSE UNCHANGED beatVars
    /\ out' = [out EXCEPT
                  ![h] = IF yields
                         THEN PostAllStop(h, "DISABLED", "DisabledByStandbyHelm")
                         ELSE IF again THEN PostAllStop(h, s, "") ELSE @]
    /\ status' = [status EXCEPT ![h] = IF yields THEN "DISABLED" ELSE @]
    /\ UNCHANGED hasControl

\* Mutant: the time of the heartbeat is not renewed.
ReadStateOnce(h) ==
    LET m == Head(batch[h])
        s == status[h]
        other == m.from # h
        again == other /\ h \in StandbyHelms /\ s # "STANDBY"
        yields == other /\ h \notin StandbyHelms /\ m.val # "STANDBY" IN
    /\ Reads(h, "IVPHELM_STATE")
    /\ IF other /\ h \in StandbyHelms /\ s = "STANDBY"
       THEN /\ heard' = [heard EXCEPT ![h] = TRUE]
            /\ age' = IF heard[h] THEN age ELSE [age EXCEPT ![h] = 0]
       ELSE UNCHANGED beatVars
    /\ out' = [out EXCEPT
                  ![h] = IF yields
                         THEN PostAllStop(h, s, "DisabledByStandbyHelm")
                         ELSE IF again THEN PostAllStop(h, s, "") ELSE @]
    /\ status' = [status EXCEPT ![h] = IF yields THEN "DISABLED" ELSE @]
    /\ UNCHANGED hasControl

\* Mutant: its own status is a heartbeat, too.
ReadStateOwn(h) ==
    LET m == Head(batch[h])
        s == status[h]
        other == m.from # h
        again == other /\ h \in StandbyHelms /\ s # "STANDBY"
        yields == other /\ h \notin StandbyHelms /\ m.val # "STANDBY" IN
    /\ Reads(h, "IVPHELM_STATE")
    /\ IF h \in StandbyHelms /\ s = "STANDBY"
       THEN /\ heard' = [heard EXCEPT ![h] = TRUE]
            /\ age' = [age EXCEPT ![h] = 0]
       ELSE UNCHANGED beatVars
    /\ out' = [out EXCEPT
                  ![h] = IF yields
                         THEN PostAllStop(h, s, "DisabledByStandbyHelm")
                         ELSE IF again THEN PostAllStop(h, s, "") ELSE @]
    /\ status' = [status EXCEPT ![h] = IF yields THEN "DISABLED" ELSE @]
    /\ UNCHANGED hasControl

\* Mutant: a primary only yields to a helm in DRIVE.
ReadStateInDrive(h) ==
    LET m == Head(batch[h])
        s == status[h]
        other == m.from # h
        again == other /\ h \in StandbyHelms /\ s # "STANDBY"
        yields == other /\ h \notin StandbyHelms /\ m.val = "DRIVE" IN
    /\ Reads(h, "IVPHELM_STATE")
    /\ IF other /\ h \in StandbyHelms /\ s = "STANDBY"
       THEN /\ heard' = [heard EXCEPT ![h] = TRUE]
            /\ age' = [age EXCEPT ![h] = 0]
       ELSE UNCHANGED beatVars
    /\ out' = [out EXCEPT
                  ![h] = IF yields
                         THEN PostAllStop(h, s, "DisabledByStandbyHelm")
                         ELSE IF again THEN PostAllStop(h, s, "") ELSE @]
    /\ status' = [status EXCEPT ![h] = IF yields THEN "DISABLED" ELSE @]
    /\ UNCHANGED hasControl

(* The status of another helm.  A standby helm notes the time; one that    *)
(* has taken over posts its all-stop again; a primary yields.              *)
ReadState(h) ==
    LET m == Head(batch[h])
        s == status[h]
        other == m.from # h
        again == other /\ h \in StandbyHelms /\ s # "STANDBY"
        yields == other /\ h \notin StandbyHelms /\ m.val # "STANDBY" IN
    /\ Reads(h, "IVPHELM_STATE")
    /\ IF other /\ h \in StandbyHelms /\ s = "STANDBY"
       THEN /\ heard' = [heard EXCEPT ![h] = TRUE]
            /\ age' = [age EXCEPT ![h] = 0]
       ELSE UNCHANGED beatVars
    /\ out' = [out EXCEPT
                  ![h] = IF yields
                         THEN PostAllStop(h, s, "DisabledByStandbyHelm")
                         ELSE IF again THEN PostAllStop(h, s, "") ELSE @]
    /\ status' = [status EXCEPT ![h] = IF yields THEN "DISABLED" ELSE @]
    /\ UNCHANGED hasControl

(* RESTART_HELM: OnStartUp runs again.                                     *)
ReadRestart(h) ==
    /\ Reads(h, "RESTART_HELM")
    /\ status' = [status EXCEPT ![h] = StartUpStatus(h, TRUE, @)]
    /\ hasControl' = [hasControl EXCEPT ![h] = StartUpControl(h, TRUE, @)]
    /\ UNCHANGED <<out, beatVars>>

\* Mutant: ENABLED is taken for a status.
MailReadEnables(h) ==
    LET takesOver == status[h] = "STANDBY" /\ heard[h] /\ age[h] > Threshold IN
    /\ pc[h] = "reading"
    /\ batch[h] = <<>>
    /\ pc' = [pc EXCEPT ![h] = "iterate"]
    /\ status' = [status EXCEPT
                     ![h] = IF takesOver THEN "ENABLED" ELSE @]
    /\ UNCHANGED <<hasControl, out, beatVars, told, mailVars, worldVars>>

(* The end of OnNewMail: checkForTakeOver.                                 *)
MailRead(h) ==
    LET takesOver == status[h] = "STANDBY" /\ heard[h] /\ age[h] > Threshold IN
    /\ pc[h] = "reading"
    /\ batch[h] = <<>>
    /\ pc' = [pc EXCEPT ![h] = "iterate"]
    /\ status' = [status EXCEPT
                     ![h] = IF takesOver THEN Settled("PARK", hasControl[h])
                                         ELSE @]
    /\ UNCHANGED <<hasControl, out, beatVars, told, mailVars, worldVars>>

-----------------------------------------------------------------------------
(***************************************************************************)
(* Iterate.  It begins with helmStatusUpdate and postHelmStatus ...        *)
(***************************************************************************)
IterateBegins(h) ==
    LET s == Settled(status[h], hasControl[h]) IN
    /\ pc[h] = "iterate"
    /\ pc' = [pc EXCEPT ![h] = "fetch"]
    /\ status' = [status EXCEPT ![h] = s]
    /\ cycled' = cycled \cup {h}
    /\ IF s = "DISABLED" /\ h \in told
       THEN UNCHANGED inbox
       ELSE Publish([var |-> "IVPHELM_STATE", from |-> h, val |-> s])
    /\ told' = IF s = "DISABLED" THEN told \cup {h} ELSE told
    /\ UNCHANGED <<beatVars, batch, running, late, posted>>

\* ... which is all, if the helm is not enabled.
IterateIdle(h) ==
    /\ ~Enabled(status[h])
    /\ IterateBegins(h)
    /\ UNCHANGED <<hasControl, out>>

\* Mutant: parking does not stop the vehicle.
IterateParkedOn(h) ==
    /\ Enabled(status[h])
    /\ ~hasControl[h]
    /\ IterateBegins(h)
    /\ UNCHANGED <<out, hasControl>>

IterateParked(h) ==
    /\ Enabled(status[h])
    /\ ~hasControl[h]
    /\ IterateBegins(h)
    /\ out' = [out EXCEPT ![h] = PostAllStop(h, "PARK", "ManualOverride")]
    /\ UNCHANGED hasControl

\* The helm engine has decided: the decision is posted.
IterateDecides(h) ==
    /\ Enabled(status[h])
    /\ hasControl[h]
    /\ IterateBegins(h)
    /\ out' = [out EXCEPT
                  ![h] = [PostAllStop(h, "DRIVE", "clear") EXCEPT
                             !.desired = "move"]]
    /\ UNCHANGED hasControl

\* The helm engine failed, or left a variable undecided.
IterateFails(h, why) ==
    /\ Enabled(status[h])
    /\ hasControl[h]
    /\ IterateBegins(h)
    /\ out' = [out EXCEPT ![h] = PostAllStop(h, "DRIVE", why)]
    /\ hasControl' = [hasControl EXCEPT ![h] = ~(AllowPark /\ ParkOnAllStop)]

Iterate(h) ==
    \/ IterateIdle(h)
    \/ IterateParked(h)
    \/ IterateDecides(h)
    \/ \E why \in NoDecision \cup {"BehaviorError"} : IterateFails(h, why)

HelmStep(h) ==
    \/ FetchMail(h)
    \/ SkipSkewed(h)
    \/ ReadOverride(h)
    \/ ReadState(h)
    \/ ReadRestart(h)
    \/ MailRead(h)
    \/ Iterate(h)

Next ==
    \/ Tick
    \/ \E val \in Orders : Order(val)
    \/ \E h \in Helms : Crash(h)
    \/ \E h \in Helms : HelmStep(h)

Spec == Init /\ [][Next]_vars

(* Every process runs.  Time passes although somebody is often reading     *)
(* mail: a handler takes no time, so it does not stop the clock.           *)
Fairness == SF_vars(Tick) /\ \A h \in Helms : WF_vars(HelmStep(h))

FairSpec == Spec /\ Fairness

-----------------------------------------------------------------------------
(***************************************************************************)
(* Properties.                                                             *)
(***************************************************************************)
AllStops == {"", "clear", "NothingToDo", "MissingDecVars", "BehaviorError",
             "IncompleteOrEmptyDecision", "ManualOverride",
             "DisabledByStandbyHelm"}

(* The type invariant: what each field of a helm may hold.                 *)
TypeOK ==
    /\ status \in [Helms -> Statuses]
    /\ hasControl \in [Helms -> BOOLEAN]
    /\ out \in [Helms -> [allstop : AllStops, noDecisions : 0..2,
                          desired : {"none", "zero", "move"}]]
    /\ heard \in [Helms -> BOOLEAN]
    /\ age \in [Helms -> 0..Threshold + 1]
    /\ told \subseteq Helms
    /\ pc \in [Helms -> {"fetch", "reading", "iterate", "dead"}]
    /\ inbox \in [Helms -> Seq(Mail)]
    /\ batch \in [Helms -> Seq(Mail)]
    /\ running \subseteq Helms
    /\ cycled \subseteq Helms
    /\ late \in BOOLEAN
    /\ posted \in 0..MaxOrders

(* What the helm says of itself is so: while m_allstop_msg names a reason  *)
(* for stopping, the last values of the decision variables that postAllStop*)
(* or Iterate posted are zeros, through overrides, restarts and changes of *)
(* status.  (In the iteration of grace it says that decisions are missing.)*)
AllStopMeansZero ==
    \A h \in Helms :
        out[h].allstop \notin {"", "clear", "IncompleteOrEmptyDecision"}
            => out[h].desired = "zero"

(* A helm waits for one iteration without a decision before it stops the   *)
(* vehicle, not for two, whatever mail comes between the two.              *)
GraceIsOneIteration ==
    [][\A h \in Helms :
          /\ pc[h] = "iterate" /\ pc'[h] = "fetch"
          /\ Enabled(status'[h])
          /\ out[h].allstop = "IncompleteOrEmptyDecision"
          => out'[h].desired # "move" \/ out'[h].allstop = "clear"]_vars

(* A helm that has iterated in PARK has stopped the vehicle, however it    *)
(* came to be parked.                                                      *)
ParkedIsStopped ==
    [][\A h \in Helms :
          pc[h] = "iterate" /\ pc'[h] = "fetch" /\ status'[h] = "PARK"
              => out'[h].desired # "move"]_vars

(* A helm that another has disabled had stopped the vehicle before it      *)
(* yielded, whatever was in the mail it was reading.  (Not so if an error  *)
(* in the configuration put it out of service; see ReadRestart.)           *)
DisabledIsStopped ==
    \A h \in Helms : status[h] = "DISABLED" => out[h].desired # "move"

(* A helm that another has disabled never drives again: not when the rest  *)
(* of its mail hands it control, and not when it is restarted.             *)
DisabledIsFinal ==
    \A h \in Helms : [](status[h] = "DISABLED" => []~Enabled(status[h]))

(* As long as every helm has done its cycle for every tick of the clock, a *)
(* standby helm has not taken over from a primary that is running.         *)
NoNeedlessTakeover ==
    ~late /\ running \ StandbyHelms # {} =>
        \A h \in Helms :
            /\ h \in StandbyHelms => ~Enabled(status[h])
            /\ status[h] # "DISABLED"

(* When no primary runs any more, a standby helm that has heard of one     *)
(* takes over.                                                             *)
StandbyTakesOver ==
    \A h \in StandbyHelms :
        running = {h} /\ heard[h] ~> Enabled(status[h])

(* Two helms do not go on driving: a late primary that comes back yields.  *)
Driving == {h \in running : Enabled(status[h])}

OneHelmYields == Cardinality(Driving) > 1 ~> Cardinality(Driving) <= 1

(***************************************************************************)
(* A statement of the code's own messages, as a property.                  *)
(***************************************************************************)
(* OnNewMail reports "pHelmIvP has been re-started!!" after OnStartUp: a   *)
(* helm that runs still does so after RESTART_HELM.                        *)
RestartedHelmRuns ==
    [][\A h \in Helms :
          status[h] \in {"PARK", "DRIVE", "STANDBY"}
              => status'[h] # "MALCONFIG"]_vars
=============================================================================
