----------------------------- MODULE HelmProofs -----------------------------
(***************************************************************************)
(* What holds of Helm for every set of helms, every configuration, every   *)
(* threshold and every number of messages.                                 *)
(***************************************************************************)
EXTENDS Helm, FiniteSetTheorems, SequenceTheorems, TLAPS

-----------------------------------------------------------------------------
(***************************************************************************)
(* The operators the actions are built from.                               *)
(***************************************************************************)
(* Making room in a queue of ROS leaves a sequence of the same mail.       *)
LEMMA MadeRoomType ==
    ASSUME NEW S, NEW v, NEW box \in Seq(S)
    PROVE  MadeRoom(v, box) \in Seq(S)
<1>1. CASE Cardinality(Of(v, box)) < QueueSize
  BY <1>1 DEF MadeRoom
<1>2. CASE ~(Cardinality(Of(v, box)) < QueueSize)
  <2>1. Of(v, box) # {}
    <3>1. SUFFICES ASSUME Of(v, box) = {} PROVE FALSE
      OBVIOUS
    <3>2. Cardinality(Of(v, box)) = 0
      BY <3>1, FS_EmptySet
    <3> QED
      BY <1>2, <3>2, HelmAssumption
  <2>2. Len(box) - 1 \in Nat
    BY <2>1 DEF Of
  <2>3. \A n \in 1..Len(box) - 1 :
            (IF \E i \in 1..n : i \in Of(v, box) THEN box[n + 1] ELSE box[n])
                \in S
    BY ElementOfSeq
  <2> QED
    BY <1>2, <2>2, <2>3, IsASeq DEF MadeRoom
<1> QED
  BY <1>1, <1>2

(* Publishing a message keeps every inbox a sequence of such mail.         *)
LEMMA PublishType ==
    ASSUME NEW S, NEW m \in S, inbox \in [Helms -> Seq(S)], Publish(m)
    PROVE  inbox' \in [Helms -> Seq(S)]
<1>1. \A g \in Helms : Append(MadeRoom(m.var, inbox[g]), m) \in Seq(S)
  BY MadeRoomType, AppendProperties
<1> QED
  BY <1>1 DEF Publish

Out == [allstop : AllStops, noDecisions : 0..2,
        desired : {"none", "zero", "move"}]

\* The reasons for which postAllStop is called.
Reasons == {"", "clear", "NothingToDo", "MissingDecVars", "BehaviorError",
            "ManualOverride", "DisabledByStandbyHelm"}

(* postAllStop keeps the type of what it changes, keeps its promise that   *)
(* a reason for stopping comes with zeros, and counts right: while only    *)
(* decisions are missing, this was the first time, or zeros are out.       *)
Honest(o) ==
    o.allstop \notin {"", "clear", "IncompleteOrEmptyDecision"}
        => o.desired = "zero"

Counted(o) ==
    o.allstop = "IncompleteOrEmptyDecision"
        => o.noDecisions = 1 \/ o.desired # "move"

LEMMA PostAllStopResult ==
    ASSUME NEW h \in Helms, out[h] \in Out, NEW s, NEW msg \in Reasons,
           Honest(out[h]), Counted(out[h])
    PROVE  LET o == PostAllStop(h, s, msg) IN
               /\ o \in Out
               /\ Honest(o)
               /\ Counted(o)
               /\ out[h].desired # "move" => o.desired # "move"
<1> DEFINE o == out[h]
           shown == IF msg = "" THEN o.allstop ELSE msg
           count == IF msg \notin NoDecision THEN 0
                    ELSE IF o.noDecisions = 0 THEN 1 ELSE 2
           new == [allstop |-> IF count = 1 THEN "IncompleteOrEmptyDecision"
                                            ELSE shown,
                   noDecisions |-> count,
                   desired |-> IF shown = "clear" \/ count = 1
                               THEN o.desired ELSE "zero"]
<1>1. PostAllStop(h, s, msg) = IF ~Enabled(s) \/ msg = o.allstop THEN o
                                                                 ELSE new
  BY DEF PostAllStop
<1>2. count \in {0, 1, 2} /\ (count = 1 => msg \in NoDecision)
  OBVIOUS
<1>3. shown \in AllStops
  BY DEF Reasons, AllStops, Out
<1>4. msg \in NoDecision => shown # "clear"
  BY DEF NoDecision
<1> HIDE DEF count, shown
<1>5. /\ new.allstop = IF count = 1 THEN "IncompleteOrEmptyDecision" ELSE shown
      /\ new.noDecisions = count
      /\ new.desired = IF shown = "clear" \/ count = 1 THEN o.desired
                                                       ELSE "zero"
  OBVIOUS
<1>6. new \in Out
  <2>1. o.desired \in {"none", "zero", "move"}
    BY DEF Out
  <2>2. (IF count = 1 THEN "IncompleteOrEmptyDecision" ELSE shown) \in AllStops
    BY <1>3 DEF AllStops
  <2>3. count \in 0..2
    BY <1>2
  <2>4. (IF shown = "clear" \/ count = 1 THEN o.desired ELSE "zero")
            \in {"none", "zero", "move"}
    BY <2>1
  <2> QED
    BY <2>2, <2>3, <2>4 DEF Out
<1>7. Honest(new) /\ Counted(new)
  BY <1>2, <1>3, <1>4, <1>5 DEF Honest, Counted
<1>8. o.desired # "move" => new.desired # "move"
  BY <1>5
<1> HIDE DEF new
<1> QED
  BY <1>1, <1>6, <1>7, <1>8

(* What a helm makes of its status, by its control or by starting again,   *)
(* is a status.                                                            *)
LEMMA StatusType ==
    ASSUME NEW h, NEW s \in Statuses, NEW control, NEW again
    PROVE  /\ Settled(s, control) \in Statuses
           /\ StartUpStatus(h, again, s) \in Statuses
           /\ Enabled(Settled(s, control)) <=> Enabled(s)
           /\ Settled(s, control) = "DISABLED" <=> s = "DISABLED"
  BY DEF Settled, StartUpStatus, Enabled, Statuses

-----------------------------------------------------------------------------
(***************************************************************************)
(* The inductive invariant: the type invariant and, for each helm, the two *)
(* facts about what it has posted.                                         *)
(***************************************************************************)
OutOK == out \in [Helms -> Out] /\ \A h \in Helms : Honest(out[h]) /\ Counted(out[h])

HelmInv == TypeOK /\ OutOK

(* A helm that posts an all-stop, or nothing, keeps its part of OutOK.     *)
LEMMA OutStep ==
    ASSUME OutOK, NEW h \in Helms, NEW o \in Out, Honest(o), Counted(o),
           out' = [out EXCEPT ![h] = o]
    PROVE  OutOK'
  BY DEF OutOK

LEMMA PostsAllStop ==
    ASSUME OutOK, NEW h \in Helms, NEW s, NEW msg \in Reasons,
           out' = [out EXCEPT ![h] = PostAllStop(h, s, msg)]
    PROVE  OutOK'
<1>1. /\ PostAllStop(h, s, msg) \in Out
      /\ Honest(PostAllStop(h, s, msg))
      /\ Counted(PostAllStop(h, s, msg))
  BY PostAllStopResult DEF OutOK
<1> QED
  BY <1>1, OutStep

(* A decision is posted after the all-clear.                               *)
LEMMA DecisionIsOK ==
    ASSUME OutOK, NEW h \in Helms
    PROVE  LET o == [PostAllStop(h, "DRIVE", "clear") EXCEPT !.desired = "move"]
           IN o \in Out /\ Honest(o) /\ Counted(o) /\ o.allstop = "clear"
<1> DEFINE p == PostAllStop(h, "DRIVE", "clear")
<1>1. p.allstop = "clear"
  BY DEF PostAllStop, Enabled, NoDecision
<1>2. p \in Out
  BY PostAllStopResult DEF OutOK, Reasons
<1> HIDE DEF p
<1> DEFINE o == [p EXCEPT !.desired = "move"]
<1>3. o \in Out /\ o.allstop = "clear"
  BY <1>1, <1>2 DEF Out
<1> HIDE DEF o
<1>4. Honest(o) /\ Counted(o)
  BY <1>3 DEF Honest, Counted
<1> QED
  BY <1>3, <1>4 DEF o, p

(* Taking a message from the batch.                                        *)
LEMMA ReadsType ==
    ASSUME TypeOK, NEW h \in Helms, NEW var, Reads(h, var)
    PROVE  /\ Head(batch[h]) \in Mail
           /\ batch' \in [Helms -> Seq(Mail)]
<1>1. batch[h] \in Seq(Mail) /\ batch[h] # <<>>
  BY DEF TypeOK, Reads
<1>2. Head(batch[h]) \in Mail /\ Tail(batch[h]) \in Seq(Mail)
  BY <1>1, HeadTailProperties
<1> QED
  BY <1>2 DEF TypeOK, Reads

(* What every Iterate begins with.                                         *)
LEMMA IterateBeginsType ==
    ASSUME TypeOK, NEW h \in Helms, IterateBegins(h)
    PROVE  /\ pc' \in [Helms -> {"fetch", "reading", "iterate", "dead"}]
           /\ status' \in [Helms -> Statuses]
           /\ cycled' \subseteq Helms
           /\ inbox' \in [Helms -> Seq(Mail)]
           /\ told' \subseteq Helms
<1> DEFINE s == Settled(status[h], hasControl[h])
           m == [var |-> "IVPHELM_STATE", from |-> h, val |-> s]
<1>1. s \in Statuses
  BY StatusType DEF TypeOK
<1> HIDE DEF s
<1>2. m \in Mail
  BY <1>1 DEF Mail
<1> HIDE DEF m
<1>3. inbox' = inbox \/ Publish(m)
  BY DEF IterateBegins, s, m
<1>4. inbox' \in [Helms -> Seq(Mail)]
  BY <1>2, <1>3, PublishType DEF TypeOK
<1>5. status' = [status EXCEPT ![h] = s] /\ pc' = [pc EXCEPT ![h] = "fetch"]
  BY DEF IterateBegins, s
<1>6. cycled' = cycled \cup {h} /\ (told' = told \/ told' = told \cup {h})
  BY DEF IterateBegins
<1> QED
  BY <1>1, <1>4, <1>5, <1>6 DEF TypeOK

LEMMA HelmInvInit == Init => HelmInv
<1> SUFFICES ASSUME Init PROVE HelmInv
  OBVIOUS
<1>1. \A h \in Helms : StartUpStatus(h, FALSE, "PARK") \in Statuses
  BY StatusType DEF Statuses
<1>2. \A h \in Helms : StartUpControl(h, FALSE, FALSE) \in BOOLEAN
  BY DEF StartUpControl
<1>3. status \in [Helms -> Statuses] /\ hasControl \in [Helms -> BOOLEAN]
  BY <1>1, <1>2 DEF Init
<1>4. OutOK
  <2> DEFINE o == [allstop |-> "", noDecisions |-> 0, desired |-> "none"]
  <2>1. o \in Out
    BY DEF Out, AllStops
  <2>2. Honest(o) /\ Counted(o)
    BY DEF Honest, Counted
  <2>3. out = [h \in Helms |-> o]
    BY DEF Init
  <2> HIDE DEF o
  <2> QED
    BY <2>1, <2>2, <2>3 DEF OutOK
<1>5. /\ inbox \in [Helms -> Seq(Mail)] /\ batch \in [Helms -> Seq(Mail)]
      /\ pc \in [Helms -> {"fetch", "reading", "iterate", "dead"}]
  <2>1. <<>> \in Seq(Mail)
    BY EmptySeq
  <2> QED
    BY <2>1 DEF Init
<1>6. /\ heard \in [Helms -> BOOLEAN]
      /\ told \subseteq Helms /\ running \subseteq Helms /\ cycled \subseteq Helms
      /\ late \in BOOLEAN
  BY DEF Init
<1>7. /\ age \in [Helms -> 0..Threshold + 1]
      /\ posted \in 0..MaxOrders
  <2>1. age = [h \in Helms |-> 0] /\ posted = 0
    BY DEF Init
  <2> QED
    BY <2>1, HelmAssumption
<1> QED
  BY <1>3, <1>4, <1>5, <1>6, <1>7 DEF HelmInv, TypeOK, OutOK, Out

LEMMA HelmInvStep == HelmInv /\ [Next]_vars => HelmInv'
<1> SUFFICES ASSUME HelmInv, [Next]_vars PROVE HelmInv'
  OBVIOUS
<1> USE DEF HelmInv
<1>1. CASE UNCHANGED vars
  BY <1>1 DEF TypeOK, OutOK, Honest, Counted, vars, statusVars, beatVars,
              mailVars, worldVars
<1>2. CASE Tick
  <2>1. OutOK'
    BY <1>2 DEF Tick, OutOK, Honest, Counted
  <2>2. age' \in [Helms -> 0..Threshold + 1]
    BY <1>2, HelmAssumption DEF Tick, TypeOK
  <2> QED
    BY <1>2, <2>1, <2>2 DEF Tick, TypeOK, statusVars, mailVars
<1>3. ASSUME NEW val \in Orders, Order(val) PROVE HelmInv'
  <2> DEFINE m == [var |-> IF val = "RESTART" THEN "RESTART_HELM"
                                              ELSE "MOOS_MANUAL_OVERRIDE",
                   from |-> "operator", val |-> val]
  <2>1. m \in Mail
    BY HelmAssumption DEF Mail
  <2>2. Publish(m)
    BY <1>3 DEF Order
  <2> HIDE DEF m
  <2>3. inbox' \in [Helms -> Seq(Mail)]
    BY <2>1, <2>2, PublishType DEF TypeOK
  <2>4. OutOK'
    BY <1>3 DEF Order, OutOK, Honest, Counted
  <2>5. posted' \in 0..MaxOrders
    BY <1>3, HelmAssumption DEF Order, TypeOK
  <2> QED
    BY <1>3, <2>3, <2>4, <2>5 DEF Order, TypeOK, statusVars, beatVars
<1>4. ASSUME NEW h \in Helms, Crash(h) PROVE HelmInv'
  <2>1. OutOK'
    BY <1>4 DEF Crash, OutOK, Honest, Counted
  <2> QED
    BY <1>4, <2>1 DEF Crash, TypeOK, statusVars, beatVars
<1>5. ASSUME NEW h \in Helms, FetchMail(h) PROVE HelmInv'
  <2>1. OutOK'
    BY <1>5 DEF FetchMail, OutOK, Honest, Counted
  <2>2. /\ inbox' \in [Helms -> Seq(Mail)] /\ batch' \in [Helms -> Seq(Mail)]
        /\ pc' \in [Helms -> {"fetch", "reading", "iterate", "dead"}]
    BY <1>5 DEF FetchMail, TypeOK
  <2> QED
    BY <1>5, <2>1, <2>2 DEF FetchMail, TypeOK, statusVars, beatVars, worldVars
<1>6. ASSUME NEW h \in Helms, SkipSkewed(h) PROVE HelmInv'
  <2>1. OutOK'
    BY <1>6 DEF SkipSkewed, OutOK, Honest, Counted
  <2>2. batch' \in [Helms -> Seq(Mail)]
    BY <1>6, ReadsType DEF SkipSkewed
  <2> QED
    BY <1>6, <2>1, <2>2 DEF SkipSkewed, Reads, TypeOK, statusVars, beatVars,
                            worldVars
<1>7. ASSUME NEW h \in Helms, ReadOverride(h) PROVE HelmInv'
  <2>1. OutOK'
    BY <1>7 DEF ReadOverride, OutOK, Honest, Counted
  <2>2. batch' \in [Helms -> Seq(Mail)]
    BY <1>7, ReadsType DEF ReadOverride
  <2>3. status' \in [Helms -> Statuses] /\ hasControl' \in [Helms -> BOOLEAN]
    <3> DEFINE off == Head(batch[h]).val = "FALSE"
    <3>1. Settled(status[h], off) \in Statuses
      BY StatusType DEF TypeOK
    <3>2. off \in BOOLEAN
      OBVIOUS
    <3>3. \/ /\ hasControl' = [hasControl EXCEPT ![h] = off]
             /\ status' = [status EXCEPT ![h] = Settled(status[h], off)]
          \/ UNCHANGED statusVars
      BY <1>7 DEF ReadOverride
    <3> HIDE DEF off
    <3>4. CASE UNCHANGED statusVars
      BY <3>4 DEF TypeOK, statusVars
    <3>5. CASE /\ hasControl' = [hasControl EXCEPT ![h] = off]
               /\ status' = [status EXCEPT ![h] = Settled(status[h], off)]
      <4>1. hasControl' \in [Helms -> BOOLEAN]
        BY <3>2, <3>5 DEF TypeOK
      <4>2. status' \in [Helms -> Statuses]
        BY <3>1, <3>5 DEF TypeOK
      <4> QED
        BY <4>1, <4>2
    <3> QED
      BY <3>3, <3>4, <3>5
  <2> QED
    BY <1>7, <2>1, <2>2, <2>3 DEF ReadOverride, Reads, TypeOK, beatVars, worldVars
<1>8. ASSUME NEW h \in Helms, ReadState(h) PROVE HelmInv'
  <2>1. OutOK'
    <3>1. \/ out' = [out EXCEPT ![h] = PostAllStop(h, status[h],
                                                  "DisabledByStandbyHelm")]
          \/ out' = [out EXCEPT ![h] = PostAllStop(h, status[h], "")]
          \/ out' = [out EXCEPT ![h] = @]
      BY <1>8 DEF ReadState
    <3>2. CASE out' = [out EXCEPT ![h] = @]
      BY <3>2 DEF OutOK, Honest, Counted
    <3> QED
      BY <3>1, <3>2, PostsAllStop DEF Reasons
  <2>2. batch' \in [Helms -> Seq(Mail)]
    BY <1>8, ReadsType DEF ReadState
  <2>3. /\ status' \in [Helms -> Statuses]
        /\ heard' \in [Helms -> BOOLEAN]
        /\ age' \in [Helms -> 0..Threshold + 1]
    <3>1. \/ /\ heard' = [heard EXCEPT ![h] = TRUE]
             /\ age' = [age EXCEPT ![h] = 0]
          \/ UNCHANGED beatVars
      BY <1>8 DEF ReadState
    <3>2. \/ status' = [status EXCEPT ![h] = "DISABLED"]
          \/ status' = [status EXCEPT ![h] = @]
      BY <1>8 DEF ReadState
    <3>3. 0 \in 0..Threshold + 1 /\ "DISABLED" \in Statuses
      BY HelmAssumption DEF Statuses
    <3>4. status' \in [Helms -> Statuses]
      BY <3>2, <3>3 DEF TypeOK
    <3>5. heard' \in [Helms -> BOOLEAN]
      BY <3>1 DEF TypeOK, beatVars
    <3>6. age' \in [Helms -> 0..Threshold + 1]
      BY <3>1, <3>3 DEF TypeOK, beatVars
    <3> QED
      BY <3>4, <3>5, <3>6
  <2>4. UNCHANGED <<hasControl, told, pc, inbox, worldVars>>
    BY <1>8 DEF ReadState, Reads
  <2>5. out' \in [Helms -> Out]
    BY <2>1 DEF OutOK
  <2> QED
    BY <2>1, <2>2, <2>3, <2>4, <2>5 DEF TypeOK, Out, worldVars
<1>9. ASSUME NEW h \in Helms, ReadRestart(h) PROVE HelmInv'
  <2>1. OutOK'
    BY <1>9 DEF ReadRestart, OutOK, Honest, Counted
  <2>2. batch' \in [Helms -> Seq(Mail)]
    BY <1>9, ReadsType DEF ReadRestart
  <2>3. status' \in [Helms -> Statuses] /\ hasControl' \in [Helms -> BOOLEAN]
    BY <1>9, StatusType DEF ReadRestart, StartUpControl, TypeOK
  <2> QED
    BY <1>9, <2>1, <2>2, <2>3 DEF ReadRestart, Reads, TypeOK, beatVars, worldVars
<1>10. ASSUME NEW h \in Helms, MailRead(h) PROVE HelmInv'
  <2>1. OutOK'
    BY <1>10 DEF MailRead, OutOK, Honest, Counted
  <2>2. /\ status' \in [Helms -> Statuses]
        /\ pc' \in [Helms -> {"fetch", "reading", "iterate", "dead"}]
    BY <1>10, StatusType DEF MailRead, TypeOK, Statuses
  <2> QED
    BY <1>10, <2>1, <2>2 DEF MailRead, TypeOK, beatVars, mailVars, worldVars
<1>11. ASSUME NEW h \in Helms, Iterate(h) PROVE HelmInv'
  <2>1. IterateBegins(h)
    BY <1>11 DEF Iterate, IterateIdle, IterateParked, IterateDecides, IterateFails
  <2>2. hasControl' \in [Helms -> BOOLEAN]
    BY <1>11 DEF Iterate, IterateIdle, IterateParked, IterateDecides,
                 IterateFails, TypeOK
  <2>3. OutOK'
    <3>1. CASE IterateIdle(h)
      BY <3>1 DEF IterateIdle, OutOK, Honest, Counted
    <3>2. CASE IterateParked(h)
      BY <3>2, PostsAllStop DEF IterateParked, Reasons
    <3>3. CASE IterateDecides(h)
      BY <3>3, DecisionIsOK, OutStep DEF IterateDecides
    <3>4. ASSUME NEW why \in NoDecision \cup {"BehaviorError"},
                 IterateFails(h, why)
          PROVE  OutOK'
      BY <3>4, PostsAllStop DEF IterateFails, Reasons, NoDecision
    <3> QED
      BY <1>11, <3>1, <3>2, <3>3, <3>4 DEF Iterate
  <2>4. UNCHANGED <<beatVars, batch, running, late, posted>>
    BY <2>1 DEF IterateBegins
  <2>5. out' \in [Helms -> Out]
    BY <2>3 DEF OutOK
  <2> QED
    BY <2>1, <2>2, <2>3, <2>4, <2>5, IterateBeginsType DEF TypeOK, Out, beatVars
<1> QED
  BY <1>1, <1>2, <1>3, <1>4, <1>5, <1>6, <1>7, <1>8, <1>9, <1>10, <1>11
     DEF Next, HelmStep

(* The type invariant holds of every helm ensemble.                        *)
THEOREM TypeCorrect == Spec => []TypeOK
<1>1. HelmInv => TypeOK
  BY DEF HelmInv
<1> QED
  BY <1>1, HelmInvInit, HelmInvStep, PTL DEF Spec

(* While a helm gives a reason for stopping, the last decision variables   *)
(* it posted are zeros: for any number of helms and whatever their mail.   *)
THEOREM AllStopSound == Spec => []AllStopMeansZero
<1>1. HelmInv => AllStopMeansZero
  BY DEF HelmInv, OutOK, Honest, AllStopMeansZero
<1> QED
  BY <1>1, HelmInvInit, HelmInvStep, PTL DEF Spec

-----------------------------------------------------------------------------
(***************************************************************************)
(* What an iteration may do.                                               *)
(***************************************************************************)
(* A helm that goes from Iterate to its next cycle has iterated.           *)
LEMMA OnlyIterate ==
    ASSUME TypeOK, [Next]_vars, NEW h \in Helms,
           pc[h] = "iterate", pc'[h] = "fetch"
    PROVE  Iterate(h)
<1>1. CASE UNCHANGED pc
  BY <1>1
<1>2. ASSUME NEW g \in Helms, Crash(g) PROVE FALSE
  BY <1>2 DEF Crash, TypeOK
<1>3. ASSUME NEW g \in Helms, FetchMail(g) PROVE FALSE
  BY <1>3 DEF FetchMail, TypeOK
<1>4. ASSUME NEW g \in Helms, MailRead(g) PROVE FALSE
  BY <1>4 DEF MailRead, TypeOK
<1>5. ASSUME NEW g \in Helms, Iterate(g), g # h PROVE FALSE
  <2>1. pc' = [pc EXCEPT ![g] = "fetch"]
    BY <1>5 DEF Iterate, IterateIdle, IterateParked, IterateDecides,
                IterateFails, IterateBegins
  <2> QED
    BY <1>5, <2>1 DEF TypeOK
<1>6. ASSUME NEW val \in Orders, Order(val) PROVE UNCHANGED pc
  BY <1>6 DEF Order
<1>7. ASSUME NEW g \in Helms,
             SkipSkewed(g) \/ ReadOverride(g) \/ ReadState(g) \/ ReadRestart(g)
      PROVE  UNCHANGED pc
  BY <1>7 DEF SkipSkewed, ReadOverride, ReadState, ReadRestart, Reads
<1>8. UNCHANGED vars \/ Tick => UNCHANGED pc
  BY DEF vars, Tick
<1> QED
  BY <1>1, <1>2, <1>3, <1>4, <1>5, <1>6, <1>7, <1>8 DEF Next, HelmStep

(* The status a helm has after Iterate.                                    *)
LEMMA IterateStatus ==
    ASSUME TypeOK, NEW h \in Helms, IterateBegins(h)
    PROVE  /\ status'[h] = Settled(status[h], hasControl[h])
           /\ Enabled(status'[h]) <=> Enabled(status[h])
           /\ status'[h] = "PARK" => ~hasControl[h]
<1>1. status'[h] = Settled(status[h], hasControl[h])
  BY DEF IterateBegins, TypeOK
<1>2. status[h] \in Statuses
  BY DEF TypeOK
<1> QED
  BY <1>1, <1>2, StatusType DEF Settled, Enabled

(* The second iteration in a row without a decision stops the vehicle,     *)
(* for every number of helms and whatever mail comes between the two.      *)
THEOREM GraceIsShort == Spec => GraceIsOneIteration
<1> DEFINE Short(h) ==
        /\ pc[h] = "iterate" /\ pc'[h] = "fetch"
        /\ Enabled(status'[h])
        /\ out[h].allstop = "IncompleteOrEmptyDecision"
        => out'[h].desired # "move" \/ out'[h].allstop = "clear"
<1>1. ASSUME HelmInv, [Next]_vars, NEW h \in Helms PROVE Short(h)
  <2> SUFFICES ASSUME pc[h] = "iterate", pc'[h] = "fetch", Enabled(status'[h]),
                      out[h].allstop = "IncompleteOrEmptyDecision"
               PROVE  out'[h].desired # "move" \/ out'[h].allstop = "clear"
    OBVIOUS
  <2>1. TypeOK /\ OutOK
    BY <1>1 DEF HelmInv
  <2>2. Iterate(h)
    BY <1>1, <2>1, OnlyIterate
  <2>3. out \in [Helms -> Out] /\ Counted(out[h])
    BY <2>1 DEF OutOK
  <2>4. CASE IterateIdle(h)
    BY <2>1, <2>4, IterateStatus DEF IterateIdle
  <2>5. CASE IterateParked(h)
    <3>1. PostAllStop(h, "PARK", "ManualOverride").desired = "zero"
      BY DEF PostAllStop, Enabled, NoDecision
    <3> QED
      BY <2>3, <2>5, <3>1 DEF IterateParked
  <2>6. CASE IterateDecides(h)
    BY <2>1, <2>3, <2>6, DecisionIsOK DEF IterateDecides
  <2>7. ASSUME NEW why \in NoDecision \cup {"BehaviorError"},
               IterateFails(h, why)
        PROVE  out'[h].desired # "move"
    <3>1. out'[h] = PostAllStop(h, "DRIVE", why)
      BY <2>3, <2>7 DEF IterateFails
    <3>2. CASE out[h].desired # "move"
      <4>1. why \in Reasons
        BY <2>7 DEF Reasons, NoDecision
      <4> QED
        BY <2>1, <3>1, <3>2, <4>1, PostAllStopResult DEF OutOK
    <3>3. CASE out[h].noDecisions = 1
      <4>1. why \in {"NothingToDo", "MissingDecVars", "BehaviorError"}
        BY <2>7 DEF NoDecision
      <4>2. PostAllStop(h, "DRIVE", why).desired = "zero"
        <5>1. CASE why = "BehaviorError"
          BY <5>1 DEF PostAllStop, Enabled, NoDecision
        <5>2. CASE why \in NoDecision
          <6>1. Enabled("DRIVE") /\ why # out[h].allstop /\ why # "" /\ why # "clear"
            BY <5>2 DEF Enabled, NoDecision
          <6>2. out[h].noDecisions # 0
            BY <3>3
          <6>3. 2 # 1
            OBVIOUS
          <6> QED
            BY <5>2, <6>1, <6>2, <6>3, Zenon DEF PostAllStop
        <5> QED
          BY <4>1, <5>1, <5>2 DEF NoDecision
      <4> QED
        BY <3>1, <4>2
    <3> QED
      BY <2>3, <3>2, <3>3 DEF Counted
  <2> QED
    BY <2>2, <2>4, <2>5, <2>6, <2>7 DEF Iterate
<1>2. HelmInv /\ [Next]_vars => [\A h \in Helms : Short(h)]_vars
  BY <1>1
<1> QED
  BY <1>2, HelmInvInit, HelmInvStep, PTL DEF Spec, GraceIsOneIteration

(* A helm that has iterated in PARK is not moving the vehicle, however it  *)
(* was parked and whatever it had posted before.                           *)
THEOREM ParkingStops == Spec => ParkedIsStopped
<1> DEFINE Stops(h) ==
        pc[h] = "iterate" /\ pc'[h] = "fetch" /\ status'[h] = "PARK"
            => out'[h].desired # "move"
<1>1. ASSUME HelmInv, [Next]_vars, NEW h \in Helms PROVE Stops(h)
  <2> SUFFICES ASSUME pc[h] = "iterate", pc'[h] = "fetch", status'[h] = "PARK"
               PROVE  out'[h].desired # "move"
    OBVIOUS
  <2>1. TypeOK /\ OutOK
    BY <1>1 DEF HelmInv
  <2>2. Iterate(h)
    BY <1>1, <2>1, OnlyIterate
  <2>3. IterateBegins(h)
    BY <2>2 DEF Iterate, IterateIdle, IterateParked, IterateDecides, IterateFails
  <2>4. Enabled(status[h]) /\ ~hasControl[h]
    BY <2>1, <2>3, IterateStatus DEF Enabled
  <2>5. IterateParked(h)
    BY <2>2, <2>4 DEF Iterate, IterateIdle, IterateDecides, IterateFails
  <2>6. out'[h] = PostAllStop(h, "PARK", "ManualOverride")
    BY <2>1, <2>5 DEF IterateParked, OutOK
  <2>7. CASE out[h].allstop = "ManualOverride"
    <3>1. out[h].desired = "zero"
      BY <2>1, <2>7 DEF OutOK, Honest
    <3>2. "ManualOverride" \in Reasons
      BY DEF Reasons
    <3> QED
      BY <2>1, <2>6, <3>1, <3>2, PostAllStopResult DEF OutOK
  <2>8. CASE out[h].allstop # "ManualOverride"
    BY <2>6, <2>8 DEF PostAllStop, Enabled, NoDecision
  <2> QED
    BY <2>7, <2>8
<1>2. HelmInv /\ [Next]_vars => [\A h \in Helms : Stops(h)]_vars
  BY <1>1
<1> QED
  BY <1>2, HelmInvInit, HelmInvStep, PTL DEF Spec, ParkedIsStopped

-----------------------------------------------------------------------------
(***************************************************************************)
(* What becomes of the status of a helm.                                   *)
(***************************************************************************)
\* Nothing, or it parks or drives; only an enabled helm posts an all-stop.
Keeps(h) ==
    /\ status'[h] = status[h] \/ (Enabled(status[h]) /\ Enabled(status'[h]))
    /\ ~Enabled(status[h]) => out'[h] = out[h]

\* It yields.
Yields(h) ==
    /\ h \notin StandbyHelms
    /\ status'[h] = "DISABLED"
    /\ out'[h] = PostAllStop(h, status[h], "DisabledByStandbyHelm")

\* It starts again.
Restarts(h) ==
    /\ ReadRestart(h)
    /\ status'[h] = StartUpStatus(h, TRUE, status[h])
    /\ out'[h] = out[h]

\* It takes over.
TakesOver(h) ==
    /\ status[h] = "STANDBY"
    /\ Enabled(status'[h])
    /\ out'[h] = out[h]

LEMMA StatusStep ==
    ASSUME HelmInv, [Next]_vars, NEW h \in Helms
    PROVE  Keeps(h) \/ Yields(h) \/ Restarts(h) \/ TakesOver(h)
<1>1. /\ TypeOK /\ OutOK
      /\ status[h] \in Statuses /\ status \in [Helms -> Statuses]
      /\ out \in [Helms -> Out]
  BY DEF HelmInv, TypeOK, OutOK
<1>2. CASE UNCHANGED <<status, out>>
  BY <1>2 DEF Keeps
<1>3. ASSUME NEW g \in Helms, ReadOverride(g) PROVE Keeps(h)
  <2>1. /\ out' = out
        /\ \/ status' = status
           \/ status' = [status EXCEPT
                           ![g] = Settled(@, Head(batch[g]).val = "FALSE")]
    BY <1>3 DEF ReadOverride, statusVars
  <2>2. CASE status' = status
    BY <2>1, <2>2 DEF Keeps
  <2>3. CASE status' = [status EXCEPT
                           ![g] = Settled(@, Head(batch[g]).val = "FALSE")]
    BY <1>1, <2>1, <2>3 DEF Keeps, Settled, Enabled
  <2> QED
    BY <2>1, <2>2, <2>3
<1>4. ASSUME NEW g \in Helms, ReadState(g) PROVE Keeps(h) \/ Yields(h)
  <2> DEFINE other == Head(batch[g]).from # g
             again == other /\ g \in StandbyHelms /\ status[g] # "STANDBY"
             yields == /\ other
                       /\ g \notin StandbyHelms
                       /\ Head(batch[g]).val # "STANDBY"
  <2>1. /\ out' = [out EXCEPT
                      ![g] = IF yields
                             THEN PostAllStop(g, status[g],
                                              "DisabledByStandbyHelm")
                             ELSE IF again THEN PostAllStop(g, status[g], "")
                                           ELSE @]
        /\ status' = [status EXCEPT ![g] = IF yields THEN "DISABLED" ELSE @]
    BY <1>4 DEF ReadState
  <2>2. yields => g \notin StandbyHelms
    OBVIOUS
  <2> HIDE DEF yields, again
  <2>3. CASE g # h
    BY <1>1, <2>1, <2>3 DEF Keeps
  <2>4. CASE g = h /\ yields
    BY <1>1, <2>1, <2>2, <2>4 DEF Yields
  <2>5. CASE g = h /\ ~yields
    <3>1. status'[h] = status[h]
      BY <1>1, <2>1, <2>5
    <3>2. ~Enabled(status[h]) => PostAllStop(h, status[h], "") = out[h]
      BY DEF PostAllStop
    <3> QED
      BY <1>1, <2>1, <2>5, <3>1, <3>2 DEF Keeps
  <2> QED
    BY <2>3, <2>4, <2>5
<1>5. ASSUME NEW g \in Helms, ReadRestart(g) PROVE Keeps(h) \/ Restarts(h)
  <2>1. /\ status' = [status EXCEPT ![g] = StartUpStatus(g, TRUE, @)]
        /\ out' = out
    BY <1>5 DEF ReadRestart
  <2>2. CASE g = h
    BY <1>1, <1>5, <2>1, <2>2 DEF Restarts
  <2>3. CASE g # h
    BY <1>1, <2>1, <2>3 DEF Keeps
  <2> QED
    BY <2>2, <2>3
<1>6. ASSUME NEW g \in Helms, MailRead(g) PROVE Keeps(h) \/ TakesOver(h)
  <2>1. /\ out' = out
        /\ \/ status' = [status EXCEPT ![g] = @]
           \/ /\ status[g] = "STANDBY"
              /\ status' = [status EXCEPT ![g] = Settled("PARK", hasControl[g])]
    BY <1>6 DEF MailRead
  <2>2. Enabled(Settled("PARK", hasControl[g]))
    BY DEF Settled, Enabled
  <2> QED
    BY <1>1, <2>1, <2>2 DEF Keeps, TakesOver
<1>7. ASSUME NEW g \in Helms, Iterate(g) PROVE Keeps(h)
  <2>1. IterateBegins(g)
    BY <1>7 DEF Iterate, IterateIdle, IterateParked, IterateDecides, IterateFails
  <2>2. Enabled(status[g]) <=> Enabled(status'[g])
    BY <1>1, <2>1, IterateStatus
  <2>3. /\ status' = [status EXCEPT ![g] = Settled(status[g], hasControl[g])]
        /\ ~Enabled(status[g]) => out' = out
    BY <1>7, <2>1 DEF Iterate, IterateIdle, IterateParked, IterateDecides,
                      IterateFails, IterateBegins
  <2>4. \E o : out' = [out EXCEPT ![g] = o]
    <3>1. out' = out => out' = [out EXCEPT ![g] = out[g]]
      BY <1>1
    <3> QED
      BY <1>7, <3>1 DEF Iterate, IterateIdle, IterateParked, IterateDecides,
                        IterateFails
  <2>5. CASE g # h
    BY <1>1, <2>3, <2>4, <2>5 DEF Keeps
  <2>6. CASE g = h /\ Enabled(status[h])
    BY <2>2, <2>6 DEF Keeps
  <2>7. CASE g = h /\ ~Enabled(status[h])
    BY <1>1, <2>3, <2>7 DEF Keeps, Settled
  <2> QED
    BY <2>5, <2>6, <2>7
<1>8. ASSUME NEW g \in Helms, Crash(g) \/ FetchMail(g) \/ SkipSkewed(g)
      PROVE  UNCHANGED <<status, out>>
  BY <1>8 DEF Crash, FetchMail, SkipSkewed, statusVars
<1>9. UNCHANGED vars \/ Tick \/ (\E val \in Orders : Order(val))
          => UNCHANGED <<status, out>>
  BY DEF vars, Tick, Order, statusVars
<1> QED
  BY <1>2, <1>3, <1>4, <1>5, <1>6, <1>7, <1>8, <1>9 DEF Next, HelmStep

\* Only a standby helm stands by, and no standby helm is disabled.
Roles ==
    \A h \in Helms : /\ status[h] = "STANDBY" => h \in StandbyHelms
                     /\ status[h] = "DISABLED" => h \notin StandbyHelms

LEMMA RolesInit == Init => Roles
  BY DEF Init, Roles, StartUpStatus

LEMMA RolesStep == HelmInv /\ Roles /\ [Next]_vars => Roles'
<1> SUFFICES ASSUME HelmInv, Roles, [Next]_vars, NEW h \in Helms
             PROVE  /\ status'[h] = "STANDBY" => h \in StandbyHelms
                    /\ status'[h] = "DISABLED" => h \notin StandbyHelms
  BY DEF Roles
<1>0. /\ status[h] = "STANDBY" => h \in StandbyHelms
      /\ status[h] = "DISABLED" => h \notin StandbyHelms
  BY DEF Roles
<1>1. CASE Keeps(h)
  BY <1>0, <1>1 DEF Keeps, Enabled
<1>2. CASE Yields(h)
  BY <1>2 DEF Yields
<1>3. CASE Restarts(h)
  BY <1>0, <1>3 DEF Restarts, StartUpStatus
<1>4. CASE TakesOver(h)
  BY <1>4 DEF TakesOver, Enabled
<1> QED
  BY <1>1, <1>2, <1>3, <1>4, StatusStep

\* Out of service: a primary that has yielded, or has not started properly.
OutOfService(h) ==
    h \notin StandbyHelms /\ status[h] \in {"DISABLED", "MALCONFIG"}

LEMMA StaysOutOfService ==
    ASSUME NEW h \in Helms
    PROVE  HelmInv /\ OutOfService(h) /\ [Next]_vars => OutOfService(h)'
<1> SUFFICES ASSUME HelmInv, OutOfService(h), [Next]_vars
             PROVE  status'[h] \in {"DISABLED", "MALCONFIG"}
  BY DEF OutOfService
<1>1. CASE Keeps(h)
  BY <1>1 DEF Keeps, OutOfService, Enabled
<1>2. CASE Yields(h)
  BY <1>2 DEF Yields
<1>3. CASE Restarts(h)
  BY <1>3 DEF Restarts, OutOfService, StartUpStatus
<1>4. CASE TakesOver(h)
  BY <1>4 DEF TakesOver, OutOfService
<1> QED
  BY <1>1, <1>2, <1>3, <1>4, StatusStep

(* A helm that another has disabled never drives again, not even when it   *)
(* is restarted or given control.                                          *)
THEOREM DisabledForGood == Spec => DisabledIsFinal
<1>1. ASSUME NEW h \in Helms
      PROVE  Spec => [](status[h] = "DISABLED" => []~Enabled(status[h]))
  <2>1. HelmInv /\ Roles /\ status[h] = "DISABLED" => OutOfService(h)
    BY DEF Roles, OutOfService
  <2>2. OutOfService(h) => ~Enabled(status[h])
    BY DEF OutOfService, Enabled
  <2> QED
    BY <2>1, <2>2, HelmInvInit, HelmInvStep, RolesInit, RolesStep,
       StaysOutOfService, PTL DEF Spec
<1> QED
  BY <1>1 DEF DisabledIsFinal

-----------------------------------------------------------------------------
(***************************************************************************)
(* What the operator has posted.                                           *)
(***************************************************************************)
OrderedMail == {m \in Mail : m.from = "operator" => m.val \in Orders}

Ordered ==
    /\ inbox \in [Helms -> Seq(OrderedMail)]
    /\ batch \in [Helms -> Seq(OrderedMail)]

LEMMA OrderedInit == Init => Ordered
<1>1. <<>> \in Seq(OrderedMail)
  BY EmptySeq
<1> QED
  BY <1>1 DEF Init, Ordered

LEMMA OrderedStep == HelmInv /\ Ordered /\ [Next]_vars => Ordered'
<1> SUFFICES ASSUME HelmInv, Ordered, [Next]_vars PROVE Ordered'
  OBVIOUS
<1>0. TypeOK
  BY DEF HelmInv
<1>1. CASE UNCHANGED mailVars
  BY <1>1 DEF Ordered, mailVars
<1>2. ASSUME NEW val \in Orders, Order(val) PROVE Ordered'
  <2> DEFINE m == [var |-> IF val = "RESTART" THEN "RESTART_HELM"
                                              ELSE "MOOS_MANUAL_OVERRIDE",
                   from |-> "operator", val |-> val]
  <2>1. m \in OrderedMail
    BY HelmAssumption DEF Mail, OrderedMail
  <2>2. Publish(m) /\ batch' = batch
    BY <1>2 DEF Order
  <2> HIDE DEF m
  <2> QED
    BY <2>1, <2>2, PublishType DEF Ordered
<1>3. ASSUME NEW h \in Helms, Crash(h) PROVE Ordered'
  <2>1. <<>> \in Seq(OrderedMail)
    BY EmptySeq
  <2> QED
    BY <1>3, <2>1 DEF Crash, Ordered
<1>4. ASSUME NEW h \in Helms, FetchMail(h) PROVE Ordered'
  <2>1. <<>> \in Seq(OrderedMail)
    BY EmptySeq
  <2> QED
    BY <1>4, <2>1 DEF FetchMail, Ordered
<1>5. ASSUME NEW h \in Helms, NEW var, Reads(h, var) PROVE Ordered'
  <2>1. batch[h] \in Seq(OrderedMail) /\ batch[h] # <<>>
    BY <1>5 DEF Reads, Ordered
  <2>2. Tail(batch[h]) \in Seq(OrderedMail)
    BY <2>1, HeadTailProperties
  <2> QED
    BY <1>5, <2>2 DEF Reads, Ordered
<1>6. ASSUME NEW h \in Helms, IterateBegins(h) PROVE Ordered'
  <2> DEFINE s == Settled(status[h], hasControl[h])
             m == [var |-> "IVPHELM_STATE", from |-> h, val |-> s]
  <2>1. s \in Statuses
    BY <1>0, StatusType DEF TypeOK
  <2> HIDE DEF s
  <2>2. m \in OrderedMail
    BY <2>1, HelmAssumption DEF Mail, OrderedMail
  <2> HIDE DEF m
  <2>3. (inbox' = inbox \/ Publish(m)) /\ batch' = batch
    BY <1>6 DEF IterateBegins, s, m
  <2> QED
    BY <2>2, <2>3, PublishType DEF Ordered
<1>7. ASSUME NEW h \in Helms, HelmStep(h) PROVE Ordered'
  <2>1. CASE SkipSkewed(h) \/ ReadOverride(h) \/ ReadState(h) \/ ReadRestart(h)
    BY <1>5, <2>1 DEF SkipSkewed, ReadOverride, ReadState, ReadRestart
  <2>2. CASE MailRead(h)
    BY <1>1, <2>2 DEF MailRead
  <2>3. CASE Iterate(h)
    BY <1>6, <2>3 DEF Iterate, IterateIdle, IterateParked, IterateDecides,
                      IterateFails
  <2> QED
    BY <1>4, <1>7, <2>1, <2>2, <2>3 DEF HelmStep
<1>8. UNCHANGED vars \/ Tick => UNCHANGED mailVars
  BY DEF vars, Tick
<1> QED
  BY <1>1, <1>2, <1>3, <1>7, <1>8 DEF Next

(* A helm restarts only where the operator may order it.                   *)
LEMMA RestartOrdered ==
    ASSUME Ordered, NEW h \in Helms, ReadRestart(h)
    PROVE  "RESTART" \in Orders
<1>1. /\ batch[h] \in Seq(OrderedMail) /\ batch[h] # <<>>
      /\ Head(batch[h]).var = "RESTART_HELM"
  BY DEF ReadRestart, Reads, Ordered
<1>2. Head(batch[h]) \in OrderedMail
  BY <1>1, HeadTailProperties
<1> QED
  BY <1>1, <1>2 DEF OrderedMail, Mail

-----------------------------------------------------------------------------
(***************************************************************************)
(* Starting again.  What stops a helm that runs is a behavior file in its  *)
(* own configuration, which it refuses the second time, and nothing else.  *)
(***************************************************************************)
\* A helm that was configured badly is out of it from the start.
StillBad ==
    \A h \in Misconfigured : h \in Helms /\ status[h] \in {"DISABLED", "MALCONFIG"}

LEMMA StillBadInit == Init => StillBad
  BY HelmAssumption DEF Init, StillBad, StartUpStatus, ConfigWarning

LEMMA StillBadStep == HelmInv /\ StillBad /\ [Next]_vars => StillBad'
<1> SUFFICES ASSUME HelmInv, StillBad, [Next]_vars, NEW h \in Misconfigured
             PROVE  status'[h] \in {"DISABLED", "MALCONFIG"}
  BY HelmAssumption DEF StillBad
<1>1. h \in Helms /\ status[h] \in {"DISABLED", "MALCONFIG"}
  BY DEF StillBad
<1> QED
  BY <1>1, StatusStep DEF Keeps, Yields, Restarts, TakesOver, StartUpStatus,
                          ConfigWarning, Enabled

(* A helm that runs still does so after RESTART_HELM, as OnNewMail reports *)
(* ("re-started!!"), where no helm has behavior files in its configuration *)
(* block: the finding of the run helm_restart has no other cause.          *)
THEOREM RestartsRun ==
    ASSUME BehaviorsInConfig \subseteq Misconfigured \/ "RESTART" \notin Orders
    PROVE  Spec => RestartedHelmRuns
<1> DEFINE Runs(h) == status[h] \in {"PARK", "DRIVE", "STANDBY"}
                          => status'[h] # "MALCONFIG"
<1>1. ASSUME HelmInv, Ordered, StillBad, [Next]_vars, NEW h \in Helms
      PROVE  Runs(h)
  <2> SUFFICES ASSUME status[h] \in {"PARK", "DRIVE", "STANDBY"}
               PROVE  status'[h] # "MALCONFIG"
    OBVIOUS
  <2>1. h \notin Misconfigured
    BY <1>1 DEF StillBad
  <2>2. Restarts(h) => h \notin BehaviorsInConfig
    BY <1>1, <2>1, RestartOrdered DEF Restarts
  <2> QED
    BY <1>1, <2>1, <2>2, StatusStep DEF Keeps, Yields, Restarts, TakesOver,
                                       StartUpStatus, ConfigWarning, Enabled
<1>2. HelmInv /\ Ordered /\ StillBad /\ [Next]_vars
          => [\A h \in Helms : Runs(h)]_vars
  BY <1>1
<1> QED
  BY <1>2, HelmInvInit, HelmInvStep, OrderedInit, OrderedStep, StillBadInit,
     StillBadStep, PTL DEF Spec, RestartedHelmRuns

-----------------------------------------------------------------------------
(***************************************************************************)
(* Being disabled.  Where a restart finds nothing wrong with a primary, it *)
(* leaves service only by yielding, which stops the vehicle.               *)
(***************************************************************************)
\* No restart takes a driving primary out of service.
RestartsWell ==
    \/ BehaviorsInConfig \subseteq StandbyHelms \cup Misconfigured
    \/ "RESTART" \notin Orders

Halted ==
    \A h \in Helms :
        /\ status[h] = "MALCONFIG" => h \in StandbyHelms \cup Misconfigured
        /\ OutOfService(h) => out[h].desired # "move"

LEMMA HaltedInit == Init => Halted
<1> SUFFICES ASSUME Init, NEW h \in Helms
             PROVE  /\ status[h] = "MALCONFIG" => h \in Misconfigured
                    /\ out[h].desired # "move"
  BY DEF Halted
<1>1. status[h] = StartUpStatus(h, FALSE, "PARK") /\ out[h].desired = "none"
  BY DEF Init
<1> QED
  BY <1>1 DEF StartUpStatus, ConfigWarning

LEMMA HaltedStep ==
    ASSUME RestartsWell
    PROVE  HelmInv /\ Roles /\ Ordered /\ StillBad /\ Halted /\ [Next]_vars
               => Halted'
<1> SUFFICES ASSUME HelmInv, Roles, Ordered, StillBad, Halted, [Next]_vars,
                    NEW h \in Helms
             PROVE  /\ status'[h] = "MALCONFIG"
                           => h \in StandbyHelms \cup Misconfigured
                    /\ OutOfService(h)' => out'[h].desired # "move"
  BY DEF Halted
<1>1. /\ h \in Misconfigured => status[h] \in {"DISABLED", "MALCONFIG"}
      /\ status[h] = "MALCONFIG" => h \in StandbyHelms \cup Misconfigured
      /\ OutOfService(h) => out[h].desired # "move"
      /\ status[h] = "STANDBY" => h \in StandbyHelms
      /\ status[h] \in Statuses
  BY DEF Halted, Roles, StillBad, HelmInv, TypeOK
<1>2. CASE Keeps(h)
  BY <1>1, <1>2 DEF Keeps, OutOfService, Enabled
<1>3. CASE Yields(h)
  <2>1. CASE Enabled(status[h])
    <3>1. PostAllStop(h, status[h], "DisabledByStandbyHelm").desired = "zero"
      <4>1. CASE out[h].allstop = "DisabledByStandbyHelm"
        <5>1. out[h].desired = "zero"
          BY <4>1 DEF HelmInv, OutOK, Honest
        <5> QED
          BY <4>1, <5>1 DEF PostAllStop
      <4>2. CASE out[h].allstop # "DisabledByStandbyHelm"
        BY <2>1, <4>2 DEF PostAllStop, NoDecision
      <4> QED
        BY <4>1, <4>2
    <3>2. status'[h] = "DISABLED" /\ out'[h].desired # "move"
      BY <1>3, <3>1 DEF Yields
    <3> QED
      BY <3>2
  <2>2. CASE ~Enabled(status[h])
    <3>1. out'[h] = out[h] /\ status'[h] = "DISABLED" /\ h \notin StandbyHelms
      BY <1>3, <2>2 DEF Yields, PostAllStop
    <3>2. OutOfService(h)
      BY <1>1, <2>2, <3>1 DEF OutOfService, Enabled, Statuses
    <3> QED
      BY <1>1, <3>1, <3>2
  <2> QED
    BY <2>1, <2>2
<1>4. CASE Restarts(h)
  <2>1. h \notin BehaviorsInConfig \/ h \in StandbyHelms \cup Misconfigured
    BY <1>4, RestartOrdered DEF Restarts, RestartsWell
  <2> QED
    BY <1>1, <1>4, <2>1 DEF Restarts, StartUpStatus, ConfigWarning,
                            OutOfService
<1>5. CASE TakesOver(h)
  BY <1>1, <1>5 DEF TakesOver, Enabled, OutOfService
<1> QED
  BY <1>2, <1>3, <1>4, <1>5, StatusStep

(* A helm that another has disabled is not moving the vehicle, provided    *)
(* that no restart takes a primary out of service while it drives.         *)
THEOREM DisabledStops ==
    ASSUME RestartsWell
    PROVE  Spec => []DisabledIsStopped
<1>1. Roles /\ Halted => DisabledIsStopped
  BY DEF Roles, Halted, OutOfService, DisabledIsStopped
<1> QED
  BY <1>1, HelmInvInit, HelmInvStep, RolesInit, RolesStep, OrderedInit,
     OrderedStep, StillBadInit, StillBadStep, HaltedInit, HaltedStep,
     PTL DEF Spec
=============================================================================
