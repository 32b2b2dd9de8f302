------------------------- MODULE HelmTakeoverProofs -------------------------
(***************************************************************************)
(* When a standby helm does not take over: with one primary that keeps     *)
(* time, whatever the threshold of the standby helms, their number and the *)
(* interleaving of all helms' reading, iterating and the clock.  When it   *)
(* does, left alone; and why the primary yields if both come to drive.     *)
(***************************************************************************)
EXTENDS HelmProofs

-----------------------------------------------------------------------------
(***************************************************************************)
(* A queue of ROS that makes room.                                         *)
(***************************************************************************)
\* Place i of a box has become place n of r: what comes after it still does.
Moved(box, i, r, n) ==
    /\ r[n] = box[i]
    /\ \A k \in DOMAIN r :
           k > n => \E j \in DOMAIN box : j > i /\ r[k] = box[j]

(* What is in the box afterwards was there before, at most the first       *)
(* message of the variable is gone, and the others keep their order.       *)
LEMMA MadeRoomKeeps ==
    ASSUME NEW v, NEW box \in Seq(Mail)
    PROVE  LET r == MadeRoom(v, box) IN
           /\ \A n \in DOMAIN r : \E i \in DOMAIN box : r[n] = box[i]
           /\ \A i \in DOMAIN box :
                  \/ \E n \in DOMAIN r : Moved(box, i, r, n)
                  \/ /\ box[i].var = v
                     /\ Cardinality(Of(v, box)) >= QueueSize
                     /\ \A j \in Of(v, box) : i <= j
<1> DEFINE r == MadeRoom(v, box)
           past(n) == \E i \in 1..n : i \in Of(v, box)
           cut == [n \in 1..Len(box) - 1 |-> IF past(n) THEN box[n + 1]
                                                        ELSE box[n]]
<1>0. Len(box) \in Nat /\ DOMAIN box = 1..Len(box)
  OBVIOUS
<1>1. CASE Cardinality(Of(v, box)) < QueueSize
  <2>1. r = box
    BY <1>1 DEF MadeRoom
  <2>2. \A i \in DOMAIN box : Moved(box, i, box, i)
    BY DEF Moved
  <2> QED
    BY <2>1, <2>2
<1>2. CASE ~(Cardinality(Of(v, box)) < QueueSize)
  <2>1. r = cut
    BY <1>2 DEF MadeRoom
  <2>2. DOMAIN cut = 1..Len(box) - 1
    OBVIOUS
  <2>3. ASSUME NEW n \in DOMAIN cut PROVE \E i \in DOMAIN box : cut[n] = box[i]
    <3>1. n \in DOMAIN box /\ n + 1 \in DOMAIN box
      BY <1>0, <2>2, <2>3
    <3>2. cut[n] = IF past(n) THEN box[n + 1] ELSE box[n]
      BY <2>2, <2>3
    <3> HIDE DEF cut, past
    <3> QED
      BY <3>1, <3>2
  <2>4. Cardinality(Of(v, box)) >= QueueSize
    <3>1. IsFiniteSet(Of(v, box))
      <4>1. Of(v, box) \subseteq 1..Len(box)
        BY <1>0 DEF Of
      <4> QED
        <5>1. IsFiniteSet(1..Len(box))
          BY <1>0, FS_Interval
        <5> QED
          BY <4>1, <5>1, FS_Subset
    <3> QED
      BY <1>2, <3>1, FS_CardinalityType, HelmAssumption
  <2>5. ASSUME NEW i \in DOMAIN box
        PROVE  \/ \E n \in DOMAIN cut : Moved(box, i, cut, n)
               \/ box[i].var = v /\ \A j \in Of(v, box) : i <= j
    <3>1. CASE \E j \in Of(v, box) : j < i
      <4>1. PICK j \in Of(v, box) : j < i
        BY <3>1
      <4>2. j \in 1..Len(box)
        BY <1>0 DEF Of
      <4>3. i - 1 \in 1..Len(box) - 1 /\ j \in 1..(i - 1) /\ (i - 1) + 1 = i
        BY <1>0, <4>1, <4>2
      <4>4. cut[i - 1] = box[i]
        BY <4>1, <4>3
      <4>5. ASSUME NEW k \in DOMAIN cut, k > i - 1
            PROVE  k + 1 \in DOMAIN box /\ k + 1 > i /\ cut[k] = box[k + 1]
        <5>1. k + 1 \in DOMAIN box /\ k + 1 > i /\ j \in 1..k
          BY <1>0, <2>2, <4>3, <4>5
        <5>2. past(k)
          BY <5>1
        <5> QED
          BY <2>2, <4>5, <5>1, <5>2
      <4> HIDE DEF cut
      <4>6. Moved(box, i, cut, i - 1)
        BY <4>4, <4>5 DEF Moved
      <4> QED
        BY <2>2, <4>3, <4>6
    <3>2. CASE ~(\E j \in Of(v, box) : j < i) /\ i \in Of(v, box)
      <4>1. \A j \in Of(v, box) : j \in Int /\ i \in Int
        BY <1>0 DEF Of
      <4> QED
        BY <3>2, <4>1 DEF Of
    <3>3. CASE ~(\E j \in Of(v, box) : j < i) /\ i \notin Of(v, box)
      <4>1. ~past(i)
        <5>1. ASSUME NEW k \in 1..i, k \in Of(v, box) PROVE FALSE
          BY <1>0, <3>3, <5>1
        <5> QED
          BY <5>1
      <4>2. i < Len(box)
        <5>1. Of(v, box) # {}
          <6>1. Cardinality(Of(v, box)) # 0
            BY <2>4, HelmAssumption
          <6> QED
            BY <6>1, FS_EmptySet
        <5>2. PICK j \in Of(v, box) : TRUE
          BY <5>1
        <5>3. j \in 1..Len(box)
          BY <1>0 DEF Of
        <5> QED
          BY <1>0, <3>3, <5>2, <5>3
      <4>3. i \in 1..Len(box) - 1
        BY <1>0, <4>2
      <4>4. cut[i] = box[i]
        BY <4>1, <4>3
      <4>5. ASSUME NEW k \in DOMAIN cut, k > i
            PROVE  \E j \in DOMAIN box : j > i /\ cut[k] = box[j]
        <5>1. /\ k \in DOMAIN box /\ k + 1 \in DOMAIN box /\ k + 1 > i
              /\ cut[k] = IF past(k) THEN box[k + 1] ELSE box[k]
          BY <1>0, <2>2, <4>3, <4>5
        <5> HIDE DEF cut, past
        <5> QED
          BY <4>5, <5>1
      <4> HIDE DEF cut
      <4>6. Moved(box, i, cut, i)
        BY <4>4, <4>5 DEF Moved
      <4> QED
        BY <2>2, <4>3, <4>6
    <3> QED
      BY <3>1, <3>2, <3>3
  <2> HIDE DEF cut
  <2> QED
    BY <2>1, <2>3, <2>4, <2>5
<1> QED
  BY <1>1, <1>2

-----------------------------------------------------------------------------
(***************************************************************************)
(* The invariant.                                                          *)
(***************************************************************************)
\* What a standby helm needs in order not to take over needlessly.  With a
\* threshold of 0 the time between two heartbeats is too long for it; in a
\* queue of one message its own status takes the place of the primary's.
WellPlanned ==
    /\ \A g, h \in Helms \ StandbyHelms : g = h
    /\ StandbyHelms \cap Misconfigured = {}
    /\ StandbyHelms \cap BehaviorsInConfig = {} \/ "RESTART" \notin Orders
    /\ SkewPossible = FALSE
    /\ Threshold >= 1
    /\ QueueSize >= 2

\* The primary runs, and no helm has missed a tick of the clock.
Timely == ~late /\ running \ StandbyHelms # {}

Standing ==
    /\ \A h \in StandbyHelms : status[h] = "STANDBY"
    /\ \A h \in Helms \ StandbyHelms : status[h] # "DISABLED"

\* Nothing a standby helm has said makes the primary yield.
Harmless(box) ==
    \A n \in DOMAIN box : box[n].from \in StandbyHelms => box[n].val = "STANDBY"

Saying == \A h \in Helms : Harmless(inbox[h]) /\ Harmless(batch[h])

\* Is there a heartbeat for h in the box?  Its own status?
Beat(h, m) == m.var = "IVPHELM_STATE" /\ m.from # h
BeatIn(h, box) == \E n \in DOMAIN box : Beat(h, box[n])
OwnIn(h, box) ==
    \E n \in DOMAIN box : box[n].var = "IVPHELM_STATE" /\ box[n].from = h

\* A helm finds its own status in its mail once at most, and before it
\* posts the next.
InHand(h) ==
    /\ pc[h] # "reading" => batch[h] = <<>>
    /\ pc[h] \in {"reading", "iterate"} => ~OwnIn(h, inbox[h])

\* What a standby helm has not read cannot be older than two ticks: the
\* primary has posted its status between them.
Prompt(h) ==
    heard[h] /\ ~BeatIn(h, batch[h]) =>
        /\ pc[h] = "reading" => age[h] <= 1
        /\ ~BeatIn(h, inbox[h]) =>
               \/ age[h] = 0
               \/ age[h] = 1 /\ (running \ StandbyHelms) \cap cycled = {}

Attentive ==
    \A h \in StandbyHelms :
        IF h \in running THEN InHand(h) /\ Prompt(h) ELSE pc[h] = "dead"

Kept == Standing /\ Saying /\ Attentive

TakeoverInv == Timely => Kept

LEMMA TakeoverInit == WellPlanned /\ Init => TakeoverInv
<1> SUFFICES ASSUME WellPlanned, Init PROVE Kept
  BY DEF TakeoverInv
<1>1. Standing
  <2>1. \A h \in Helms : status[h] = StartUpStatus(h, FALSE, "PARK")
    BY DEF Init
  <2> QED
    BY <2>1, HelmAssumption
       DEF WellPlanned, Standing, StartUpStatus, ConfigWarning
<1>2. /\ \A h \in Helms : /\ inbox[h] = <<>> /\ batch[h] = <<>>
                          /\ ~heard[h] /\ pc[h] = "fetch"
      /\ running = Helms
  BY DEF Init
<1> QED
  BY <1>1, <1>2, HelmAssumption
     DEF Kept, Saying, Harmless, Attentive, InHand, Prompt

-----------------------------------------------------------------------------
(***************************************************************************)
(* Mail that is published.                                                 *)
(***************************************************************************)
LEMMA PublishedSaying ==
    ASSUME TypeOK, Saying, NEW m \in Mail, Publish(m), UNCHANGED batch,
           m.from \in StandbyHelms => m.val = "STANDBY"
    PROVE  Saying'
<1> SUFFICES ASSUME NEW h \in Helms PROVE Harmless(inbox'[h])
  BY DEF Saying
<1> DEFINE r == MadeRoom(m.var, inbox[h])
<1>1. /\ inbox'[h] \in {inbox[h], Append(r, m)}
      /\ inbox[h] \in Seq(Mail) /\ Harmless(inbox[h])
  BY DEF Publish, TypeOK, Saying
<1>2. /\ r \in Seq(Mail)
      /\ \A n \in DOMAIN r : \E i \in DOMAIN inbox[h] : r[n] = inbox[h][i]
  BY <1>1, MadeRoomType, MadeRoomKeeps
<1> HIDE DEF r
<1>3. Harmless(r)
  BY <1>1, <1>2 DEF Harmless
<1>4. Harmless(Append(r, m))
  <2>1. \A n \in DOMAIN Append(r, m) :
            Append(r, m)[n] = m \/ (n \in DOMAIN r /\ Append(r, m)[n] = r[n])
    BY <1>2
  <2> QED
    BY <1>3, <2>1 DEF Harmless
<1> QED
  BY <1>1, <1>4

LEMMA PublishedHere ==
    ASSUME WellPlanned, TypeOK, NEW m \in Mail, Publish(m),
           NEW h \in running \cap StandbyHelms
    PROVE  /\ Beat(h, m) => BeatIn(h, inbox'[h])
           /\ m.var # "IVPHELM_STATE" \/ ~OwnIn(h, inbox[h])
                 => (BeatIn(h, inbox[h]) => BeatIn(h, inbox'[h]))
           /\ m.var # "IVPHELM_STATE" \/ m.from # h
                 => (OwnIn(h, inbox'[h]) => OwnIn(h, inbox[h]))
<1> DEFINE box == inbox[h]
           r == MadeRoom(m.var, box)
<1>1. inbox'[h] = Append(r, m) /\ box \in Seq(Mail)
  BY HelmAssumption DEF Publish, Listening, WellPlanned, TypeOK
<1>2. /\ r \in Seq(Mail)
      /\ \A n \in DOMAIN r : \E i \in DOMAIN box : r[n] = box[i]
      /\ \A i \in DOMAIN box :
             \/ \E n \in DOMAIN r : r[n] = box[i]
             \/ /\ box[i].var = m.var
                /\ Cardinality(Of(m.var, box)) >= QueueSize
                /\ \A j \in Of(m.var, box) : i <= j
  BY <1>1, MadeRoomType, MadeRoomKeeps DEF Moved
<1> HIDE DEF r, box
<1>3. /\ \A n \in DOMAIN inbox'[h] :
             inbox'[h][n] = m \/ (n \in DOMAIN r /\ inbox'[h][n] = r[n])
      /\ \A n \in DOMAIN r : n \in DOMAIN inbox'[h] /\ inbox'[h][n] = r[n]
      /\ \E n \in DOMAIN inbox'[h] : inbox'[h][n] = m
  <2>1. /\ \A n \in 1..Len(r) : Append(r, m)[n] = r[n]
        /\ Append(r, m)[Len(r) + 1] = m
        /\ DOMAIN Append(r, m) = 1..Len(r) + 1 /\ DOMAIN r = 1..Len(r)
        /\ Len(r) \in Nat
    BY <1>2
  <2> QED
    BY <1>1, <2>1
<1>4. Beat(h, m) => BeatIn(h, inbox'[h])
  BY <1>3 DEF BeatIn
<1>5. ASSUME m.var # "IVPHELM_STATE" \/ ~OwnIn(h, box), BeatIn(h, box)
      PROVE  BeatIn(h, inbox'[h])
  <2>1. SUFFICES \E n \in DOMAIN r : Beat(h, r[n])
    BY <1>3 DEF BeatIn
  <2>2. PICK i \in DOMAIN box : Beat(h, box[i])
    BY <1>5 DEF BeatIn
  <2>3. CASE \E n \in DOMAIN r : r[n] = box[i]
    BY <2>2, <2>3
  <2>4. CASE /\ box[i].var = m.var
             /\ Cardinality(Of(m.var, box)) >= QueueSize
             /\ \A j \in Of(m.var, box) : i <= j
    <3>1. m.var = "IVPHELM_STATE" /\ ~OwnIn(h, box) /\ i \in Of(m.var, box)
      BY <1>5, <2>2, <2>4 DEF Beat, Of
    <3>2. Of(m.var, box) # {i}
      <4>1. Cardinality(Of(m.var, box)) # 1
        BY <2>4, HelmAssumption DEF WellPlanned
      <4> QED
        BY <4>1, FS_Singleton
    <3>3. PICK j \in Of(m.var, box) : j # i
      BY <3>1, <3>2
    <3>4. j \in DOMAIN box /\ Beat(h, box[j])
      BY <3>1, <3>3 DEF Of, Beat, OwnIn
    <3>5. ~(j <= i)
      <4>1. i \in Int /\ j \in Int /\ i <= j
        BY <1>1, <2>4, <3>3, <3>4
      <4> QED
        BY <3>3, <4>1
    <3>6. \E n \in DOMAIN r : r[n] = box[j]
      BY <1>2, <3>1, <3>4, <3>5
    <3> QED
      BY <3>4, <3>6
  <2> QED
    BY <1>2, <2>3, <2>4
<1>6. ASSUME m.var # "IVPHELM_STATE" \/ m.from # h, OwnIn(h, inbox'[h])
      PROVE  OwnIn(h, box)
  BY <1>2, <1>3, <1>6 DEF OwnIn
<1> QED
  BY <1>4, <1>5, <1>6 DEF box

-----------------------------------------------------------------------------
(***************************************************************************)
(* The steps: one lemma for those that read a message, one for those that  *)
(* publish one.                                                            *)
(***************************************************************************)
LEMMA Reading ==
    ASSUME TypeOK, Saying, Attentive, NEW g \in Helms, NEW v, Reads(g, v),
           \/ UNCHANGED beatVars /\ ~Beat(g, Head(batch[g]))
           \/ UNCHANGED beatVars /\ g \notin StandbyHelms
           \/ /\ heard' = [heard EXCEPT ![g] = TRUE]
              /\ age' = [age EXCEPT ![g] = 0]
    PROVE  Saying' /\ Attentive'
<1>1. /\ batch[g] \in Seq(Mail) /\ batch[g] # <<>>
      /\ batch' = [batch EXCEPT ![g] = Tail(@)]
      /\ UNCHANGED <<pc, inbox, running, cycled>>
      /\ batch \in [Helms -> Seq(Mail)] /\ age \in [Helms -> 0..Threshold + 1]
      /\ heard \in [Helms -> BOOLEAN]
  BY DEF Reads, worldVars, TypeOK
<1>2. /\ \A n \in DOMAIN Tail(batch[g]) : /\ n + 1 \in DOMAIN batch[g]
                                          /\ Tail(batch[g])[n] = batch[g][n + 1]
      /\ \A n \in DOMAIN batch[g] :
             n = 1 \/ (n - 1 \in DOMAIN Tail(batch[g])
                       /\ Tail(batch[g])[n - 1] = batch[g][n])
      /\ Head(batch[g]) = batch[g][1]
  BY <1>1
<1>3. Saying'
  <2>1. SUFFICES ASSUME NEW h \in Helms
                 PROVE  Harmless(inbox'[h]) /\ Harmless(batch'[h])
    BY DEF Saying
  <2>2. Harmless(inbox[h]) /\ Harmless(batch[h])
    BY DEF Saying
  <2>3. CASE h # g
    BY <1>1, <2>2, <2>3
  <2>4. CASE h = g
    <3>1. Harmless(Tail(batch[g]))
      BY <1>2, <2>2, <2>4 DEF Harmless
    <3> QED
      BY <1>1, <2>2, <2>4, <3>1
  <2> QED
    BY <2>3, <2>4
<1>4. Attentive'
  <2>1. SUFFICES ASSUME NEW h \in StandbyHelms
                 PROVE  IF h \in running' THEN InHand(h)' /\ Prompt(h)'
                                          ELSE pc'[h] = "dead"
    BY DEF Attentive
  <2>2. IF h \in running THEN InHand(h) /\ Prompt(h) ELSE pc[h] = "dead"
    BY DEF Attentive
  <2>3. h \in Helms
    BY HelmAssumption
  <2>4. CASE h \notin running
    BY <1>1, <2>2, <2>4
  <2>5. CASE h \in running /\ h # g
    <3>1. batch'[h] = batch[h] /\ heard'[h] = heard[h] /\ age'[h] = age[h]
      BY <1>1, <2>3, <2>5 DEF beatVars
    <3> QED
      BY <1>1, <2>2, <2>5, <3>1 DEF InHand, Prompt
  <2>6. CASE h \in running /\ h = g
    <3>1. InHand(h)'
      BY <1>1, <2>2, <2>6 DEF InHand, Reads
    <3>2. CASE UNCHANGED beatVars /\ ~Beat(g, Head(batch[g]))
      <4>1. BeatIn(h, batch[h]) => BeatIn(h, batch'[h])
        BY <1>1, <1>2, <2>6, <3>2 DEF BeatIn
      <4> QED
        BY <1>1, <2>2, <2>6, <3>1, <3>2, <4>1 DEF Prompt, beatVars
    <3>3. CASE age' = [age EXCEPT ![g] = 0]
      <4>1. age'[h] = 0
        BY <1>1, <2>3, <2>6, <3>3
      <4> QED
        BY <2>6, <1>1, <3>1, <4>1 DEF Prompt
    <3> QED
      BY <2>1, <2>6, <3>2, <3>3
  <2> QED
    BY <2>4, <2>5, <2>6
<1> QED
  BY <1>3, <1>4

LEMMA Publishing ==
    ASSUME WellPlanned, TypeOK, Timely, Saying, Attentive, NEW g \in Helms,
           pc[g] = "iterate", pc' = [pc EXCEPT ![g] = "fetch"],
           cycled' = cycled \cup {g}, UNCHANGED <<beatVars, batch, running>>,
           NEW s \in Statuses, g \in StandbyHelms => s = "STANDBY",
           Publish([var |-> "IVPHELM_STATE", from |-> g, val |-> s])
    PROVE  Saying' /\ Attentive'
<1> DEFINE m == [var |-> "IVPHELM_STATE", from |-> g, val |-> s]
<1>1. m \in Mail /\ m.var = "IVPHELM_STATE" /\ m.from = g /\ m.val = s
  BY DEF Mail
<1> HIDE DEF m
<1>2. Publish(m)
  BY DEF m
<1>3. Saying'
  BY <1>1, <1>2, PublishedSaying
<1>4. Attentive'
  <2>1. SUFFICES ASSUME NEW h \in StandbyHelms
                 PROVE  IF h \in running' THEN InHand(h)' /\ Prompt(h)'
                                          ELSE pc'[h] = "dead"
    BY DEF Attentive
  <2>2. IF h \in running THEN InHand(h) /\ Prompt(h) ELSE pc[h] = "dead"
    BY DEF Attentive
  <2>3. h \in Helms /\ pc \in [Helms -> {"fetch", "reading", "iterate", "dead"}]
    BY HelmAssumption DEF TypeOK
  <2>4. CASE h \notin running
    BY <2>2, <2>3, <2>4
  <2>5. CASE h \in running
    <3>1. InHand(h) /\ Prompt(h)
      BY <2>2, <2>5
    <3>2. h = g => ~OwnIn(h, inbox[h])
      BY <3>1 DEF InHand
    <3>3. /\ h # g => BeatIn(h, inbox'[h])
          /\ BeatIn(h, inbox[h]) /\ h = g => BeatIn(h, inbox'[h])
          /\ h # g => (OwnIn(h, inbox'[h]) => OwnIn(h, inbox[h]))
      BY <1>1, <1>2, <2>5, <3>2, PublishedHere DEF Beat
    <3>4. InHand(h)'
      BY <2>3, <3>1, <3>3 DEF InHand
    <3>5. Prompt(h)'
      <4>1. CASE h # g
        BY <2>3, <3>1, <3>3, <4>1 DEF Prompt, beatVars
      <4>2. CASE h = g
        <5>1. /\ pc'[h] = "fetch"
              /\ (running' \ StandbyHelms) \cap cycled'
                     = (running \ StandbyHelms) \cap cycled
          BY <2>3, <4>2
        <5> QED
          BY <3>1, <3>3, <4>2, <5>1 DEF Prompt, beatVars
      <4> QED
        BY <4>1, <4>2
    <3> QED
      BY <2>5, <3>4, <3>5
  <2> QED
    BY <2>4, <2>5
<1> QED
  BY <1>3, <1>4

LEMMA TakeoverStep ==
    ASSUME WellPlanned, HelmInv, Ordered, TakeoverInv, [Next]_vars
    PROVE  TakeoverInv'
<1> SUFFICES ASSUME Timely' PROVE Kept'
  BY DEF TakeoverInv
<1>0. TypeOK /\ late \in BOOLEAN /\ late' \in BOOLEAN
  BY HelmInvStep DEF HelmInv, TypeOK
<1>1. Timely
  <2>1. running' \subseteq running /\ (late => late')
    <3>1. ASSUME UNCHANGED vars \/ \E val \in Orders : Order(val)
          PROVE  UNCHANGED <<running, late>>
      BY <3>1 DEF vars, worldVars, Order
    <3>2. ASSUME Tick PROVE running' = running /\ (late => late')
      BY <3>2 DEF Tick
    <3>3. ASSUME NEW g \in Helms, Crash(g)
          PROVE  running' \subseteq running /\ late' = late
      BY <3>3 DEF Crash
    <3>4. ASSUME NEW g \in Helms,
                 \/ FetchMail(g) \/ SkipSkewed(g) \/ ReadOverride(g)
                 \/ ReadState(g) \/ ReadRestart(g) \/ MailRead(g)
          PROVE  UNCHANGED <<running, late>>
      BY <3>4 DEF FetchMail, SkipSkewed, ReadOverride, ReadState, ReadRestart,
                  MailRead, Reads, worldVars
    <3>5. ASSUME NEW g \in Helms, Iterate(g) PROVE UNCHANGED <<running, late>>
      BY <3>5 DEF Iterate, IterateIdle, IterateParked, IterateDecides,
                  IterateFails, IterateBegins
    <3> QED
      BY <3>1, <3>2, <3>3, <3>4, <3>5 DEF Next, HelmStep
  <2> QED
    BY <1>0, <2>1 DEF Timely
<1>2. /\ Standing /\ Saying /\ Attentive
      /\ \A h \in StandbyHelms :
             IF h \in running THEN InHand(h) /\ Prompt(h) ELSE pc[h] = "dead"
      /\ StandbyHelms \subseteq Helms
  BY <1>1, HelmAssumption DEF TakeoverInv, Kept, Attentive
<1>3. /\ status \in [Helms -> Statuses]
      /\ pc \in [Helms -> {"fetch", "reading", "iterate", "dead"}]
      /\ batch \in [Helms -> Seq(Mail)] /\ inbox \in [Helms -> Seq(Mail)]
      /\ age \in [Helms -> 0..Threshold + 1] /\ heard \in [Helms -> BOOLEAN]
  BY <1>0 DEF TypeOK
\* There is no helm but the standby helms and the primary, which runs.
<1>4. \A h \in Helms \ StandbyHelms : h \in running
  BY <1>0, <1>1 DEF WellPlanned, Timely, TypeOK
<1>5. CASE UNCHANGED vars
  BY <1>2, <1>5 DEF vars, statusVars, beatVars, mailVars, worldVars, Kept,
     Standing, Saying, Attentive, InHand, Prompt
<1>6. CASE Tick
  <2>1. /\ UNCHANGED <<status, heard, pc, inbox, batch, running>>
        /\ cycled' = {} /\ running \subseteq cycled
        /\ \A h \in running : pc[h] # "reading"
        /\ \A h \in Helms : age'[h] \in {age[h], age[h] + 1}
    BY <1>0, <1>6 DEF Tick, statusVars, mailVars, Timely
  <2>2. \A h \in StandbyHelms \cap running :
            heard[h] /\ ~BeatIn(h, batch[h]) /\ ~BeatIn(h, inbox[h])
                => age[h] = 0
    BY <1>1, <1>2, <2>1 DEF Prompt, Timely
  <2>3. Attentive'
    <3>1. SUFFICES ASSUME NEW h \in StandbyHelms, h \in running
                   PROVE  InHand(h)' /\ Prompt(h)'
      BY <1>2, <2>1 DEF Attentive
    <3>2. InHand(h)'
      BY <1>2, <2>1, <3>1 DEF InHand
    <3> QED
      BY <1>2, <2>1, <2>2, <3>1, <3>2 DEF Prompt
  <2> QED
    BY <1>2, <2>1, <2>3 DEF Kept, Standing, Saying
<1>7. ASSUME NEW val \in Orders, Order(val) PROVE Kept'
  <2> DEFINE m == [var |-> IF val = "RESTART" THEN "RESTART_HELM"
                                              ELSE "MOOS_MANUAL_OVERRIDE",
                   from |-> "operator", val |-> val]
  <2>1. /\ m \in Mail /\ m.var # "IVPHELM_STATE" /\ m.from \notin StandbyHelms
    BY HelmAssumption DEF Mail
  <2>2. /\ Publish(m)
        /\ UNCHANGED <<status, heard, age, pc, batch, running, cycled>>
    BY <1>7 DEF Order, statusVars, beatVars
  <2> HIDE DEF m
  <2>3. Saying'
    BY <1>0, <1>2, <2>1, <2>2, PublishedSaying
  <2>4. Attentive'
    <3>1. SUFFICES ASSUME NEW h \in StandbyHelms, h \in running
                   PROVE  InHand(h)' /\ Prompt(h)'
      BY <1>2, <2>2 DEF Attentive
    <3>2. /\ BeatIn(h, inbox[h]) => BeatIn(h, inbox'[h])
          /\ OwnIn(h, inbox'[h]) => OwnIn(h, inbox[h])
      BY <1>0, <2>1, <2>2, <3>1, PublishedHere
    <3>3. InHand(h)'
      BY <1>2, <2>2, <3>1, <3>2 DEF InHand
    <3> QED
      BY <1>2, <2>2, <3>1, <3>2, <3>3 DEF Prompt
  <2> QED
    BY <1>2, <2>2, <2>3, <2>4 DEF Kept, Standing
<1>8. ASSUME NEW g \in Helms, Crash(g) PROVE Kept'
  <2>1. /\ UNCHANGED <<status, heard, age, cycled>>
        /\ running' = running \ {g} /\ pc' = [pc EXCEPT ![g] = "dead"]
        /\ inbox' = [inbox EXCEPT ![g] = <<>>]
        /\ batch' = [batch EXCEPT ![g] = <<>>]
    BY <1>8 DEF Crash, statusVars, beatVars
  <2>2. Saying'
    BY <1>2, <1>3, <2>1 DEF Saying, Harmless
  <2>3. Attentive'
    <3>1. SUFFICES ASSUME NEW h \in StandbyHelms
                   PROVE  IF h \in running' THEN InHand(h)' /\ Prompt(h)'
                                            ELSE pc'[h] = "dead"
      BY DEF Attentive
    <3>2. CASE h = g
      BY <1>2, <1>3, <2>1, <3>2
    <3>3. CASE h # g
      <4>1. (running \ StandbyHelms) \cap cycled = {}
              => (running' \ StandbyHelms) \cap cycled' = {}
        BY <2>1
      <4>2. /\ pc'[h] = pc[h] /\ batch'[h] = batch[h] /\ inbox'[h] = inbox[h]
            /\ heard'[h] = heard[h] /\ age'[h] = age[h]
            /\ h \in running' <=> h \in running
        BY <1>2, <1>3, <2>1, <3>3
      <4> QED
        BY <1>2, <4>1, <4>2 DEF InHand, Prompt
    <3> QED
      BY <3>2, <3>3
  <2> QED
    BY <1>2, <2>1, <2>2, <2>3 DEF Kept, Standing
<1>9. ASSUME NEW g \in Helms, FetchMail(g) PROVE Kept'
  <2> DEFINE reads == inbox[g] # <<>> /\ status[g] # "DISABLED"
  <2>1. /\ UNCHANGED <<status, heard, age, cycled, running>>
        /\ pc[g] = "fetch"
        /\ pc' = [pc EXCEPT ![g] = IF reads THEN "reading" ELSE "iterate"]
        /\ batch' = [batch EXCEPT ![g] = IF reads THEN inbox[g] ELSE <<>>]
        /\ inbox' = [inbox EXCEPT ![g] = <<>>]
    BY <1>9 DEF FetchMail, statusVars, beatVars, worldVars
  <2> HIDE DEF reads
  <2>2. Saying'
    BY <1>2, <1>3, <2>1 DEF Saying, Harmless
  <2>3. Attentive'
    <3>1. SUFFICES ASSUME NEW h \in StandbyHelms
                   PROVE  IF h \in running' THEN InHand(h)' /\ Prompt(h)'
                                            ELSE pc'[h] = "dead"
      BY DEF Attentive
    <3>2. CASE h # g
      BY <1>2, <1>3, <2>1, <3>2 DEF InHand, Prompt
    <3>3. CASE h = g
      <4>1. h \in running /\ InHand(h) /\ Prompt(h) /\ h \in Helms
        BY <1>2, <2>1, <3>3
      <4>2. inbox'[h] = <<>> /\ ~BeatIn(h, batch[h])
        BY <1>2, <1>3, <2>1, <3>3, <4>1 DEF InHand, BeatIn
      <4>3. batch'[h] = inbox[h]
        BY <1>2, <1>3, <2>1, <3>3 DEF reads, Standing
      <4>4. InHand(h)'
        <5>1. ~reads => inbox[h] = <<>>
          BY <1>2, <3>3 DEF reads, Standing
        <5> QED
          BY <1>3, <2>1, <3>3, <4>1, <4>2, <4>3, <5>1 DEF InHand, OwnIn
      <4>5. Prompt(h)'
        BY <1>3, <2>1, <3>3, <4>1, <4>2, <4>3 DEF Prompt
      <4> QED
        BY <2>1, <4>1, <4>4, <4>5
    <3> QED
      BY <3>2, <3>3
  <2> QED
    BY <1>2, <2>1, <2>2, <2>3 DEF Kept, Standing
<1>10. ASSUME NEW g \in Helms, ReadOverride(g) PROVE Kept'
  <2>1. /\ Reads(g, "MOOS_MANUAL_OVERRIDE") /\ UNCHANGED beatVars
        /\ ~Beat(g, Head(batch[g]))
        /\ \/ status' = status
           \/ \E off : status' = [status EXCEPT ![g] = Settled(@, off)]
    BY <1>10 DEF ReadOverride, Reads, Beat, statusVars
  <2>2. Standing'
    BY <1>2, <1>3, <2>1 DEF Standing, Settled, Enabled
  <2> QED
    BY <1>0, <1>2, <2>1, <2>2, Reading DEF Kept
<1>11. ASSUME NEW g \in Helms, ReadState(g) PROVE Kept'
  <2> DEFINE m == Head(batch[g])
             other == m.from # g
             yields == other /\ g \notin StandbyHelms /\ m.val # "STANDBY"
  <2>1. /\ Reads(g, "IVPHELM_STATE") /\ m.var = "IVPHELM_STATE"
        /\ IF other /\ g \in StandbyHelms /\ status[g] = "STANDBY"
           THEN /\ heard' = [heard EXCEPT ![g] = TRUE]
                /\ age' = [age EXCEPT ![g] = 0]
           ELSE UNCHANGED beatVars
        /\ status' = [status EXCEPT ![g] = IF yields THEN "DISABLED" ELSE @]
    BY <1>11 DEF ReadState, Reads
  <2>2. ~yields
    <3>1. /\ batch[g] \in Seq(Mail) /\ batch[g] # <<>> /\ Harmless(batch[g])
      BY <1>2, <1>3, <2>1 DEF Reads, Saying
    <3>2. m \in Mail /\ 1 \in DOMAIN batch[g] /\ m = batch[g][1]
      BY <3>1
    <3>3. m.from \in Helms
      BY <2>1, <3>2 DEF Mail
    <3>4. m.from \in StandbyHelms => m.val = "STANDBY"
      BY <3>1, <3>2 DEF Harmless
    <3> QED
      BY <3>3, <3>4 DEF WellPlanned
  <2> HIDE DEF yields
  <2>3. Standing'
    BY <1>2, <1>3, <2>1, <2>2 DEF Standing
  <2>4. \/ UNCHANGED beatVars /\ ~Beat(g, m)
        \/ UNCHANGED beatVars /\ g \notin StandbyHelms
        \/ heard' = [heard EXCEPT ![g] = TRUE] /\ age' = [age EXCEPT ![g] = 0]
    BY <1>2, <2>1 DEF Beat, Standing
  <2> QED
    BY <1>0, <1>2, <2>1, <2>3, <2>4, Reading DEF Kept
<1>12. ASSUME NEW g \in Helms, ReadRestart(g) PROVE Kept'
  <2>1. /\ Reads(g, "RESTART_HELM") /\ UNCHANGED beatVars
        /\ ~Beat(g, Head(batch[g]))
        /\ status' = [status EXCEPT ![g] = StartUpStatus(g, TRUE, @)]
    BY <1>12 DEF ReadRestart, Reads, Beat
  <2>2. g \in StandbyHelms => ~ConfigWarning(g, TRUE)
    BY <1>12, RestartOrdered DEF WellPlanned, ConfigWarning
  <2>3. Standing'
    BY <1>2, <1>3, <2>1, <2>2 DEF Standing, StartUpStatus
  <2> QED
    BY <1>0, <1>2, <2>1, <2>3, Reading DEF Kept
<1>13. ASSUME NEW g \in Helms, MailRead(g) PROVE Kept'
  <2> DEFINE takesOver ==
                 status[g] = "STANDBY" /\ heard[g] /\ age[g] > Threshold
  <2>1. /\ UNCHANGED <<heard, age, inbox, batch, cycled, running>>
        /\ pc[g] = "reading" /\ pc' = [pc EXCEPT ![g] = "iterate"]
        /\ batch[g] = <<>>
        /\ status' = [status EXCEPT
                         ![g] = IF takesOver THEN Settled("PARK", hasControl[g])
                                             ELSE @]
    BY <1>13 DEF MailRead, beatVars, mailVars, worldVars
  <2>2. g \in StandbyHelms => ~takesOver
    <3>1. SUFFICES ASSUME g \in StandbyHelms, heard[g]
                   PROVE  ~(age[g] > Threshold)
      OBVIOUS
    <3>2. g \in running /\ ~BeatIn(g, batch[g])
      BY <1>2, <2>1, <3>1 DEF BeatIn
    <3>3. age[g] <= 1 /\ age[g] \in Nat
      BY <1>2, <1>3, <2>1, <3>1, <3>2 DEF Prompt
    <3> QED
      BY <3>3, HelmAssumption DEF WellPlanned
  <2> HIDE DEF takesOver
  <2>3. Standing'
    BY <1>2, <1>3, <2>1, <2>2 DEF Standing, Settled, Enabled
  <2>4. Attentive'
    <3>1. SUFFICES ASSUME NEW h \in StandbyHelms
                   PROVE  IF h \in running' THEN InHand(h)' /\ Prompt(h)'
                                            ELSE pc'[h] = "dead"
      BY DEF Attentive
    <3>2. CASE h # g
      BY <1>2, <1>3, <2>1, <3>2 DEF InHand, Prompt
    <3>3. CASE h = g
      BY <1>2, <1>3, <2>1, <3>3 DEF InHand, Prompt
    <3> QED
      BY <3>2, <3>3
  <2> QED
    BY <1>2, <2>1, <2>3, <2>4 DEF Kept, Saying
<1>14. ASSUME NEW g \in Helms, Iterate(g) PROVE Kept'
  <2> DEFINE s == Settled(status[g], hasControl[g])
  <2>1. IterateBegins(g)
    BY <1>14 DEF Iterate, IterateIdle, IterateParked, IterateDecides,
                 IterateFails
  <2>2. /\ s \in Statuses /\ s # "DISABLED"
        /\ g \in StandbyHelms => s = "STANDBY"
    BY <1>2, <1>3 DEF Standing, Settled, Enabled, Statuses
  <2>3. /\ pc[g] = "iterate" /\ pc' = [pc EXCEPT ![g] = "fetch"]
        /\ status' = [status EXCEPT ![g] = s]
        /\ cycled' = cycled \cup {g} /\ UNCHANGED <<beatVars, batch, running>>
        /\ Publish([var |-> "IVPHELM_STATE", from |-> g, val |-> s])
    BY <2>1, <2>2 DEF IterateBegins
  <2> HIDE DEF s
  <2>4. Standing'
    BY <1>2, <1>3, <2>2, <2>3 DEF Standing
  <2> QED
    BY <1>0, <1>1, <1>2, <2>2, <2>3, <2>4, Publishing DEF Kept
<1>15. \A g \in Helms : ~SkipSkewed(g)
  BY DEF SkipSkewed, WellPlanned
<1> QED
  BY <1>5, <1>6, <1>7, <1>8, <1>9, <1>10, <1>11, <1>12, <1>13, <1>14, <1>15
     DEF Next, HelmStep

-----------------------------------------------------------------------------
(* While no helm misses a tick and the primary runs, no standby helm takes *)
(* over and the primary does not yield, provided that there is one         *)
(* primary, that the standby helms start and restart without a warning,    *)
(* that no mail is ignored for its skew, that the threshold is at least    *)
(* one tick and that ROS keeps at least two messages of a variable.        *)
THEOREM NoTakeoverInTime ==
    ASSUME WellPlanned
    PROVE  Spec => []NoNeedlessTakeover
<1>1. TakeoverInv => NoNeedlessTakeover
  <2> SUFFICES ASSUME TakeoverInv, Timely, NEW h \in Helms
               PROVE  /\ h \in StandbyHelms => ~Enabled(status[h])
                      /\ status[h] # "DISABLED"
    BY DEF NoNeedlessTakeover, Timely
  <2> QED
    BY DEF TakeoverInv, Kept, Standing, Enabled
<1>2. Init => TakeoverInv
  BY TakeoverInit
<1>3. HelmInv /\ Ordered /\ TakeoverInv /\ [Next]_vars => TakeoverInv'
  BY TakeoverStep
<1> QED
  BY <1>1, <1>2, <1>3, HelmInvInit, HelmInvStep, OrderedInit, OrderedStep,
     PTL DEF Spec

-----------------------------------------------------------------------------
(***************************************************************************)
(* When a standby helm does take over: why a helm that is left alone comes *)
(* to the end of OnNewMail with a heartbeat that is too old.               *)
(***************************************************************************)
\* OnNewMail, which ends with checkForTakeOver, is called only if there is
\* mail.  A standby helm that has heard a heartbeat has always some: if
\* nobody else writes to it, its own status comes back.
Wakes == \A h \in StandbyHelms \cap running :
             heard[h] /\ pc[h] = "fetch" => inbox[h] # <<>>

\* Who has died does nothing, and who is registered for nothing hears
\* nothing.
Gone == \A g \in Helms \ running : pc[g] = "dead"
Deaf == \A h \in Misconfigured :
            inbox[h] = <<>> /\ batch[h] = <<>> /\ ~heard[h]

WakeInv == Wakes /\ Gone /\ Deaf

\* What is left of h when another helm, the operator or nobody takes a step.
Rests(h) ==
    /\ pc'[h] = pc[h] /\ batch'[h] = batch[h]
    /\ heard'[h] = heard[h] /\ status'[h] = status[h]

LEMMA OthersStep ==
    ASSUME TypeOK, NEW h \in Helms, NEW g \in Helms \ {h}, HelmStep(g)
    PROVE  Rests(h) /\ age'[h] = age[h] /\ running' = running
<1>1. CASE FetchMail(g)
  BY <1>1 DEF FetchMail, Rests, TypeOK, statusVars, beatVars, worldVars
<1>2. ASSUME NEW v, Reads(g, v)
      PROVE  pc'[h] = pc[h] /\ batch'[h] = batch[h] /\ running' = running
  BY <1>2 DEF Reads, TypeOK, worldVars
<1>3. CASE SkipSkewed(g)
  BY <1>2, <1>3 DEF SkipSkewed, Rests, statusVars, beatVars
<1>4. CASE ReadOverride(g)
  BY <1>2, <1>4 DEF ReadOverride, Rests, TypeOK, statusVars, beatVars
<1>5. CASE ReadState(g)
  <2>1. /\ heard'[h] = heard[h] /\ age'[h] = age[h] /\ status'[h] = status[h]
    BY <1>5 DEF ReadState, TypeOK, beatVars
  <2> QED
    BY <1>2, <1>5, <2>1 DEF ReadState, Rests
<1>6. CASE ReadRestart(g)
  BY <1>2, <1>6 DEF ReadRestart, Rests, TypeOK, beatVars
<1>7. CASE MailRead(g)
  BY <1>7 DEF MailRead, Rests, TypeOK, beatVars, mailVars, worldVars
<1>8. CASE Iterate(g)
  BY <1>8 DEF Iterate, IterateIdle, IterateParked, IterateDecides,
     IterateFails, IterateBegins, Rests, TypeOK, beatVars
<1> QED
  BY <1>1, <1>3, <1>4, <1>5, <1>6, <1>7, <1>8 DEF HelmStep

(* A message that is published is new for those who listen, and only the   *)
(* message itself may be a new heartbeat, or a new status of the helm's.   *)
LEMMA PublishedTo ==
    ASSUME TypeOK, NEW m \in Mail, Publish(m), NEW h \in Helms
    PROVE  /\ h \in Listening => inbox'[h] # <<>>
           /\ h \notin Listening => inbox'[h] = inbox[h]
           /\ ~Beat(h, m) => (BeatIn(h, inbox'[h]) => BeatIn(h, inbox[h]))
           /\ m.var # "IVPHELM_STATE" \/ m.from # h
                 => (OwnIn(h, inbox'[h]) => OwnIn(h, inbox[h]))
<1> DEFINE r == MadeRoom(m.var, inbox[h])
<1>1. /\ r \in Seq(Mail)
      /\ \A n \in DOMAIN r : \E i \in DOMAIN inbox[h] : r[n] = inbox[h][i]
  <2>1. inbox[h] \in Seq(Mail)
    BY DEF TypeOK
  <2> QED
    BY <2>1, MadeRoomType, MadeRoomKeeps
<1>2. inbox'[h] = IF h \in Listening THEN Append(r, m) ELSE inbox[h]
  BY DEF Publish
<1> HIDE DEF r
<1>3. /\ Append(r, m) # <<>>
      /\ \A n \in DOMAIN Append(r, m) :
            Append(r, m)[n] = m \/ (n \in DOMAIN r /\ Append(r, m)[n] = r[n])
  BY <1>1
<1>4. ~Beat(h, m) /\ BeatIn(h, Append(r, m)) => BeatIn(h, inbox[h])
  <2>1. SUFFICES ASSUME ~Beat(h, m), BeatIn(h, Append(r, m))
                 PROVE  BeatIn(h, inbox[h])
    OBVIOUS
  <2>2. PICK n \in DOMAIN Append(r, m) : Beat(h, Append(r, m)[n])
    BY <2>1 DEF BeatIn
  <2>3. n \in DOMAIN r /\ Append(r, m)[n] = r[n]
    BY <1>3, <2>1, <2>2
  <2> QED
    BY <1>1, <2>2, <2>3 DEF BeatIn
<1>5. ASSUME m.var # "IVPHELM_STATE" \/ m.from # h, OwnIn(h, Append(r, m))
      PROVE  OwnIn(h, inbox[h])
  <2>1. PICK n \in DOMAIN Append(r, m) :
            /\ Append(r, m)[n].var = "IVPHELM_STATE"
            /\ Append(r, m)[n].from = h
    BY <1>5 DEF OwnIn
  <2>2. n \in DOMAIN r /\ Append(r, m)[n] = r[n]
    BY <1>3, <1>5, <2>1
  <2> QED
    BY <1>1, <2>1, <2>2 DEF OwnIn
<1> QED
  BY <1>2, <1>3, <1>4, <1>5

\* Helm g says m in its iteration.
Says(g, m) ==
    /\ g \in Helms /\ Iterate(g)
    /\ m.var = "IVPHELM_STATE" /\ m.from = g
    /\ m.val = Settled(status[g], hasControl[g])

\* Every step publishes something, empties an inbox or leaves it alone.
LEMMA InboxStep ==
    ASSUME HelmInv, [Next]_vars, NEW h \in Helms
    PROVE  \/ inbox'[h] = inbox[h]
           \/ inbox'[h] = <<>> /\ (Crash(h) \/ FetchMail(h))
           \/ \E m \in Mail :
                  /\ Publish(m)
                  /\ \/ m.var # "IVPHELM_STATE"
                     \/ Says(m.from, m)
<1>0. TypeOK /\ inbox \in [Helms -> Seq(Mail)]
  BY DEF HelmInv, TypeOK
<1>1. CASE UNCHANGED vars \/ Tick
  BY <1>1 DEF vars, mailVars, Tick
<1>2. ASSUME NEW val \in Orders, Order(val)
      PROVE  \E m \in Mail : Publish(m) /\ m.var # "IVPHELM_STATE"
  <2> DEFINE m == [var |-> IF val = "RESTART" THEN "RESTART_HELM"
                                              ELSE "MOOS_MANUAL_OVERRIDE",
                   from |-> "operator", val |-> val]
  <2>1. m \in Mail /\ m.var # "IVPHELM_STATE"
    BY HelmAssumption DEF Mail
  <2>2. Publish(m)
    BY <1>2 DEF Order
  <2> HIDE DEF m
  <2> QED
    BY <2>1, <2>2
<1>3. ASSUME NEW g \in Helms, Crash(g) \/ FetchMail(g)
      PROVE  inbox'[h] = inbox[h] \/ (inbox'[h] = <<>> /\ g = h)
  BY <1>0, <1>3 DEF Crash, FetchMail
<1>4. ASSUME NEW g \in Helms,
             \/ SkipSkewed(g) \/ ReadOverride(g) \/ ReadState(g)
             \/ ReadRestart(g) \/ MailRead(g)
      PROVE  inbox' = inbox
  BY <1>4 DEF SkipSkewed, ReadOverride, ReadState, ReadRestart, MailRead,
     Reads, mailVars
<1>5. ASSUME NEW g \in Helms, Iterate(g)
      PROVE  \/ inbox' = inbox
             \/ \E m \in Mail : Publish(m) /\ Says(g, m)
  <2> DEFINE s == Settled(status[g], hasControl[g])
             m == [var |-> "IVPHELM_STATE", from |-> g, val |-> s]
  <2>1. s \in Statuses
    BY <1>0, StatusType DEF TypeOK
  <2>2. inbox' = inbox \/ Publish(m)
    BY <1>5 DEF Iterate, IterateIdle, IterateParked, IterateDecides,
       IterateFails, IterateBegins
  <2>3. Says(g, m)
    BY <1>5 DEF Says
  <2> HIDE DEF s
  <2>4. m \in Mail
    BY <2>1 DEF Mail
  <2> HIDE DEF m
  <2> QED
    BY <2>2, <2>3, <2>4
<1>6. ASSUME NEW g \in Helms, HelmStep(g) \/ Crash(g)
      PROVE  \/ inbox'[h] = inbox[h]
             \/ inbox'[h] = <<>> /\ (Crash(h) \/ FetchMail(h))
             \/ \E m \in Mail : Publish(m) /\ Says(m.from, m)
  <2>1. CASE Crash(g) \/ FetchMail(g)
    BY <1>3, <2>1
  <2>2. CASE Iterate(g)
    BY <1>5, <2>2 DEF Says
  <2> QED
    BY <1>4, <1>6, <2>1, <2>2 DEF HelmStep
<1> QED
  BY <1>1, <1>2, <1>6 DEF Next

(* What a step is to a helm.                                               *)
LEMMA StepTo ==
    ASSUME HelmInv, [Next]_vars, NEW h \in Helms
    PROVE  \/ Rests(h) /\ (h \in running' <=> h \in running)
           \/ HelmStep(h)
           \/ Crash(h)
<1>0. TypeOK
  BY DEF HelmInv
<1>1. ASSUME UNCHANGED vars \/ Tick \/ \E val \in Orders : Order(val)
      PROVE  Rests(h) /\ running' = running
  BY <1>1 DEF vars, Tick, Order, Rests, statusVars, beatVars, mailVars,
     worldVars
<1>2. ASSUME NEW g \in Helms, Crash(g), g # h
      PROVE  Rests(h) /\ (h \in running' <=> h \in running)
  BY <1>0, <1>2 DEF Crash, Rests, TypeOK, statusVars, beatVars
<1> QED
  BY <1>0, <1>1, <1>2, OthersStep DEF Next

LEMMA WakeInit == Init => WakeInv
  BY HelmAssumption DEF Init, WakeInv, Wakes, Gone, Deaf

(* A helm's own steps: only an iteration ends at the point where it        *)
(* fetches, and a helm without mail hears nothing.                         *)
LEMMA OwnStep ==
    ASSUME HelmInv, NEW h \in Helms, HelmStep(h)
    PROVE  /\ running' = running /\ pc[h] # "dead" /\ pc'[h] # "dead"
           /\ pc'[h] = "fetch" => Iterate(h)
           /\ inbox[h] = <<>> /\ batch[h] = <<>> =>
                  batch'[h] = <<>> /\ heard'[h] = heard[h]
           /\ Iterate(h) => heard'[h] = heard[h]
<1>0. TypeOK
  BY DEF HelmInv
<1>1. CASE FetchMail(h)
  BY <1>0, <1>1 DEF FetchMail, TypeOK, beatVars, worldVars, Iterate,
     IterateIdle, IterateParked, IterateDecides, IterateFails, IterateBegins
<1>2. ASSUME NEW v, Reads(h, v)
      PROVE  /\ running' = running /\ pc[h] = "reading" /\ pc'[h] = "reading"
             /\ batch[h] # <<>>
  BY <1>2 DEF Reads, worldVars
<1>3. CASE SkipSkewed(h) \/ ReadOverride(h) \/ ReadState(h) \/ ReadRestart(h)
  <2>1. PICK v : Reads(h, v)
    BY <1>3 DEF SkipSkewed, ReadOverride, ReadState, ReadRestart
  <2>2. ~Iterate(h)
    BY <1>2, <2>1 DEF Iterate, IterateIdle, IterateParked, IterateDecides,
       IterateFails, IterateBegins
  <2> QED
    BY <1>2, <2>1, <2>2
<1>4. CASE MailRead(h)
  BY <1>0, <1>4 DEF MailRead, TypeOK, beatVars, mailVars, worldVars
<1>5. CASE Iterate(h)
  BY <1>0, <1>5 DEF Iterate, IterateIdle, IterateParked, IterateDecides,
     IterateFails, IterateBegins, TypeOK, beatVars
<1> QED
  BY <1>1, <1>3, <1>4, <1>5 DEF HelmStep

LEMMA WakeStep == HelmInv /\ Roles /\ WakeInv /\ [Next]_vars => WakeInv'
<1> SUFFICES ASSUME HelmInv, Roles, WakeInv, [Next]_vars PROVE WakeInv'
  OBVIOUS
<1>0. /\ TypeOK /\ Misconfigured \subseteq Helms /\ StandbyHelms \subseteq Helms
      /\ running \subseteq Helms
  BY HelmAssumption DEF HelmInv, TypeOK
<1>2. Gone'
  <2>1. SUFFICES ASSUME NEW h \in Helms, h \notin running' PROVE pc'[h] = "dead"
    BY DEF Gone
  <2>2. CASE Rests(h) /\ (h \in running' <=> h \in running)
    BY <2>1, <2>2 DEF WakeInv, Gone, Rests
  <2>3. CASE HelmStep(h)
    BY <2>1, <2>3, OwnStep DEF WakeInv, Gone
  <2>4. CASE Crash(h)
    BY <1>0, <2>4 DEF Crash, TypeOK
  <2> QED
    BY StepTo, <2>2, <2>3, <2>4
<1>3. Deaf'
  <2>1. SUFFICES ASSUME NEW h \in Misconfigured
                 PROVE  inbox'[h] = <<>> /\ batch'[h] = <<>> /\ ~heard'[h]
    BY DEF Deaf
  <2>2. /\ inbox[h] = <<>> /\ batch[h] = <<>> /\ ~heard[h] /\ h \in Helms
        /\ h \notin Listening
    BY <1>0 DEF WakeInv, Deaf, Listening
  <2>3. inbox'[h] = <<>>
    BY <1>0, <2>2, InboxStep, PublishedTo
  <2>4. batch'[h] = <<>> /\ ~heard'[h]
    <3>1. CASE Rests(h)
      BY <2>2, <3>1 DEF Rests
    <3>2. CASE HelmStep(h)
      BY <2>2, <3>2, OwnStep
    <3>3. CASE Crash(h)
      BY <1>0, <2>2, <3>3 DEF Crash, TypeOK, beatVars
    <3> QED
      BY StepTo, <2>2, <3>1, <3>2, <3>3
  <2> QED
    BY <2>3, <2>4
<1>4. Wakes'
  <2>1. SUFFICES ASSUME NEW h \in StandbyHelms, h \in running', heard'[h],
                        pc'[h] = "fetch"
                 PROVE  inbox'[h] # <<>>
    BY DEF Wakes
  <2>2. h \in Helms
    BY <1>0
  <2>3. CASE Rests(h) /\ (h \in running' <=> h \in running)
    <3>1. inbox[h] # <<>> /\ pc[h] = "fetch" /\ h \in running /\ heard[h]
      BY <2>1, <2>3 DEF WakeInv, Wakes, Rests
    <3>2. ~(Crash(h) \/ FetchMail(h))
      BY <1>0, <2>1, <2>2, <3>1 DEF Crash, FetchMail, TypeOK
    <3>3. h \in Listening
      BY <2>2, <3>1 DEF WakeInv, Deaf, Listening
    <3> QED
      BY <1>0, <2>2, <3>1, <3>2, <3>3, InboxStep, PublishedTo
  <2>4. CASE HelmStep(h)
    <3>1. Iterate(h) /\ heard[h] /\ h \in running
      BY <2>1, <2>2, <2>4, OwnStep
    <3> DEFINE s == Settled(status[h], hasControl[h])
               m == [var |-> "IVPHELM_STATE", from |-> h, val |-> s]
    <3>2. s \in Statuses /\ s # "DISABLED"
      <4>1. status[h] \in Statuses /\ status[h] # "DISABLED"
        BY <1>0, <2>1, <2>2 DEF Roles, TypeOK
      <4> QED
        BY <4>1 DEF Settled, Enabled, Statuses
    <3>3. Publish(m)
      BY <3>1, <3>2 DEF Iterate, IterateIdle, IterateParked, IterateDecides,
         IterateFails, IterateBegins
    <3> HIDE DEF s
    <3>4. m \in Mail
      BY <2>2, <3>2 DEF Mail
    <3> HIDE DEF m
    <3>5. h \in Listening
      BY <2>2, <3>1 DEF WakeInv, Deaf, Listening
    <3> QED
      BY <1>0, <2>2, <3>3, <3>4, <3>5, PublishedTo
  <2>5. CASE Crash(h)
    BY <1>0, <2>1, <2>2, <2>5 DEF Crash, TypeOK
  <2> QED
    BY StepTo, <2>2, <2>3, <2>4, <2>5
<1> QED
  BY <1>2, <1>3, <1>4 DEF WakeInv

(* A standby helm that has heard a heartbeat always finds mail when it     *)
(* fetches, so OnNewMail is called in every cycle and checkForTakeOver     *)
(* with it, whoever else has died.                                         *)
THEOREM StandbyWakes == Spec => []Wakes
<1>1. WakeInv => Wakes
  BY DEF WakeInv
<1> QED
  BY <1>1, HelmInvInit, HelmInvStep, RolesInit, RolesStep, WakeInit, WakeStep,
     PTL DEF Spec

-----------------------------------------------------------------------------
(***************************************************************************)
(* A standby helm that is left alone.                                      *)
(***************************************************************************)
Alone(h) == running = {h} /\ heard[h] /\ status[h] = "STANDBY"

\* No heartbeat is on its way to it any more.
Silent(h) == ~BeatIn(h, inbox[h]) /\ ~BeatIn(h, batch[h])

\* Until h takes over (or dies, too, or is restarted and trips over its own
\* behavior file) it stays where it is, and every step leads on.  No new
\* heartbeat comes; fetching mail, which it does, takes the old ones out of
\* the inbox; what is in the batch only becomes less; once there are none
\* the clock makes h wait no longer than the threshold; and then the end of
\* OnNewMail is a takeover.
ComesCloser(h) ==
    /\ Alone(h)'
    /\ ~BeatIn(h, inbox[h]) => ~BeatIn(h, inbox'[h])
    /\ FetchMail(h) => ~BeatIn(h, inbox'[h]) /\ pc'[h] = "reading"
    /\ ~FetchMail(h) => batch'[h] \in {batch[h], Tail(batch[h])}
    /\ Silent(h) =>
           /\ Silent(h)'
           /\ age'[h] >= age[h]
           /\ Tick /\ age[h] <= Threshold => age'[h] = age[h] + 1
           /\ age[h] > Threshold => ~MailRead(h)

TakeoverApproaches ==
    [][\A h \in StandbyHelms : Alone(h) =>
          \/ Enabled(status'[h])
          \/ Crash(h)
          \/ h \in BehaviorsInConfig /\ ReadRestart(h)
          \/ ComesCloser(h)]_vars

\* The inbox of a helm that is alone gets no heartbeat.
LEMMA NoNewBeat ==
    ASSUME HelmInv, WakeInv, [Next]_vars, NEW h \in StandbyHelms, Alone(h)
    PROVE  BeatIn(h, inbox'[h]) => BeatIn(h, inbox[h])
<1>0. TypeOK /\ h \in Helms
  BY HelmAssumption DEF HelmInv
<1>1. ASSUME NEW m \in Mail, Publish(m),
             m.var # "IVPHELM_STATE" \/ Says(m.from, m)
      PROVE  BeatIn(h, inbox'[h]) => BeatIn(h, inbox[h])
  <2>1. ASSUME Says(m.from, m) PROVE m.from = h
    <3>1. m.from \in Helms /\ pc[m.from] = "iterate"
      BY <2>1 DEF Says, Iterate, IterateIdle, IterateParked, IterateDecides,
         IterateFails, IterateBegins
    <3> QED
      BY <2>1, <3>1 DEF WakeInv, Gone, Alone
  <2>2. ~Beat(h, m)
    BY <1>1, <2>1 DEF Beat
  <2> QED
    BY <1>0, <1>1, <2>2, PublishedTo
<1>2. inbox'[h] = <<>> => ~BeatIn(h, inbox'[h])
  BY DEF BeatIn
<1> QED
  BY <1>0, <1>1, <1>2, InboxStep

\* What h reads or skips: a heartbeat, or something that tells it nothing.
LEMMA ReadingAlone ==
    ASSUME HelmInv, Roles, StillBad, NEW h \in StandbyHelms, Alone(h),
           \/ SkipSkewed(h) \/ ReadOverride(h) \/ ReadState(h)
           \/ h \notin BehaviorsInConfig /\ ReadRestart(h)
    PROVE  /\ Alone(h)' /\ batch'[h] = Tail(batch[h])
           /\ ~BeatIn(h, batch[h]) =>
                  ~BeatIn(h, batch'[h]) /\ age'[h] = age[h]
<1>0. /\ TypeOK /\ h \in Helms /\ status \in [Helms -> Statuses]
      /\ heard \in [Helms -> BOOLEAN] /\ batch[h] \in Seq(Mail)
      /\ status[h] = "STANDBY" /\ heard[h]
  BY HelmAssumption DEF HelmInv, TypeOK, Alone
<1>1. PICK v : Reads(h, v)
  BY DEF SkipSkewed, ReadOverride, ReadState, ReadRestart
<1>2. /\ running' = running /\ batch[h] # <<>> /\ Head(batch[h]).var = v
      /\ batch'[h] = Tail(batch[h])
  BY <1>0, <1>1 DEF Reads, worldVars, TypeOK
<1>3. /\ \A n \in DOMAIN Tail(batch[h]) : /\ n + 1 \in DOMAIN batch[h]
                                          /\ Tail(batch[h])[n] = batch[h][n + 1]
      /\ Head(batch[h]) = batch[h][1] /\ 1 \in DOMAIN batch[h]
  BY <1>0, <1>2
<1>4. ~BeatIn(h, batch[h]) =>
          ~BeatIn(h, batch'[h]) /\ ~Beat(h, Head(batch[h]))
  BY <1>2, <1>3 DEF BeatIn
<1>5. status'[h] = "STANDBY"
  <2>1. CASE SkipSkewed(h)
    BY <1>0, <2>1 DEF SkipSkewed, statusVars
  <2>2. CASE ReadOverride(h)
    BY <1>0, <2>2 DEF ReadOverride, statusVars, Settled, Enabled
  <2>3. CASE ReadState(h)
    BY <1>0, <2>3 DEF ReadState
  <2>4. CASE h \notin BehaviorsInConfig /\ ReadRestart(h)
    <3>1. h \notin Misconfigured
      BY <1>0 DEF StillBad
    <3> QED
      BY <1>0, <2>4, <3>1 DEF ReadRestart, StartUpStatus, ConfigWarning
  <2> QED
    BY <2>1, <2>2, <2>3, <2>4
<1>6. /\ heard'[h]
      /\ ~Beat(h, Head(batch[h])) => age'[h] = age[h]
  <2>1. CASE SkipSkewed(h) \/ ReadOverride(h) \/ ReadRestart(h)
    BY <1>0, <2>1 DEF SkipSkewed, ReadOverride, ReadRestart, beatVars
  <2>2. CASE ReadState(h)
    <3>1. /\ \/ UNCHANGED beatVars
             \/ heard' = [heard EXCEPT ![h] = TRUE] /\ Head(batch[h]).from # h
          /\ Head(batch[h]).var = "IVPHELM_STATE"
          /\ Head(batch[h]).from = h => UNCHANGED beatVars
      BY <2>2 DEF ReadState, Reads
    <3> QED
      BY <1>0, <3>1 DEF Beat, beatVars
  <2> QED
    BY <2>1, <2>2
<1> QED
  BY <1>2, <1>4, <1>5, <1>6 DEF Alone

LEMMA AloneStep ==
    ASSUME HelmInv, Roles, StillBad, WakeInv, [Next]_vars,
           NEW h \in StandbyHelms, Alone(h), ~Enabled(status'[h]), ~Crash(h),
           ~(h \in BehaviorsInConfig /\ ReadRestart(h))
    PROVE  ComesCloser(h)
<1>0. /\ TypeOK /\ h \in Helms /\ running = {h}
      /\ status[h] = "STANDBY" /\ heard[h]
      /\ age[h] \in Nat /\ Threshold \in Nat
  BY HelmAssumption DEF HelmInv, TypeOK, Alone
<1>1. BeatIn(h, inbox'[h]) => BeatIn(h, inbox[h])
  BY NoNewBeat
\* Only the clock ticks, and only h does something.
<1>2. CASE Tick
  <2>1. /\ UNCHANGED <<status, heard, batch, running>>
        /\ age'[h] = IF age[h] <= Threshold THEN age[h] + 1 ELSE age[h]
    BY <1>0, <1>2 DEF Tick, statusVars, mailVars
  <2>2. ~FetchMail(h) /\ ~MailRead(h)
    <3>1. pc[h] # "reading" /\ pc' = pc
      BY <1>0, <1>2 DEF Tick
    <3> QED
      BY <1>0, <3>1 DEF FetchMail, MailRead, TypeOK
  <2>3. Alone(h)' /\ (Silent(h) => Silent(h)') /\ batch'[h] = batch[h]
    BY <1>0, <1>1, <2>1 DEF Alone, Silent
  <2> QED
    BY <1>0, <1>1, <2>1, <2>2, <2>3 DEF ComesCloser
<1>3. CASE UNCHANGED vars \/ \E val \in Orders : Order(val)
  <2>1. UNCHANGED <<status, heard, age, pc, batch, running, cycled>>
    BY <1>3 DEF vars, Order, statusVars, beatVars, mailVars, worldVars
  <2>2. ~FetchMail(h) /\ ~MailRead(h)
    BY <1>0, <2>1 DEF FetchMail, MailRead, TypeOK
  <2>3. Alone(h)' /\ (Silent(h) => Silent(h)') /\ batch'[h] = batch[h]
    BY <1>0, <1>1, <2>1 DEF Alone, Silent
  <2>4. Tick => age'[h] = age[h] + 1 \/ ~(age[h] <= Threshold)
    BY <1>0 DEF Tick
  <2> QED
    BY <1>0, <1>1, <2>1, <2>2, <2>3, <2>4 DEF ComesCloser
<1>4. CASE HelmStep(h)
  <2>1. Tick => age'[h] = age[h] + 1 \/ ~(age[h] <= Threshold)
    BY <1>0 DEF Tick
  <2>2. CASE FetchMail(h)
    <3>1. inbox[h] # <<>>
      BY <1>0, <2>2 DEF FetchMail, WakeInv, Wakes
    <3>2. /\ UNCHANGED <<status, heard, age, running>> /\ pc'[h] = "reading"
          /\ inbox'[h] = <<>> /\ batch'[h] = inbox[h]
      BY <1>0, <2>2, <3>1 DEF FetchMail, TypeOK, statusVars, beatVars, worldVars
    <3>3. ~BeatIn(h, inbox'[h])
      BY <3>2 DEF BeatIn
    <3>4. Alone(h)' /\ (Silent(h) => Silent(h)')
      BY <1>0, <3>2, <3>3 DEF Alone, Silent
    <3>5. ~MailRead(h)
      BY <2>2 DEF FetchMail, MailRead
    <3> QED
      BY <1>0, <2>1, <2>2, <3>2, <3>3, <3>4, <3>5 DEF ComesCloser
  <2>3. CASE SkipSkewed(h) \/ ReadOverride(h) \/ ReadState(h) \/ ReadRestart(h)
    <3>1. /\ Alone(h)' /\ batch'[h] = Tail(batch[h])
          /\ ~BeatIn(h, batch[h]) =>
                 ~BeatIn(h, batch'[h]) /\ age'[h] = age[h]
      BY <2>3, ReadingAlone
    <3>2. ~FetchMail(h) /\ ~MailRead(h)
      <4>1. pc[h] = "reading" /\ batch[h] # <<>>
        BY <2>3 DEF SkipSkewed, ReadOverride, ReadState, ReadRestart, Reads
      <4> QED
        BY <4>1 DEF FetchMail, MailRead
    <3>3. Silent(h) => Silent(h)'
      BY <1>1, <3>1 DEF Silent
    <3> QED
      BY <1>0, <1>1, <2>1, <3>1, <3>2, <3>3 DEF ComesCloser, Silent
  <2>4. CASE MailRead(h)
    <3>1. ~(age[h] > Threshold)
      <4>1. Enabled(Settled("PARK", hasControl[h]))
        BY DEF Settled, Enabled
      <4> QED
        BY <1>0, <2>4, <4>1 DEF MailRead, TypeOK
    <3>2. /\ UNCHANGED <<heard, age, batch, running>> /\ status'[h] = status[h]
      BY <1>0, <2>4, <3>1 DEF MailRead, TypeOK, beatVars, mailVars, worldVars
    <3>3. ~FetchMail(h)
      BY <2>4 DEF FetchMail, MailRead
    <3>4. Alone(h)' /\ (Silent(h) => Silent(h)') /\ batch'[h] = batch[h]
      BY <1>0, <1>1, <3>2 DEF Alone, Silent
    <3> QED
      BY <1>0, <1>1, <2>1, <3>1, <3>2, <3>3, <3>4 DEF ComesCloser
  <2>5. CASE Iterate(h)
    <3>1. /\ UNCHANGED <<heard, age, batch, running>>
          /\ status'[h] = Settled(status[h], hasControl[h]) /\ pc[h] = "iterate"
      BY <1>0, <2>5 DEF Iterate, IterateIdle, IterateParked, IterateDecides,
         IterateFails, IterateBegins, TypeOK, beatVars
    <3>2. status'[h] = status[h]
      BY <1>0, <3>1 DEF Settled, Enabled
    <3>3. ~FetchMail(h) /\ ~MailRead(h)
      BY <3>1 DEF FetchMail, MailRead
    <3>4. Alone(h)' /\ (Silent(h) => Silent(h)') /\ batch'[h] = batch[h]
      BY <1>0, <1>1, <3>1, <3>2 DEF Alone, Silent
    <3> QED
      BY <1>0, <1>1, <2>1, <3>1, <3>3, <3>4 DEF ComesCloser
  <2> QED
    BY <1>4, <2>2, <2>3, <2>4, <2>5 DEF HelmStep
<1>5. ASSUME NEW g \in Helms, g # h PROVE ~Crash(g) /\ ~HelmStep(g)
  <2>1. g \notin running /\ pc[g] = "dead"
    BY <1>0, <1>5 DEF WakeInv, Gone
  <2> QED
    BY <2>1, <1>0, OwnStep DEF Crash
<1> QED
  BY <1>2, <1>3, <1>4, <1>5 DEF Next

(* When no other helm runs any more, nothing but the clock keeps a standby *)
(* helm that has heard of one from taking over: every step brings it       *)
(* closer.  (That the clock ticks and the helm goes on is the fairness of  *)
(* the run helm_late, where StandbyTakesOver is checked.)                  *)
THEOREM TakeoverComesCloser == Spec => TakeoverApproaches
<1>1. HelmInv /\ Roles /\ StillBad /\ WakeInv /\ [Next]_vars =>
          [\A h \in StandbyHelms : Alone(h) =>
              \/ Enabled(status'[h])
              \/ Crash(h)
              \/ h \in BehaviorsInConfig /\ ReadRestart(h)
              \/ ComesCloser(h)]_vars
  BY AloneStep
<1> QED
  BY <1>1, HelmInvInit, HelmInvStep, RolesInit, RolesStep, StillBadInit,
     StillBadStep, WakeInit, WakeStep, PTL DEF Spec, TakeoverApproaches

-----------------------------------------------------------------------------
(***************************************************************************)
(* Two helms that both drive: why the primary comes to yield.              *)
(***************************************************************************)
\* Does m make the primary h yield?  A box holds such a notice if the last
\* it says of another helm is one: a standby helm that has been restarted is
\* in STANDBY again, and an old notice may be dropped from a full queue.
Tells(h, m) == Beat(h, m) /\ m.val # "STANDBY"
NoticeAt(h, box, n) ==
    /\ Tells(h, box[n])
    /\ \A k \in DOMAIN box : k > n /\ Beat(h, box[k]) => Tells(h, box[k])
NoticeIn(h, box) == \E n \in DOMAIN box : NoticeAt(h, box, n)

\* Where a notice has moved to, it is one.
LEMMA NoticeMoved ==
    ASSUME NEW box \in Seq(Mail), NEW r \in Seq(Mail), NEW h,
           NEW n \in DOMAIN box, NEW i \in DOMAIN box, NEW p \in DOMAIN r,
           NoticeAt(h, box, n), i >= n, Tells(h, box[i]), Moved(box, i, r, p)
    PROVE  NoticeIn(h, r)
<1>1. ASSUME NEW k \in DOMAIN r, k > p, Beat(h, r[k]) PROVE Tells(h, r[k])
  <2>1. PICK j \in DOMAIN box : j > i /\ r[k] = box[j]
    BY <1>1 DEF Moved
  <2>2. j > n
    <3>1. j \in Int /\ i \in Int /\ n \in Int
      OBVIOUS
    <3> QED
      BY <2>1, <3>1
  <2> QED
    BY <1>1, <2>1, <2>2 DEF NoticeAt
<1>2. r[p] = box[i]
  BY DEF Moved
<1> QED
  BY <1>1, <1>2 DEF NoticeIn, NoticeAt

(* Neither another notice nor h's own status, of which there is one at     *)
(* most, takes a notice out of the inbox.                                  *)
LEMMA NoticeKept ==
    ASSUME TypeOK, QueueSize >= 2, NEW m \in Mail, Publish(m),
           NEW h \in Helms, h \in Listening
    PROVE  /\ Tells(h, m) => NoticeIn(h, inbox'[h])
           /\ NoticeIn(h, inbox[h]) /\ ~Beat(h, m)
                 /\ (m.var # "IVPHELM_STATE" \/ ~OwnIn(h, inbox[h]))
                 => NoticeIn(h, inbox'[h])
<1> DEFINE box == inbox[h]
           r == MadeRoom(m.var, box)
<1>1. inbox'[h] = Append(r, m) /\ box \in Seq(Mail)
  BY DEF Publish, TypeOK
<1>2. /\ r \in Seq(Mail)
      /\ \A i \in DOMAIN box :
             \/ \E p \in DOMAIN r : Moved(box, i, r, p)
             \/ /\ box[i].var = m.var
                /\ Cardinality(Of(m.var, box)) >= QueueSize
                /\ \A j \in Of(m.var, box) : i <= j
  BY <1>1, MadeRoomType, MadeRoomKeeps
<1> HIDE DEF r, box
<1>3. /\ \A k \in DOMAIN r : k \in DOMAIN inbox'[h] /\ inbox'[h][k] = r[k]
      /\ \A k \in DOMAIN inbox'[h] : k \in DOMAIN r \/ inbox'[h][k] = m
      /\ \E n \in DOMAIN inbox'[h] :
             /\ inbox'[h][n] = m
             /\ \A k \in DOMAIN inbox'[h] : ~(k > n)
  <2>1. /\ \A n \in 1..Len(r) : Append(r, m)[n] = r[n]
        /\ Append(r, m)[Len(r) + 1] = m
        /\ DOMAIN Append(r, m) = 1..Len(r) + 1 /\ DOMAIN r = 1..Len(r)
        /\ Len(r) \in Nat
    BY <1>2
  <2> QED
    BY <1>1, <2>1
<1>4. Tells(h, m) => NoticeIn(h, inbox'[h])
  BY <1>3 DEF NoticeIn, NoticeAt
<1>5. ASSUME NoticeIn(h, box), ~Beat(h, m),
             m.var # "IVPHELM_STATE" \/ ~OwnIn(h, box)
      PROVE  NoticeIn(h, inbox'[h])
  <2>1. PICK n \in DOMAIN box : NoticeAt(h, box, n)
    BY <1>5 DEF NoticeIn
  <2>2. PICK i \in DOMAIN box :
            /\ i >= n /\ Tells(h, box[i])
            /\ \E p \in DOMAIN r : Moved(box, i, r, p)
    <3>1. CASE \E p \in DOMAIN r : Moved(box, n, r, p)
      <4>1. n >= n
        BY <1>1
      <4> QED
        BY <2>1, <3>1, <4>1 DEF NoticeAt
    <3>2. CASE /\ box[n].var = m.var
               /\ Cardinality(Of(m.var, box)) >= QueueSize
               /\ \A j \in Of(m.var, box) : n <= j
      <4>1. /\ m.var = "IVPHELM_STATE" /\ ~OwnIn(h, box)
            /\ n \in Of(m.var, box)
        BY <1>5, <2>1, <3>2 DEF NoticeAt, Tells, Beat, Of
      <4>2. Of(m.var, box) # {n}
        <5>1. Cardinality(Of(m.var, box)) # 1
          BY <3>2, HelmAssumption
        <5> QED
          BY <5>1, FS_Singleton
      <4>3. PICK j \in Of(m.var, box) : j # n
        BY <4>1, <4>2
      <4>4. j \in DOMAIN box /\ Beat(h, box[j])
        BY <4>1, <4>3 DEF Of, Beat, OwnIn
      <4>5. j > n /\ ~(j <= n) /\ j >= n
        <5>1. n \in Int /\ j \in Int /\ n <= j
          BY <1>1, <3>2, <4>3, <4>4
        <5> QED
          BY <4>3, <5>1
      <4>6. Tells(h, box[j])
        BY <2>1, <4>4, <4>5 DEF NoticeAt
      <4>7. \E p \in DOMAIN r : Moved(box, j, r, p)
        BY <1>2, <4>1, <4>4, <4>5
      <4> QED
        BY <4>4, <4>5, <4>6, <4>7
    <3> QED
      BY <1>2, <3>1, <3>2
  <2>3. NoticeIn(h, r)
    BY <1>1, <1>2, <2>1, <2>2, NoticeMoved
  <2> QED
    BY <1>3, <1>5, <2>3 DEF NoticeIn, NoticeAt
<1> QED
  BY <1>4, <1>5 DEF box

-----------------------------------------------------------------------------
\* Every helm reads its own status before it posts the next.
HandInv == \A h \in Helms : InHand(h)

LEMMA HandInit == Init => HandInv
  BY DEF Init, HandInv, InHand

LEMMA HandStep == HelmInv /\ HandInv /\ [Next]_vars => HandInv'
<1> SUFFICES ASSUME HelmInv, HandInv, [Next]_vars, NEW h \in Helms
             PROVE  InHand(h)'
  BY DEF HandInv
<1>0. TypeOK /\ InHand(h)
  BY DEF HelmInv, HandInv
<1>1. CASE Rests(h)
  <2>1. ASSUME NEW m \in Mail, Publish(m), Says(m.from, m), m.from = h
        PROVE  FALSE
    BY <1>0, <1>1, <2>1 DEF Says, Rests, Iterate, IterateIdle, IterateParked,
       IterateDecides, IterateFails, IterateBegins, TypeOK
  <2>2. OwnIn(h, inbox'[h]) => OwnIn(h, inbox[h])
    <3>1. inbox'[h] = <<>> => ~OwnIn(h, inbox'[h])
      BY DEF OwnIn
    <3> QED
      BY <1>0, <2>1, <3>1, InboxStep, PublishedTo
  <2> QED
    BY <1>0, <1>1, <2>2 DEF InHand, Rests
<1>2. CASE FetchMail(h)
  <2>1. /\ inbox'[h] = <<>> /\ pc'[h] \in {"reading", "iterate"}
        /\ pc'[h] # "reading" => batch'[h] = <<>>
    BY <1>0, <1>2 DEF FetchMail, TypeOK
  <2> QED
    BY <2>1 DEF InHand, OwnIn
<1>3. CASE SkipSkewed(h) \/ ReadOverride(h) \/ ReadState(h) \/ ReadRestart(h)
  <2>1. pc' = pc /\ inbox' = inbox /\ pc[h] = "reading"
    BY <1>3 DEF SkipSkewed, ReadOverride, ReadState, ReadRestart, Reads
  <2> QED
    BY <1>0, <2>1 DEF InHand
<1>4. CASE MailRead(h)
  <2>1. pc[h] = "reading" /\ batch[h] = <<>> /\ inbox' = inbox /\ batch' = batch
    BY <1>4 DEF MailRead, mailVars
  <2> QED
    BY <1>0, <2>1 DEF InHand
<1>5. CASE Iterate(h)
  <2>1. pc[h] = "iterate" /\ pc'[h] = "fetch" /\ batch' = batch
    BY <1>0, <1>5 DEF Iterate, IterateIdle, IterateParked, IterateDecides,
       IterateFails, IterateBegins, TypeOK
  <2> QED
    BY <1>0, <2>1 DEF InHand
<1>6. CASE Crash(h)
  BY <1>0, <1>6 DEF Crash, InHand, TypeOK
<1>7. CASE HelmStep(h)
  BY <1>2, <1>3, <1>4, <1>5, <1>7 DEF HelmStep
<1> QED
  BY StepTo, <1>1, <1>6, <1>7

-----------------------------------------------------------------------------
\* A mission of two helms, whose mail is not ignored for its skew and of
\* whose status messages ROS keeps at least two.
MissionOfTwo ==
    /\ \E a, b : Helms = {a, b}
    /\ SkewPossible = FALSE
    /\ QueueSize >= 2

BothDrive(h, g) ==
    {h, g} \subseteq running /\ Enabled(status[h]) /\ Enabled(status[g])

\* As long as both drive, every step leads h to yield.  Each iteration of g
\* puts a notice into the inbox of h; it is lost neither there nor when h
\* fetches its mail; the batch only becomes shorter, and h does not come to
\* its end before it has read the notice, which ends it.
YieldsSooner(h, g) ==
    /\ Iterate(g) => NoticeIn(h, inbox'[h])
    /\ NoticeIn(h, inbox[h]) => NoticeIn(h, inbox'[h]) \/ FetchMail(h)
    /\ FetchMail(h) => batch'[h] = inbox[h]
    /\ ~FetchMail(h) => batch'[h] \in {batch[h], Tail(batch[h])}
    /\ NoticeIn(h, batch[h]) => NoticeIn(h, batch'[h]) /\ ~FetchMail(h)

YieldApproaches ==
    [][\A h \in Helms \ StandbyHelms : \A g \in Helms \ {h} :
          BothDrive(h, g) => ~BothDrive(h, g)' \/ YieldsSooner(h, g)]_vars

\* What h reads: the notice itself would end its drive.
LEMMA NoticeRead ==
    ASSUME HelmInv, MissionOfTwo, NEW h \in Helms \ StandbyHelms,
           \/ SkipSkewed(h) \/ ReadOverride(h) \/ ReadState(h)
           \/ ReadRestart(h),
           Enabled(status'[h])
    PROVE  /\ batch'[h] = Tail(batch[h])
           /\ NoticeIn(h, batch[h]) => NoticeIn(h, batch'[h])
<1>0. status \in [Helms -> Statuses] /\ batch \in [Helms -> Seq(Mail)]
  BY DEF HelmInv, TypeOK
<1>1. PICK v : Reads(h, v)
  BY DEF SkipSkewed, ReadOverride, ReadState, ReadRestart
<1>2. /\ batch[h] # <<>> /\ Head(batch[h]).var = v
      /\ batch'[h] = Tail(batch[h])
  BY <1>0, <1>1 DEF Reads
<1>3. ~Tells(h, Head(batch[h]))
  <2>1. SUFFICES ASSUME Tells(h, Head(batch[h])) PROVE FALSE
    OBVIOUS
  <2>2. ReadState(h)
    BY <2>1 DEF Tells, Beat, SkipSkewed, ReadOverride, ReadRestart, Reads,
       MissionOfTwo
  <2>3. status'[h] = "DISABLED"
    BY <1>0, <2>1, <2>2 DEF ReadState, Tells, Beat
  <2> QED
    BY <2>3 DEF Enabled
<1>4. ASSUME NEW n \in DOMAIN batch[h], NoticeAt(h, batch[h], n)
      PROVE  NoticeIn(h, Tail(batch[h]))
  <2> DEFINE box == batch[h]
             r == Tail(box)
  <2>1. box \in Seq(Mail) /\ box # <<>> /\ Head(box) = box[1]
    BY <1>0, <1>2
  <2>2. r \in Seq(Mail) /\ n # 1
    BY <1>3, <1>4, <2>1 DEF NoticeAt
  <2>3. /\ n - 1 \in DOMAIN r /\ r[n - 1] = box[n]
        /\ \A k \in DOMAIN r : k + 1 \in DOMAIN box /\ r[k] = box[k + 1]
        /\ \A k \in DOMAIN r : k > n - 1 => k + 1 > n
    BY <1>4, <2>1, <2>2
  <2> HIDE DEF r
  <2>4. Moved(box, n, r, n - 1)
    BY <2>3 DEF Moved
  <2>5. Tells(h, box[n]) /\ n >= n
    BY <1>4, <2>1 DEF NoticeAt
  <2> HIDE DEF box
  <2>6. NoticeIn(h, r)
    BY <1>4, <2>1, <2>2, <2>3, <2>4, <2>5, NoticeMoved DEF box
  <2> QED
    BY <2>6 DEF r, box
<1> QED
  BY <1>2, <1>4 DEF NoticeIn

LEMMA YieldStep ==
    ASSUME HelmInv, StillBad, HandInv, MissionOfTwo, [Next]_vars,
           NEW h \in Helms \ StandbyHelms, NEW g \in Helms \ {h},
           BothDrive(h, g), h \in running', Enabled(status'[h])
    PROVE  YieldsSooner(h, g)
<1>0. /\ TypeOK /\ status \in [Helms -> Statuses]
      /\ inbox \in [Helms -> Seq(Mail)] /\ batch \in [Helms -> Seq(Mail)]
      /\ InHand(h) /\ QueueSize >= 2
      /\ Enabled(status[h]) /\ Enabled(status[g])
  BY DEF HelmInv, TypeOK, HandInv, BothDrive, MissionOfTwo
<1>1. h \in Listening
  <2>1. status[h] \notin {"DISABLED", "MALCONFIG"}
    BY <1>0 DEF Enabled
  <2> QED
    BY <2>1 DEF StillBad, BothDrive, Listening
<1>2. \A k \in Helms : k = h \/ k = g
  BY DEF MissionOfTwo
<1>3. ~Crash(h)
  BY DEF Crash
\* What the helms say of themselves.
<1>4. ASSUME NEW m \in Mail, Says(g, m) PROVE Tells(h, m)
  <2>1. m.val \in {"PARK", "DRIVE"}
    BY <1>0, <1>4 DEF Says, Settled
  <2> QED
    BY <1>4, <2>1 DEF Says, Tells, Beat
<1>5. ASSUME NEW m \in Mail, Says(h, m)
      PROVE  ~Beat(h, m) /\ ~OwnIn(h, inbox[h])
  <2>1. pc[h] = "iterate"
    BY <1>5 DEF Says, Iterate, IterateIdle, IterateParked, IterateDecides,
       IterateFails, IterateBegins
  <2> QED
    BY <1>0, <1>5, <2>1 DEF Says, Beat, InHand
<1>6. NoticeIn(h, inbox[h]) => NoticeIn(h, inbox'[h]) \/ FetchMail(h)
  <2>1. ASSUME NEW m \in Mail, Publish(m), NoticeIn(h, inbox[h]),
               m.var # "IVPHELM_STATE" \/ Says(m.from, m)
        PROVE  NoticeIn(h, inbox'[h])
    <3>1. CASE m.var # "IVPHELM_STATE"
      BY <1>0, <1>1, <2>1, <3>1, NoticeKept DEF Beat
    <3>2. CASE Says(m.from, m)
      <4>1. m.from = h \/ m.from = g
        BY <1>2, <3>2 DEF Says
      <4>2. Tells(h, m) \/ (~Beat(h, m) /\ ~OwnIn(h, inbox[h]))
        BY <1>4, <1>5, <3>2, <4>1
      <4> QED
        BY <1>0, <1>1, <2>1, <4>2, NoticeKept
    <3> QED
      BY <2>1, <3>1, <3>2
  <2>2. \/ inbox'[h] = inbox[h] \/ FetchMail(h)
        \/ \E m \in Mail :
               Publish(m) /\ (m.var # "IVPHELM_STATE" \/ Says(m.from, m))
    BY <1>3, InboxStep
  <2> QED
    BY <2>1, <2>2
<1>7. Iterate(g) => NoticeIn(h, inbox'[h])
  <2> SUFFICES ASSUME Iterate(g) PROVE NoticeIn(h, inbox'[h])
    OBVIOUS
  <2> DEFINE s == Settled(status[g], hasControl[g])
             m == [var |-> "IVPHELM_STATE", from |-> g, val |-> s]
  <2>1. s \in {"PARK", "DRIVE"}
    BY <1>0 DEF Settled
  <2>2. s # "DISABLED"
    BY <2>1
  <2>3. Publish(m)
    BY <2>2 DEF Iterate, IterateIdle, IterateParked, IterateDecides,
       IterateFails, IterateBegins
  <2>4. Says(g, m)
    BY DEF Says
  <2> HIDE DEF s
  <2>5. m \in Mail
    BY <2>1 DEF Mail, Statuses
  <2> HIDE DEF m
  <2> QED
    BY <1>0, <1>1, <1>4, <2>3, <2>4, <2>5, NoticeKept
<1>8. FetchMail(h) => batch'[h] = inbox[h] /\ batch[h] = <<>>
  BY <1>0 DEF FetchMail, InHand, Enabled
<1>9. ~FetchMail(h) =>
          /\ batch'[h] \in {batch[h], Tail(batch[h])}
          /\ NoticeIn(h, batch[h]) => NoticeIn(h, batch'[h])
  <2>1. CASE Rests(h)
    BY <2>1 DEF Rests
  <2>2. CASE SkipSkewed(h) \/ ReadOverride(h) \/ ReadState(h) \/ ReadRestart(h)
    BY <2>2, NoticeRead
  <2>3. CASE MailRead(h) \/ Iterate(h)
    <3>1. batch' = batch
      BY <2>3 DEF MailRead, mailVars, Iterate, IterateIdle, IterateParked,
         IterateDecides, IterateFails, IterateBegins
    <3> QED
      BY <3>1
  <2>4. CASE HelmStep(h)
    BY <2>2, <2>3, <2>4 DEF HelmStep
  <2> QED
    BY <1>3, <2>1, <2>4, StepTo
<1>10. ~NoticeIn(h, <<>>)
  BY DEF NoticeIn
<1> QED
  BY <1>6, <1>7, <1>8, <1>9, <1>10 DEF YieldsSooner

(* When two helms drive and one is a primary, every step leads that one to *)
(* yield, provided that they are the only two, that no mail is ignored for *)
(* its skew and that ROS keeps at least two messages of a variable.  (That *)
(* both go on is the fairness of the run helm_late, where OneHelmYields is *)
(* checked.)                                                               *)
THEOREM YieldComesCloser ==
    ASSUME MissionOfTwo
    PROVE  Spec => YieldApproaches
<1>1. HelmInv /\ StillBad /\ HandInv /\ [Next]_vars =>
          [\A h \in Helms \ StandbyHelms : \A g \in Helms \ {h} :
              BothDrive(h, g) => ~BothDrive(h, g)' \/ YieldsSooner(h, g)]_vars
  <2> SUFFICES ASSUME HelmInv, StillBad, HandInv, [Next]_vars,
                      NEW h \in Helms \ StandbyHelms, NEW g \in Helms \ {h},
                      BothDrive(h, g), BothDrive(h, g)'
               PROVE  YieldsSooner(h, g)
    OBVIOUS
  <2>1. h \in running' /\ Enabled(status'[h])
    BY DEF BothDrive
  <2> QED
    BY <2>1, YieldStep
<1> QED
  BY <1>1, HelmInvInit, HelmInvStep, StillBadInit, StillBadStep, HandInit,
     HandStep, PTL DEF Spec, YieldApproaches
=============================================================================
