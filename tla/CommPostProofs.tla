--------------------------- MODULE CommPostProofs ---------------------------
(***************************************************************************)
(* What holds of CommPost for all threads, topics and limits.              *)
(***************************************************************************)
EXTENDS CommPost, SequenceTheorems, TLAPS

-----------------------------------------------------------------------------
(***************************************************************************)
(* Sequences of ids.                                                       *)
(***************************************************************************)
Before(s, t) ==
    \A i \in 1..Len(s), j \in 1..Len(t) :
        s[i] < t[j] \/ Terminate \in {s[i], t[j]}

LEMMA SeqMonotone ==
    ASSUME NEW S, NEW T, S \subseteq T
    PROVE  Seq(S) \subseteq Seq(T)
<1>1. SUFFICES ASSUME NEW s \in Seq(S) PROVE s \in Seq(T)
  OBVIOUS
<1>2. /\ Len(s) \in Nat /\ s = [i \in 1..Len(s) |-> s[i]]
      /\ \A i \in 1..Len(s) : s[i] \in T
  BY ElementOfSeq, LenProperties
<1> QED
  BY <1>2

(* A concatenation is in order iff its parts are, and one before the other. *)
LEMMA ConcatIncreases ==
    ASSUME NEW s \in Seq(Nat), NEW t \in Seq(Nat)
    PROVE  Increases(s \o t) <=> Increases(s) /\ Increases(t) /\ Before(s, t)
<1> DEFINE st == s \o t
<1>1. /\ Len(s) \in Nat /\ Len(t) \in Nat
      /\ Len(st) = Len(s) + Len(t)
      /\ \A i \in 1..Len(s) : st[i] = s[i]
      /\ \A j \in 1..Len(t) : st[Len(s) + j] = t[j]
  BY ConcatProperties, LenProperties
<1>2. ASSUME Increases(st) PROVE Increases(s) /\ Increases(t) /\ Before(s, t)
  <2>1. Increases(s)
    <3>1. \A i \in 1..Len(s) : i \in 1..Len(st)
      BY <1>1
    <3> QED
      BY <1>1, <1>2, <3>1 DEF Increases
  <2>2. Increases(t)
    <3>1. SUFFICES ASSUME NEW i \in 1..Len(t), NEW j \in 1..Len(t), i < j
                   PROVE  t[i] < t[j] \/ Terminate \in {t[i], t[j]}
      BY DEF Increases
    <3>2. /\ Len(s) + i \in 1..Len(st) /\ Len(s) + j \in 1..Len(st)
          /\ Len(s) + i < Len(s) + j
      BY <1>1, <3>1
    <3> QED
      BY <1>1, <1>2, <3>2 DEF Increases
  <2>3. Before(s, t)
    <3>1. SUFFICES ASSUME NEW i \in 1..Len(s), NEW j \in 1..Len(t)
                   PROVE  s[i] < t[j] \/ Terminate \in {s[i], t[j]}
      BY DEF Before
    <3>2. /\ i \in 1..Len(st) /\ Len(s) + j \in 1..Len(st) /\ i < Len(s) + j
      BY <1>1
    <3> QED
      BY <1>1, <1>2, <3>2 DEF Increases
  <2> QED
    BY <2>1, <2>2, <2>3
<1>3. ASSUME Increases(s), Increases(t), Before(s, t) PROVE Increases(st)
  <2>1. SUFFICES ASSUME NEW i \in 1..Len(st), NEW j \in 1..Len(st), i < j
                 PROVE  st[i] < st[j] \/ Terminate \in {st[i], st[j]}
    BY DEF Increases
  <2>2. CASE j <= Len(s)
    BY <1>1, <1>3, <2>1, <2>2 DEF Increases
  <2>3. CASE i <= Len(s) /\ j > Len(s)
    <3>1. j - Len(s) \in 1..Len(t) /\ Len(s) + (j - Len(s)) = j
      BY <1>1, <2>3
    <3> QED
      BY <1>1, <1>3, <2>3, <3>1 DEF Before
  <2>4. CASE i > Len(s)
    <3>1. /\ j - Len(s) \in 1..Len(t) /\ Len(s) + (j - Len(s)) = j
          /\ i - Len(s) \in 1..Len(t) /\ Len(s) + (i - Len(s)) = i
          /\ i - Len(s) < j - Len(s)
      BY <1>1, <2>1, <2>4
    <3>2. \/ t[i - Len(s)] < t[j - Len(s)]
          \/ Terminate \in {t[i - Len(s)], t[j - Len(s)]}
      BY <1>3, <3>1 DEF Increases
    <3>3. st[i] = t[i - Len(s)] /\ st[j] = t[j - Len(s)]
      <4> HIDE DEF st
      <4> QED
        BY <1>1, <3>1
    <3> QED
      BY <3>2, <3>3
  <2> QED
    BY <1>1, <2>1, <2>2, <2>3, <2>4
<1> QED
  BY <1>2, <1>3

\* Every element of s is in t, in the same order.
Part(s, t) ==
    \E d \in Nat : /\ Len(s) + d <= Len(t)
                   /\ \A i \in 1..Len(s) : s[i] = t[i + d]

LEMMA PartOfItself ==
    ASSUME NEW S, NEW s \in Seq(S)
    PROVE  Part(s, s)
<1>1. Len(s) + 0 <= Len(s) /\ \A i \in 1..Len(s) : s[i] = s[i + 0]
  BY LenProperties
<1> QED
  BY <1>1 DEF Part

(* What is left of a sequence in order is in order.                        *)
LEMMA PartIncreases ==
    ASSUME NEW s \in Seq(Nat), NEW t \in Seq(Nat), Part(s, t), Increases(t)
    PROVE  Increases(s)
<1>1. PICK d \in Nat : /\ Len(s) + d <= Len(t)
                       /\ \A i \in 1..Len(s) : s[i] = t[i + d]
  BY DEF Part
<1>2. Len(s) \in Nat /\ Len(t) \in Nat
  BY LenProperties
<1>3. SUFFICES ASSUME NEW i \in 1..Len(s), NEW j \in 1..Len(s), i < j
               PROVE  s[i] < s[j] \/ Terminate \in {s[i], s[j]}
  BY DEF Increases
<1>4. i + d \in 1..Len(t) /\ j + d \in 1..Len(t) /\ i + d < j + d
  <2>1. Len(s) + d <= Len(t)
    BY <1>1
  <2> QED
    BY <1>2, <1>3, <2>1
<1>5. t[i + d] < t[j + d] \/ Terminate \in {t[i + d], t[j + d]}
  BY <1>4 DEF Increases
<1>6. s[i] = t[i + d]
  BY <1>1, <1>3
<1>7. s[j] = t[j + d]
  BY <1>1, <1>3
<1> QED
  BY <1>5, <1>6, <1>7

LEMMA PartBefore ==
    ASSUME NEW s \in Seq(Nat), NEW t \in Seq(Nat), NEW u, Part(s, t)
    PROVE  /\ Before(t, u) => Before(s, u)
           /\ Before(u, t) => Before(u, s)
<1>1. PICK d \in Nat : /\ Len(s) + d <= Len(t)
                       /\ \A i \in 1..Len(s) : s[i] = t[i + d]
  BY DEF Part
<1>2. Len(s) \in Nat /\ Len(t) \in Nat
  BY LenProperties
<1>3. \A i \in 1..Len(s) : i + d \in 1..Len(t)
  BY <1>1, <1>2
<1> QED
  BY <1>1, <1>3 DEF Before

(* A message with a newer id goes to the end of a sequence in order.       *)
LEMMA AppendIncreases ==
    ASSUME NEW s \in Seq(Nat), NEW n \in Nat, Increases(s),
           \A i \in 1..Len(s) : s[i] < n
    PROVE  Increases(Append(s, n))
<1>1. /\ Len(s) \in Nat
      /\ Len(Append(s, n)) = Len(s) + 1
      /\ \A i \in 1..Len(s) : Append(s, n)[i] = s[i]
      /\ Append(s, n)[Len(s) + 1] = n
  BY AppendProperties, LenProperties
<1>2. SUFFICES ASSUME NEW i \in 1..Len(s) + 1, NEW j \in 1..Len(s) + 1, i < j
               PROVE  \/ Append(s, n)[i] < Append(s, n)[j]
                      \/ Terminate \in {Append(s, n)[i], Append(s, n)[j]}
  BY <1>1 DEF Increases
<1>3. i \in 1..Len(s)
  BY <1>1, <1>2
<1>4. CASE j = Len(s) + 1
  BY <1>1, <1>3, <1>4
<1>5. CASE j \in 1..Len(s)
  BY <1>1, <1>2, <1>3, <1>5 DEF Increases
<1> QED
  BY <1>1, <1>4, <1>5

(***************************************************************************)
(* Making room.                                                            *)
(***************************************************************************)
(* The outbox keeps its limit, and what it had that is not dropped.        *)
LEMMA PushedKeeps ==
    ASSUME NEW S, outBox \in Seq(S), Len(outBox) <= Limit, NEW m \in S
    PROVE  /\ Pushed(m) \in Seq(S)
           /\ Len(Pushed(m)) <= Limit
           /\ Part(Pushed(m), Append(outBox, m))
<1> DEFINE longer == Append(outBox, m)
<1>1. /\ longer \in Seq(S) /\ longer # <<>>
      /\ Len(longer) = Len(outBox) + 1 /\ Len(outBox) \in Nat
  BY AppendProperties, LenProperties
<1>2. CASE Len(outBox) < Limit
  <2>1. Pushed(m) = longer
    BY <1>1, <1>2, PostAssumption DEF Pushed
  <2> HIDE DEF longer
  <2>2. Part(longer, longer)
    BY <1>1, PartOfItself
  <2> QED
    BY <1>1, <1>2, <2>1, <2>2, PostAssumption DEF longer
<1>3. CASE Len(outBox) >= Limit
  <2>1. Pushed(m) = Tail(longer)
    BY <1>3 DEF Pushed
  <2>2. /\ Tail(longer) \in Seq(S)
        /\ Len(Tail(longer)) = Len(longer) - 1
        /\ \A i \in 1..Len(Tail(longer)) : Tail(longer)[i] = longer[i + 1]
    BY <1>1, HeadTailProperties
  <2> QED
    BY <1>1, <2>1, <2>2, PostAssumption DEF Part
<1> QED
  BY <1>1, <1>2, <1>3, PostAssumption

(* The outgoing queue is at its limit at most before it gets the outbox.   *)
LEMMA DitchedKeeps ==
    ASSUME NEW S, NEW q \in Seq(S)
    PROVE  /\ Ditched(q) \in Seq(S)
           /\ Len(Ditched(q)) <= Limit
           /\ Part(Ditched(q), q)
<1>1. Len(q) \in Nat
  BY LenProperties
<1>2. CASE Len(q) <= Limit
  <2>1. Ditched(q) = q
    BY <1>1, <1>2, PostAssumption DEF Ditched
  <2>2. Part(q, q)
    BY PartOfItself
  <2> QED
    BY <1>2, <2>1, <2>2
<1>3. CASE Len(q) > Limit
  <2> DEFINE d == Len(q) - Limit \div 2
  <2>1. /\ Limit \div 2 \in Nat /\ Limit \div 2 <= Limit
        /\ d \in 1..Len(q)
    BY <1>1, <1>3, PostAssumption
  <2>2. Ditched(q) = SubSeq(q, d + 1, Len(q))
    BY <1>3 DEF Ditched
  <2> HIDE DEF d
  <2>3. \A i \in d + 1 .. Len(q) : q[i] \in S
    BY <1>1, <2>1, ElementOfSeq
  <2>4. /\ SubSeq(q, d + 1, Len(q)) \in Seq(S)
        /\ Len(SubSeq(q, d + 1, Len(q))) = Len(q) - d
        /\ \A i \in 1..Len(q) - d : SubSeq(q, d + 1, Len(q))[i] = q[i + d]
    <3>1. /\ d + 1 \in Int /\ Len(q) \in Int /\ Len(q) - d = Len(q) - (d + 1) + 1
          /\ \A i \in 1..Len(q) - d : i + d = d + 1 + i - 1
          /\ d + 1 <= Len(q) \/ Len(q) - d = 0
      BY <1>1, <2>1
    <3>2. /\ SubSeq(q, d + 1, Len(q)) \in Seq(S)
          /\ Len(SubSeq(q, d + 1, Len(q)))
                = IF d + 1 <= Len(q) THEN Len(q) - (d + 1) + 1 ELSE 0
          /\ \A i \in 1..Len(q) - (d + 1) + 1 :
                 SubSeq(q, d + 1, Len(q))[i] = q[d + 1 + i - 1]
      BY <2>3, <3>1, SubSeqProperties
    <3> QED
      BY <3>1, <3>2
  <2>5. Len(q) - d <= Limit
    BY <1>1, <1>3, <2>1, PostAssumption DEF d
  <2> QED
    BY <1>1, <2>1, <2>2, <2>4, <2>5 DEF Part
<1> QED
  BY <1>1, <1>2, <1>3, PostAssumption

-----------------------------------------------------------------------------
(***************************************************************************)
(* The invariant.                                                          *)
(***************************************************************************)
Inside == {"advertising", "publishing"}

\* No message is as new as n.
Newest(n) ==
    /\ \A k \in Topics : \A i \in 1..Len(published[k]) : published[k][i] < n
    /\ \A i \in 1..Len(outBox) : outBox[i] < n
    /\ \A i \in 1..Len(outgoing) : outgoing[i] < n

(* Between its two steps under the lock a thread holds it, its topic has a *)
(* publisher, and its message is the newest.                               *)
Holding ==
    \A t \in Threads : pc[t] \in Inside =>
        outLock = t /\ topic[t] \in publishers /\ id[t] \in Ids /\ Newest(id[t])

(* Nobody is posting when Close has stopped the queues.                    *)
Quiet ==
    /\ closing # "no" => pc[App] = "idle"
    /\ \A t \in stopped : pc[t] = "idle"
    /\ closing \in {"terminate", "stop", "join", "closed"} => stopped = Workers

Unsent ==
    /\ Increases(outgoing) /\ Increases(outBox) /\ Before(outgoing, outBox)

PostInv ==
    TypeOK /\ Holding /\ Quiet /\ PublishedInOrder /\ Unsent /\ Bounded

LEMMA InitInv == Init => PostInv
<1> SUFFICES ASSUME Init PROVE PostInv
  OBVIOUS
<1>1. (CHOOSE k \in Topics : TRUE) \in Topics
  BY PostAssumption
<1>2. TypeOK
  <2>1. /\ <<>> \in Seq(Ids) /\ <<>> \in Seq(Ids \cup {Terminate})
        /\ 1 \in Nat \ {0}
    OBVIOUS
  <2>2. topic \in [Threads -> Topics]
    BY <1>1 DEF Init
  <2>3. published \in [Topics -> Seq(Ids)]
    BY <2>1 DEF Init
  <2> HIDE DEF Ids
  <2>4. id \in [Threads -> {0} \cup Ids]
    BY DEF Init
  <2> QED
    BY <2>1, <2>2, <2>3, <2>4 DEF Init, TypeOK
<1>3. Holding /\ Quiet
  BY DEF Init, Holding, Quiet, Inside, Threads
<1>4. PublishedInOrder /\ Unsent /\ Bounded
  <2>1. Len(<<>>) = 0
    OBVIOUS
  <2> QED
    BY <2>1, PostAssumption DEF Init, PublishedInOrder, Unsent, Before,
       Increases, Bounded
<1> QED
  BY <1>2, <1>3, <1>4 DEF PostInv

Ended == {"stop", "join", "closed"}

(* A step by which nobody gets hold of the lock, and which does no more to *)
(* outbox and queue than empty them, keeps the invariant if it keeps the   *)
(* types and is quiet.                                                     *)
LEMMA OtherSteps ==
    ASSUME PostInv, TypeOK', Quiet',
           UNCHANGED <<id, nextId, published, outLock, publishers>>,
           outBox' \in {outBox, <<>>}, outgoing' \in {outgoing, <<>>},
           closing \in Ended => closing' \in Ended,
           \A t \in Threads : pc'[t] \in Inside =>
               pc[t] \in Inside /\ topic'[t] = topic[t]
    PROVE  PostInv'
<1>1. Len(<<>>) = 0 /\ Len(outBox) \in Nat /\ Len(outgoing) \in Nat
  BY LenProperties DEF PostInv, TypeOK
<1>2. Holding'
  <2>1. \A n : Newest(n) => Newest(n)'
    BY <1>1 DEF Newest
  <2> QED
    BY <2>1 DEF PostInv, Holding, Ids
<1>3. PublishedInOrder'
  BY DEF PostInv, PublishedInOrder
<1>4. Unsent'
  BY <1>1 DEF PostInv, Unsent, Increases, Before
<1>5. Bounded'
  BY <1>1, PostAssumption DEF PostInv, Bounded, Ended
<1> QED
  BY <1>2, <1>3, <1>4, <1>5 DEF PostInv

(* A thread takes the lock, and nobody else is inside.                     *)
LEMMA LocksKeeps ==
    ASSUME PostInv, NEW t \in Threads, Locks(t)
    PROVE  PostInv'
<1> USE DEF PostInv
<1>1. /\ outLock = "free" /\ outLock' = t /\ pc[t] = "locking"
      /\ pc'[t] \in Inside /\ \A u \in Threads \ {t} : pc'[u] = pc[u]
      /\ id'[t] = nextId /\ nextId' = nextId + 1
      /\ publishers' = publishers \cup {topic[t]}
      /\ UNCHANGED <<topic, outBox, outgoing, published, shared, closeVars,
                     writerVars>>
  BY DEF Locks, Goto, TypeOK, Inside
<1>2. Ids \subseteq Ids' /\ nextId \in Ids' /\ Ids \subseteq Nat
  BY <1>1 DEF Ids, TypeOK
<1>3. TypeOK'
  <2>1. id' \in [Threads -> {0} \cup Ids']
    <3> HIDE DEF Ids
    <3> QED
      BY <1>2 DEF Locks, TypeOK
  <2>2. /\ outBox' \in Seq(Ids') /\ outgoing' \in Seq(Ids' \cup {Terminate})
        /\ published' \in [Topics -> Seq(Ids')] /\ shared' \subseteq Ids'
    <3>1. /\ Seq(Ids) \subseteq Seq(Ids')
          /\ Seq(Ids \cup {Terminate}) \subseteq Seq(Ids' \cup {Terminate})
      BY <1>2, SeqMonotone
    <3> QED
      BY <1>1, <1>2, <3>1 DEF TypeOK
  <2>3. /\ pc' \in [Threads -> {"idle", "locking", "advertising",
                                "publishing", "moving", "waiting"}]
        /\ nextId' \in Nat \ {0} /\ outLock' \in Threads \cup {"free"}
        /\ publishers' \subseteq Topics /\ topic' \in [Threads -> Topics]
    BY DEF Locks, Goto, TypeOK
  <2> QED
    BY <1>1, <2>1, <2>2, <2>3 DEF TypeOK, closeVars, writerVars
<1>4. Newest(nextId)
  <2>1. /\ \A i \in 1..Len(outBox) : outBox[i] \in Ids
        /\ \A i \in 1..Len(outgoing) : outgoing[i] \in Ids \cup {Terminate}
        /\ \A k \in Topics :
              \A i \in 1..Len(published[k]) : published[k][i] \in Ids
    <3> HIDE DEF Ids
    <3> QED
      BY ElementOfSeq DEF TypeOK
  <2>2. \A m \in Ids \cup {Terminate} : m < nextId
    BY DEF Ids, Terminate, TypeOK
  <2> QED
    BY <2>1, <2>2 DEF Newest
<1>5. Holding'
  <2>1. Newest(id[t])'
    BY <1>1, <1>4 DEF Newest
  <2>2. \A u \in Threads \ {t} : pc[u] \notin Inside
    BY <1>1, PostAssumption DEF Holding
  <2> QED
    BY <1>1, <1>2, <2>1, <2>2 DEF Holding
<1>6. Quiet'
  BY <1>1, PostAssumption DEF Quiet, closeVars, TypeOK, Threads
<1>7. PublishedInOrder' /\ Unsent' /\ Bounded'
  BY <1>1 DEF PublishedInOrder, Unsent, Bounded, closeVars
<1> QED
  BY <1>3, <1>5, <1>6, <1>7

(* The newest message goes to the end of what was published, and of the    *)
(* outbox.                                                                 *)
LEMMA PublishKeeps ==
    ASSUME PostInv, NEW t \in Threads, Publish(t)
    PROVE  PostInv'
<1> USE DEF PostInv
<1> DEFINE n == id[t]
           k == topic[t]
<1>1. /\ pc[t] = "publishing" /\ outLock = t /\ outLock' = "free"
      /\ k \in Topics /\ n \in Ids /\ Newest(n)
      /\ pc'[t] \notin Inside /\ \A u \in Threads \ {t} : pc'[u] = pc[u]
      /\ published' = [published EXCEPT ![k] = Append(@, n)]
      /\ outBox' = Pushed(n)
      /\ UNCHANGED <<publishers, topic, nextId, outgoing, closeVars, writerVars>>
  BY DEF Publish, Goto, TypeOK, Holding, Inside
<1>2. /\ Ids' = Ids /\ Ids \subseteq Nat
      /\ published[k] \in Seq(Ids) /\ outBox \in Seq(Ids)
      /\ Len(outBox) \in Nat /\ Len(outBox) <= Limit
  BY <1>1, LenProperties DEF Ids, TypeOK, Bounded
<1> HIDE DEF Ids, n, k
<1>3. /\ Pushed(n) \in Seq(Ids) /\ Len(Pushed(n)) <= Limit
      /\ Part(Pushed(n), Append(outBox, n))
  BY <1>1, <1>2, PushedKeeps
<1>4. TypeOK'
  <2>1. published' \in [Topics -> Seq(Ids)]
    <3>1. Append(published[k], n) \in Seq(Ids)
      BY <1>1, <1>2, AppendProperties
    <3> QED
      BY <1>1, <3>1 DEF TypeOK
  <2>2. id' \in [Threads -> {0} \cup Ids] /\ shared' \subseteq Ids
    BY <1>1 DEF Publish, TypeOK, n
  <2>3. pc' \in [Threads -> {"idle", "locking", "advertising",
                             "publishing", "moving", "waiting"}]
    BY DEF Publish, Goto, TypeOK
  <2> QED
    BY <1>1, <1>2, <1>3, <2>1, <2>2, <2>3 DEF TypeOK, closeVars, writerVars
<1>5. Holding'
  <2>1. \A u \in Threads : pc'[u] \notin Inside
    BY <1>1 DEF Holding
  <2> QED
    BY <2>1 DEF Holding
<1>6. Quiet'
  BY <1>1, PostAssumption DEF Quiet, closeVars, TypeOK, Threads
<1>7. PublishedInOrder'
  <2>1. SUFFICES ASSUME NEW j \in Topics PROVE Increases(published'[j])
    BY DEF PublishedInOrder
  <2>2. CASE j # k
    BY <1>1, <2>1, <2>2 DEF PublishedInOrder, TypeOK
  <2>3. CASE j = k
    <3>1. published'[j] = Append(published[k], n)
      BY <1>1, <2>3 DEF TypeOK
    <3>2. published[k] \in Seq(Nat) /\ n \in Nat
      BY <1>1, <1>2, SeqMonotone
    <3>3. Increases(published[k]) /\ \A i \in 1..Len(published[k]) : published[k][i] < n
      BY <1>1 DEF PublishedInOrder, Newest
    <3> QED
      BY <3>1, <3>2, <3>3, AppendIncreases
  <2> QED
    BY <2>2, <2>3
<1>8. Unsent'
  <2> DEFINE longer == Append(outBox, n)
  <2>1. /\ outBox \in Seq(Nat) /\ n \in Nat /\ Pushed(n) \in Seq(Nat)
        /\ longer \in Seq(Nat)
    <3>1. outBox \in Seq(Nat) /\ n \in Nat /\ Pushed(n) \in Seq(Nat)
      BY <1>1, <1>2, <1>3, SeqMonotone
    <3> QED
      BY <3>1, AppendProperties
  <2>2. Increases(longer)
    BY <1>1, <2>1, AppendIncreases DEF Unsent, Newest
  <2>3. Before(outgoing, longer)
    <3>1. /\ Len(longer) = Len(outBox) + 1 /\ longer[Len(outBox) + 1] = n
          /\ \A i \in 1..Len(outBox) : longer[i] = outBox[i]
      BY <2>1, AppendProperties
    <3>2. /\ Before(outgoing, outBox)
          /\ \A i \in 1..Len(outgoing) : outgoing[i] < n
      BY <1>1 DEF Unsent, Newest
    <3> QED
      BY <1>2, <3>1, <3>2 DEF Before
  <2>4. Increases(Pushed(n)) /\ Before(outgoing, Pushed(n))
    BY <1>3, <2>1, <2>2, <2>3, PartIncreases, PartBefore
  <2> QED
    BY <1>1, <2>4 DEF Unsent
<1>9. Bounded'
  BY <1>1, <1>3 DEF Bounded, closeVars
<1> QED
  BY <1>4, <1>5, <1>6, <1>7, <1>8, <1>9

(* What was unsent is appended to the queue, cut to its limit before.      *)
LEMMA MoveKeeps ==
    ASSUME PostInv, NEW t \in Threads, Move(t)
    PROVE  PostInv'
<1> USE DEF PostInv
<1>1. /\ outLock = "free" /\ pc[t] = "moving" /\ pc'[t] = "idle"
      /\ \A u \in Threads \ {t} : pc'[u] = pc[u]
      /\ outgoing' = Ditched(outgoing) \o outBox /\ outBox' = <<>>
      /\ UNCHANGED <<publishers, topic, id, nextId, published, shared, outLock,
                     closeVars, writerVars>>
  BY DEF Move, Goto, TypeOK
<1> DEFINE Sent == Ids \cup {Terminate}
<1>2. /\ Ids' = Ids /\ Ids \subseteq Nat /\ Sent \subseteq Nat
      /\ outBox \in Seq(Ids) /\ outBox \in Seq(Sent) /\ outgoing \in Seq(Sent)
      /\ Len(outBox) \in Nat
  <2>1. Ids' = Ids /\ Ids \subseteq Nat /\ Sent \subseteq Nat
    BY <1>1 DEF Ids, Terminate, TypeOK
  <2>2. outBox \in Seq(Ids) /\ outgoing \in Seq(Sent)
    BY DEF TypeOK
  <2> HIDE DEF Ids
  <2>3. outBox \in Seq(Sent) /\ Len(outBox) \in Nat
    BY <2>2, SeqMonotone, LenProperties
  <2> QED
    BY <2>1, <2>2, <2>3
<1>3. /\ Ditched(outgoing) \in Seq(Sent) /\ Len(Ditched(outgoing)) <= Limit
      /\ Part(Ditched(outgoing), outgoing) /\ Len(Ditched(outgoing)) \in Nat
  BY <1>2, DitchedKeeps, LenProperties
<1>4. /\ outgoing' \in Seq(Sent)
      /\ Len(outgoing') = Len(Ditched(outgoing)) + Len(outBox)
  BY <1>1, <1>2, <1>3, ConcatProperties
<1>5. TypeOK'
  <2>1. outBox' \in Seq(Ids) /\ outgoing' \in Seq(Ids \cup {Terminate})
    BY <1>1, <1>4
  <2>2. pc' \in [Threads -> {"idle", "locking", "advertising",
                             "publishing", "moving", "waiting"}]
    BY DEF Move, Goto, TypeOK
  <2> HIDE DEF Ids, Sent
  <2> QED
    BY <1>1, <1>2, <2>1, <2>2 DEF TypeOK, closeVars, writerVars
<1>6. Holding'
  <2>1. \A u \in Threads : pc'[u] \notin Inside
    BY <1>1, PostAssumption DEF Holding, Inside
  <2> QED
    BY <2>1 DEF Holding
<1>7. Quiet'
  BY <1>1, PostAssumption DEF Quiet, closeVars, TypeOK, Threads
<1>8. PublishedInOrder'
  BY <1>1 DEF PublishedInOrder
<1>9. Unsent'
  <2>1. /\ Ditched(outgoing) \in Seq(Nat) /\ outgoing \in Seq(Nat)
        /\ outBox \in Seq(Nat)
    BY <1>2, <1>3, SeqMonotone
  <2>2. Increases(Ditched(outgoing)) /\ Before(Ditched(outgoing), outBox)
    BY <1>3, <2>1, PartIncreases, PartBefore DEF Unsent
  <2>3. Increases(outgoing')
    BY <1>1, <2>1, <2>2, ConcatIncreases DEF Unsent
  <2>4. Increases(outBox') /\ Before(outgoing', outBox')
    <3>1. outBox' = <<>> /\ Len(<<>>) = 0
      BY <1>1
    <3> QED
      BY <3>1 DEF Increases, Before
  <2> QED
    BY <2>3, <2>4 DEF Unsent
<1>10. Bounded'
  <2>1. Len(outBox) <= Limit
    BY DEF Bounded
  <2>2. Len(outgoing') <= 2 * Limit
    BY <1>2, <1>3, <1>4, <2>1, PostAssumption
  <2>3. closing' = closing /\ Len(outgoing') \in Nat /\ Len(outBox') = 0
    BY <1>1, <1>2, <1>3, <1>4 DEF closeVars
  <2> QED
    BY <2>2, <2>3, PostAssumption DEF Bounded
<1> QED
  BY <1>5, <1>6, <1>7, <1>8, <1>9, <1>10

(* Close forgets the publishers when nobody is posting.                    *)
LEMMA ForgetsKeeps ==
    ASSUME PostInv, CloseForgets
    PROVE  PostInv'
<1> USE DEF PostInv
<1>1. /\ stopped = Workers /\ closing = "queues" /\ closing' = "terminate"
      /\ publishers' = {}
      /\ UNCHANGED <<pc, topic, id, nextId, published, shared, boxVars, stopped,
                     writerQuit, writerVars>>
  BY DEF CloseForgets, CloseGoto
<1>2. TypeOK'
  BY <1>1 DEF TypeOK, Ids, boxVars, writerVars
<1>3. \A t \in Threads : pc'[t] = "idle"
  BY <1>1 DEF Quiet, Threads
<1>4. Holding' /\ Quiet'
  BY <1>1, <1>3, PostAssumption DEF Holding, Quiet, Inside, Threads, TypeOK
<1>5. PublishedInOrder' /\ Unsent' /\ Bounded'
  BY <1>1 DEF PublishedInOrder, Unsent, Bounded, boxVars
<1> QED
  BY <1>2, <1>4, <1>5

(* The message that ends the writer is in nobody's way.                    *)
LEMMA TerminatesKeeps ==
    ASSUME PostInv, CloseTerminates
    PROVE  PostInv'
<1> USE DEF PostInv
<1>1. /\ closing = "terminate" /\ closing' = "stop"
      /\ outgoing' = Append(outgoing, Terminate)
      /\ UNCHANGED <<postVars, outLock, outBox, stopped, writerQuit, writerVars>>
  BY DEF CloseTerminates, CloseGoto
<1> DEFINE Sent == Ids \cup {Terminate}
<1>2. /\ outgoing \in Seq(Sent) /\ Len(outgoing) \in Nat
      /\ Len(outgoing') = Len(outgoing) + 1 /\ outgoing' \in Seq(Sent)
      /\ \A i \in 1..Len(outgoing) : outgoing'[i] = outgoing[i]
      /\ outgoing'[Len(outgoing) + 1] = Terminate
  <2>1. outgoing \in Seq(Sent) /\ Terminate \in Sent
    BY DEF TypeOK
  <2> HIDE DEF Sent
  <2> QED
    BY <1>1, <2>1, AppendProperties, LenProperties
<1>3. TypeOK'
  <2>1. Ids' = Ids
    BY <1>1 DEF Ids, postVars
  <2> HIDE DEF Ids
  <2> QED
    BY <1>1, <1>2, <2>1 DEF TypeOK, postVars, writerVars
<1>4. \A t \in Threads : pc'[t] = "idle"
  BY <1>1 DEF Quiet, Threads, postVars
<1>5. Holding' /\ Quiet'
  BY <1>1, <1>4, PostAssumption
  DEF Holding, Quiet, Inside, Threads, TypeOK, postVars
<1>6. PublishedInOrder' /\ Unsent'
  <2>1. \A i \in 1..Len(outgoing') : i \in 1..Len(outgoing) \/ i = Len(outgoing) + 1
    BY <1>2
  <2>2. Increases(outgoing')
    BY <1>2, <2>1 DEF Unsent, Increases
  <2>3. Before(outgoing', outBox')
    BY <1>1, <1>2, <2>1 DEF Unsent, Before
  <2> QED
    BY <1>1, <2>2, <2>3 DEF PublishedInOrder, Unsent, postVars
<1>7. Bounded'
  BY <1>1, <1>2, PostAssumption DEF Bounded
<1> QED
  BY <1>3, <1>5, <1>6, <1>7

(***************************************************************************)
(* The other steps.                                                        *)
(***************************************************************************)
Pcs == {"idle", "locking", "advertising", "publishing", "moving", "waiting"}

(* A thread that goes on without touching lock and boxes.                  *)
LEMMA GoesOn ==
    ASSUME PostInv, NEW t \in Threads, NEW to \in Pcs,
           pc' = [pc EXCEPT ![t] = to],
           pc[t] # "idle" \/ (t \notin stopped /\ (t = App => closing = "no")),
           to \in Inside => pc[t] \in Inside /\ topic' = topic,
           topic' \in [Threads -> Topics],
           \A u \in Threads \ {t} : topic'[u] = topic[u],
           UNCHANGED <<publishers, id, nextId, published, shared, boxVars,
                       closeVars, writerVars>>
    PROVE  PostInv'
<1>1. TypeOK'
  BY DEF PostInv, TypeOK, Ids, boxVars, closeVars, writerVars, Pcs
<1>2. Quiet'
  BY PostAssumption DEF PostInv, TypeOK, Quiet, closeVars, Threads
<1>3. \A u \in Threads : pc'[u] \in Inside =>
          pc[u] \in Inside /\ topic'[u] = topic[u]
  BY DEF PostInv, TypeOK
<1> QED
  BY <1>1, <1>2, <1>3, OtherSteps DEF boxVars, closeVars, Ended

LEMMA CallersKeep ==
    ASSUME PostInv, NEW t \in Threads, NEW k \in Topics,
           PostBegins(t, k) \/ AdvertiseReturns(t) \/ WaitBegins \/ WaitEnds
    PROVE  PostInv'
<1>1. App \in Threads /\ TypeOK
  BY DEF PostInv, Threads
<1>2. CASE PostBegins(t, k)
  BY <1>1, <1>2, GoesOn DEF PostBegins, Goto, TypeOK, Inside, Pcs
<1>3. CASE AdvertiseReturns(t)
  BY <1>1, <1>3, GoesOn DEF AdvertiseReturns, Goto, TypeOK, Inside, Pcs
<1>4. CASE WaitBegins
  BY <1>1, <1>4, GoesOn, PostAssumption
  DEF WaitBegins, Goto, TypeOK, Inside, Pcs
<1>5. CASE WaitEnds
  BY <1>1, <1>5, GoesOn DEF WaitEnds, Goto, TypeOK, Inside, Pcs
<1> QED
  BY <1>2, <1>3, <1>4, <1>5

LEMMA CloseKeeps ==
    ASSUME PostInv, CloseBegins \/ CloseNext
    PROVE  PostInv'
<1> USE DEF PostInv, CloseGoto, boxVars
<1>1. CASE CloseForgets
  BY <1>1, ForgetsKeeps
<1>2. CASE CloseTerminates
  BY <1>2, TerminatesKeeps
<1>3. ASSUME \/ CloseBegins \/ CloseClears \/ CloseStopsWriter \/ CloseReturns
             \/ \E t \in Workers : CloseStopsQueue(t)
      PROVE  PostInv'
  <2>1. /\ UNCHANGED <<postVars, outLock, outgoing, writerVars>>
        /\ outBox' \in {outBox, <<>>}
        /\ closing' \in {closing, "clear", "queues", "join", "closed"}
        /\ stopped' \subseteq Workers /\ writerQuit' \in BOOLEAN
        /\ closing \in Ended => closing' \in Ended
    BY <1>3 DEF CloseBegins, CloseClears, CloseStopsWriter, CloseReturns,
       CloseStopsQueue, TypeOK, Ended
  <2>2. TypeOK'
    <3>1. Ids' = Ids /\ <<>> \in Seq(Ids)
      BY <2>1 DEF Ids, postVars
    <3> HIDE DEF Ids
    <3> QED
      BY <2>1, <3>1 DEF TypeOK, postVars, writerVars
  <2>3. Quiet'
    BY <1>3 DEF Quiet, CloseBegins, CloseClears, CloseStopsWriter,
       CloseReturns, CloseStopsQueue, postVars
  <2> QED
    BY <2>1, <2>2, <2>3, OtherSteps DEF postVars
<1> QED
  BY <1>1, <1>2, <1>3 DEF CloseNext

LEMMA WriterKeeps ==
    ASSUME PostInv, WriterNext
    PROVE  PostInv'
<1> USE DEF PostInv, WriterGoto, boxVars
<1>1. /\ UNCHANGED <<postVars, outLock, closeVars>>
      /\ outBox' \in {outBox, <<>>} /\ outgoing' \in {outgoing, <<>>}
      /\ connected' \in BOOLEAN
      /\ writer' \in {"write", "disconnect", "clear", "connect", "clearAgain",
                      "done"}
  BY DEF WriterNext, DoWriting, Disconnects, ClearsOutBox, WriterQuits, TypeOK
<1>2. TypeOK'
  <2>1. Ids' = Ids /\ <<>> \in Seq(Ids) /\ <<>> \in Seq(Ids \cup {Terminate})
    BY <1>1 DEF Ids, postVars
  <2> HIDE DEF Ids
  <2> QED
    BY <1>1, <2>1 DEF TypeOK, postVars, closeVars
<1>3. Quiet'
  BY <1>1 DEF Quiet, postVars, closeVars
<1> QED
  BY <1>1, <1>2, <1>3, OtherSteps DEF postVars, closeVars

LEMMA StepInv == PostInv /\ [Next]_vars => PostInv'
<1> SUFFICES ASSUME PostInv, [Next]_vars PROVE PostInv'
  OBVIOUS
<1>1. ASSUME NEW t \in Threads, Posting(t) PROVE PostInv'
  <2>1. PICK k \in Topics : TRUE
    BY PostAssumption
  <2> QED
    BY <1>1, <2>1, LocksKeeps, CallersKeep, PublishKeeps, MoveKeeps DEF Posting
<1>2. ASSUME NEW t \in Threads, NEW k \in Topics, PostBegins(t, k)
      PROVE  PostInv'
  BY <1>2, CallersKeep
<1>3. ASSUME WaitBegins \/ WaitEnds PROVE PostInv'
  <2>1. PICK k \in Topics : TRUE
    BY PostAssumption
  <2>2. App \in Threads
    BY DEF Threads
  <2> QED
    BY <1>3, <2>1, <2>2, CallersKeep
<1>4. CASE CloseBegins \/ CloseNext
  BY <1>4, CloseKeeps
<1>5. CASE WriterNext
  BY <1>5, WriterKeeps
<1>6. CASE UNCHANGED vars
  <2>1. /\ TypeOK' /\ Holding' /\ Quiet' /\ PublishedInOrder' /\ Unsent'
        /\ Bounded'
    BY <1>6 DEF PostInv, TypeOK, Ids, Holding, Newest, Quiet, PublishedInOrder,
       Unsent, Bounded, vars, postVars, boxVars, closeVars, writerVars
  <2> QED
    BY <2>1 DEF PostInv
<1> QED
  BY <1>1, <1>2, <1>3, <1>4, <1>5, <1>6 DEF Next, NothingNew

LEMMA Invariant == Spec => []PostInv
<1>1. Init => PostInv
  BY InitInv
<1>2. PostInv /\ [Next]_vars => PostInv'
  BY StepInv
<1> QED
  BY <1>1, <1>2, PTL DEF Spec

-----------------------------------------------------------------------------
(***************************************************************************)
(* The theorems.                                                           *)
(***************************************************************************)
(* Every field keeps its type; in particular no message has the id of a    *)
(* later one (m_nNextMsgID in Post and PostGlobal).                        *)
THEOREM TypeCorrect == Spec => []TypeOK
<1>1. PostInv => TypeOK
  BY DEF PostInv
<1> QED
  BY <1>1, Invariant, PTL

(* A topic's messages are published in the order of their ids, however     *)
(* many threads post to it.                                                *)
THEOREM PublishingIsOrdered == Spec => []PublishedInOrder
<1>1. PostInv => PublishedInOrder
  BY DEF PostInv
<1> QED
  BY <1>1, Invariant, PTL

(* Queue and outbox together are in order, although m_OutLock is let go of *)
(* between the two halves of MOOSAsyncCommClient::Post.                    *)
THEOREM UnsentIsOrdered == Spec => []UnsentInOrder
<1>1. PostInv => UnsentInOrder
  <2>1. ASSUME PostInv PROVE outgoing \in Seq(Nat) /\ outBox \in Seq(Nat)
    <3>1. /\ Ids \subseteq Nat /\ Ids \cup {Terminate} \subseteq Nat
      BY <2>1 DEF PostInv, TypeOK, Ids, Terminate
    <3>2. outgoing \in Seq(Ids \cup {Terminate}) /\ outBox \in Seq(Ids)
      BY <2>1 DEF PostInv, TypeOK
    <3> HIDE DEF Ids
    <3> QED
      BY <3>1, <3>2, SeqMonotone
  <2> QED
    BY <2>1, ConcatIncreases DEF PostInv, Unsent, UnsentInOrder
<1> QED
  BY <1>1, Invariant, PTL

(* Outbox and queue keep their limits, however fast threads post and       *)
(* however slow the writer is.                                             *)
THEOREM BoxesAreBounded == Spec => []Bounded
<1>1. PostInv => Bounded
  BY DEF PostInv
<1> QED
  BY <1>1, Invariant, PTL

(* publisherMap.at never throws: Close clears the map without the lock,    *)
(* but when nobody is posting.                                             *)
THEOREM PublishersAreThere == Spec => []PostNeverThrows
<1>1. PostInv => PostNeverThrows
  BY DEF PostInv, Holding, PostNeverThrows, Inside
<1> QED
  BY <1>1, Invariant, PTL

-----------------------------------------------------------------------------
(***************************************************************************)
(* Why Close and WaitForEmptyOutbox return: whoever they wait for can go   *)
(* on.                                                                     *)
(***************************************************************************)
\* m_OutLock is held by a thread between its steps under the lock.
LockHeld == outLock # "free" => pc[outLock] \in Inside

\* Who has put a message in the outbox comes back to move it, except
\* PostGlobal.
MoverComes ==
    (\E i \in 1..Len(outBox) : outBox[i] \notin shared)
        => \E t \in Threads : pc[t] = "moving"

\* Callbacks do not wait for the outbox; the writer is asked to quit before
\* it is joined.
Roles ==
    /\ \A t \in Workers : pc[t] # "waiting"
    /\ writerQuit <=> closing \in {"join", "closed"}

WaitInv == PostInv /\ LockHeld /\ MoverComes /\ Roles

LEMMA InitWaitInv == Init => WaitInv
<1> SUFFICES ASSUME Init PROVE LockHeld /\ MoverComes /\ Roles
  BY InitInv DEF WaitInv
<1>1. Len(<<>>) = 0
  OBVIOUS
<1> QED
  BY <1>1 DEF Init, LockHeld, MoverComes, Roles, Threads

(* What a full outbox loses is no reason to move it.                       *)
LEMMA PushedHas ==
    ASSUME NEW S, outBox \in Seq(S), NEW m \in S
    PROVE  \A i \in 1..Len(Pushed(m)) :
               \/ Pushed(m)[i] = m
               \/ \E j \in 1..Len(outBox) : Pushed(m)[i] = outBox[j]
<1> DEFINE longer == Append(outBox, m)
<1>1. /\ longer \in Seq(S) /\ longer # <<>>
      /\ Len(longer) = Len(outBox) + 1 /\ Len(outBox) \in Nat
      /\ \A i \in 1..Len(outBox) : longer[i] = outBox[i]
      /\ longer[Len(outBox) + 1] = m
  BY AppendProperties, LenProperties
<1>2. \A i \in 1..Len(longer) :
          longer[i] = m \/ \E j \in 1..Len(outBox) : longer[i] = outBox[j]
  <2> HIDE DEF longer
  <2>1. SUFFICES ASSUME NEW i \in 1..Len(longer), i # Len(outBox) + 1
                 PROVE  \E j \in 1..Len(outBox) : longer[i] = outBox[j]
    BY <1>1
  <2>2. i \in 1..Len(outBox)
    BY <1>1, <2>1
  <2> QED
    BY <1>1, <2>2
<1>3. Pushed(m) = longer \/ Pushed(m) = Tail(longer)
  BY DEF Pushed
<1> HIDE DEF longer
<1>4. CASE Pushed(m) = longer
  BY <1>2, <1>4
<1>5. CASE Pushed(m) = Tail(longer)
  <2>1. /\ Len(Tail(longer)) = Len(longer) - 1
        /\ \A i \in 1..Len(Tail(longer)) : Tail(longer)[i] = longer[i + 1]
    BY <1>1, HeadTailProperties
  <2>2. ASSUME NEW i \in 1..Len(Tail(longer))
        PROVE  i + 1 \in 1..Len(longer) /\ Tail(longer)[i] = longer[i + 1]
    BY <1>1, <2>1
  <2> QED
    BY <1>2, <1>5, <2>2
<1> QED
  BY <1>3, <1>4, <1>5

LEMMA PostingWaits ==
    ASSUME WaitInv, NEW t \in Threads, Posting(t)
    PROVE  LockHeld' /\ MoverComes' /\ Roles'
<1>0. /\ pc \in [Threads -> {"idle", "locking", "advertising", "publishing",
                             "moving", "waiting"}]
      /\ outBox \in Seq(Ids) /\ outLock \in Threads \cup {"free"}
      /\ "free" \notin Threads /\ Workers \subseteq Threads
      /\ LockHeld /\ MoverComes /\ Roles
      /\ id \in [Threads -> {0} \cup Ids]
  BY PostAssumption DEF WaitInv, PostInv, TypeOK, Threads
<1>1. CASE Locks(t)
  <2>1. \E to \in Inside : pc' = [pc EXCEPT ![t] = to] /\ pc[t] = "locking"
    BY <1>1 DEF Locks, Goto, Inside
  <2>2. outLock' = t /\ UNCHANGED <<outBox, shared, closing, writerQuit>>
    BY <1>1 DEF Locks, closeVars
  <2>3. LockHeld' /\ Roles'
    BY <1>0, <2>1, <2>2 DEF LockHeld, Roles, Inside
  <2>4. MoverComes'
    BY <1>0, <2>1, <2>2 DEF MoverComes
  <2> QED
    BY <2>3, <2>4
<1>2. CASE AdvertiseReturns(t)
  <2>1. pc' = [pc EXCEPT ![t] = "publishing"] /\ pc[t] = "advertising"
    BY <1>2 DEF AdvertiseReturns, Goto
  <2>2. UNCHANGED <<outLock, outBox, shared, closing, writerQuit>>
    BY <1>2 DEF AdvertiseReturns, boxVars, closeVars
  <2>3. LockHeld' /\ Roles'
    BY <1>0, <2>1, <2>2 DEF LockHeld, Roles, Inside
  <2>4. MoverComes'
    BY <1>0, <2>1, <2>2 DEF MoverComes
  <2> QED
    BY <2>3, <2>4
<1>3. CASE Publish(t)
  <2>1. /\ pc[t] = "publishing"
        /\ pc' = [pc EXCEPT ![t] = IF topic[t] \in Global THEN "idle"
                                                         ELSE "moving"]
        /\ outLock' = "free" /\ UNCHANGED <<closing, writerQuit>>
    BY <1>3 DEF Publish, Goto, closeVars
  <2>2. LockHeld' /\ Roles'
    BY <1>0, <2>1 DEF LockHeld, Roles
  <2>3. CASE topic[t] \notin Global
    <3>1. pc'[t] = "moving"
      BY <1>0, <2>1, <2>3
    <3> QED
      BY <2>2, <3>1 DEF MoverComes
  <2>4. CASE topic[t] \in Global
    <3>1. outBox' = Pushed(id[t]) /\ shared' = shared \cup {id[t]}
      BY <1>3, <2>4 DEF Publish
    <3>2. id[t] \in Ids
      BY <2>1 DEF WaitInv, PostInv, Holding, Inside
    <3>3. ASSUME NEW i \in 1..Len(outBox'), outBox'[i] \notin shared'
          PROVE  \E j \in 1..Len(outBox) : outBox[j] \notin shared
      BY <1>0, <3>1, <3>2, <3>3, PushedHas
    <3>4. ASSUME NEW u \in Threads, pc[u] = "moving" PROVE pc'[u] = "moving"
      BY <1>0, <2>1, <3>4
    <3> QED
      BY <1>0, <2>2, <3>3, <3>4 DEF MoverComes
  <2> QED
    BY <2>3, <2>4
<1>4. CASE Move(t)
  <2>1. /\ pc[t] = "moving" /\ pc' = [pc EXCEPT ![t] = "idle"]
        /\ outLock' = "free" /\ outBox' = <<>>
        /\ UNCHANGED <<closing, writerQuit>>
    BY <1>4 DEF Move, Goto, closeVars
  <2>2. LockHeld' /\ Roles'
    BY <1>0, <2>1 DEF LockHeld, Roles
  <2>3. Len(outBox') = 0
    BY <2>1
  <2> QED
    BY <2>2, <2>3 DEF MoverComes
<1> QED
  BY <1>1, <1>2, <1>3, <1>4 DEF Posting

(* A thread that begins something, or is done with waiting.                *)
LEMMA CallersWait ==
    ASSUME WaitInv, NEW t \in Threads, NEW to \in {"locking", "waiting", "idle"},
           pc[t] \in {"idle", "waiting"}, pc' = [pc EXCEPT ![t] = to],
           to = "waiting" => t \notin Workers,
           UNCHANGED <<outLock, outBox, shared, closing, writerQuit>>
    PROVE  LockHeld' /\ MoverComes' /\ Roles'
<1>1. /\ pc \in [Threads -> {"idle", "locking", "advertising", "publishing",
                             "moving", "waiting"}]
      /\ outLock \in Threads \cup {"free"} /\ Workers \subseteq Threads
  BY DEF WaitInv, PostInv, TypeOK, Threads
<1>2. LockHeld' /\ Roles'
  BY <1>1 DEF WaitInv, LockHeld, Roles, Inside
<1>3. MoverComes'
  BY <1>1 DEF WaitInv, MoverComes
<1> QED
  BY <1>2, <1>3

LEMMA StepWaitInv == WaitInv /\ [Next]_vars => WaitInv'
<1> SUFFICES ASSUME WaitInv, [Next]_vars PROVE LockHeld' /\ MoverComes' /\ Roles'
  BY StepInv DEF WaitInv
<1>0. App \in Threads /\ App \notin Workers
  BY PostAssumption DEF Threads
<1>1. ASSUME NEW t \in Threads, NEW k \in Topics, PostBegins(t, k)
      PROVE  LockHeld' /\ MoverComes' /\ Roles'
  BY <1>1, CallersWait DEF PostBegins, Goto, boxVars, closeVars
<1>2. CASE WaitBegins \/ WaitEnds
  BY <1>0, <1>2, CallersWait DEF WaitBegins, WaitEnds, Goto, boxVars, closeVars
<1>3. CASE CloseBegins \/ CloseNext
  <2>1. /\ UNCHANGED <<pc, outLock, shared>> /\ outBox' \in {outBox, <<>>}
        /\ \/ UNCHANGED writerQuit /\ closing' \notin {"join", "closed"}
              /\ closing \notin {"join", "closed"}
           \/ writerQuit' = TRUE /\ closing' = "join"
           \/ UNCHANGED writerQuit /\ closing = "join" /\ closing' = "closed"
    BY <1>3 DEF CloseBegins, CloseNext, CloseClears, CloseForgets,
       CloseTerminates, CloseStopsWriter, CloseReturns, CloseStopsQueue,
       CloseGoto, postVars, boxVars
  <2>2. LockHeld' /\ Roles'
    BY <2>1 DEF WaitInv, LockHeld, Roles
  <2>3. Len(<<>>) = 0
    OBVIOUS
  <2>4. MoverComes'
    BY <2>1, <2>3 DEF WaitInv, MoverComes
  <2> QED
    BY <2>2, <2>4
<1>4. CASE WriterNext
  <2>1. /\ UNCHANGED <<pc, outLock, shared, writerQuit, closing>>
        /\ outBox' \in {outBox, <<>>}
    BY <1>4 DEF WriterNext, DoWriting, Disconnects, ClearsOutBox, WriterQuits,
       postVars, boxVars, closeVars
  <2>2. Len(<<>>) = 0
    OBVIOUS
  <2> QED
    BY <2>1, <2>2 DEF WaitInv, LockHeld, MoverComes, Roles
<1>5. CASE UNCHANGED vars
  BY <1>5 DEF WaitInv, LockHeld, MoverComes, Roles, vars, postVars, boxVars,
     closeVars
<1> QED
  BY <1>1, <1>2, <1>3, <1>4, <1>5, PostingWaits DEF Next, NothingNew

LEMMA WaitInvariant == Spec => []WaitInv
<1>1. Init => WaitInv
  BY InitWaitInv
<1>2. WaitInv /\ [Next]_vars => WaitInv'
  BY StepWaitInv
<1> QED
  BY <1>1, <1>2, PTL DEF Spec

(* m_OutLock is never leaked: who holds it has a step to make, in which no *)
(* other lock is taken and publisherMap.at does not throw.                 *)
LockMoves ==
    outLock # "free" =>
        /\ pc[outLock] \in Inside
        /\ pc[outLock] = "publishing" => topic[outLock] \in publishers

(* Post and PostGlobal give m_OutLock up again, although they may throw    *)
(* while they hold it.                                                     *)
THEOREM LockIsNotLeaked == Spec => []LockMoves
<1>1. WaitInv => LockMoves
  <2> SUFFICES ASSUME WaitInv, outLock # "free" PROVE LockMoves
    BY DEF LockMoves
  <2>1. outLock \in Threads /\ pc[outLock] \in Inside
    BY DEF WaitInv, LockHeld, PostInv, TypeOK
  <2> QED
    BY <2>1 DEF WaitInv, PostInv, Holding, LockMoves
<1> QED
  BY <1>1, WaitInvariant, PTL

(* WaitForEmptyOutbox waits for a worker that is about to move the outbox, *)
(* unless all that the outbox holds was put there by PostGlobal.           *)
WaitIsForAWorker ==
    pc[App] = "waiting" =>
        \/ \A i \in 1..Len(outBox) : outBox[i] \in shared
        \/ \E t \in Workers : pc[t] = "moving"

(* WaitForEmptyOutbox asks again and again only while a Post is on its way *)
(* to empty the outbox, or PostGlobal has filled it.                       *)
THEOREM WaitsForAWorker == Spec => []WaitIsForAWorker
<1>1. WaitInv => WaitIsForAWorker
  BY DEF WaitInv, MoverComes, WaitIsForAWorker, Threads
<1> QED
  BY <1>1, WaitInvariant, PTL

(* Where Close waits it does not wait in vain.  A queue it has yet to stop *)
(* is between two callbacks, or in a callback that posts, which needs no   *)
(* more than m_OutLock.  Later nobody holds m_OutLock or will take it, so  *)
(* the writer is not held up where it clears the outbox; when it is joined *)
(* it has been asked to quit.                                              *)
CloseCanGoOn ==
    /\ closing = "queues" =>
           \/ stopped = Workers
           \/ \E t \in Workers \ stopped :
                  pc[t] \in {"idle", "locking", "moving"} \cup Inside
    /\ closing \in {"terminate", "stop", "join", "closed"} =>
           outLock = "free" /\ \A t \in Threads : pc[t] = "idle"
    /\ closing = "join" => writerQuit

(* Close stops the queues and joins the writer; none of these waits is for *)
(* somebody that cannot go on.                                             *)
THEOREM CloseWaitsForTheLiving == Spec => []CloseCanGoOn
<1>1. WaitInv => CloseCanGoOn
  <2> SUFFICES ASSUME WaitInv PROVE CloseCanGoOn
    OBVIOUS
  <2>1. TypeOK /\ Quiet /\ LockHeld /\ Roles
    BY DEF WaitInv, PostInv
  <2>2. ASSUME closing = "queues", stopped # Workers
        PROVE  \E t \in Workers \ stopped :
                   pc[t] \in {"idle", "locking", "moving"} \cup Inside
    <3>1. PICK t \in Workers \ stopped : TRUE
      BY <2>1, <2>2 DEF TypeOK
    <3>2. pc[t] \in {"idle", "locking", "moving"} \cup Inside
      BY <2>1, <3>1 DEF TypeOK, Roles, Threads, Inside
    <3> QED
      BY <3>1, <3>2
  <2>3. ASSUME closing \in {"terminate", "stop", "join", "closed"}
        PROVE  outLock = "free" /\ \A t \in Threads : pc[t] = "idle"
    <3>1. \A t \in Threads : pc[t] = "idle"
      BY <2>1, <2>3 DEF Quiet, Threads
    <3> QED
      BY <2>1, <3>1 DEF TypeOK, LockHeld, Inside
  <2> QED
    BY <2>1, <2>2, <2>3 DEF CloseCanGoOn, Roles
<1> QED
  BY <1>1, WaitInvariant, PTL

\* How far the writer is from its end, when nobody gives it more to write.
StepsLeft ==
    2 * [write |-> 5, disconnect |-> 4, clear |-> 3, connect |-> 2,
         clearAgain |-> 1, done |-> 0][writer]
    + (IF outgoing = <<>> THEN 0 ELSE 1)

(* Once the queues are stopped and the writer has been told to end, nobody *)
(* adds to what it has to write, and every step of it brings it nearer to  *)
(* its end, also the failing attempt to connect that follows when it has   *)
(* read MOOS_TERMINATE_CONNECTION before its quit flag was set.            *)
CloseApproaches ==
    [][(closing \in {"stop", "join"}) =>
          /\ outgoing' \in {outgoing, <<>>}
          /\ (writer' # writer \/ outgoing' # outgoing)
                 => StepsLeft' < StepsLeft]_vars

LEMMA WriterApproaches ==
    ASSUME TypeOK, WriterNext
    PROVE  StepsLeft' < StepsLeft
<1> DEFINE Some == IF outgoing = <<>> THEN 0 ELSE 1
           Some2 == IF outgoing' = <<>> THEN 0 ELSE 1
           Stage == [write |-> 5, disconnect |-> 4, clear |-> 3, connect |-> 2,
                     clearAgain |-> 1, done |-> 0]
<1>1. /\ Stage["write"] = 5 /\ Stage["disconnect"] = 4 /\ Stage["clear"] = 3
      /\ Stage["connect"] = 2 /\ Stage["clearAgain"] = 1 /\ Stage["done"] = 0
  OBVIOUS
<1>2. StepsLeft = 2 * Stage[writer] + Some
  BY DEF StepsLeft
<1>3. StepsLeft' = 2 * Stage[writer'] + Some2
  BY DEF StepsLeft
<1>4. Some \in {0, 1} /\ Some2 \in {0, 1}
  OBVIOUS
<1>5. \/ /\ writer = "write" /\ writer' = "write" /\ outgoing # <<>>
         /\ outgoing' = <<>>
      \/ writer = "write" /\ writer' \in {"disconnect", "done"}
      \/ writer = "disconnect" /\ writer' = "clear"
      \/ writer = "clear" /\ writer' \in {"connect", "done"}
      \/ writer = "connect" /\ writer' = "clearAgain"
      \/ writer = "clearAgain" /\ writer' = "done"
  BY DEF WriterNext, DoWriting, Disconnects, ClearsOutBox, WriterQuits,
     WriterGoto
<1>6. outgoing # <<>> => Some = 1
  OBVIOUS
<1>7. outgoing' = <<>> => Some2 = 0
  OBVIOUS
<1> HIDE DEF Stage, Some, Some2
<1>8. CASE writer = "write" /\ writer' = "write"
  <2>1. Some = 1 /\ Some2 = 0
    BY <1>5, <1>6, <1>7, <1>8
  <2> QED
    BY <1>1, <1>2, <1>3, <1>8, <2>1
<1>9. CASE Stage[writer] \in 0..5 /\ Stage[writer'] \in 0..5
           /\ Stage[writer'] < Stage[writer]
  BY <1>2, <1>3, <1>4, <1>9
<1> QED
  BY <1>1, <1>5, <1>8, <1>9

(* The join of the writer in Close comes to an end.                        *)
THEOREM CloseComesCloser == Spec => CloseApproaches
<1> DEFINE Closer ==
        closing \in {"stop", "join"} =>
          /\ outgoing' \in {outgoing, <<>>}
          /\ writer' # writer \/ outgoing' # outgoing => StepsLeft' < StepsLeft
<1>1. ASSUME WaitInv, [Next]_vars PROVE Closer
  <2> SUFFICES ASSUME closing \in {"stop", "join"} PROVE Closer
    OBVIOUS
  <2>1. TypeOK /\ \A t \in Threads : pc[t] = "idle"
    BY <1>1 DEF WaitInv, PostInv, Quiet, Threads
  <2>2. CASE WriterNext
    <3>1. outgoing' \in {outgoing, <<>>}
      BY <2>2 DEF WriterNext, DoWriting, Disconnects, ClearsOutBox,
         WriterQuits, boxVars
    <3> QED
      BY <2>1, <2>2, <3>1, WriterApproaches
  <2>3. CASE ~WriterNext
    <3>1. UNCHANGED <<writer, outgoing>>
      <4>1. \A t \in Threads : ~Posting(t)
        BY <2>1 DEF Posting, Locks, AdvertiseReturns, Publish, Move, Goto
      <4>2. ASSUME NEW t \in Threads, NEW k \in Topics, PostBegins(t, k)
            PROVE  UNCHANGED <<writer, outgoing>>
        BY <4>2 DEF PostBegins, boxVars, writerVars
      <4>3. ASSUME WaitBegins \/ WaitEnds \/ CloseBegins \/ CloseNext
            PROVE  UNCHANGED <<writer, outgoing>>
        BY <4>3 DEF WaitBegins, WaitEnds, CloseBegins, CloseNext, CloseClears,
           CloseForgets, CloseTerminates, CloseStopsWriter, CloseReturns,
           CloseStopsQueue, CloseGoto, boxVars, writerVars
      <4> QED
        BY <1>1, <2>3, <4>1, <4>2, <4>3 DEF Next, NothingNew, vars, boxVars,
           writerVars
    <3> QED
      BY <3>1
  <2> QED
    BY <2>2, <2>3
<1>2. WaitInv /\ [Next]_vars => [Closer]_vars
  BY <1>1
<1> QED
  BY <1>2, WaitInvariant, PTL DEF Spec, CloseApproaches

-----------------------------------------------------------------------------
(***************************************************************************)
(* Every message that was posted goes out, and once.                       *)
(***************************************************************************)
\* Message n has been published.
IsOut(n) ==
    \E k \in Topics : \E i \in 1..Len(published[k]) : published[k][i] = n

\* Message n is between the two steps under m_OutLock.
IsHeld(n) == \E t \in Threads : pc[t] \in Inside /\ id[t] = n

NoneIsLost == \A n \in Ids : IsOut(n) \/ IsHeld(n)

\* No message is published twice, on one topic or on two.
NoneIsDoubled ==
    \A k, l \in Topics :
    \A i \in 1..Len(published[k]) : \A j \in 1..Len(published[l]) :
        published[k][i] = published[l][j] => k = l /\ i = j

OnceInv == NoneIsLost /\ NoneIsDoubled

LEMMA OnceInit == Init => OnceInv
<1> SUFFICES ASSUME Init PROVE OnceInv
  OBVIOUS
<1>1. Ids = {} /\ \A k \in Topics : 1..Len(published[k]) = {}
  BY DEF Init, Ids
<1> QED
  BY <1>1 DEF OnceInv, NoneIsLost, NoneIsDoubled

(* A message that takes its id is held.                                    *)
LEMMA OnceLocks ==
    ASSUME PostInv, OnceInv, NEW t \in Threads, Locks(t)
    PROVE  OnceInv'
<1>1. /\ outLock = "free" /\ pc'[t] \in Inside /\ id'[t] = nextId
      /\ nextId' = nextId + 1 /\ published' = published
  BY DEF Locks, Goto, PostInv, TypeOK, Inside
<1>2. \A u \in Threads : pc[u] \notin Inside
  BY <1>1, PostAssumption DEF PostInv, Holding
<1>3. NoneIsLost'
  <2>1. SUFFICES ASSUME NEW n \in Ids' PROVE IsOut(n)' \/ IsHeld(n)'
    BY DEF NoneIsLost
  <2>2. CASE n = nextId
    BY <1>1, <2>2 DEF IsHeld
  <2>3. CASE n # nextId
    <3>1. n \in Ids
      BY <1>1, <2>3 DEF Ids, PostInv, TypeOK
    <3> QED
      BY <1>1, <1>2, <3>1 DEF OnceInv, NoneIsLost, IsOut, IsHeld
  <2> QED
    BY <2>2, <2>3
<1>4. NoneIsDoubled'
  BY <1>1 DEF OnceInv, NoneIsDoubled
<1> QED
  BY <1>3, <1>4 DEF OnceInv

(* What was held is out, and was not before: it is the newest.             *)
LEMMA OncePublish ==
    ASSUME PostInv, OnceInv, NEW t \in Threads, Publish(t)
    PROVE  OnceInv'
<1> DEFINE n == id[t]
           k == topic[t]
           s == published[k]
<1>1. /\ outLock = t /\ pc[t] \in Inside /\ k \in Topics /\ n \in Ids
      /\ Newest(n) /\ nextId' = nextId
      /\ published' = [published EXCEPT ![k] = Append(s, n)]
      /\ \A u \in Threads \ {t} : pc[u] \notin Inside
  BY DEF Publish, Goto, PostInv, TypeOK, Holding, Inside
<1>2. /\ Ids' = Ids /\ Ids \subseteq Nat
      /\ \A j \in Topics : published[j] \in Seq(Ids)
  BY <1>1 DEF Ids, PostInv, TypeOK
<1>3. \A j \in Topics : \A i \in 1..Len(published[j]) :
          published[j][i] \in Nat /\ published[j][i] < n
  <2>1. \A j \in Topics : \A i \in 1..Len(published[j]) :
            published[j][i] \in Ids
    <3> HIDE DEF Ids
    <3> QED
      BY <1>2, ElementOfSeq
  <2> QED
    BY <1>1, <1>2, <2>1 DEF Newest
<1> HIDE DEF Ids, n
<1>4. /\ published'[k] = Append(s, n)
      /\ \A j \in Topics \ {k} : published'[j] = published[j]
  BY <1>1 DEF PostInv, TypeOK
<1>5. /\ Len(s) \in Nat /\ Len(Append(s, n)) = Len(s) + 1
      /\ Append(s, n)[Len(s) + 1] = n
      /\ \A i \in 1..Len(s) : Append(s, n)[i] = s[i]
  BY <1>1, <1>2, AppendProperties, LenProperties
<1> HIDE DEF k, s
\* Where something is now it was before, or it is the new message.
<1>6. ASSUME NEW j \in Topics, NEW i \in 1..Len(published'[j])
      PROVE  \/ i \in 1..Len(published[j]) /\ published'[j][i] = published[j][i]
             \/ j = k /\ i = Len(s) + 1 /\ published'[j][i] = n
  BY <1>4, <1>5 DEF s
<1>7. NoneIsLost'
  <2>1. SUFFICES ASSUME NEW m \in Ids' PROVE IsOut(m)'
    BY DEF NoneIsLost
  <2>2. CASE m = n
    <3>1. Len(s) + 1 \in 1..Len(published'[k])
          /\ published'[k][Len(s) + 1] = n
      BY <1>4, <1>5
    <3> QED
      BY <1>1, <2>2, <3>1 DEF IsOut
  <2>3. CASE m # n
    <3>1. IsOut(m)
      BY <1>1, <1>2, <2>1, <2>3 DEF OnceInv, NoneIsLost, IsHeld, n
    <3>2. PICK j \in Topics :
              \E i \in 1..Len(published[j]) : published[j][i] = m
      BY <3>1 DEF IsOut
    <3>3. PICK i \in 1..Len(published[j]) : published[j][i] = m
      BY <3>2
    <3>4. i \in 1..Len(published'[j]) /\ published'[j][i] = m
      BY <1>4, <1>5, <3>3 DEF s
    <3> QED
      BY <3>4 DEF IsOut
  <2> QED
    BY <2>2, <2>3
<1>8. NoneIsDoubled'
  <2>1. SUFFICES ASSUME NEW j \in Topics, NEW l \in Topics,
                        NEW i \in 1..Len(published'[j]),
                        NEW h \in 1..Len(published'[l]),
                        published'[j][i] = published'[l][h]
                 PROVE  j = l /\ i = h
    BY DEF NoneIsDoubled
  <2>2. CASE i \in 1..Len(published[j]) /\ published'[j][i] = published[j][i]
    <3>1. published'[l][h] # n
      BY <1>1, <1>2, <1>3, <2>1, <2>2
    <3>2. h \in 1..Len(published[l]) /\ published'[l][h] = published[l][h]
      BY <1>6, <3>1
    <3>3. published[j][i] = published[l][h]
      BY <2>1, <2>2, <3>2
    <3>4. NoneIsDoubled
      BY DEF OnceInv
    <3> QED
      BY <2>2, <3>2, <3>3, <3>4 DEF NoneIsDoubled
  <2>3. CASE j = k /\ i = Len(s) + 1 /\ published'[j][i] = n
    <3>1. ~ (h \in 1..Len(published[l]) /\ published'[l][h] = published[l][h])
      BY <1>1, <1>2, <1>3, <2>1, <2>3
    <3> QED
      BY <1>6, <2>3, <3>1
  <2> QED
    BY <1>6, <2>2, <2>3
<1> QED
  BY <1>7, <1>8 DEF OnceInv

(* No other step takes an id or publishes, and who is inside stays there.  *)
LEMMA OnceOther ==
    ASSUME OnceInv, UNCHANGED <<published, id, nextId>>,
           \A t \in Threads : pc[t] \in Inside => pc'[t] \in Inside
    PROVE  OnceInv'
BY DEF OnceInv, NoneIsLost, NoneIsDoubled, IsOut, IsHeld, Ids

LEMMA OnceStep == PostInv /\ OnceInv /\ [Next]_vars => OnceInv'
<1> SUFFICES ASSUME PostInv, OnceInv, [Next]_vars PROVE OnceInv'
  OBVIOUS
<1>1. ASSUME NEW t \in Threads, Locks(t) \/ Publish(t) PROVE OnceInv'
  BY <1>1, OnceLocks, OncePublish
<1>2. ASSUME NEW t \in Threads, NEW to \in Pcs,
             pc' = [pc EXCEPT ![t] = to], pc[t] \in Inside => to \in Inside,
             UNCHANGED <<published, id, nextId>>
      PROVE  OnceInv'
  BY <1>2, OnceOther DEF PostInv, TypeOK
<1>3. ASSUME NEW t \in Threads,
             \/ AdvertiseReturns(t) \/ Move(t)
             \/ \E k \in Topics : PostBegins(t, k)
      PROVE  OnceInv'
  <2>1. CASE AdvertiseReturns(t)
    BY <1>2, <2>1 DEF AdvertiseReturns, Goto, Inside, Pcs
  <2>2. CASE Move(t)
    BY <1>2, <2>2 DEF Move, Goto, Inside, Pcs
  <2>3. CASE \E k \in Topics : PostBegins(t, k)
    BY <1>2, <2>3 DEF PostBegins, Goto, Inside, Pcs
  <2> QED
    BY <1>3, <2>1, <2>2, <2>3
<1>4. CASE WaitBegins \/ WaitEnds
  BY <1>2, <1>4 DEF WaitBegins, WaitEnds, Goto, Inside, Pcs, Threads
<1>5. CASE CloseBegins \/ CloseNext
  <2>1. UNCHANGED <<published, id, nextId, pc>>
    BY <1>5 DEF CloseBegins, CloseNext, CloseClears, CloseForgets,
       CloseTerminates, CloseStopsWriter, CloseReturns, CloseStopsQueue,
       postVars
  <2> QED
    BY <2>1, OnceOther
<1>6. CASE WriterNext
  <2>1. UNCHANGED <<published, id, nextId, pc>>
    BY <1>6 DEF WriterNext, DoWriting, Disconnects, ClearsOutBox, WriterQuits,
       postVars
  <2> QED
    BY <2>1, OnceOther
<1>7. CASE UNCHANGED vars
  BY <1>7, OnceOther DEF vars, postVars
<1> QED
  BY <1>1, <1>3, <1>4, <1>5, <1>6, <1>7 DEF Next, Posting, NothingNew

(* Once its id is taken a message goes out exactly once, on one topic, or  *)
(* is with the thread that holds m_OutLock: Post and PostGlobal return     *)
(* from nowhere between taking the id and publishing.  Outbox and queue    *)
(* may drop it, but they only keep what ROS has already.                   *)
THEOREM EveryPostGoesOutOnce == Spec => [](NoneIsLost /\ NoneIsDoubled)
<1>1. Init => OnceInv
  BY OnceInit
<1>2. PostInv /\ OnceInv /\ [Next]_vars => OnceInv'
  BY OnceStep
<1>3. OnceInv => NoneIsLost /\ NoneIsDoubled
  BY DEF OnceInv
<1> QED
  BY <1>1, <1>2, <1>3, Invariant, PTL DEF Spec
=============================================================================
