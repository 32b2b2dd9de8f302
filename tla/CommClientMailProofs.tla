------------------------ MODULE CommClientMailProofs ------------------------
(***************************************************************************)
(* Where the mail of a CommClient is, and in which order: for every set of *)
(* variables, every queue size and purge limit, and any number of messages.*)
(***************************************************************************)
EXTENDS CommClientProofs

-----------------------------------------------------------------------------
(***************************************************************************)
(* Sequences whose elements are distinct and, for each variable, go        *)
(* forward or backward in time.                                            *)
(***************************************************************************)
Earlier(m, l) == m # l /\ (m.key = l.key => m.time <= l.time)

Forward(s) == \A i, j \in DOMAIN s : i < j => Earlier(s[i], s[j])
Backward(s) == \A i, j \in DOMAIN s : i < j => Earlier(s[j], s[i])

Before(A, B) == \A m \in A, l \in B : Earlier(m, l)

LEMMA ElementsAre ==
    ASSUME NEW s \in Seq(Message)
    PROVE  /\ Len(s) \in Nat /\ DOMAIN s = 1..Len(s)
           /\ Elements(s) = {s[i] : i \in 1..Len(s)}
           /\ Elements(s) \subseteq Message
BY LenProperties, ElementsType DEF Elements

LEMMA Nothing ==
    /\ Elements(<<>>) = {} /\ Forward(<<>>) /\ Backward(<<>>)
    /\ <<>> \in Seq(Message)
<1>1. <<>> \in Seq(Message) /\ Len(<<>>) = 0
  BY EmptySeq
<1>2. DOMAIN <<>> = {}
  BY <1>1, ElementsAre
<1> QED
  BY <1>1, <1>2 DEF Elements, Forward, Backward

LEMMA Single ==
    ASSUME NEW m \in Message
    PROVE  /\ <<m>> \in Seq(Message) /\ Len(<<m>>) = 1 /\ <<m>>[1] = m
           /\ Elements(<<m>>) = {m} /\ Forward(<<m>>) /\ Backward(<<m>>)
<1> DEFINE s == <<m>>
<1>1. s \in Seq(Message) /\ Len(s) = 1 /\ s[1] = m
  OBVIOUS
<1> HIDE DEF s
<1>2. DOMAIN s = {1} /\ Elements(s) = {m}
  <2>1. 1..1 = {1}
    OBVIOUS
  <2>2. DOMAIN s = {1} /\ Elements(s) = {s[i] : i \in {1}}
    BY <1>1, <2>1, ElementsAre
  <2> QED
    BY <1>1, <2>2
<1>3. Forward(s) /\ Backward(s)
  BY <1>2 DEF Forward, Backward
<1> QED
  BY <1>1, <1>2, <1>3 DEF s

(* Distinct elements: no two places hold the same.                         *)
LEMMA OnePlace ==
    ASSUME NEW s \in Seq(Message), Forward(s) \/ Backward(s),
           NEW i \in DOMAIN s, NEW j \in DOMAIN s, s[i] = s[j]
    PROVE  i = j
<1>1. i \in Int /\ j \in Int
  BY Positions
<1>2. \A m : ~Earlier(m, m)
  BY DEF Earlier
<1>3. ~(i < j) /\ ~(j < i)
  BY <1>2 DEF Forward, Backward
<1> QED
  BY <1>1, <1>3

LEMMA Concatenated ==
    ASSUME NEW s \in Seq(Message), NEW t \in Seq(Message)
    PROVE  /\ s \o t \in Seq(Message)
           /\ Elements(s \o t) = Elements(s) \cup Elements(t)
           /\ Forward(s) /\ Forward(t) /\ Before(Elements(s), Elements(t))
                 => Forward(s \o t)
           /\ Backward(s) /\ Backward(t) /\ Before(Elements(t), Elements(s))
                 => Backward(s \o t)
<1> DEFINE r == s \o t
           n == Len(s)
           l == Len(t)
<1>1. /\ r \in Seq(Message) /\ Len(r) = n + l
      /\ \A i \in 1..(n + l) : r[i] = IF i <= n THEN s[i] ELSE t[i - n]
  BY ConcatProperties
<1> HIDE DEF r
<1>2. /\ DOMAIN s = 1..n /\ Elements(s) = {s[i] : i \in 1..n} /\ n \in Nat
      /\ DOMAIN t = 1..l /\ Elements(t) = {t[i] : i \in 1..l} /\ l \in Nat
      /\ DOMAIN r = 1..(n + l) /\ Elements(r) = {r[i] : i \in 1..(n + l)}
  BY <1>1, ElementsAre
<1> HIDE DEF n, l
<1>3. \A i \in 1..n : i \in 1..(n + l) /\ r[i] = s[i]
  BY <1>1, <1>2
<1>4. ASSUME NEW i \in 1..l PROVE i + n \in 1..(n + l) /\ r[i + n] = t[i]
  <2>1. /\ i + n \in 1..(n + l) /\ ~(i + n <= n) /\ (i + n) - n = i
    BY <1>2
  <2> QED
    BY <1>1, <2>1
<1>5. ASSUME NEW i \in 1..(n + l)
      PROVE  \/ i \in 1..n /\ r[i] = s[i]
             \/ i - n \in 1..l /\ i > n /\ r[i] = t[i - n]
  BY <1>1, <1>2
<1>6. Elements(r) = Elements(s) \cup Elements(t)
  <2>1. Elements(r) \subseteq Elements(s) \cup Elements(t)
    BY <1>2, <1>5
  <2>2. Elements(s) \cup Elements(t) \subseteq Elements(r)
    BY <1>2, <1>3, <1>4
  <2> QED
    BY <2>1, <2>2
<1>7. ASSUME Forward(s), Forward(t), Before(Elements(s), Elements(t))
      PROVE  Forward(r)
  <2>1. SUFFICES ASSUME NEW i \in 1..(n + l), NEW j \in 1..(n + l), i < j
                 PROVE  Earlier(r[i], r[j])
    BY <1>2 DEF Forward
  <2>2. CASE j <= n
    <3>1. i \in 1..n /\ j \in 1..n
      BY <1>2, <2>1, <2>2
    <3> QED
      BY <1>2, <1>3, <1>7, <2>1, <3>1 DEF Forward
  <2>3. CASE i <= n /\ j > n
    <3>1. r[i] \in Elements(s) /\ r[j] \in Elements(t)
      BY <1>2, <1>5, <2>3
    <3> QED
      BY <1>7, <3>1 DEF Before
  <2>4. CASE i > n
    <3>1. /\ i - n \in 1..l /\ r[i] = t[i - n] /\ j - n \in 1..l /\ r[j] = t[j - n]
          /\ i - n < j - n
      BY <1>2, <1>5, <2>1, <2>4
    <3> QED
      BY <1>2, <1>7, <3>1 DEF Forward
  <2> QED
    BY <1>2, <2>2, <2>3, <2>4
<1>8. ASSUME Backward(s), Backward(t), Before(Elements(t), Elements(s))
      PROVE  Backward(r)
  <2>1. SUFFICES ASSUME NEW i \in 1..(n + l), NEW j \in 1..(n + l), i < j
                 PROVE  Earlier(r[j], r[i])
    BY <1>2 DEF Backward
  <2>2. CASE j <= n
    <3>1. i \in 1..n /\ j \in 1..n
      BY <1>2, <2>1, <2>2
    <3> QED
      BY <1>2, <1>3, <1>8, <2>1, <3>1 DEF Backward
  <2>3. CASE i <= n /\ j > n
    <3>1. r[i] \in Elements(s) /\ r[j] \in Elements(t)
      BY <1>2, <1>5, <2>3
    <3> QED
      BY <1>8, <3>1 DEF Before
  <2>4. CASE i > n
    <3>1. /\ i - n \in 1..l /\ r[i] = t[i - n] /\ j - n \in 1..l /\ r[j] = t[j - n]
          /\ i - n < j - n
      BY <1>2, <1>5, <2>1, <2>4
    <3> QED
      BY <1>2, <1>8, <3>1 DEF Backward
  <2> QED
    BY <1>2, <2>2, <2>3, <2>4
<1> QED
  BY <1>1, <1>6, <1>7, <1>8 DEF r

LEMMA WithoutHead ==
    ASSUME NEW s \in Seq(Message), s # <<>>, Forward(s)
    PROVE  /\ Head(s) \in Message /\ Tail(s) \in Seq(Message) /\ Forward(Tail(s))
           /\ Elements(s) = {Head(s)} \cup Elements(Tail(s))
           /\ Before({Head(s)}, Elements(Tail(s)))
<1> DEFINE t == Tail(s)
           n == Len(s)
<1>1. /\ n \in Nat \ {0} /\ Head(s) = s[1]
      /\ t \in Seq(Message) /\ Len(t) = n - 1
      /\ \A i \in 1..(n - 1) : t[i] = s[i + 1]
  <2>1. n \in Nat /\ n # 0
    BY EmptySeq, LenProperties
  <2> QED
    BY <2>1, HeadTailProperties
<1> HIDE DEF t
<1>2. /\ DOMAIN s = 1..n /\ Elements(s) = {s[i] : i \in 1..n}
      /\ DOMAIN t = 1..(n - 1) /\ Elements(t) = {t[i] : i \in 1..(n - 1)}
      /\ Elements(s) \subseteq Message
  BY <1>1, ElementsAre
<1> HIDE DEF n
<1>3. 1 \in 1..n /\ \A i \in 1..(n - 1) : i + 1 \in 1..n /\ 1 < i + 1
  BY <1>1
<1>4. \A i \in 1..n : i = 1 \/ (i - 1 \in 1..(n - 1) /\ (i - 1) + 1 = i)
  BY <1>1
<1>5. Elements(s) = {s[1]} \cup Elements(t)
  <2>1. Elements(s) \subseteq {s[1]} \cup Elements(t)
    <3>1. ASSUME NEW i \in 1..n, i # 1 PROVE s[i] \in Elements(t)
      <4>1. i - 1 \in 1..(n - 1) /\ t[i - 1] = s[i]
        BY <1>1, <1>4, <3>1
      <4> QED
        BY <1>2, <4>1
    <3> QED
      BY <1>2, <3>1
  <2>2. {s[1]} \cup Elements(t) \subseteq Elements(s)
    BY <1>1, <1>2, <1>3
  <2> QED
    BY <2>1, <2>2
<1>6. Forward(t)
  <2>1. SUFFICES ASSUME NEW i \in 1..(n - 1), NEW j \in 1..(n - 1), i < j
                 PROVE  Earlier(t[i], t[j])
    BY <1>2 DEF Forward
  <2>2. i + 1 < j + 1
    BY <1>1, <2>1
  <2> QED
    BY <1>1, <1>2, <1>3, <2>2 DEF Forward
<1>7. Before({s[1]}, Elements(t))
  BY <1>1, <1>2, <1>3 DEF Forward, Before
<1> QED
  BY <1>1, <1>2, <1>3, <1>5, <1>6, <1>7 DEF t

(* What is left of a sequence, and what was cut off in front.              *)
LEMMA CutOff ==
    ASSUME NEW s \in Seq(Message), Backward(s), NEW n \in 0..Len(s)
    PROVE  LET t == SubSeq(s, n + 1, Len(s))
               cut == {s[i] : i \in 1..n} IN
           /\ t \in Seq(Message) /\ Backward(t)
           /\ Elements(s) = cut \cup Elements(t) /\ cut \cap Elements(t) = {}
<1> DEFINE t == SubSeq(s, n + 1, Len(s))
           cut == {s[i] : i \in 1..n}
           l == Len(s)
<1>1. /\ DOMAIN s = 1..l /\ Elements(s) = {s[i] : i \in 1..l}
      /\ l \in Nat /\ n \in Nat /\ n <= l /\ \A i \in 1..l : s[i] \in Message
  BY ElementsAre, ElementOfSeq
<1>2. /\ t \in Seq(Message) /\ Len(t) = l - n
      /\ \A i \in 1..(l - n) : t[i] = s[n + i]
  <2>1. /\ n + 1 \in Int /\ l \in Int /\ \A i \in (n + 1)..l : s[i] \in Message
    BY <1>1
  <2>2. /\ t \in Seq(Message)
        /\ Len(t) = IF n + 1 <= l THEN l - (n + 1) + 1 ELSE 0
        /\ \A i \in 1..(l - (n + 1) + 1) : t[i] = s[(n + 1) + i - 1]
    BY <2>1, SubSeqProperties
  <2> HIDE DEF t, l
  <2>3. Len(t) = l - n /\ l - (n + 1) + 1 = l - n
    BY <1>1, <2>2
  <2>4. \A i \in 1..(l - n) : (n + 1) + i - 1 = n + i
    BY <1>1
  <2> QED
    BY <2>2, <2>3, <2>4
<1> HIDE DEF t
<1>3. DOMAIN t = 1..(l - n) /\ Elements(t) = {t[i] : i \in 1..(l - n)}
  BY <1>2, ElementsAre
<1>4. \A i, j \in 1..l : s[i] = s[j] => i = j
  BY <1>1, OnePlace
<1> HIDE DEF l
<1>5. \A i \in 1..(l - n) : n + i \in 1..l /\ n + i \notin 1..n
  BY <1>1
<1>6. \A i \in 1..l : i \in 1..n \/ (i - n \in 1..(l - n) /\ n + (i - n) = i)
  BY <1>1
<1>7. 1..n \subseteq 1..l
  BY <1>1
<1>8. Elements(s) = cut \cup Elements(t)
  <2>1. ASSUME NEW i \in 1..l, i \notin 1..n PROVE s[i] \in Elements(t)
    <3>1. i - n \in 1..(l - n) /\ t[i - n] = s[i]
      BY <1>2, <1>6, <2>1
    <3> QED
      BY <1>3, <3>1
  <2>2. Elements(s) \subseteq cut \cup Elements(t)
    BY <1>1, <2>1
  <2>3. cut \cup Elements(t) \subseteq Elements(s)
    BY <1>1, <1>2, <1>3, <1>5, <1>7
  <2> QED
    BY <2>2, <2>3
<1>9. cut \cap Elements(t) = {}
  BY <1>1, <1>2, <1>3, <1>4, <1>5, <1>7
<1>10. Backward(t)
  <2>1. SUFFICES ASSUME NEW i \in 1..(l - n), NEW j \in 1..(l - n), i < j
                 PROVE  Earlier(t[j], t[i])
    BY <1>3 DEF Backward
  <2>2. n + i < n + j
    BY <1>1, <2>1
  <2> QED
    BY <1>1, <1>2, <1>5, <2>2 DEF Backward
<1> QED
  BY <1>2, <1>8, <1>9, <1>10 DEF t, l

(* Sorting by time keeps the elements and puts them in order.              *)
LEMMA SortedIs ==
    ASSUME NEW s \in Seq(Message), Backward(s)
    PROVE  /\ SortedByTime(s) \in Seq(Message)
           /\ Elements(SortedByTime(s)) = Elements(s)
           /\ Forward(SortedByTime(s))
<1> DEFINE D == DOMAIN s
           at(n) == CHOOSE i \in D :
                        Cardinality({j \in D : Precedes(s, j, i)}) = n - 1
           r == SortedByTime(s)
<1>1. \A n \in D : at(n) \in D /\ Rank(s, at(n)) = n - 1
  BY RankTaken DEF Rank
<1>2. r \in Seq(Message) /\ r = [n \in D |-> s[at(n)]]
  BY SortedType DEF SortedByTime
<1> HIDE DEF at, r
<1>3. /\ D = 1..Len(s) /\ Len(s) \in Nat /\ Elements(s) = {s[i] : i \in D}
      /\ \A i \in D : i \in Int /\ s[i] \in Message /\ s[i].time \in Int
  BY ElementsAre, Positions
<1>4. \A i, k \in D : i # k => Precedes(s, i, k) \/ Precedes(s, k, i)
  BY <1>3 DEF Precedes
<1>5. ASSUME NEW n \in D, NEW m \in D, n < m PROVE Precedes(s, at(n), at(m))
  <2>1. PICK i \in D : i = at(n) /\ Rank(s, i) = n - 1
    BY <1>1
  <2>2. PICK k \in D : k = at(m) /\ Rank(s, k) = m - 1
    BY <1>1
  <2>3. Rank(s, i) < Rank(s, k)
    BY <1>3, <1>5, <2>1, <2>2
  <2>4. ~(Rank(s, k) < Rank(s, i)) /\ i # k
    BY <1>3, <2>1, <2>2, <2>3
  <2>5. ~Precedes(s, k, i)
    BY <2>4, RankIncreases
  <2> QED
    BY <1>4, <2>1, <2>2, <2>4, <2>5
<1>6. Forward(r)
  <2>1. SUFFICES ASSUME NEW n \in D, NEW m \in D, n < m
                 PROVE  Earlier(r[n], r[m])
    BY <1>2 DEF Forward
  <2>2. PICK i \in D, k \in D : i = at(n) /\ k = at(m) /\ Precedes(s, i, k)
    BY <1>1, <1>5, <2>1
  <2>3. r[n] = s[i] /\ r[m] = s[k]
    BY <1>2, <2>2
  <2>4. i # k /\ s[i].time <= s[k].time
    BY <1>3, <2>2 DEF Precedes
  <2>5. s[i] # s[k]
    BY <2>4, OnePlace
  <2> QED
    BY <2>3, <2>4, <2>5 DEF Earlier
<1>7. DOMAIN r = D /\ Elements(r) = {r[n] : n \in D}
  BY <1>2 DEF Elements
<1>8. Elements(r) = Elements(s)
  <2>1. Elements(r) \subseteq Elements(s)
    BY <1>1, <1>2, <1>3, <1>7
  <2>2. \A n, m \in D : at(n) = at(m) => n = m
    <3>1. \A i \in D : ~Precedes(s, i, i)
      BY <1>3 DEF Precedes
    <3>2. \A n, m \in D : n < m \/ m < n \/ n = m
      BY <1>3
    <3> QED
      BY <1>1, <1>5, <3>1, <3>2
  <2> DEFINE f == [n \in D |-> at(n)]
  <2>3. f \in Injection(D, D)
    BY <1>1, <2>2 DEF Injection, IsInjective
  <2>4. IsFiniteSet(D)
    BY <1>3, FS_Interval
  <2>5. f \in Surjection(D, D)
    BY <2>3, <2>4, FS_Injection
  <2>6. \A i \in D : \E n \in D : at(n) = i
    BY <2>5 DEF Surjection
  <2>7. Elements(s) \subseteq Elements(r)
    BY <1>2, <1>3, <1>7, <2>6
  <2> QED
    BY <2>1, <2>7
<1> QED
  BY <1>2, <1>6, <1>8 DEF r

-----------------------------------------------------------------------------
(***************************************************************************)
(* The invariant: the mail on its way from ROS to OnNewMail, in order, and *)
(* the mail that left it.                                                  *)
(***************************************************************************)
AtRos == UNION {Elements(rosQ[k]) : k \in Keys}
Held == Elements(hand)
Boxed == Elements(inBox)
Logged == Elements(mailLog)
Everywhere == AtRos \cup Held \cup Boxed \cup Logged \cup queued \cup dropped

Sequences ==
    /\ \A k \in Keys : Forward(rosQ[k])
    /\ \A k \in Keys : \A m \in Elements(rosQ[k]) : m.key = k
    /\ Backward(inBox)
    /\ Forward(mailLog)

Line ==
    /\ Before(Logged, Boxed \cup Held \cup AtRos)
    /\ Before(Boxed, Held \cup AtRos)
    /\ Before(Held, AtRos)

Gone ==
    /\ queued \cap dropped = {}
    /\ (queued \cup dropped) \cap (AtRos \cup Held \cup Boxed \cup Logged) = {}

\* push_front has one message in its hand, everything else has none.
OneInHand ==
    IF appPc = "link" THEN \E m \in Message : hand = <<m>> ELSE hand = <<>>

\* The messages there are are those sent, one for each id.
Complete ==
    /\ \A m, l \in Everywhere : m.id = l.id => m = l
    /\ \A m \in Everywhere : m.id \in 1..sent
    /\ \A i \in 1..sent : \E m \in Everywhere : m.id = i

Latest == \A m \in Everywhere : m.time <= lastTime[m.key]

MailInv == Sequences /\ Line /\ Gone /\ OneInHand /\ Complete /\ Latest

LEMMA PlacesTyped ==
    ASSUME TypeOK
    PROVE  /\ Everywhere \subseteq Message
           /\ \A m \in AtRos : \E k \in Keys : m \in Elements(rosQ[k])
           /\ \A k \in Keys : Elements(rosQ[k]) \subseteq AtRos
<1>1. /\ Held \subseteq Message /\ Boxed \subseteq Message /\ Logged \subseteq Message
      /\ \A k \in Keys : Elements(rosQ[k]) \subseteq Message
  BY ElementsType DEF TypeOK, Held, Boxed, Logged
<1> QED
  BY <1>1 DEF Everywhere, AtRos, TypeOK

LEMMA InitMailInv == Init => MailInv
<1> SUFFICES ASSUME Init PROVE MailInv
  OBVIOUS
<1>1. /\ Held = {} /\ Boxed = {} /\ Logged = {} /\ Backward(inBox) /\ Forward(mailLog)
  BY Nothing DEF Init, Held, Boxed, Logged
<1>2. \A k \in Keys : Elements(rosQ[k]) = {} /\ Forward(rosQ[k])
  BY Nothing DEF Init
<1>3. AtRos = {}
  BY <1>2 DEF AtRos
<1>4. Everywhere = {}
  BY <1>1, <1>3 DEF Everywhere, Init
<1>5. Sequences /\ Line /\ Gone /\ OneInHand
  BY <1>1, <1>2, <1>3 DEF Sequences, Line, Gone, OneInHand, Before, Init
<1>6. Complete /\ Latest
  BY <1>4 DEF Complete, Latest, Init
<1> QED
  BY <1>5, <1>6 DEF MailInv

(* Where nothing comes from ROS, mail only moves; it stays complete if     *)
(* none disappears.                                                        *)
LEMMA Moved ==
    ASSUME Complete, Latest, Everywhere' = Everywhere, UNCHANGED rosVars
    PROVE  Complete' /\ Latest'
BY DEF Complete, Latest, rosVars

(* Mail leaves the line for the active queues or for good.                 *)
LEMMA TakenOut ==
    ASSUME Line, Gone, Logged' = Logged,
           Boxed' \subseteq Boxed, Held' \subseteq Held, AtRos' \subseteq AtRos,
           NEW T, T \subseteq Boxed \cup Held \cup AtRos,
           T \cap (Boxed' \cup Held' \cup AtRos') = {},
           Boxed \cup Held \cup AtRos = T \cup Boxed' \cup Held' \cup AtRos',
           \/ queued' = queued \cup T /\ dropped' = dropped
           \/ dropped' = dropped \cup T /\ queued' = queued
    PROVE  Line' /\ Gone' /\ Everywhere' = Everywhere
<1>1. Line'
  BY DEF Line, Before
<1>2. T \cap Logged = {}
  BY DEF Line, Before, Earlier
<1>3. Gone'
  BY <1>2 DEF Gone
<1> QED
  BY <1>1, <1>3 DEF Everywhere

LEMMA MailStays ==
    ASSUME MailInv, UNCHANGED <<rosQ, hand, inBox, mailLog, queued, dropped, rosVars>>,
           appPc = "link" <=> appPc' = "link"
    PROVE  MailInv' /\ Everywhere' = Everywhere
<1>1. UNCHANGED <<AtRos, Held, Boxed, Logged, Everywhere>>
  BY DEF AtRos, Held, Boxed, Logged, Everywhere
<1>2. Complete' /\ Latest'
  BY <1>1, Moved DEF MailInv
<1>3. Sequences' /\ Line' /\ Gone' /\ OneInHand'
  BY <1>1 DEF MailInv, Sequences, Line, Gone, OneInHand
<1> QED
  BY <1>1, <1>2, <1>3 DEF MailInv

LEMMA ReceivedMail ==
    ASSUME TypeOK, TypeOK', MailInv, NEW k \in Keys, NEW t \in 0..MaxTime,
           RosReceive(k, t)
    PROVE  /\ MailInv'
           /\ \E m \in AtRos' : m \notin Everywhere /\ Everywhere' = Everywhere \cup {m}
<1>1. PICK m \in Message : /\ m = [id |-> sent + 1, key |-> k, time |-> t]
                            /\ m.id = sent + 1 /\ m.key = k /\ m.time = t
  <2>1. sent + 1 \in 1..MaxMsgs
    BY ClientAssumption DEF RosReceive, TypeOK
  <2>2. [id |-> sent + 1, key |-> k, time |-> t] \in Message
    BY <2>1 DEF Message
  <2> QED
    BY <2>2
<1>2. /\ sent \in Nat /\ sent' = sent + 1
      /\ t >= lastTime[k] /\ lastTime' = [lastTime EXCEPT ![k] = t]
      /\ UNCHANGED <<appPc, hand, inBox, mailLog, queued>>
  BY DEF RosReceive, TypeOK
<1>3. /\ Held' = Held /\ Boxed' = Boxed /\ Logged' = Logged
  BY <1>2 DEF Held, Boxed, Logged
<1>4. \A l \in Everywhere :
          l # m /\ (l.key = k => l.time <= t) /\ l.id # m.id
  <2>1. \A l \in Everywhere : l.key = k => l.time <= t
    <3>1. \A l \in Everywhere : l.time \in Int /\ l.time <= lastTime[l.key]
      BY PlacesTyped DEF MailInv, Latest, Message
    <3>2. lastTime[k] \in Int
      BY DEF TypeOK
    <3> QED
      BY <1>2, <3>1, <3>2
  <2>2. \A l \in Everywhere : l.id # sent + 1
    BY <1>2 DEF MailInv, Complete
  <2> QED
    BY <1>1, <2>1, <2>2
<1>5. \A l \in Everywhere : Earlier(l, m)
  BY <1>1, <1>4 DEF Earlier
\* The queue before the message is appended, and what was dropped of it.
<1>6. PICK s \in Seq(Message), T \in SUBSET Message :
          /\ rosQ' = [rosQ EXCEPT ![k] = Append(s, m)]
          /\ dropped' = dropped \cup T
          /\ Elements(rosQ[k]) = T \cup Elements(s) /\ T \cap Elements(s) = {}
          /\ Forward(s)
  <2>1. rosQ[k] \in Seq(Message) /\ Forward(rosQ[k])
    BY DEF TypeOK, MailInv, Sequences
  <2>2. CASE Len(rosQ[k]) < RosQueueSize
    <3>1. /\ rosQ' = [rosQ EXCEPT ![k] = Append(rosQ[k], m)]
          /\ dropped' = dropped \cup {}
      BY <1>1, <2>2 DEF RosReceive, TypeOK
    <3>2. /\ {} \in SUBSET Message /\ {} \cap Elements(rosQ[k]) = {}
          /\ Elements(rosQ[k]) = {} \cup Elements(rosQ[k])
      OBVIOUS
    <3> QED
      BY <2>1, <3>1, <3>2
  <2>3. CASE ~(Len(rosQ[k]) < RosQueueSize)
    <3>1. /\ rosQ' = [rosQ EXCEPT ![k] = Append(Tail(rosQ[k]), m)]
          /\ dropped' = dropped \cup {Head(rosQ[k])}
      BY <1>1, <2>3 DEF RosReceive, TypeOK
    <3>2. rosQ[k] # <<>>
      BY <2>1, <2>3, ClientAssumption, EmptySeq
    <3>3. /\ Head(rosQ[k]) \in Message /\ Tail(rosQ[k]) \in Seq(Message)
          /\ Forward(Tail(rosQ[k]))
          /\ Elements(rosQ[k]) = {Head(rosQ[k])} \cup Elements(Tail(rosQ[k]))
          /\ Before({Head(rosQ[k])}, Elements(Tail(rosQ[k])))
      BY <2>1, <3>2, WithoutHead
    <3>4. {Head(rosQ[k])} \cap Elements(Tail(rosQ[k])) = {}
      BY <3>3 DEF Before, Earlier
    <3> QED
      BY <3>1, <3>3, <3>4
  <2> QED
    BY <2>2, <2>3
<1>7. T \subseteq AtRos /\ Elements(s) \subseteq AtRos /\ AtRos \subseteq Everywhere
  BY <1>6, PlacesTyped DEF Everywhere
<1>8. /\ rosQ'[k] \in Seq(Message) /\ Forward(rosQ'[k])
      /\ Elements(rosQ'[k]) = Elements(s) \cup {m}
  <2>1. Before(Elements(s), Elements(<<m>>))
    BY <1>5, <1>7, Single DEF Before
  <2>2. /\ s \o <<m>> \in Seq(Message) /\ Forward(s \o <<m>>)
        /\ Elements(s \o <<m>>) = Elements(s) \cup {m}
    <3>1. /\ <<m>> \in Seq(Message) /\ Forward(<<m>>)
          /\ Elements(<<m>>) = {m}
      BY <1>6, Single
    <3> QED
      BY <1>6, <2>1, <3>1, Concatenated
  <2>3. rosQ'[k] = s \o <<m>>
    <3>1. rosQ'[k] = Append(s, m)
      BY <1>6 DEF TypeOK
    <3> QED
      BY <1>6, <3>1, AppendIsConcat
  <2> QED
    BY <2>2, <2>3
<1>9. \A j \in Keys \ {k} : rosQ'[j] = rosQ[j]
  BY <1>6 DEF TypeOK
<1>10. AtRos' = (AtRos \ T) \cup {m}
  <2>1. \A j \in Keys \ {k} : Elements(rosQ[j]) \cap T = {}
    BY <1>6 DEF MailInv, Sequences
  <2>2. AtRos' \subseteq (AtRos \ T) \cup {m}
    <3>1. \A j \in Keys : Elements(rosQ'[j]) \subseteq (AtRos \ T) \cup {m}
      <4>1. Elements(rosQ'[k]) \subseteq (AtRos \ T) \cup {m}
        BY <1>6, <1>7, <1>8
      <4>2. \A j \in Keys \ {k} : Elements(rosQ'[j]) \subseteq AtRos \ T
        BY <1>9, <2>1, PlacesTyped
      <4> QED
        BY <4>1, <4>2
    <3> QED
      BY <3>1 DEF AtRos
  <2>3. m \in AtRos'
    BY <1>8 DEF AtRos
  <2>4. ASSUME NEW x \in AtRos, x \notin T PROVE x \in AtRos'
    <3>1. PICK j \in Keys : x \in Elements(rosQ[j])
      BY <2>4, PlacesTyped
    <3>2. x \in Elements(rosQ'[j])
      BY <1>6, <1>8, <1>9, <2>4, <3>1
    <3> QED
      BY <3>2 DEF AtRos
  <2> QED
    BY <2>2, <2>3, <2>4
<1>11. Everywhere' = Everywhere \cup {m}
  BY <1>2, <1>3, <1>6, <1>7, <1>10 DEF Everywhere
<1>12. Sequences'
  <2>1. \A j \in Keys : /\ Forward(rosQ'[j])
                        /\ \A l \in Elements(rosQ'[j]) : l.key = j
    BY <1>1, <1>6, <1>8, <1>9 DEF MailInv, Sequences
  <2> QED
    BY <1>2, <2>1 DEF MailInv, Sequences
<1>13. Line'
  <2>1. Before(Logged \cup Boxed \cup Held, {m})
    BY <1>5 DEF Before, Everywhere
  <2> QED
    BY <1>3, <1>10, <2>1 DEF MailInv, Line, Before
<1>14. Gone'
  <2>1. T \cap (queued \cup dropped) = {}
    BY <1>7 DEF MailInv, Gone
  <2>2. T \cap (Held \cup Boxed \cup Logged) = {}
    BY <1>7 DEF MailInv, Line, Before, Earlier
  <2>3. m \notin Everywhere
    BY <1>4
  <2> QED
    BY <1>2, <1>3, <1>6, <1>7, <1>10, <2>1, <2>2, <2>3
       DEF MailInv, Gone, Everywhere
<1>15. OneInHand'
  BY <1>2 DEF MailInv, OneInHand
<1>16. Complete'
  <2>1. /\ \A i \in 1..sent' : i = sent + 1 \/ i \in 1..sent
        /\ 1..sent \subseteq 1..sent' /\ sent + 1 \in 1..sent'
    BY <1>2
  <2>2. \A x, l \in Everywhere' : x.id = l.id => x = l
    BY <1>4, <1>11 DEF MailInv, Complete
  <2>3. \A x \in Everywhere' : x.id \in 1..sent'
    BY <1>1, <1>11, <2>1 DEF MailInv, Complete
  <2>4. \A i \in 1..sent' : \E x \in Everywhere' : x.id = i
    BY <1>1, <1>11, <2>1 DEF MailInv, Complete
  <2> QED
    BY <2>2, <2>3, <2>4 DEF Complete
<1>17. Latest'
  <2>1. \A j \in Keys : lastTime'[j] = IF j = k THEN t ELSE lastTime[j]
    BY <1>2 DEF TypeOK
  <2>2. \A l \in Everywhere : l.key \in Keys
    BY PlacesTyped DEF Message
  <2>3. t <= t
    OBVIOUS
  <2> QED
    BY <1>1, <1>4, <1>11, <2>1, <2>2, <2>3 DEF MailInv, Latest
<1> QED
  BY <1>4, <1>10, <1>11, <1>12, <1>13, <1>14, <1>15, <1>16, <1>17 DEF MailInv

(* ROS gives the oldest message of a variable to the callback ...          *)
LEMMA BegunMail ==
    ASSUME TypeOK, MailInv, NEW k \in Keys, CallbackBegins(k)
    PROVE  MailInv' /\ Everywhere' = Everywhere
<1> DEFINE h == Head(rosQ[k])
<1>1. /\ appPc = "spin" /\ appPc' = "link" /\ hand' = <<h>>
      /\ rosQ' = [rosQ EXCEPT ![k] = Tail(@)]
      /\ UNCHANGED <<inBox, mailLog, queued, dropped, rosVars>>
  BY DEF CallbackBegins, logVars
<1>2. rosQ[k] \in Seq(Message) /\ rosQ[k] # <<>> /\ Forward(rosQ[k])
  BY DEF CallbackBegins, OldestKey, TypeOK, MailInv, Sequences
<1>3. /\ h \in Message /\ Forward(Tail(rosQ[k]))
      /\ Elements(rosQ[k]) = {h} \cup Elements(Tail(rosQ[k]))
      /\ Before({h}, Elements(Tail(rosQ[k])))
  BY <1>2, WithoutHead
<1> HIDE DEF h
<1>4. /\ rosQ'[k] = Tail(rosQ[k])
      /\ \A j \in Keys \ {k} : rosQ'[j] = rosQ[j]
  BY <1>1 DEF TypeOK
<1>5. hand = <<>> /\ Held = {} /\ Held' = {h}
  BY <1>1, <1>3, Single, Nothing DEF MailInv, OneInHand, Held
<1>6. h \in AtRos /\ h.key = k
  BY <1>3, PlacesTyped DEF MailInv, Sequences
<1>7. Boxed' = Boxed /\ Logged' = Logged
  BY <1>1 DEF Boxed, Logged
<1>8. AtRos' \subseteq AtRos /\ AtRos \subseteq AtRos' \cup {h}
  <2>1. \A j \in Keys : Elements(rosQ'[j]) \subseteq AtRos
    BY <1>3, <1>4, PlacesTyped
  <2>2. ASSUME NEW x \in AtRos, x # h PROVE x \in AtRos'
    <3>1. PICK j \in Keys : x \in Elements(rosQ[j])
      BY PlacesTyped
    <3>2. x \in Elements(rosQ'[j])
      BY <1>3, <1>4, <2>2, <3>1
    <3> QED
      BY <3>2 DEF AtRos
  <2> QED
    BY <2>1, <2>2 DEF AtRos
<1>9. Before({h}, AtRos')
  <2>1. SUFFICES ASSUME NEW j \in Keys, NEW x \in Elements(rosQ'[j])
                 PROVE  Earlier(h, x)
    BY DEF AtRos, Before
  <2>2. CASE j = k
    BY <1>3, <1>4, <2>1, <2>2 DEF Before
  <2>3. CASE j # k
    <3>1. x.key = j
      BY <1>4, <2>1, <2>3 DEF MailInv, Sequences
    <3> QED
      BY <1>6, <2>3, <3>1 DEF Earlier
  <2> QED
    BY <2>2, <2>3
<1>10. Everywhere' = Everywhere
  BY <1>1, <1>5, <1>6, <1>7, <1>8 DEF Everywhere
<1>11. Sequences'
  <2>1. \A j \in Keys : /\ Forward(rosQ'[j])
                        /\ \A l \in Elements(rosQ'[j]) : l.key = j
    BY <1>3, <1>4 DEF MailInv, Sequences
  <2> QED
    BY <1>1, <2>1 DEF MailInv, Sequences
<1>12. Line'
  BY <1>5, <1>6, <1>7, <1>8, <1>9 DEF MailInv, Line, Before
<1>13. Gone'
  BY <1>1, <1>5, <1>6, <1>7, <1>8 DEF MailInv, Gone
<1>14. OneInHand'
  BY <1>1, <1>3 DEF OneInHand
<1> QED
  BY <1>1, <1>10, <1>11, <1>12, <1>13, <1>14, Moved DEF MailInv

(* ... which links it, unless the reader came in between.                  *)
LEMMA LinkedMail ==
    ASSUME TypeOK, MailInv, CallbackLinks, ~raced'
    PROVE  MailInv' /\ Everywhere' = Everywhere
<1>1. /\ appPc = "link" /\ appPc' = "spin" /\ hand' = <<>> /\ inBox' = hand \o inBox
      /\ UNCHANGED <<rosQ, mailLog, queued, dropped, rosVars>>
  BY DEF CallbackLinks
<1>2. hand \in Seq(Message) /\ inBox \in Seq(Message) /\ Backward(inBox) /\ Backward(hand)
  BY <1>1, Single DEF TypeOK, MailInv, Sequences, OneInHand
<1>3. Backward(inBox') /\ Elements(inBox') = Held \cup Boxed
  BY <1>1, <1>2, Concatenated DEF MailInv, Line, Before, Held, Boxed
<1>4. Held' = {} /\ Boxed' = Held \cup Boxed /\ UNCHANGED <<AtRos, Logged>>
  BY <1>1, <1>3, Nothing DEF Held, Boxed, AtRos, Logged
<1>5. Everywhere' = Everywhere
  BY <1>1, <1>4 DEF Everywhere
<1>6. Sequences'
  BY <1>1, <1>3 DEF MailInv, Sequences
<1>7. Line' /\ Gone'
  BY <1>1, <1>4 DEF MailInv, Line, Before, Gone
<1>8. OneInHand'
  BY <1>1 DEF OneInHand
<1> QED
  BY <1>1, <1>5, <1>6, <1>7, <1>8, Moved DEF MailInv

(* OnNewMail gets the inbox, sorted.                                       *)
LEMMA FetchedMail ==
    ASSUME TypeOK, MailInv, Fetch
    PROVE  MailInv' /\ Everywhere' = Everywhere
<1>1. /\ appPc = "fetch" /\ appPc' = "iterate" /\ inBox' = <<>>
      /\ mailLog' = mailLog \o SortedByTime(inBox)
      /\ UNCHANGED <<rosQ, hand, queued, dropped, rosVars>>
  BY DEF Fetch, AppGoto
<1>2. /\ inBox \in Seq(Message) /\ Backward(inBox)
      /\ mailLog \in Seq(Message) /\ Forward(mailLog)
  BY DEF TypeOK, MailInv, Sequences
<1>3. PICK s \in Seq(Message) : /\ s = SortedByTime(inBox)
                                 /\ Elements(s) = Boxed /\ Forward(s)
  BY <1>2, SortedIs DEF Boxed
<1>4. Before(Logged, Boxed)
  BY DEF MailInv, Line, Before
<1>5. Forward(mailLog') /\ Elements(mailLog') = Logged \cup Boxed
  BY <1>1, <1>2, <1>3, <1>4, Concatenated DEF Logged
<1>6. Boxed' = {} /\ Logged' = Logged \cup Boxed /\ UNCHANGED <<AtRos, Held>>
  BY <1>1, <1>5, Nothing DEF Boxed, Logged, AtRos, Held
<1>7. Everywhere' = Everywhere
  BY <1>1, <1>6 DEF Everywhere
<1>8. Sequences'
  BY <1>1, <1>5, Nothing DEF MailInv, Sequences
<1>9. Line' /\ Gone'
  BY <1>1, <1>6 DEF MailInv, Line, Before, Gone
<1>10. OneInHand'
  BY <1>1 DEF MailInv, OneInHand
<1> QED
  BY <1>1, <1>7, <1>8, <1>9, <1>10, Moved DEF MailInv

(* UnRegister and Close make ROS forget what is in its queues.             *)
LEMMA ForgottenMail ==
    ASSUME TypeOK, MailInv, NEW K \in SUBSET Keys,
           rosQ' = [k \in Keys |-> IF k \in K THEN <<>> ELSE rosQ[k]],
           dropped' = dropped \cup UNION {Elements(rosQ[k]) : k \in K},
           appPc # "link", appPc' # "link",
           UNCHANGED <<hand, inBox, mailLog, queued, rosVars>>
    PROVE  MailInv' /\ Everywhere' = Everywhere
<1> DEFINE T == UNION {Elements(rosQ[k]) : k \in K}
<1>1. \A k \in Keys : rosQ'[k] = IF k \in K THEN <<>> ELSE rosQ[k]
  OBVIOUS
<1>2. UNCHANGED <<Held, Boxed, Logged>>
  BY DEF Held, Boxed, Logged
<1>3. T \subseteq AtRos
  BY PlacesTyped
<1>4. \A x \in AtRos : x \in T <=> x.key \in K
  <2>1. SUFFICES ASSUME NEW k \in Keys, NEW x \in Elements(rosQ[k])
                 PROVE  x \in T <=> x.key \in K
    BY DEF AtRos
  <2>2. x.key = k
    BY DEF MailInv, Sequences
  <2>3. x \in T => k \in K
    BY <2>2 DEF MailInv, Sequences
  <2> QED
    BY <2>2, <2>3
<1>5. AtRos' = AtRos \ T
  <2>1. ASSUME NEW k \in Keys, NEW x \in Elements(rosQ'[k])
        PROVE  x \in AtRos \ T
    <3>1. k \notin K /\ rosQ'[k] = rosQ[k]
      BY <1>1, <2>1, Nothing
    <3>2. x \in AtRos /\ x.key = k
      BY <2>1, <3>1, PlacesTyped DEF MailInv, Sequences
    <3> QED
      BY <1>4, <3>1, <3>2
  <2>2. ASSUME NEW x \in AtRos, x \notin T PROVE x \in AtRos'
    <3>1. PICK k \in Keys : x \in Elements(rosQ[k])
      BY PlacesTyped
    <3>2. k \notin K
      BY <2>2, <3>1
    <3>3. rosQ'[k] = rosQ[k]
      BY <1>1, <3>2
    <3> QED
      BY <3>1, <3>3 DEF AtRos
  <2>3. ASSUME NEW x \in AtRos' PROVE x \in AtRos \ T
    <3>1. PICK k \in Keys : x \in Elements(rosQ'[k])
      BY DEF AtRos
    <3> HIDE DEF T
    <3> QED
      BY <2>1, <3>1
  <2> QED
    BY <2>2, <2>3
<1> HIDE DEF T
<1>6. dropped' = dropped \cup T
  BY DEF T
<1>7. Line' /\ Gone' /\ Everywhere' = Everywhere
  BY <1>2, <1>3, <1>5, <1>6, TakenOut, Moved DEF MailInv, Line, Before, Earlier
<1>8. Sequences'
  <2>1. \A k \in Keys : /\ Forward(rosQ'[k])
                        /\ \A m \in Elements(rosQ'[k]) : m.key = k
    BY <1>1, Nothing DEF MailInv, Sequences
  <2> QED
    BY <2>1 DEF MailInv, Sequences
<1>9. OneInHand'
  BY DEF MailInv, OneInHand
<1> QED
  BY <1>7, <1>8, <1>9, Moved DEF MailInv

(* The inbox is emptied: by a purge, by Close or when the connection ends. *)
LEMMA PurgedMail ==
    ASSUME TypeOK, MailInv, inBox' = <<>>, dropped' = dropped \cup Elements(inBox),
           UNCHANGED <<rosQ, hand, mailLog, queued, rosVars>>,
           appPc = "link" <=> appPc' = "link"
    PROVE  MailInv' /\ Everywhere' = Everywhere
<1>1. Boxed' = {} /\ UNCHANGED <<AtRos, Held, Logged>> /\ dropped' = dropped \cup Boxed
  BY Nothing DEF Boxed, AtRos, Held, Logged
<1>2. Boxed \cap (Held \cup AtRos) = {}
  BY DEF MailInv, Line, Before, Earlier
<1>3. Line' /\ Gone' /\ Everywhere' = Everywhere
  BY <1>1, <1>2, TakenOut DEF MailInv
<1>4. Sequences'
  BY Nothing DEF MailInv, Sequences
<1>5. OneInHand'
  BY DEF MailInv, OneInHand
<1> QED
  BY <1>3, <1>4, <1>5, Moved DEF MailInv

(* The reader gives the front of the inbox to the active queues.           *)
LEMMA DispatchedMail ==
    ASSUME TypeOK, MailInv, ReaderDispatches
    PROVE  MailInv' /\ Everywhere' = Everywhere
<1>1. inBox \in Seq(Message) /\ Backward(inBox)
  BY DEF TypeOK, MailInv, Sequences
<1>2. PICK n \in 0..Len(inBox) : n = DispatchedLen(inBox)
  BY <1>1, DispatchedType
<1> DEFINE T == {inBox[i] : i \in 1..n}
<1>3. /\ queued' = queued \cup T /\ inBox' = SubSeq(inBox, n + 1, Len(inBox))
      /\ UNCHANGED <<rosQ, hand, mailLog, dropped, appPc, rosVars>>
  BY <1>2 DEF ReaderDispatches
<1>4. /\ Backward(inBox') /\ Boxed = T \cup Elements(inBox')
      /\ T \cap Elements(inBox') = {}
  BY <1>1, <1>3, CutOff DEF Boxed
<1> HIDE DEF T
<1>5. /\ Boxed = T \cup Boxed' /\ T \cap Boxed' = {}
      /\ UNCHANGED <<AtRos, Held, Logged>>
  BY <1>3, <1>4 DEF Boxed, AtRos, Held, Logged
<1>6. Boxed \cap (Held \cup AtRos) = {}
  BY DEF MailInv, Line, Before, Earlier
<1>7. Line' /\ Gone' /\ Everywhere' = Everywhere
  BY <1>3, <1>5, <1>6, TakenOut DEF MailInv
<1>8. Sequences'
  BY <1>3, <1>4 DEF MailInv, Sequences
<1>9. OneInHand'
  BY <1>3 DEF MailInv, OneInHand
<1> QED
  BY <1>3, <1>7, <1>8, <1>9, Moved DEF MailInv

-----------------------------------------------------------------------------
(***************************************************************************)
(* Every step.                                                             *)
(***************************************************************************)
LEMMA AppMail ==
    ASSUME TypeOK, MailInv, AppNext, ~raced'
    PROVE  MailInv' /\ Everywhere' = Everywhere
<1>1. ASSUME NEW k \in Keys, CallbackBegins(k)
      PROVE  MailInv' /\ Everywhere' = Everywhere
  BY <1>1, BegunMail
<1>2. CASE CallbackLinks
  BY <1>2, LinkedMail
<1>3. CASE Fetch
  BY <1>3, FetchedMail
<1>4. ASSUME NEW k \in Keys, IterateUnRegister(k)
      PROVE  MailInv' /\ Everywhere' = Everywhere
  <2>1. /\ appPc = "iterate" /\ appPc' = "sleep"
        /\ UNCHANGED <<hand, inBox, mailLog, queued, rosVars>>
    BY <1>4 DEF IterateUnRegister, AppGoto
  <2>2. CASE UNCHANGED <<rosQ, dropped>>
    BY <2>1, <2>2, MailStays
  <2>3. CASE /\ rosQ' = [rosQ EXCEPT ![k] = <<>>]
             /\ dropped' = dropped \cup Elements(rosQ[k])
    <3>1. rosQ' = [j \in Keys |-> IF j \in {k} THEN <<>> ELSE rosQ[j]]
      BY <2>3 DEF TypeOK
    <3>2. UNION {Elements(rosQ[j]) : j \in {k}} = Elements(rosQ[k])
      OBVIOUS
    <3> QED
      BY <2>1, <2>3, <3>1, <3>2, ForgottenMail
  <2> QED
    BY <1>4, <2>2, <2>3 DEF IterateUnRegister, UnRegister
<1>5. CASE CloseClears
  BY <1>5, PurgedMail DEF CloseClears, ClearResources, AppGoto
<1>6. CASE CloseShutsDownRos
  <2>1. /\ rosQ' = [k \in Keys |-> IF k \in Keys THEN <<>> ELSE rosQ[k]]
        /\ dropped' = dropped \cup UNION {Elements(rosQ[k]) : k \in Keys}
        /\ appPc # "link" /\ appPc' # "link"
        /\ UNCHANGED <<hand, inBox, mailLog, queued, rosVars>>
    BY <1>6 DEF CloseShutsDownRos, AppGoto
  <2> QED
    BY <2>1, ForgottenMail
<1>7. CASE \/ ConnectionSeen \/ ConnectionWaitExpires \/ StartUpDone \/ SpinOnce
           \/ FetchLooks \/ IterateDone \/ CloseBegins \/ CloseStopsReader
           \/ CloseTerminates \/ CloseStopsWriter \/ CloseReturns
           \/ \E k \in Keys : StartUpRegister(k) \/ IterateRegister(k)
  <2>1. /\ UNCHANGED <<rosQ, hand, inBox, mailLog, queued, dropped, rosVars>>
        /\ appPc # "link" /\ appPc' # "link"
    BY <1>7 DEF ConnectionSeen, ConnectionWaitExpires, StartUpDone, SpinOnce,
       FetchLooks, IterateDone, CloseBegins, CloseStopsReader, CloseTerminates,
       CloseStopsWriter, CloseReturns, StartUpRegister, IterateRegister,
       AppGoto, inVars, logVars
  <2> QED
    BY <2>1, MailStays
<1> QED
  BY <1>1, <1>2, <1>3, <1>4, <1>5, <1>6, <1>7 DEF AppNext, CallbackCrashes

LEMMA ReaderMail ==
    ASSUME TypeOK, MailInv, ReaderNext
    PROVE  MailInv' /\ Everywhere' = Everywhere
<1>1. CASE ReaderPurges
  <2>1. CASE Len(inBox) > InPendingLimit
    BY <1>1, <2>1, PurgedMail DEF ReaderPurges
  <2>2. CASE ~(Len(inBox) > InPendingLimit)
    BY <1>1, <2>2, MailStays DEF ReaderPurges
  <2> QED
    BY <2>1, <2>2
<1>2. CASE ReaderLoop \/ ReaderLocks \/ ReaderUnlocks
  BY <1>2, MailStays DEF ReaderLoop, ReaderLocks, ReaderUnlocks, inVars, logVars
<1> QED
  BY <1>1, <1>2, DispatchedMail DEF ReaderNext

LEMMA WriterMail ==
    ASSUME TypeOK, MailInv, WriterNext
    PROVE  MailInv' /\ Everywhere' = Everywhere
<1>1. CASE OnCloseConnection
  BY <1>1, PurgedMail DEF OnCloseConnection, ClearResources
<1>2. CASE ~OnCloseConnection
  BY <1>2, MailStays DEF WriterNext, WriterOuterLoop, ConnectToServer, Connected,
     WriterQuits, DoWriting, inVars, logVars
<1> QED
  BY <1>1, <1>2

LEMMA RaceStays == [Next]_vars /\ raced => raced'
BY DEF Next, RosNext, AppNext, ReaderNext, WriterNext, Stopped, vars, inVars,
   RosReceive, ConnectionSeen, ConnectionWaitExpires, StartUpRegister,
   StartUpDone, SpinOnce, CallbackBegins, CallbackLinks, CallbackCrashes,
   FetchLooks, Fetch, IterateRegister, IterateUnRegister, IterateDone,
   CloseBegins, CloseClears, CloseShutsDownRos, CloseStopsReader,
   CloseTerminates, CloseStopsWriter, CloseReturns, ReaderLoop, ReaderLocks,
   ReaderPurges, ReaderDispatches, ReaderUnlocks, WriterOuterLoop,
   ConnectToServer, Connected, WriterQuits, DoWriting, OnCloseConnection

\* Once the inbox was changed by two threads at once there is no telling.
LEMMA StepMailInv ==
    TypeOK /\ TypeOK' /\ (~raced => MailInv) /\ [Next]_vars => (~raced' => MailInv')
<1> SUFFICES ASSUME TypeOK, TypeOK', ~raced => MailInv, [Next]_vars, ~raced'
             PROVE  MailInv'
  OBVIOUS
<1>1. ~raced
  BY RaceStays
<1>2. CASE UNCHANGED vars
  BY <1>1, <1>2, MailStays DEF vars, inVars, logVars
<1>3. CASE RosNext
  BY <1>1, <1>3, ReceivedMail DEF RosNext
<1> QED
  BY <1>1, <1>2, <1>3, AppMail, ReaderMail, WriterMail DEF Next, Stopped

LEMMA MailInvariant == Spec => [](TypeOK /\ (~raced => MailInv))
<1>1. Init => TypeOK /\ (~raced => MailInv)
  BY TypeInit, InitMailInv
<1>2. TypeOK /\ (~raced => MailInv) /\ [Next]_vars => TypeOK' /\ (~raced' => MailInv')
  BY TypeStep, StepMailInv
<1> QED
  BY <1>1, <1>2, PTL DEF Spec

(* OnNewMail sees the mail of one variable in the order of its time        *)
(* stamps, whatever was dropped on the way and in however many calls.      *)
THEOREM MailIsInOrder == Spec => []MailInTimeOrder
<1>1. TypeOK /\ (~raced => MailInv) => MailInTimeOrder
  <2>1. SUFFICES ASSUME MailInv, NEW m \in DOMAIN mailLog, NEW n \in DOMAIN mailLog,
                        m < n, mailLog[m].key = mailLog[n].key
                 PROVE  mailLog[m].time <= mailLog[n].time
    BY DEF MailInTimeOrder
  <2>2. Earlier(mailLog[m], mailLog[n])
    BY <2>1 DEF MailInv, Sequences, Forward
  <2> QED
    BY <2>1, <2>2 DEF Earlier
<1> QED
  BY <1>1, MailInvariant, PTL

\* Its place: the sequence it is in and its position there.
In(name, s, i) == {<<name, n>> : n \in {n \in DOMAIN s : s[n].id = i}}
Among(name, S, i) == {<<name, 0>> : m \in {m \in S : m.id = i}}

LEMMA InOnce ==
    ASSUME NEW s \in Seq(Message), Forward(s) \/ Backward(s), NEW name, NEW i, NEW m,
           \A l \in Elements(s) : l.id = i <=> l = m
    PROVE  /\ m \in Elements(s) => \E p : In(name, s, i) = {p}
           /\ m \notin Elements(s) => In(name, s, i) = {}
<1>1. \A n \in DOMAIN s : s[n] \in Elements(s) /\ (s[n].id = i <=> s[n] = m)
  BY DEF Elements
<1>2. ASSUME m \in Elements(s) PROVE In(name, s, i) = {<<name, CHOOSE n \in DOMAIN s : s[n] = m>>}
  <2>1. PICK n \in DOMAIN s : s[n] = m
    BY <1>2 DEF Elements
  <2>2. \A j \in DOMAIN s : s[j] = m => j = n
    BY <2>1, OnePlace
  <2>3. {j \in DOMAIN s : s[j].id = i} = {n}
    BY <1>1, <2>1, <2>2
  <2>4. (CHOOSE j \in DOMAIN s : s[j] = m) = n
    BY <2>1, <2>2
  <2> QED
    BY <2>3, <2>4 DEF In
<1>3. ASSUME m \notin Elements(s) PROVE In(name, s, i) = {}
  <2>1. {j \in DOMAIN s : s[j].id = i} = {}
    BY <1>1, <1>3
  <2> QED
    BY <2>1 DEF In
<1> QED
  BY <1>2, <1>3

LEMMA AmongOnce ==
    ASSUME NEW S, NEW name, NEW i, NEW m, \A l \in S : l.id = i <=> l = m
    PROVE  /\ m \in S => \E p : Among(name, S, i) = {p}
           /\ m \notin S => Among(name, S, i) = {}
<1>1. ASSUME m \in S PROVE Among(name, S, i) = {<<name, 0>>}
  <2>1. {l \in S : l.id = i} = {m}
    BY <1>1
  <2> QED
    BY <2>1 DEF Among
<1>2. ASSUME m \notin S PROVE Among(name, S, i) = {}
  <2>1. {l \in S : l.id = i} = {}
    BY <1>2
  <2> QED
    BY <2>1 DEF Among
<1> QED
  BY <1>1, <1>2

(* Every message is in one place only: neither the threads nor the full    *)
(* queues, the purge, UnRegister or Close lose one without a trace or      *)
(* double it, as long as no two threads change the inbox at once.          *)
THEOREM MailIsAccounted == Spec => []Accounted
<1>1. TypeOK /\ (~raced => MailInv) => Accounted
  <2>1. SUFFICES ASSUME TypeOK, MailInv, NEW i \in 1..sent
                 PROVE  Cardinality(Places(i)) = 1
    BY DEF Accounted
  <2>2. PICK m \in Everywhere : m.id = i
    BY <2>1 DEF MailInv, Complete
  <2>3. \A l \in Everywhere : l.id = i <=> l = m
    BY <2>1, <2>2 DEF MailInv, Complete
  <2> DEFINE R(k) == In("ros", rosQ[k], i)
             U == UNION {In("ros", rosQ[k], i) : k \in Keys}
             H == In("hand", hand, i)
             B == In("inBox", inBox, i)
             L == In("mail", mailLog, i)
             Q == Among("queued", queued, i)
             D == Among("dropped", dropped, i)
  <2>5. \A l \in AtRos \cup Held \cup Boxed \cup Logged : l.id = i <=> l = m
    BY <2>3 DEF Everywhere
  <2>6. /\ m \in Held => \E p : H = {p}
        /\ m \notin Held => H = {}
    <3>1. hand \in Seq(Message) /\ Forward(hand)
      BY <2>1, Single, Nothing DEF MailInv, OneInHand
    <3>2. \A l \in Elements(hand) : l.id = i <=> l = m
      BY <2>5 DEF Held
    <3> QED
      BY <3>1, <3>2, InOnce DEF Held
  <2>7. /\ m \in Boxed => \E p : B = {p}
        /\ m \notin Boxed => B = {}
    <3>1. inBox \in Seq(Message) /\ Backward(inBox)
      BY <2>1 DEF TypeOK, MailInv, Sequences
    <3>2. \A l \in Elements(inBox) : l.id = i <=> l = m
      BY <2>5 DEF Boxed
    <3> QED
      BY <3>1, <3>2, InOnce DEF Boxed
  <2>8. /\ m \in Logged => \E p : L = {p}
        /\ m \notin Logged => L = {}
    <3>1. mailLog \in Seq(Message) /\ Forward(mailLog)
      BY <2>1 DEF TypeOK, MailInv, Sequences
    <3>2. \A l \in Elements(mailLog) : l.id = i <=> l = m
      BY <2>5 DEF Logged
    <3> QED
      BY <3>1, <3>2, InOnce DEF Logged
  <2>9. /\ m \in queued => \E p : Q = {p}
        /\ m \notin queued => Q = {}
        /\ m \in dropped => \E p : D = {p}
        /\ m \notin dropped => D = {}
    <3>1. \A l \in queued : l.id = i <=> l = m
      BY <2>3 DEF Everywhere
    <3>2. \A l \in dropped : l.id = i <=> l = m
      BY <2>3 DEF Everywhere
    <3>3. /\ m \in queued => \E p : Q = {p}
          /\ m \notin queued => Q = {}
      BY <3>1, AmongOnce
    <3>4. /\ m \in dropped => \E p : D = {p}
          /\ m \notin dropped => D = {}
      BY <3>2, AmongOnce
    <3> QED
      BY <3>3, <3>4
  <2>10. /\ m \in AtRos => \E p : U = {p}
         /\ m \notin AtRos => U = {}
    <3>1. ASSUME NEW k \in Keys
          PROVE  /\ m \in Elements(rosQ[k]) => \E p : R(k) = {p}
                 /\ m \notin Elements(rosQ[k]) => R(k) = {}
      <4>1. rosQ[k] \in Seq(Message) /\ Forward(rosQ[k])
        BY <2>1 DEF TypeOK, MailInv, Sequences
      <4>2. \A l \in Elements(rosQ[k]) : l.id = i <=> l = m
        BY <2>1, <2>5, PlacesTyped
      <4> QED
        BY <4>1, <4>2, InOnce
    <3>2. CASE m \in AtRos
      <4>1. PICK k \in Keys : m \in Elements(rosQ[k])
        BY <2>1, <3>2, PlacesTyped
      <4>2. \A j \in Keys : m \in Elements(rosQ[j]) => j = k
        BY <2>1, <4>1 DEF MailInv, Sequences
      <4>3. PICK p : R(k) = {p}
        BY <3>1, <4>1
      <4>4. \A j \in Keys : j # k => R(j) = {}
        BY <3>1, <4>2
      <4>5. U = {p}
        BY <4>3, <4>4
      <4> QED
        BY <3>2, <4>5
    <3>3. CASE m \notin AtRos
      <4>1. \A k \in Keys : R(k) = {}
        BY <2>1, <3>1, <3>3, PlacesTyped
      <4> QED
        BY <3>3, <4>1
    <3> QED
      BY <3>2, <3>3
  <2>11. Places(i) = U \cup H \cup B \cup L \cup Q \cup D
    BY DEF Places, In, Among
  <2>12. Earlier(m, m) = FALSE
    BY DEF Earlier
  <2> HIDE DEF U, H, B, L, Q, D
  <2>13. \E p : Places(i) = {p}
    <3>1. CASE m \in AtRos
      <4>1. m \notin Held \cup Boxed \cup Logged \cup queued \cup dropped
        BY <2>1, <2>12, <3>1 DEF MailInv, Line, Before, Gone
      <4> QED
        BY <2>6, <2>7, <2>8, <2>9, <2>10, <2>11, <3>1, <4>1
    <3>2. CASE m \in Held
      <4>1. m \notin AtRos \cup Boxed \cup Logged \cup queued \cup dropped
        BY <2>1, <2>12, <3>2 DEF MailInv, Line, Before, Gone
      <4> QED
        BY <2>6, <2>7, <2>8, <2>9, <2>10, <2>11, <3>2, <4>1
    <3>3. CASE m \in Boxed
      <4>1. m \notin AtRos \cup Held \cup Logged \cup queued \cup dropped
        BY <2>1, <2>12, <3>3 DEF MailInv, Line, Before, Gone
      <4> QED
        BY <2>6, <2>7, <2>8, <2>9, <2>10, <2>11, <3>3, <4>1
    <3>4. CASE m \in Logged
      <4>1. m \notin AtRos \cup Held \cup Boxed \cup queued \cup dropped
        BY <2>1, <2>12, <3>4 DEF MailInv, Line, Before, Gone
      <4> QED
        BY <2>6, <2>7, <2>8, <2>9, <2>10, <2>11, <3>4, <4>1
    <3>5. CASE m \in queued
      <4>1. m \notin AtRos \cup Held \cup Boxed \cup Logged \cup dropped
        BY <2>1, <3>5 DEF MailInv, Gone
      <4> QED
        BY <2>6, <2>7, <2>8, <2>9, <2>10, <2>11, <3>5, <4>1
    <3>6. CASE m \in dropped
      <4>1. m \notin AtRos \cup Held \cup Boxed \cup Logged \cup queued
        BY <2>1, <3>6 DEF MailInv, Gone
      <4> QED
        BY <2>6, <2>7, <2>8, <2>9, <2>10, <2>11, <3>6, <4>1
    <3> QED
      BY <2>2, <3>1, <3>2, <3>3, <3>4, <3>5, <3>6 DEF Everywhere
  <2> QED
    BY <2>13, FS_Singleton
<1> QED
  BY <1>1, MailInvariant, PTL

-----------------------------------------------------------------------------
(***************************************************************************)
(* The client is a Mailbox.                                                *)
(***************************************************************************)
WaitsInLine ==
    /\ Waiting = Everywhere \ (Logged \cup queued \cup dropped)
    /\ Waiting = AtRos \cup Held \cup Boxed
    /\ Waiting \cap (Logged \cup queued \cup dropped) = {}
    /\ queued \cap dropped = {} /\ Logged \cap (queued \cup dropped) = {}
    /\ MB!Read = Logged

LEMMA WaitingIs == MailInv => WaitsInLine
<1> SUFFICES ASSUME MailInv PROVE WaitsInLine
  OBVIOUS
<1>1. Waiting = AtRos \cup Held \cup Boxed
  BY DEF Waiting, AtRos, Held, Boxed
<1>2. Logged \cap (AtRos \cup Held \cup Boxed) = {}
  BY DEF MailInv, Line, Before, Earlier
<1>3. MB!Read = Logged
  BY DEF MB!Read, Logged, Elements
<1> QED
  BY <1>1, <1>2, <1>3 DEF WaitsInLine, MailInv, Gone, Everywhere

LEMMA WaitingIsAfter == MailInv' => WaitsInLine'
BY WaitingIs, PTL

(* Where no message appears and none is given out, at most some are lost.  *)
LEMMA MailIsLost ==
    ASSUME MailInv, MailInv', Everywhere' = Everywhere,
           UNCHANGED <<mailLog, queued>>, dropped \subseteq dropped'
    PROVE  MB!Lose
<1>1. Logged' = Logged
  BY DEF Logged
<1>2. Waiting' = Everywhere \ (Logged \cup queued \cup dropped')
  BY <1>1, WaitingIs, WaitingIsAfter DEF WaitsInLine
<1>3. dropped' \cap (Logged \cup queued) = {}
  BY <1>1, WaitingIs, WaitingIsAfter DEF WaitsInLine
<1>4. dropped' \subseteq Everywhere
  BY DEF Everywhere
<1> QED
  BY <1>2, <1>3, <1>4, WaitingIs DEF WaitsInLine, MB!Lose

LEMMA MailIsQueued ==
    ASSUME MailInv, MailInv', Everywhere' = Everywhere,
           UNCHANGED <<mailLog, dropped>>, queued \subseteq queued'
    PROVE  MB!Queue
<1>1. Logged' = Logged
  BY DEF Logged
<1>2. Waiting' = Everywhere \ (Logged \cup queued' \cup dropped)
  BY <1>1, WaitingIs, WaitingIsAfter DEF WaitsInLine
<1>3. queued' \cap (Logged \cup dropped) = {}
  BY <1>1, WaitingIs, WaitingIsAfter DEF WaitsInLine
<1>4. queued' \subseteq Everywhere
  BY DEF Everywhere
<1> QED
  BY <1>2, <1>3, <1>4, WaitingIs DEF WaitsInLine, MB!Queue

LEMMA MailTyped == TypeOK => Everywhere \subseteq Message
BY PlacesTyped

LEMMA MailTypedAfter == TypeOK' => (Everywhere \subseteq Message)'
BY MailTyped, PTL

LEMMA MailArrives ==
    ASSUME MailInv, MailInv', TypeOK', UNCHANGED <<mailLog, queued>>,
           dropped \subseteq dropped',
           NEW m \in AtRos', m \notin Everywhere, Everywhere' = Everywhere \cup {m}
    PROVE  \E l \in Message : MB!Arrive(l)
<1>1. Logged' = Logged
  BY DEF Logged
<1>2. Waiting' = (Everywhere \cup {m}) \ (Logged \cup queued \cup dropped')
  BY <1>1, WaitingIs, WaitingIsAfter DEF WaitsInLine
<1>3. m \in Waiting' /\ dropped' \cap (Logged \cup queued \cup Waiting') = {}
  BY <1>1, WaitingIs, WaitingIsAfter DEF WaitsInLine
<1>4. dropped' \subseteq Everywhere \cup {m}
  BY DEF Everywhere
<1>5. MB!Arrive(m)
  <2>1. m \notin Waiting \cup MB!Read \cup queued \cup dropped
    BY WaitingIs DEF WaitsInLine, Everywhere
  <2>2. Waiting' \subseteq Waiting \cup {m} /\ dropped' = dropped \cup (Waiting \ Waiting')
    BY <1>2, <1>3, <1>4, WaitingIs DEF WaitsInLine
  <2> QED
    BY <1>3, <2>1, <2>2 DEF MB!Arrive
<1>6. m \in Message
  <2>1. m \in Everywhere'
    OBVIOUS
  <2>2. Everywhere' \subseteq Message
    BY MailTypedAfter
  <2> QED
    BY <2>1, <2>2
<1> QED
  BY <1>5, <1>6

(* What comes after the first n elements.                                  *)
After(s, n) == {s[i] : i \in (n + 1)..Len(s)}

LEMMA Behind ==
    ASSUME NEW s \in Seq(Message), NEW t \in Seq(Message), t # <<>>,
           NEW r, r = s \o t
    PROVE  /\ Len(r) > Len(s) /\ SubSeq(r, 1, Len(s)) = s
           /\ After(r, Len(s)) = Elements(t)
<1> DEFINE n == Len(s)
           l == Len(t)
<1>1. /\ r \in Seq(Message) /\ Len(r) = n + l
      /\ \A i \in 1..(n + l) : r[i] = IF i <= n THEN s[i] ELSE t[i - n]
  BY ConcatProperties
<1>2. /\ n \in Nat /\ l \in Nat /\ l # 0 /\ Elements(t) = {t[i] : i \in 1..l}
  BY ElementsAre, EmptySeq
<1>7. SubSeq(r, 1, n) = s
  <2>1. CASE n = 0
    <3>1. s = <<>>
      BY <2>1, EmptySeq
    <3> QED
      BY <2>1, <3>1, SubSeqEmpty, <1>1
  <2>2. CASE n # 0
    <3>1. 1 \in 1..n /\ n \in 1..n
      BY <1>2, <2>2
    <3>2. SubSeq(r, 1, n) = SubSeq(s, 1, n)
      BY <3>1, SubSeqOfConcat1
    <3> QED
      BY <3>2, SubSeqFull
  <2> QED
    BY <2>1, <2>2
<1> HIDE DEF n, l
<1>3. \A i \in (n + 1)..(n + l) : i - n \in 1..l /\ r[i] = t[i - n]
  BY <1>1, <1>2
<1>4. ASSUME NEW i \in 1..l PROVE i + n \in (n + 1)..(n + l) /\ r[i + n] = t[i]
  <2>1. i + n \in (n + 1)..(n + l) /\ (i + n) - n = i
    BY <1>2
  <2> QED
    BY <1>3, <2>1
<1>5. {r[i] : i \in (n + 1)..(n + l)} = Elements(t)
  <2>1. {r[i] : i \in (n + 1)..(n + l)} \subseteq Elements(t)
    BY <1>2, <1>3
  <2>2. Elements(t) \subseteq {r[i] : i \in (n + 1)..(n + l)}
    BY <1>2, <1>4
  <2> QED
    BY <2>1, <2>2
<1>6. Len(r) > n
  BY <1>1, <1>2
<1> QED
  BY <1>1, <1>2, <1>5, <1>6, <1>7 DEF n, After

LEMMA MailIsDelivered ==
    ASSUME TypeOK, MailInv, MailInv', Fetch, Everywhere' = Everywhere
    PROVE  MB!MailboxNext
<1>1. /\ mailLog' = mailLog \o SortedByTime(inBox) /\ inBox' = <<>>
      /\ UNCHANGED <<queued, dropped>>
  BY DEF Fetch
<1>2. mailLog \in Seq(Message) /\ inBox \in Seq(Message) /\ Backward(inBox)
  BY DEF TypeOK, MailInv, Sequences
<1>3. PICK s \in Seq(Message) : s = SortedByTime(inBox) /\ Elements(s) = Boxed
  BY <1>2, SortedIs DEF Boxed
<1>4. CASE s = <<>>
  <2>1. mailLog' = mailLog
    BY <1>1, <1>2, <1>3, <1>4, ConcatEmptySeq
  <2> QED
    BY <1>1, <2>1, MailIsLost DEF MB!MailboxNext
<1>5. CASE s # <<>>
  <2>1. /\ Len(mailLog') > Len(mailLog) /\ SubSeq(mailLog', 1, Len(mailLog)) = mailLog
        /\ {mailLog'[n] : n \in (Len(mailLog) + 1)..Len(mailLog')} = Boxed
    <3>1. PICK r : r = mailLog' /\ r = mailLog \o s
      BY <1>1, <1>3
    <3>2. /\ Len(r) > Len(mailLog) /\ SubSeq(r, 1, Len(mailLog)) = mailLog
          /\ After(r, Len(mailLog)) = Elements(s)
      BY <1>2, <1>5, <3>1, Behind
    <3> QED
      BY <1>3, <3>1, <3>2 DEF After
  <2>2. MB!InTimeOrder(mailLog')
    BY DEF MailInv, Sequences, Forward, Earlier, MB!InTimeOrder
  <2>3. Logged' = Logged \cup Boxed
    BY <1>1, <1>2, <1>3, Concatenated DEF Logged
  <2>4. Boxed \subseteq Waiting /\ Waiting' = Waiting \ Boxed
    BY <1>1, <2>3, WaitingIs, WaitingIsAfter DEF WaitsInLine, Everywhere
  <2>5. MB!Deliver
    BY <1>1, <2>1, <2>2, <2>4 DEF MB!Deliver
  <2> QED
    BY <2>5 DEF MB!MailboxNext
<1> QED
  BY <1>4, <1>5

LEMMA StepIsMailboxStep ==
    ASSUME TypeOK, TypeOK', ~raced => MailInv, [Next]_vars, ~raced'
    PROVE  MB!MailboxNext \/ UNCHANGED MB!mailboxVars
<1>1. MailInv /\ MailInv'
  BY RaceStays, StepMailInv
<1> USE DEF MB!MailboxNext
<1>2. CASE RosNext
  <2>1. PICK k \in Keys, t \in 0..MaxTime : RosReceive(k, t)
    BY <1>2 DEF RosNext
  <2>2. PICK m \in AtRos' : m \notin Everywhere /\ Everywhere' = Everywhere \cup {m}
    BY <1>1, <2>1, ReceivedMail
  <2>3. UNCHANGED <<mailLog, queued>> /\ dropped \subseteq dropped'
    BY <2>1 DEF RosReceive
  <2> QED
    BY <1>1, <2>2, <2>3, MailArrives
<1>3. CASE AppNext
  <2>1. Everywhere' = Everywhere
    BY <1>1, <1>3, AppMail
  <2>2. CASE Fetch
    BY <1>1, <2>1, <2>2, MailIsDelivered
  <2>3. CASE ~Fetch
    <3>1. UNCHANGED <<mailLog, queued>> /\ dropped \subseteq dropped'
      BY <1>3, <2>3 DEF AppNext, ConnectionSeen, ConnectionWaitExpires,
         StartUpRegister, StartUpDone, SpinOnce, CallbackBegins, CallbackLinks,
         CallbackCrashes, FetchLooks, IterateRegister, IterateUnRegister,
         UnRegister, IterateDone, CloseBegins, CloseClears, ClearResources,
         CloseShutsDownRos, CloseStopsReader, CloseTerminates, CloseStopsWriter,
         CloseReturns, inVars, logVars
    <3> QED
      BY <1>1, <2>1, <3>1, MailIsLost
  <2> QED
    BY <2>2, <2>3
<1>4. CASE ReaderNext
  <2>1. Everywhere' = Everywhere
    BY <1>1, <1>4, ReaderMail
  <2>2. CASE ReaderDispatches
    <3>1. UNCHANGED <<mailLog, dropped>> /\ queued \subseteq queued'
      BY <2>2 DEF ReaderDispatches
    <3> QED
      BY <1>1, <2>1, <3>1, MailIsQueued
  <2>3. CASE ~ReaderDispatches
    <3>1. UNCHANGED <<mailLog, queued>> /\ dropped \subseteq dropped'
      BY <1>4, <2>3 DEF ReaderNext, ReaderLoop, ReaderLocks, ReaderPurges,
         ReaderUnlocks, inVars, logVars
    <3> QED
      BY <1>1, <2>1, <3>1, MailIsLost
  <2> QED
    BY <2>2, <2>3
<1>5. CASE WriterNext
  <2>1. Everywhere' = Everywhere
    BY <1>1, <1>5, WriterMail
  <2>2. UNCHANGED <<mailLog, queued>> /\ dropped \subseteq dropped'
    BY <1>5 DEF WriterNext, WriterOuterLoop, ConnectToServer, Connected,
       WriterQuits, DoWriting, OnCloseConnection, ClearResources, inVars, logVars
  <2> QED
    BY <1>1, <2>1, <2>2, MailIsLost
<1>6. CASE UNCHANGED vars
  BY <1>6 DEF vars, inVars, logVars, Waiting, MB!mailboxVars
<1> QED
  BY <1>2, <1>3, <1>4, <1>5, <1>6 DEF Next, Stopped

LEMMA InitIsMailboxInit == Init => MB!MailboxInit
<1> SUFFICES ASSUME Init PROVE MB!MailboxInit
  OBVIOUS
<1>1. Everywhere = {} /\ Waiting = {}
  BY InitMailInv, Nothing, WaitingIs DEF WaitsInLine, Init, Everywhere, AtRos, Held, Boxed, Logged
<1> QED
  BY <1>1 DEF Init, MB!MailboxInit

(* For every configuration, each step is one of a Mailbox, or changes      *)
(* nothing of it, until two threads change the inbox at once.              *)
THEOREM MailboxUntilRaced ==
    Spec => MB!MailboxInit /\ [][~raced' => MB!MailboxNext]_(MB!mailboxVars)
<1>1. TypeOK /\ (~raced => MailInv) /\ [Next]_vars
        => [~raced' => MB!MailboxNext]_(MB!mailboxVars)
  BY TypeStep, StepIsMailboxStep
<1> QED
  BY <1>1, InitIsMailboxInit, MailInvariant, PTL DEF Spec

(***************************************************************************)
(* Two threads do not change the inbox at once if the reader has nothing   *)
(* to take out of it: no active queue and a purge limit that is never met. *)
(***************************************************************************)
LEMMA InBoxFits ==
    ASSUME TypeOK, MailInv
    PROVE  Len(inBox) <= sent
<1> DEFINE n == Len(inBox)
           f == [i \in 1..n |-> inBox[i].id]
<1>1. /\ n \in Nat /\ sent \in Nat /\ DOMAIN inBox = 1..n
      /\ inBox \in Seq(Message) /\ Backward(inBox)
      /\ \A i \in 1..n : inBox[i] \in Everywhere
  BY ElementsAre DEF TypeOK, MailInv, Sequences, Everywhere, Boxed
<1>2. \A i \in 1..n : f[i] \in 1..sent
  BY <1>1 DEF MailInv, Complete
<1>3. \A i, j \in 1..n : f[i] = f[j] => i = j
  <2>1. \A i, j \in 1..n : f[i] = f[j] => inBox[i] = inBox[j]
    BY <1>1 DEF MailInv, Complete
  <2> QED
    BY <1>1, <2>1, OnePlace
<1>4. f \in Injection(1..n, 1..sent)
  BY <1>2, <1>3 DEF Injection, IsInjective
<1> HIDE DEF f, n
<1>5. /\ IsFiniteSet(1..sent) /\ Cardinality(1..sent) = sent
      /\ Cardinality(1..n) = n
  BY <1>1, FS_Interval
<1>6. Cardinality(1..n) <= Cardinality(1..sent)
  BY <1>4, <1>5, FS_Injection
<1> QED
  BY <1>5, <1>6 DEF n

LEMMA NothingRouted ==
    ASSUME Routed = {}, NEW s \in Seq(Message)
    PROVE  DispatchedLen(s) = 0
<1>1. \A n \in DOMAIN s : 1 \in 1..n
  BY ElementsAre
<1>2. {n \in DOMAIN s : \A m \in 1..n : s[m].key \in Routed} = {}
  BY <1>1
<1> QED
  BY <1>2, FS_EmptySet DEF DispatchedLen

Calm == removed = <<>> /\ ~raced

LEMMA StepIsCalm ==
    ASSUME Routed = {}, MaxMsgs <= InPendingLimit, TypeOK, MailInv, Calm, [Next]_vars
    PROVE  Calm'
<1>1. ~(Len(inBox) > InPendingLimit)
  <2>1. Len(inBox) <= sent /\ sent <= MaxMsgs /\ Len(inBox) \in Nat /\ sent \in Nat
    BY InBoxFits, ElementsAre, ClientAssumption DEF TypeOK
  <2> QED
    BY <2>1, ClientAssumption
<1>2. CASE ReaderPurges
  BY <1>1, <1>2 DEF ReaderPurges, Calm
<1>3. CASE ReaderDispatches
  <2>1. DispatchedLen(inBox) = 0
    BY NothingRouted DEF TypeOK
  <2>2. SubSeq(inBox, 1, 0) = <<>>
    BY SubSeqEmpty
  <2>3. removed' = removed \o <<>> \/ removed' = removed
    BY <1>3, <2>1, <2>2 DEF ReaderDispatches, Frees
  <2> QED
    BY <1>3, <2>3, ConcatEmptySeq DEF ReaderDispatches, Calm, TypeOK
<1>4. CASE CallbackLinks
  BY <1>4 DEF CallbackLinks, Calm
<1>5. CASE CallbackCrashes
  BY <1>5 DEF CallbackCrashes, Calm
<1>6. CASE /\ [Next]_vars
           /\ ~ReaderPurges /\ ~ReaderDispatches /\ ~CallbackLinks /\ ~CallbackCrashes
  <2>1. UNCHANGED <<removed, raced>>
    BY <1>6 DEF Next, RosNext, AppNext, ReaderNext, WriterNext, Stopped, vars,
       inVars, RosReceive, ConnectionSeen, ConnectionWaitExpires, StartUpRegister,
       StartUpDone, SpinOnce, CallbackBegins, FetchLooks, Fetch, IterateRegister,
       IterateUnRegister, IterateDone, CloseBegins, CloseClears, CloseShutsDownRos,
       CloseStopsReader, CloseTerminates, CloseStopsWriter, CloseReturns,
       ReaderLoop, ReaderLocks, ReaderUnlocks, WriterOuterLoop, ConnectToServer,
       Connected, WriterQuits, DoWriting, OnCloseConnection
  <2> QED
    BY <2>1 DEF Calm
<1> QED
  BY <1>2, <1>3, <1>4, <1>5, <1>6

(* Then the client is a Mailbox, without a proviso.                        *)
THEOREM ClientIsMailbox ==
    ASSUME Routed = {}, MaxMsgs <= InPendingLimit
    PROVE  Spec => MB!MailboxInit /\ [][MB!MailboxNext]_(MB!mailboxVars)
<1>1. Init => Calm
  BY DEF Init, Calm
<1>2. TypeOK /\ (~raced => MailInv) /\ Calm /\ [Next]_vars => Calm'
  BY StepIsCalm DEF Calm
<1>3. Calm' => ~raced'
  BY DEF Calm
<1>4. TypeOK /\ (~raced => MailInv) /\ [Next]_vars /\ ~raced'
        => [MB!MailboxNext]_(MB!mailboxVars)
  BY TypeStep, StepIsMailboxStep
<1> QED
  BY <1>1, <1>2, <1>3, <1>4, InitIsMailboxInit, MailInvariant, PTL DEF Spec
=============================================================================
