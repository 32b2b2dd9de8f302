-------------------------- MODULE CommClientProofs --------------------------
(***************************************************************************)
(* What holds of CommClient for every set of variables, every queue size   *)
(* and purge limit, and any number of messages.                            *)
(***************************************************************************)
EXTENDS CommClient, FiniteSetTheorems, FunctionTheorems, SequenceTheorems, TLAPS

-----------------------------------------------------------------------------
(***************************************************************************)
(* Sorting and dispatching.                                                *)
(***************************************************************************)
LEMMA Positions ==
    ASSUME NEW s \in Seq(Message), NEW n \in DOMAIN s
    PROVE  /\ Len(s) \in Nat /\ DOMAIN s = 1..Len(s)
           /\ n \in Nat /\ s[n] \in Message /\ s[n].time \in Int
<1>1. Len(s) \in Nat /\ DOMAIN s = 1..Len(s) /\ n \in Nat
  BY LenProperties
<1>2. s[n] \in Message
  BY <1>1, ElementOfSeq
<1>3. s[n].time \in 0..MaxTime
  BY <1>2 DEF Message
<1> QED
  BY <1>1, <1>2, <1>3, ClientAssumption

\* How many elements of s go before the one at position i.
Rank(s, i) == Cardinality({j \in DOMAIN s : Precedes(s, j, i)})

(* Precedes is a strict total order, so that the ranks of two positions    *)
(* are never the same.                                                     *)
LEMMA RankIncreases ==
    ASSUME NEW s \in Seq(Message), NEW i \in DOMAIN s, NEW k \in DOMAIN s,
           Precedes(s, i, k)
    PROVE  Rank(s, i) < Rank(s, k)
<1> DEFINE Before(n) == {j \in DOMAIN s : Precedes(s, j, n)}
<1>1. \A n \in DOMAIN s : n \in Int /\ s[n].time \in Int
  BY Positions
<1>2. Before(i) \subseteq Before(k)
  BY <1>1 DEF Precedes
<1>3. i \in Before(k) /\ i \notin Before(i)
  BY <1>1 DEF Precedes
<1>4. IsFiniteSet(DOMAIN s)
  BY FS_Interval, LenProperties
<1>5. IsFiniteSet(Before(i)) /\ IsFiniteSet(Before(k))
  BY <1>4, FS_Subset
<1>6. Cardinality(Before(i)) <= Cardinality(Before(k))
      /\ (Cardinality(Before(i)) = Cardinality(Before(k))
              => Before(i) = Before(k))
  BY <1>2, <1>5, FS_Subset
<1>7. Before(i) # Before(k)
  BY <1>3
<1>8. Cardinality(Before(i)) \in Nat /\ Cardinality(Before(k)) \in Nat
  BY <1>5, FS_CardinalityType
<1> HIDE DEF Before
<1>9. Cardinality(Before(i)) < Cardinality(Before(k))
  BY <1>6, <1>7, <1>8
<1> QED
  BY <1>9 DEF Rank, Before

(* Every rank is taken: the n-th element of the sorted sequence exists.    *)
LEMMA RankTaken ==
    ASSUME NEW s \in Seq(Message), NEW n \in DOMAIN s
    PROVE  \E i \in DOMAIN s : Rank(s, i) = n - 1
<1> DEFINE D == DOMAIN s
           R == 0..Len(s) - 1
           f == [i \in D |-> Rank(s, i)]
<1>1. Len(s) \in Nat /\ D = 1..Len(s)
  BY LenProperties
<1>2. /\ IsFiniteSet(D) /\ Cardinality(D) = Len(s)
      /\ IsFiniteSet(R) /\ Cardinality(R) = Len(s)
  <2>1. /\ IsFiniteSet(1..Len(s))
        /\ Cardinality(1..Len(s)) = IF 1 > Len(s) THEN 0 ELSE Len(s) - 1 + 1
    BY <1>1, FS_Interval
  <2>2. /\ IsFiniteSet(R)
        /\ Cardinality(R) = IF 0 > Len(s) - 1 THEN 0 ELSE Len(s) - 1 - 0 + 1
    <3>1. 0 \in Int /\ Len(s) - 1 \in Int
      BY <1>1
    <3> QED
      BY <3>1, FS_Interval
  <2> QED
    BY <1>1, <2>1, <2>2
<1>3. ASSUME NEW i \in D PROVE Rank(s, i) \in R
  <2> DEFINE B == {j \in D : Precedes(s, j, i)}
  <2>1. ~Precedes(s, i, i)
    BY Positions DEF Precedes
  <2>2. B \subseteq D \ {i}
    BY <2>1
  <2>3. IsFiniteSet(D \ {i}) /\ Cardinality(D \ {i}) = Len(s) - 1
    BY <1>2, FS_RemoveElement
  <2>4. IsFiniteSet(B) /\ Cardinality(B) <= Cardinality(D \ {i})
    BY <2>2, <2>3, FS_Subset
  <2>5. Cardinality(B) \in Nat
    BY <2>4, FS_CardinalityType
  <2> HIDE DEF B
  <2>6. Cardinality(B) \in R
    BY <1>1, <2>3, <2>4, <2>5
  <2> QED
    BY <2>6 DEF Rank, B
<1>4. ASSUME NEW i \in D, NEW k \in D, i # k PROVE Rank(s, i) # Rank(s, k)
  <2>1. i \in Int /\ k \in Int /\ s[i].time \in Int /\ s[k].time \in Int
    BY Positions
  <2>2. Precedes(s, i, k) \/ Precedes(s, k, i)
    BY <1>4, <2>1 DEF Precedes
  <2>3. Rank(s, i) \in Int /\ Rank(s, k) \in Int
    BY <1>1, <1>3
  <2> QED
    BY <2>2, <2>3, RankIncreases
<1>5. f \in Injection(D, R)
  BY <1>3, <1>4 DEF Injection, IsInjective
<1>6. f \in Surjection(D, R)
  BY <1>2, <1>5, FS_Injection
<1>7. n - 1 \in R
  BY <1>1
<1> QED
  BY <1>6, <1>7 DEF Surjection

(* Sorting leaves a sequence of messages, of the same length.              *)
LEMMA SortedType ==
    ASSUME NEW s \in Seq(Message)
    PROVE  SortedByTime(s) \in Seq(Message)
<1> DEFINE at(n) == CHOOSE i \in DOMAIN s :
                        Cardinality({j \in DOMAIN s : Precedes(s, j, i)}) = n - 1
<1>1. \A n \in DOMAIN s : at(n) \in DOMAIN s
  BY RankTaken DEF Rank
<1>2. SortedByTime(s) = [n \in DOMAIN s |-> s[at(n)]]
  BY DEF SortedByTime
<1> HIDE DEF at
<1>3. \A n \in DOMAIN s : s[at(n)] \in Message
  BY <1>1, ElementOfSeq
<1>4. Len(s) \in Nat /\ DOMAIN s = 1..Len(s)
  BY LenProperties
<1> QED
  BY <1>2, <1>3, <1>4, IsASeq

(* The reader dispatches a prefix of the inbox.                            *)
LEMMA DispatchedType ==
    ASSUME NEW s \in Seq(Message)
    PROVE  DispatchedLen(s) \in 0..Len(s)
<1> DEFINE P == {n \in DOMAIN s : \A m \in 1..n : s[m].key \in Routed}
<1>1. Len(s) \in Nat /\ DOMAIN s = 1..Len(s)
  BY LenProperties
<1>2. IsFiniteSet(DOMAIN s) /\ Cardinality(DOMAIN s) = Len(s)
  BY <1>1, FS_Interval
<1>3. IsFiniteSet(P) /\ Cardinality(P) <= Cardinality(DOMAIN s)
  BY <1>2, FS_Subset
<1>4. Cardinality(P) \in Nat
  BY <1>3, FS_CardinalityType
<1>5. DispatchedLen(s) = Cardinality(P)
  BY DEF DispatchedLen
<1> HIDE DEF P
<1> QED
  BY <1>1, <1>2, <1>3, <1>4, <1>5

-----------------------------------------------------------------------------
(***************************************************************************)
(* The type invariant.                                                     *)
(***************************************************************************)
LEMMA ElementsType ==
    ASSUME NEW s \in Seq(Message)
    PROVE  Elements(s) \subseteq Message
  BY Positions DEF Elements

LEMMA DroppedType ==
    ASSUME TypeOK, NEW s \in Seq(Message), dropped' = dropped \cup Elements(s)
    PROVE  dropped' \subseteq Message
  BY ElementsType DEF TypeOK

LEMMA TypeInit == Init => TypeOK
<1> SUFFICES ASSUME Init PROVE TypeOK
  OBVIOUS
<1>1. <<>> \in Seq(Message)
  BY EmptySeq
<1>2. /\ rosQ \in [Keys -> Seq(Message)]
      /\ hand \in Seq(Message) /\ inBox \in Seq(Message)
      /\ removed \in Seq(Message) /\ mailLog \in Seq(Message)
  BY <1>1 DEF Init
<1>3. sent \in 0..MaxMsgs /\ lastTime \in [Keys -> 0..MaxTime]
  <2>1. sent = 0 /\ lastTime = [k \in Keys |-> 0]
    BY DEF Init
  <2> QED
    BY <2>1, ClientAssumption
<1>4. /\ toRegister \subseteq Wanted /\ registered \subseteq Keys
      /\ subscribed \subseteq Keys /\ due \in Nat
      /\ queued \subseteq Message /\ dropped \subseteq Message
  BY DEF Init
<1>5. /\ connected \in BOOLEAN /\ quit \in BOOLEAN /\ terminate \in BOOLEAN
      /\ readerQuit \in BOOLEAN /\ writerQuit \in BOOLEAN
      /\ inLock \in BOOLEAN /\ mailPresent \in BOOLEAN /\ raced \in BOOLEAN
  BY DEF Init
<1>6. appPc \in AppPcs /\ readerPc \in ReaderPcs /\ writerPc \in WriterPcs
  BY DEF Init, AppPcs, ReaderPcs, WriterPcs
<1> QED
  BY <1>2, <1>3, <1>4, <1>5, <1>6 DEF TypeOK

(* ROS receives a message.                                                 *)
LEMMA TypeRos == TypeOK /\ RosNext => TypeOK'
<1> SUFFICES ASSUME TypeOK, NEW k \in Keys, NEW t \in 0..MaxTime,
                    RosReceive(k, t)
             PROVE  TypeOK'
  BY DEF RosNext
<1> DEFINE m == [id |-> sent + 1, key |-> k, time |-> t]
<1>1. sent' \in 0..MaxMsgs /\ sent + 1 \in 1..MaxMsgs
  BY ClientAssumption DEF RosReceive, TypeOK
<1>2. m \in Message
  BY <1>1 DEF Message
<1>3. rosQ[k] \in Seq(Message)
  BY DEF TypeOK
<1>4. /\ \/ rosQ' = [rosQ EXCEPT ![k] = Append(rosQ[k], m)] /\ dropped' = dropped
         \/ /\ ~(Len(rosQ[k]) < RosQueueSize)
            /\ rosQ' = [rosQ EXCEPT ![k] = Append(Tail(rosQ[k]), m)]
            /\ dropped' = dropped \cup {Head(rosQ[k])}
      /\ lastTime' = [lastTime EXCEPT ![k] = t]
  BY DEF RosReceive
<1> HIDE DEF m
<1>5. Append(rosQ[k], m) \in Seq(Message)
  BY <1>2, <1>3, AppendProperties
<1>6. ~(Len(rosQ[k]) < RosQueueSize) =>
          Append(Tail(rosQ[k]), m) \in Seq(Message) /\ Head(rosQ[k]) \in Message
  <2> SUFFICES ASSUME ~(Len(rosQ[k]) < RosQueueSize)
               PROVE  /\ Append(Tail(rosQ[k]), m) \in Seq(Message)
                      /\ Head(rosQ[k]) \in Message
    OBVIOUS
  <2>1. rosQ[k] # <<>>
    BY ClientAssumption, EmptySeq
  <2> QED
    BY <1>2, <1>3, <2>1, HeadTailProperties, AppendProperties
<1>7. /\ rosQ' \in [Keys -> Seq(Message)] /\ dropped' \subseteq Message
      /\ lastTime' \in [Keys -> 0..MaxTime]
  BY <1>4, <1>5, <1>6 DEF TypeOK
<1>8. UNCHANGED <<linkVars, appPc, readerPc, writerPc, quitVars, subVars, due,
                  hand, inBox, removed, raced, inLock, mailPresent, mailLog,
                  queued>>
  BY DEF RosReceive
<1> QED
  BY <1>1, <1>7, <1>8 DEF TypeOK, linkVars, quitVars, subVars

(* The application thread.                                                 *)
LEMMA TypeApp == TypeOK /\ AppNext => TypeOK'
<1> SUFFICES ASSUME TypeOK, AppNext PROVE TypeOK'
  OBVIOUS
<1> USE DEF AppGoto, AppPcs, linkVars, quitVars, inVars, rosVars, logVars
<1>1. CASE ConnectionSeen
  BY <1>1 DEF ConnectionSeen, TypeOK, subVars
<1>2. CASE ConnectionWaitExpires
  BY <1>2 DEF ConnectionWaitExpires, TypeOK, subVars
<1>3. ASSUME NEW k \in Keys, StartUpRegister(k) PROVE TypeOK'
  BY <1>3 DEF StartUpRegister, Register, TypeOK
<1>4. CASE StartUpDone
  BY <1>4 DEF StartUpDone, TypeOK, subVars
<1>5. CASE SpinOnce
  <2>1. due' \in Nat
    <3> DEFINE P == Keys \X (1..RosQueueSize)
               Q == {kn \in P : kn[2] <= Len(rosQ[kn[1]])}
    <3>1. IsFiniteSet(1..RosQueueSize)
      BY ClientAssumption, FS_Interval
    <3>2. IsFiniteSet(P)
      BY <3>1, ClientAssumption, FS_Product
    <3>3. IsFiniteSet(Q)
      BY <3>2, FS_Subset
    <3>4. due' = Cardinality(Q)
      BY <1>5 DEF SpinOnce
    <3> QED
      BY <3>3, <3>4, FS_CardinalityType
  <2> QED
    BY <1>5, <2>1 DEF SpinOnce, TypeOK, subVars
<1>6. ASSUME NEW k \in Keys, CallbackBegins(k) PROVE TypeOK'
  <2>1. rosQ[k] \in Seq(Message) /\ rosQ[k] # <<>>
    BY <1>6 DEF CallbackBegins, OldestKey, TypeOK
  <2>2. Head(rosQ[k]) \in Message /\ Tail(rosQ[k]) \in Seq(Message)
    BY <2>1, HeadTailProperties
  <2>3. hand' \in Seq(Message) /\ rosQ' \in [Keys -> Seq(Message)]
    BY <1>6, <2>2 DEF CallbackBegins, TypeOK
  <2>4. due' \in Nat
    BY <1>6 DEF CallbackBegins, TypeOK
  <2> QED
    BY <1>6, <2>3, <2>4 DEF CallbackBegins, TypeOK, subVars
<1>7. CASE CallbackLinks
  <2>1. hand \o inBox \in Seq(Message) /\ hand \o removed \o inBox \in Seq(Message)
    BY ConcatProperties DEF TypeOK
  <2>2. Elements(hand) \subseteq Message
    BY ElementsType DEF TypeOK
  <2>3. /\ inBox' \in Seq(Message) /\ dropped' \subseteq Message
        /\ hand' \in Seq(Message) /\ removed' \in Seq(Message)
        /\ raced' \in BOOLEAN
    BY <1>7, <2>1, <2>2, EmptySeq DEF CallbackLinks, TypeOK
  <2> QED
    BY <1>7, <2>3 DEF CallbackLinks, TypeOK, subVars
<1>8. CASE CallbackCrashes
  BY <1>8 DEF CallbackCrashes, TypeOK, subVars
<1>9. CASE FetchLooks
  BY <1>9 DEF FetchLooks, TypeOK, subVars
<1>10. CASE Fetch
  <2>1. mailLog' \in Seq(Message) /\ inBox' \in Seq(Message)
    BY <1>10, SortedType, ConcatProperties, EmptySeq DEF Fetch, TypeOK
  <2> QED
    BY <1>10, <2>1 DEF Fetch, TypeOK, subVars
<1>11. ASSUME NEW k \in Keys, IterateRegister(k) PROVE TypeOK'
  BY <1>11 DEF IterateRegister, Register, TypeOK
<1>12. ASSUME NEW k \in Keys, IterateUnRegister(k) PROVE TypeOK'
  <2>1. /\ rosQ' \in [Keys -> Seq(Message)]
        /\ registered' \subseteq Keys /\ subscribed' \subseteq Keys
        /\ dropped' \subseteq Message
    <3>1. Elements(rosQ[k]) \subseteq Message /\ <<>> \in Seq(Message)
      BY ElementsType, EmptySeq DEF TypeOK
    <3> QED
      BY <1>12, <3>1 DEF IterateUnRegister, UnRegister, TypeOK
  <2> QED
    BY <1>12, <2>1 DEF IterateUnRegister, TypeOK
<1>13. CASE IterateDone
  BY <1>13 DEF IterateDone, TypeOK, subVars
<1>14. CASE CloseBegins
  BY <1>14 DEF CloseBegins, TypeOK, subVars
<1>15. CASE CloseClears
  <2>1. dropped' \subseteq Message /\ inBox' \in Seq(Message)
    BY <1>15, ElementsType, EmptySeq DEF CloseClears, ClearResources, TypeOK
  <2> QED
    BY <1>15, <2>1 DEF CloseClears, ClearResources, TypeOK
<1>16. CASE CloseShutsDownRos
  <2>1. UNION {Elements(rosQ[k]) : k \in Keys} \subseteq Message
    BY ElementsType DEF TypeOK
  <2>2. dropped' \subseteq Message /\ rosQ' \in [Keys -> Seq(Message)]
    BY <1>16, <2>1, EmptySeq DEF CloseShutsDownRos, TypeOK
  <2> QED
    BY <1>16, <2>2 DEF CloseShutsDownRos, TypeOK
<1>17. CASE CloseStopsReader
  BY <1>17 DEF CloseStopsReader, TypeOK, subVars
<1>18. CASE CloseTerminates
  BY <1>18 DEF CloseTerminates, TypeOK, subVars
<1>19. CASE CloseStopsWriter
  BY <1>19 DEF CloseStopsWriter, TypeOK, subVars
<1>20. CASE CloseReturns
  BY <1>20 DEF CloseReturns, TypeOK, subVars
<1> QED
  BY <1>1, <1>2, <1>3, <1>4, <1>5, <1>6, <1>7, <1>8, <1>9, <1>10, <1>11, <1>12,
     <1>13, <1>14, <1>15, <1>16, <1>17, <1>18, <1>19, <1>20 DEF AppNext

(* The reader: what it purges or dispatches, it takes from the inbox.      *)
LEMMA TypeReader == TypeOK /\ ReaderNext => TypeOK'
<1> SUFFICES ASSUME TypeOK, ReaderNext PROVE TypeOK'
  OBVIOUS
<1> USE DEF ReaderGoto, ReaderPcs, linkVars, quitVars, subVars, rosVars
<1>1. CASE ReaderLoop
  BY <1>1 DEF ReaderLoop, TypeOK, inVars, logVars
<1>2. CASE ReaderLocks
  BY <1>2 DEF ReaderLocks, TypeOK, inVars, logVars
<1>3. CASE ReaderPurges
  <2>1. Elements(inBox) \subseteq Message /\ removed \o inBox \in Seq(Message)
    BY ElementsType, ConcatProperties DEF TypeOK
  <2>2. /\ inBox' \in Seq(Message) /\ removed' \in Seq(Message)
        /\ dropped' \subseteq Message
    BY <1>3, <2>1, EmptySeq DEF ReaderPurges, Frees, TypeOK
  <2> QED
    BY <1>3, <2>2 DEF ReaderPurges, TypeOK
<1>4. CASE ReaderDispatches
  <2> DEFINE n == DispatchedLen(inBox)
  <2>1. inBox \in Seq(Message) /\ removed \in Seq(Message) /\ Len(inBox) \in Nat
    BY LenProperties DEF TypeOK
  <2>2. n \in 0..Len(inBox)
    BY <2>1, DispatchedType
  <2>3. /\ queued' = queued \cup {inBox[i] : i \in 1..n}
        /\ inBox' = SubSeq(inBox, n + 1, Len(inBox))
        /\ removed' = removed \/ removed' = removed \o SubSeq(inBox, 1, n)
    BY <1>4 DEF ReaderDispatches, Frees
  <2> HIDE DEF n
  <2>4. \A i \in 1..Len(inBox) : inBox[i] \in Message
    BY <2>1, ElementOfSeq
  <2>5. /\ SubSeq(inBox, n + 1, Len(inBox)) \in Seq(Message)
        /\ SubSeq(inBox, 1, n) \in Seq(Message)
    <3>1. /\ \A i \in n + 1..Len(inBox) : inBox[i] \in Message
          /\ \A i \in 1..n : inBox[i] \in Message
          /\ n \in Int /\ n + 1 \in Int /\ Len(inBox) \in Int
      BY <2>1, <2>2, <2>4
    <3> QED
      BY <3>1, SubSeqProperties
  <2>6. removed \o SubSeq(inBox, 1, n) \in Seq(Message)
    BY <2>1, <2>5, ConcatProperties
  <2>7. {inBox[i] : i \in 1..n} \subseteq Message
    BY <2>1, <2>2, <2>4
  <2>8. /\ inBox' \in Seq(Message) /\ removed' \in Seq(Message)
        /\ queued' \subseteq Message
    BY <2>1, <2>3, <2>5, <2>6, <2>7 DEF TypeOK
  <2> QED
    BY <1>4, <2>8 DEF ReaderDispatches, TypeOK
<1>5. CASE ReaderUnlocks
  BY <1>5 DEF ReaderUnlocks, TypeOK, inVars, logVars
<1> QED
  BY <1>1, <1>2, <1>3, <1>4, <1>5 DEF ReaderNext

(* The writer.                                                             *)
LEMMA TypeWriter == TypeOK /\ WriterNext => TypeOK'
<1> SUFFICES ASSUME TypeOK, WriterNext PROVE TypeOK'
  OBVIOUS
<1> USE DEF WriterGoto, WriterPcs, linkVars, quitVars, rosVars, logVars
<1>1. CASE WriterOuterLoop
  BY <1>1 DEF WriterOuterLoop, TypeOK, inVars, subVars
<1>2. CASE ConnectToServer
  BY <1>2 DEF ConnectToServer, TypeOK, inVars, subVars
<1>3. CASE Connected
  BY <1>3 DEF Connected, TypeOK, inVars, subVars
<1>4. CASE WriterQuits
  BY <1>4 DEF WriterQuits, TypeOK, inVars, subVars
<1>5. CASE DoWriting
  BY <1>5 DEF DoWriting, TypeOK, inVars, subVars
<1>6. CASE OnCloseConnection
  <2>1. dropped' \subseteq Message /\ inBox' \in Seq(Message)
    BY <1>6, ElementsType, EmptySeq
       DEF OnCloseConnection, ClearResources, TypeOK
  <2> QED
    BY <1>6, <2>1 DEF OnCloseConnection, ClearResources, TypeOK
<1> QED
  BY <1>1, <1>2, <1>3, <1>4, <1>5, <1>6 DEF WriterNext

LEMMA TypeStep == TypeOK /\ [Next]_vars => TypeOK'
<1> SUFFICES ASSUME TypeOK, UNCHANGED vars PROVE TypeOK'
  BY TypeRos, TypeApp, TypeReader, TypeWriter DEF Next, Stopped
<1> QED
  BY DEF TypeOK, vars, linkVars, quitVars, subVars, inVars, rosVars, logVars

(* The type invariant holds for every number of variables and messages:    *)
(* in particular whatever the sort and the dispatch do to the inbox.       *)
THEOREM TypeCorrect == Spec => []TypeOK
  BY TypeInit, TypeStep, PTL DEF Spec

-----------------------------------------------------------------------------
(***************************************************************************)
(* The three threads and Close.  What Close has done so far decides what   *)
(* the other two may still do.                                             *)
(***************************************************************************)
Joined == {"stopWriter", "joinWriter", "closed"}    \* the reader is gone
Cleared == Closing \ {"clear"}                      \* CloseClears has run
Unsubscribed == Cleared \ {"shutDown"}

Threads ==
    /\ quit <=> appPc \in Closing
    /\ terminate => appPc \in Joined
    /\ writerQuit <=> appPc \in {"joinWriter", "closed"}
    /\ appPc \in Joined => readerPc = "done"
    /\ appPc = "closed" => writerPc = "done"
    /\ inLock <=> readerPc \in {"purge", "dispatch", "flag"}
    /\ writerPc \in {"giveUp", "disconnect", "done"} => quit
    /\ writerPc = "done" => ~connected

Contents ==
    /\ appPc \notin Closing => registered = subscribed
    /\ \A k \in Keys : rosQ[k] # <<>> => k \in subscribed
    /\ appPc \in Cleared => registered = {} /\ inBox = <<>>
    /\ appPc \in Unsubscribed => subscribed = {}

LEMMA ThreadsInit == Init => Threads /\ Contents /\ MailPresentSound
  BY DEF Init, Threads, Contents, MailPresentSound, Closing, Joined, Cleared,
         Unsubscribed

LEMMA ThreadsStep == TypeOK /\ Threads /\ [Next]_vars => Threads'
<1> SUFFICES ASSUME TypeOK, Threads, [Next]_vars PROVE Threads'
  OBVIOUS
<1> USE DEF Threads, Closing, Joined, linkVars, quitVars
<1>1. CASE RosNext
  BY <1>1 DEF RosNext, RosReceive
<1>2. CASE AppNext
  BY <1>2 DEF AppNext, ConnectionSeen, ConnectionWaitExpires, StartUpRegister,
     StartUpDone, SpinOnce, CallbackBegins, CallbackLinks, CallbackCrashes,
     FetchLooks, Fetch, IterateRegister, IterateUnRegister, IterateDone,
     CloseBegins, CloseClears, CloseShutsDownRos, CloseStopsReader,
     CloseTerminates, CloseStopsWriter, CloseReturns, AppGoto
<1>3. CASE ReaderNext
  BY <1>3 DEF ReaderNext, ReaderLoop, ReaderLocks, ReaderPurges,
     ReaderDispatches, ReaderUnlocks, ReaderGoto
<1>4. CASE WriterNext
  BY <1>4 DEF WriterNext, WriterOuterLoop, ConnectToServer, Connected,
     WriterQuits, DoWriting, OnCloseConnection, WriterGoto, TypeOK
<1>5. CASE UNCHANGED vars
  BY <1>5 DEF vars
<1> QED
  BY <1>1, <1>2, <1>3, <1>4, <1>5 DEF Next, Stopped

(* An inbox that Close has emptied stays empty, whatever the reader does.  *)
LEMMA NothingToDispatch ==
    ASSUME inBox = <<>>, ReaderDispatches
    PROVE  inBox' = <<>>
<1>1. inBox \in Seq(Message) /\ Len(inBox) = 0
  BY EmptySeq
<1>2. DispatchedLen(inBox) \in 0..0
  BY <1>1, DispatchedType
<1>3. inBox' = SubSeq(inBox, 1, 0)
  BY <1>1, <1>2 DEF ReaderDispatches
<1> QED
  BY <1>3, SubSeqEmpty

LEMMA ContentsStep == TypeOK /\ Threads /\ Contents /\ [Next]_vars => Contents'
<1> SUFFICES ASSUME TypeOK, Threads, Contents, [Next]_vars PROVE Contents'
  OBVIOUS
<1> USE DEF Contents, Closing, Cleared, Unsubscribed, AppGoto
<1>1. CASE RosNext
  <2>1. PICK k \in Keys, t \in 0..MaxTime : RosReceive(k, t)
    BY <1>1 DEF RosNext
  <2>2. \A j \in Keys : rosQ'[j] # <<>> => rosQ[j] # <<>> \/ j = k
    BY <2>1 DEF RosReceive, TypeOK
  <2>3. k \in subscribed
    BY <2>1 DEF RosReceive
  <2>4. UNCHANGED <<appPc, registered, subscribed, inBox>>
    BY <2>1 DEF RosReceive, subVars
  <2> QED
    BY <2>2, <2>3, <2>4
<1>2. CASE AppNext
  <2>1. ASSUME NEW k \in Keys, StartUpRegister(k) \/ IterateRegister(k)
        PROVE  Contents'
    BY <2>1 DEF StartUpRegister, IterateRegister, Register, inVars
  <2>2. ASSUME NEW k \in Keys, CallbackBegins(k) PROVE Contents'
    <3>1. rosQ' = [rosQ EXCEPT ![k] = Tail(@)] /\ rosQ[k] # <<>>
      BY <2>2 DEF CallbackBegins, OldestKey
    <3>2. \A j \in Keys : rosQ'[j] # <<>> => rosQ[j] # <<>>
      BY <3>1 DEF TypeOK
    <3>3. /\ appPc = "spin" /\ appPc' = "link"
          /\ UNCHANGED <<registered, subscribed, inBox>>
      BY <2>2 DEF CallbackBegins, subVars
    <3> QED
      BY <3>2, <3>3
  <2>3. CASE CallbackLinks
    BY <2>3 DEF CallbackLinks, subVars
  <2>4. ASSUME NEW k \in Keys, IterateUnRegister(k) PROVE Contents'
    <3>1. appPc = "iterate" /\ appPc' = "sleep" /\ inBox' = inBox
      BY <2>4 DEF IterateUnRegister
    <3>2. CASE UNCHANGED <<subscribed, registered, rosQ>>
      BY <3>1, <3>2
    <3>3. CASE /\ subscribed' = subscribed \ {k}
               /\ registered' = registered \ {k}
               /\ rosQ' = [rosQ EXCEPT ![k] = <<>>]
      <4>1. \A j \in Keys : rosQ'[j] # <<>> => rosQ[j] # <<>> /\ j # k
        BY <3>3 DEF TypeOK
      <4> QED
        BY <3>1, <3>3, <4>1
    <3> QED
      BY <2>4, <3>2, <3>3 DEF IterateUnRegister, UnRegister
  <2>5. CASE CloseClears
    BY <2>5 DEF CloseClears, ClearResources
  <2>6. CASE CloseShutsDownRos
    BY <2>6 DEF CloseShutsDownRos
  <2>7. CASE \/ ConnectionSeen \/ ConnectionWaitExpires \/ StartUpDone \/ SpinOnce
             \/ CallbackCrashes \/ FetchLooks \/ IterateDone \/ CloseBegins
             \/ CloseStopsReader \/ CloseTerminates \/ CloseStopsWriter
             \/ CloseReturns
    BY <2>7 DEF ConnectionSeen, ConnectionWaitExpires, StartUpDone, SpinOnce,
       CallbackCrashes, FetchLooks, IterateDone, CloseBegins, CloseStopsReader,
       CloseTerminates, CloseStopsWriter, CloseReturns, subVars, inVars
  <2>8. CASE Fetch
    BY <2>8 DEF Fetch, subVars
  <2> QED
    BY <1>2, <2>1, <2>2, <2>3, <2>4, <2>5, <2>6, <2>7, <2>8 DEF AppNext
<1>3. CASE ReaderNext
  <2>1. inBox = <<>> => inBox' = <<>>
    BY <1>3, NothingToDispatch DEF ReaderNext, ReaderLoop, ReaderLocks,
       ReaderPurges, ReaderUnlocks, inVars
  <2>2. UNCHANGED <<appPc, registered, subscribed, rosQ>>
    BY <1>3 DEF ReaderNext, ReaderLoop, ReaderLocks, ReaderPurges,
       ReaderDispatches, ReaderUnlocks, inVars, subVars
  <2> QED
    BY <2>1, <2>2
<1>4. CASE WriterNext
  <2>1. CASE OnCloseConnection
    <3>1. appPc \in Closing
      BY <2>1 DEF OnCloseConnection, WriterGoto, Threads
    <3>2. /\ registered' = {} /\ inBox' = <<>>
          /\ UNCHANGED <<appPc, subscribed, rosQ>>
      BY <2>1 DEF OnCloseConnection, ClearResources
    <3> QED
      BY <3>1, <3>2
  <2>2. CASE ~OnCloseConnection
    BY <1>4, <2>2 DEF WriterNext, WriterOuterLoop, ConnectToServer, Connected,
       WriterQuits, DoWriting, inVars, subVars
  <2> QED
    BY <2>1, <2>2
<1>5. CASE UNCHANGED vars
  BY <1>5 DEF vars, inVars, subVars
<1> QED
  BY <1>1, <1>2, <1>3, <1>4, <1>5 DEF Next, Stopped

LEMMA MailPresentStep ==
    TypeOK /\ Threads /\ MailPresentSound /\ [Next]_vars => MailPresentSound'
<1> SUFFICES ASSUME TypeOK, Threads, MailPresentSound, [Next]_vars,
                    mailPresent', ~inLock', appPc' \notin Closing
             PROVE  inBox' # <<>>
  BY DEF MailPresentSound
<1> USE DEF MailPresentSound, Closing
<1>1. CASE RosNext
  BY <1>1 DEF RosNext, RosReceive
<1>2. CASE AppNext
  <2>1. CASE CallbackLinks
    <3>1. /\ inBox # <<>> /\ inBox \in Seq(Message)
          /\ hand \in Seq(Message) /\ removed \in Seq(Message)
      BY <2>1 DEF CallbackLinks, TypeOK
    <3>2. hand \o inBox # <<>> /\ hand \o removed \o inBox # <<>>
      BY <3>1, ConcatProperties, ConcatEqualIffEmpty
    <3> QED
      BY <2>1, <3>1, <3>2 DEF CallbackLinks
  <2>2. CASE Fetch
    BY <2>2 DEF Fetch
  <2>3. CASE ~CallbackLinks /\ ~Fetch
    BY <1>2, <2>3 DEF AppNext, ConnectionSeen, ConnectionWaitExpires,
       StartUpRegister, StartUpDone, SpinOnce, CallbackBegins, CallbackCrashes,
       FetchLooks, IterateRegister, IterateUnRegister, IterateDone,
       CloseBegins, CloseClears, CloseShutsDownRos, CloseStopsReader,
       CloseTerminates, CloseStopsWriter, CloseReturns, AppGoto, inVars
  <2> QED
    BY <2>1, <2>2, <2>3
<1>3. CASE ReaderNext
  BY <1>3 DEF ReaderNext, ReaderLoop, ReaderLocks, ReaderPurges,
     ReaderDispatches, ReaderUnlocks, ReaderGoto, Threads, inVars
<1>4. CASE WriterNext
  BY <1>4 DEF WriterNext, WriterOuterLoop, ConnectToServer, Connected,
     WriterQuits, DoWriting, OnCloseConnection, WriterGoto, Threads, inVars
<1>5. CASE UNCHANGED vars
  BY <1>5 DEF vars, inVars
<1> QED
  BY <1>1, <1>2, <1>3, <1>4, <1>5 DEF Next, Stopped

(* While the application runs, what it registered is what it subscribes to *)
(* and no other mail waits at ROS: the writer, which clears m_Registered,  *)
(* cannot do so before Close has begun.                                    *)
THEOREM RegistrationsSound == Spec => []RegistrationsAgree
<1>1. Contents => RegistrationsAgree
  BY DEF Contents, RegistrationsAgree
<1> QED
  BY <1>1, TypeInit, TypeStep, ThreadsInit, ThreadsStep, ContentsStep, PTL
     DEF Spec

(* The flag that Fetch reads without the lock never promises mail that is  *)
(* not there, whatever the three threads do meanwhile.                     *)
THEOREM MailPresentIsSound == Spec => []MailPresentSound
  BY TypeInit, TypeStep, ThreadsInit, ThreadsStep, MailPresentStep, PTL DEF Spec

(* When Close returns, wherever it caught the other two threads, they are  *)
(* gone and the client is disconnected, unsubscribed and empty.            *)
THEOREM CloseIsClean == Spec => []ClosedIsClean
<1>1. Threads /\ Contents => ClosedIsClean
  BY DEF Threads, Contents, ClosedIsClean, Closing, Joined, Cleared, Unsubscribed
<1> QED
  BY <1>1, TypeInit, TypeStep, ThreadsInit, ThreadsStep, ContentsStep, PTL
     DEF Spec

-----------------------------------------------------------------------------
(***************************************************************************)
(* Why Close returns: at every point where it waits the other thread can   *)
(* go on, and every step of that thread brings it nearer to its end.       *)
(***************************************************************************)
\* The reader is asked to quit before it is joined.
ReaderAsked ==
    readerQuit <=> appPc \in {"joinReader", "stopWriter", "joinWriter", "closed"}

LEMMA AskedInit == Init => ReaderAsked
  BY DEF Init, ReaderAsked

LEMMA AskedStep == TypeOK /\ ReaderAsked /\ [Next]_vars => ReaderAsked'
<1> SUFFICES ASSUME TypeOK, ReaderAsked, [Next]_vars PROVE ReaderAsked'
  OBVIOUS
<1> USE DEF ReaderAsked, linkVars, quitVars
<1>1. CASE RosNext
  BY <1>1 DEF RosNext, RosReceive
<1>2. CASE AppNext
  BY <1>2 DEF AppNext, ConnectionSeen, ConnectionWaitExpires, StartUpRegister,
     StartUpDone, SpinOnce, CallbackBegins, CallbackLinks, CallbackCrashes,
     FetchLooks, Fetch, IterateRegister, IterateUnRegister, IterateDone,
     CloseBegins, CloseClears, CloseShutsDownRos, CloseStopsReader,
     CloseTerminates, CloseStopsWriter, CloseReturns, AppGoto, TypeOK
<1>3. CASE ReaderNext
  BY <1>3 DEF ReaderNext, ReaderLoop, ReaderLocks, ReaderPurges,
     ReaderDispatches, ReaderUnlocks
<1>4. CASE WriterNext
  BY <1>4 DEF WriterNext, WriterOuterLoop, ConnectToServer, Connected,
     WriterQuits, DoWriting, OnCloseConnection
<1>5. CASE UNCHANGED vars
  BY <1>5 DEF vars
<1> QED
  BY <1>1, <1>2, <1>3, <1>4, <1>5 DEF Next, Stopped

(* Where Close waits it does not wait in vain.  m_InLock, if it is taken,  *)
(* is held by a reader in its critical section, where nothing stops it.    *)
(* The reader that is joined knows it must quit and does not need a lock   *)
(* that somebody holds.  The writer that is joined knows it must quit, too,*)
(* and finds the inbox unlocked when it has to disconnect.                 *)
CloseCanGoOn ==
    /\ appPc = "clear" /\ inLock => readerPc \in {"purge", "dispatch", "flag"}
    /\ appPc = "joinReader" => readerQuit /\ (readerPc = "lock" => ~inLock)
    /\ appPc = "joinWriter" => /\ writerQuit
                               /\ writerPc \in {"giveUp", "disconnect"} => ~inLock

(* Close waits for m_InLock and joins two threads; none of the three waits *)
(* is for somebody that cannot go on.                                      *)
THEOREM CloseWaitsForTheLiving == Spec => []CloseCanGoOn
<1>1. Threads /\ ReaderAsked => CloseCanGoOn
  BY DEF Threads, ReaderAsked, CloseCanGoOn, Joined
<1> QED
  BY <1>1, TypeInit, TypeStep, ThreadsInit, ThreadsStep, AskedInit, AskedStep,
     PTL DEF Spec

\* How far each thread is from its end once it is to quit.
ReaderSteps ==
    [lock |-> 5, purge |-> 4, dispatch |-> 3, flag |-> 2, loop |-> 1, done |-> 0]

WriterSteps ==
    [connecting |-> 6, write |-> 5, disconnect |-> 4, outer |-> 3,
     connect |-> 2, giveUp |-> 1, done |-> 0]

(* While Close runs the writer only moves towards its end: it may finish   *)
(* the connection it is making, or go once more around the outer loop, but *)
(* it does not connect again.  So does the reader, once it is to quit.     *)
CloseApproaches ==
    [][(appPc \in Closing) =>
          /\ writerPc' # writerPc =>
                WriterSteps[writerPc'] < WriterSteps[writerPc]
          /\ /\ appPc \notin {"clear", "shutDown", "stopReader"}
             /\ readerPc' # readerPc
             => ReaderSteps[readerPc'] < ReaderSteps[readerPc]]_vars

(* The joins in Close come to an end: WritingLoop and ReadingLoop only go  *)
(* towards their return once they are told to quit.                        *)
THEOREM CloseComesCloser == Spec => CloseApproaches
<1> DEFINE Closer ==
        appPc \in Closing =>
          /\ writerPc' # writerPc =>
                WriterSteps[writerPc'] < WriterSteps[writerPc]
          /\ /\ appPc \notin {"clear", "shutDown", "stopReader"}
             /\ readerPc' # readerPc
             => ReaderSteps[readerPc'] < ReaderSteps[readerPc]
<1>1. ASSUME Threads, ReaderAsked, [Next]_vars PROVE Closer
  <2> SUFFICES ASSUME appPc \in Closing PROVE Closer
    OBVIOUS
  <2>1. quit /\ (appPc \in {"clear", "shutDown", "stopReader"} \/ readerQuit)
    BY <1>1 DEF Threads, ReaderAsked, Closing
  <2>2. CASE ReaderNext
    <3>1. writerPc' = writerPc
      BY <2>2 DEF ReaderNext, ReaderLoop, ReaderLocks, ReaderPurges,
         ReaderDispatches, ReaderUnlocks
    <3>2. readerQuit =>
              \/ readerPc = "loop" /\ readerPc' = "done"
              \/ readerPc = "lock" /\ readerPc' = "purge"
              \/ readerPc = "purge" /\ readerPc' = "dispatch"
              \/ readerPc = "dispatch" /\ readerPc' = "flag"
              \/ readerPc = "flag" /\ readerPc' = "loop"
      BY <2>2 DEF ReaderNext, ReaderLoop, ReaderLocks, ReaderPurges,
         ReaderDispatches, ReaderUnlocks, ReaderGoto
    <3>3. readerQuit => ReaderSteps[readerPc'] < ReaderSteps[readerPc]
      BY <3>2 DEF ReaderSteps
    <3> QED
      BY <2>1, <3>1, <3>3
  <2>3. CASE WriterNext
    <3>1. readerPc' = readerPc
      BY <2>3 DEF WriterNext, WriterOuterLoop, ConnectToServer, Connected,
         WriterQuits, DoWriting, OnCloseConnection
    <3>2. \/ writerPc = "outer" /\ writerPc' \in {"done", "connect"}
          \/ writerPc = "connect" /\ writerPc' = "giveUp"
          \/ writerPc = "connecting" /\ writerPc' = "write"
          \/ writerPc = "write" /\ writerPc' \in {"outer", "disconnect"}
          \/ writerPc = "disconnect" /\ writerPc' = "outer"
          \/ writerPc = "giveUp" /\ writerPc' = "done"
      BY <2>1, <2>3 DEF WriterNext, WriterOuterLoop, ConnectToServer, Connected,
         WriterQuits, DoWriting, OnCloseConnection, WriterGoto
    <3>3. WriterSteps[writerPc'] < WriterSteps[writerPc]
      BY <3>2 DEF WriterSteps
    <3> QED
      BY <3>1, <3>3
  <2>4. CASE ~ReaderNext /\ ~WriterNext
    <3>1. UNCHANGED <<readerPc, writerPc>>
      BY <1>1, <2>4 DEF Next, Stopped, vars, RosNext, RosReceive, AppNext,
         ConnectionSeen, ConnectionWaitExpires, StartUpRegister,
         StartUpDone, SpinOnce, CallbackBegins, CallbackLinks, CallbackCrashes,
         FetchLooks, Fetch, IterateRegister, IterateUnRegister, IterateDone,
         CloseBegins, CloseClears, CloseShutsDownRos, CloseStopsReader,
         CloseTerminates, CloseStopsWriter, CloseReturns
    <3> QED
      BY <3>1
  <2> QED
    BY <2>2, <2>3, <2>4
<1>2. Threads /\ ReaderAsked /\ [Next]_vars => [Closer]_vars
  BY <1>1
<1> QED
  BY <1>2, TypeInit, TypeStep, ThreadsInit, ThreadsStep, AskedInit, AskedStep,
     PTL DEF Spec, CloseApproaches
=============================================================================
