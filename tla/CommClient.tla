----------------------------- MODULE CommClient -----------------------------
(***************************************************************************)
(* The receiving half and the life cycle of one MOOSAsyncCommClient, as    *)
(* this fork runs it on top of ROS.  Three threads share it:               *)
(*                                                                         *)
(*   app     CMOOSApp::Run.  Each DoRunWork sleeps, calls Fetch, which     *)
(*           lets ROS run genericROSCallback on this thread, and hands the *)
(*           fetched mail to OnNewMail.  It also registers for variables   *)
(*           and finally calls Close.                                      *)
(*   reader  MOOSAsyncCommClient::ReadingLoop.  Nothing is read from a     *)
(*           socket any more; what is left of DoReading purges an overfull *)
(*           inbox, moves mail to the active queues and sets the flag that *)
(*           Fetch looks at.                                               *)
(*   writer  MOOSAsyncCommClient::WritingLoop, which connects and, when it *)
(*           finds a MOOS_TERMINATE_CONNECTION message, disconnects.       *)
(*                                                                         *)
(* The code between a Lock and an UnLock of m_InLock is one step when the  *)
(* app or the writer runs it.  The reader's critical section is cut into   *)
(* its parts, because genericROSCallback changes m_InBox without taking    *)
(* the lock and so interleaves with it.                                    *)
(***************************************************************************)
EXTENDS Integers, Sequences, FiniteSets

CONSTANTS
    Keys,           \* variable names (ROS topics) of the community
    Wanted,         \* those the application registers for in OnStartUp
    Routed,         \* those with a route to an active queue
    RosQueueSize,   \* ROS_IVP_NAMESPACE_SUBSCRIBER_MAX_QUEUE_SIZE
    InPendingLimit, \* INBOX_PENDING_LIMIT
    MaxMsgs,        \* bound: messages the other processes publish
    MaxTime         \* bound: time stamps are 0..MaxTime

ASSUME ClientAssumption ==
    /\ IsFiniteSet(Keys)
    /\ Wanted \subseteq Keys
    /\ Routed \subseteq Keys
    /\ RosQueueSize \in Nat \ {0}
    /\ InPendingLimit \in Nat
    /\ MaxMsgs \in Nat
    /\ MaxTime \in Nat

Message == [id : 1..MaxMsgs, key : Keys, time : 0..MaxTime]

VARIABLES
    connected,      \* m_bConnected
    quit,           \* m_bQuit
    appPc, readerPc, writerPc,
    readerQuit,     \* ReadingThread_.m_bQuitRequested
    writerQuit,     \* WritingThread_.m_bQuitRequested
    terminate,      \* OutGoingQueue_ holds a MOOS_TERMINATE_CONNECTION
    toRegister,     \* variables OnStartUp has still to register
    registered,     \* m_Registered
    subscribed,     \* keys of subscriberMap
    rosQ,           \* the queue ROS keeps for each subscription, oldest first
    due,            \* callbacks the running spinOnce has still to call
    hand,           \* the message genericROSCallback is putting in the inbox
    inBox,          \* m_InBox, newest first
    inLock,         \* is m_InLock held by the reader?
    mailPresent,    \* m_bMailPresent
    removed,        \* list nodes freed while hand was being linked
    sent,           \* messages received from ROS so far
    lastTime,       \* latest time stamp published of each variable
    mailLog,        \* everything OnNewMail was given, in order
    queued,         \* everything the active queues were given
    dropped,        \* everything discarded
    raced           \* m_InBox was changed by two threads at once

inVars == <<rosQ, due, hand, inBox, removed, raced>>
logVars == <<mailLog, queued, dropped>>
rosVars == <<sent, lastTime>>
subVars == <<toRegister, registered, subscribed>>
linkVars == <<connected, quit, terminate>>
quitVars == <<readerQuit, writerQuit>>
vars == <<linkVars, appPc, readerPc, writerPc, quitVars, subVars,
          inVars, inLock, mailPresent, rosVars, logVars>>

Elements(s) == {s[n] : n \in DOMAIN s}

Init ==
    /\ connected = FALSE
    /\ quit = FALSE
    /\ appPc = "waitConnect"
    /\ readerPc = "loop"
    /\ writerPc = "outer"
    /\ readerQuit = FALSE
    /\ writerQuit = FALSE
    /\ terminate = FALSE
    /\ toRegister = Wanted
    /\ registered = {}
    /\ subscribed = {}
    /\ rosQ = [k \in Keys |-> <<>>]
    /\ due = 0
    /\ hand = <<>>
    /\ inBox = <<>>
    /\ inLock = FALSE
    /\ mailPresent = FALSE
    /\ removed = <<>>
    /\ sent = 0
    /\ lastTime = [k \in Keys |-> 0]
    /\ mailLog = <<>>
    /\ queued = {}
    /\ dropped = {}
    /\ raced = FALSE

-----------------------------------------------------------------------------
(***************************************************************************)
(* ROS.  Another process publishes; if this client subscribes to the topic *)
(* the message joins the subscription's queue, whose oldest message makes  *)
(* room when the queue is full.                                            *)
(*                                                                         *)
(* The message bears the publisher's clock.  That the stamps of one        *)
(* variable do not go back is an assumption: the client does not see to    *)
(* it, and publishers of one variable whose clocks disagree break it.      *)
(***************************************************************************)
RosReceive(k, t) ==
    LET m == [id |-> sent + 1, key |-> k, time |-> t] IN
    /\ sent < MaxMsgs
    /\ k \in subscribed
    /\ t >= lastTime[k]
    /\ sent' = sent + 1
    /\ lastTime' = [lastTime EXCEPT ![k] = t]
    /\ IF Len(rosQ[k]) < RosQueueSize
       THEN /\ rosQ' = [rosQ EXCEPT ![k] = Append(@, m)]
            /\ UNCHANGED dropped
       ELSE /\ rosQ' = [rosQ EXCEPT ![k] = Append(Tail(@), m)]
            /\ dropped' = dropped \cup {Head(rosQ[k])}
    /\ UNCHANGED <<linkVars, appPc, readerPc, writerPc, quitVars, subVars, due,
                   hand, inBox, removed, raced, inLock, mailPresent, mailLog,
                   queued>>

-----------------------------------------------------------------------------
(***************************************************************************)
(* The application thread: starting up.                                    *)
(***************************************************************************)
AppGoto(from, to) == appPc = from /\ appPc' = to

(* Wait for the connection, or give up waiting after five seconds.         *)
ConnectionSeen ==
    /\ connected
    /\ AppGoto("waitConnect", "startUp")
    /\ UNCHANGED <<linkVars, readerPc, writerPc, quitVars, subVars, inVars,
                   inLock, mailPresent, rosVars, logVars>>

ConnectionWaitExpires ==
    /\ ~connected
    /\ AppGoto("waitConnect", "startUp")
    /\ UNCHANGED <<linkVars, readerPc, writerPc, quitVars, subVars, inVars,
                   inLock, mailPresent, rosVars, logVars>>

(* A subscriber that is already in subscriberMap stays there: insert does  *)
(* nothing and the new one is destroyed.                                   *)
Register(k) ==
    IF connected
    THEN /\ subscribed' = subscribed \cup {k}
         /\ registered' = registered \cup {k}
    ELSE UNCHANGED <<subscribed, registered>>

\* Mutant: m_Registered keeps the variable.
UnRegisterInPart(k) ==
    IF connected /\ k \in registered /\ k \in subscribed
    THEN /\ subscribed' = subscribed \ {k}
         /\ UNCHANGED registered
         /\ rosQ' = [rosQ EXCEPT ![k] = <<>>]
         /\ dropped' = dropped \cup Elements(rosQ[k])
    ELSE UNCHANGED <<subscribed, registered, rosQ, dropped>>

(* Erasing a subscriber makes ROS forget the messages queued for it.       *)
UnRegister(k) ==
    IF connected /\ k \in registered /\ k \in subscribed
    THEN /\ subscribed' = subscribed \ {k}
         /\ registered' = registered \ {k}
         /\ rosQ' = [rosQ EXCEPT ![k] = <<>>]
         /\ dropped' = dropped \cup Elements(rosQ[k])
    ELSE UNCHANGED <<subscribed, registered, rosQ, dropped>>

StartUpRegister(k) ==
    /\ appPc = "startUp"
    /\ k \in toRegister
    /\ toRegister' = toRegister \ {k}
    /\ Register(k)
    /\ UNCHANGED <<linkVars, appPc, readerPc, writerPc, quitVars, inVars,
                   inLock, mailPresent, rosVars, logVars>>

StartUpDone ==
    /\ toRegister = {}
    /\ AppGoto("startUp", "sleep")
    /\ UNCHANGED <<linkVars, readerPc, writerPc, quitVars, subVars, inVars,
                   inLock, mailPresent, rosVars, logVars>>
-----------------------------------------------------------------------------
(***************************************************************************)
(* The application thread: one DoRunWork.                                  *)
(***************************************************************************)
\* SleepAsRequired ends and Fetch calls ros::spinOnce, which will call the
\* callbacks that are queued now.
SpinOnce ==
    /\ AppGoto("sleep", "spin")
    /\ due' = Cardinality({kn \in Keys \X (1..RosQueueSize) :
                              kn[2] <= Len(rosQ[kn[1]])})
    /\ UNCHANGED <<linkVars, readerPc, writerPc, quitVars, subVars, rosQ, hand,
                   inBox, removed, raced, inLock, mailPresent, rosVars,
                   logVars>>

(* ROS takes the oldest message of all its queues.                         *)
OldestKey(k) ==
    /\ rosQ[k] # <<>>
    /\ \A j \in Keys : rosQ[j] # <<>> => rosQ[k][1].id <= rosQ[j][1].id

(* genericROSCallback starts m_InBox.push_front: it has looked up the      *)
(* first node of the list and builds the node that is to go before it.     *)
CallbackBegins(k) ==
    /\ appPc = "spin"
    /\ due > 0
    /\ OldestKey(k)
    /\ appPc' = "link"
    /\ due' = due - 1
    /\ hand' = <<Head(rosQ[k])>>
    /\ rosQ' = [rosQ EXCEPT ![k] = Tail(@)]
    /\ UNCHANGED <<linkVars, readerPc, writerPc, quitVars, subVars, inBox,
                   removed, raced, inLock, mailPresent, rosVars, logVars>>

(* The node is linked.  If the reader freed nodes in the meantime the      *)
(* program has no defined behaviour: the freed nodes may be back in the    *)
(* list behind the new one, the new one may be unreachable, or the process *)
(* dies.                                                                   *)
CallbackLinks ==
    /\ appPc = "link"
    /\ appPc' = "spin"
    /\ hand' = <<>>
    /\ removed' = <<>>
    /\ \/ inBox' = hand \o inBox /\ removed = <<>> /\ UNCHANGED dropped
       \/ inBox' = hand \o removed \o inBox /\ removed # <<>> /\ UNCHANGED dropped
       \/ /\ removed # <<>>
          /\ inBox' = inBox
          /\ dropped' = dropped \cup Elements(hand)
    /\ raced' = (raced \/ removed # <<>>)
    /\ UNCHANGED <<linkVars, readerPc, writerPc, quitVars, subVars, rosQ, due,
                   inLock, mailPresent, rosVars, mailLog, queued>>

CallbackCrashes ==
    /\ appPc = "link"
    /\ removed # <<>>
    /\ appPc' = "crashed"
    /\ raced' = TRUE
    /\ UNCHANGED <<linkVars, readerPc, writerPc, quitVars, subVars, rosQ, due,
                   hand, inBox, removed, inLock, mailPresent, rosVars, logVars>>

\* Mutant: one callback too many is counted.
FetchCounts ==
    /\ appPc = "spin"
    /\ due = 0 \/ \A k \in Keys : rosQ[k] = <<>>
    /\ appPc' = IF mailPresent THEN "fetch" ELSE "iterate"
    /\ due' = due - 1
    /\ UNCHANGED <<linkVars, readerPc, writerPc, quitVars, subVars, rosQ, hand,
                   inBox, removed, raced, inLock, mailPresent, rosVars,
                   logVars>>

(* spinOnce returns; Fetch reads m_bMailPresent without the lock.          *)
FetchLooks ==
    /\ appPc = "spin"
    /\ due = 0 \/ \A k \in Keys : rosQ[k] = <<>>
    /\ appPc' = IF mailPresent THEN "fetch" ELSE "iterate"
    /\ due' = 0
    /\ UNCHANGED <<linkVars, readerPc, writerPc, quitVars, subVars, rosQ, hand,
                   inBox, removed, raced, inLock, mailPresent, rosVars,
                   logVars>>

\* Mutant: no sort.
Unsorted(s) == s

(* MailIn.sort(MOOSMsgTimeSorter): by time, equal times keep their order.  *)
Precedes(s, i, j) == s[i].time < s[j].time \/ (s[i].time = s[j].time /\ i < j)

SortedByTime(s) ==
    [n \in DOMAIN s |->
        s[CHOOSE i \in DOMAIN s :
            Cardinality({j \in DOMAIN s : Precedes(s, j, i)}) = n - 1]]

\* Mutant: the inbox is copied and not cleared.
FetchCopies ==
    /\ ~inLock
    /\ AppGoto("fetch", "iterate")
    /\ mailLog' = mailLog \o SortedByTime(inBox)
    /\ mailPresent' = FALSE
    /\ UNCHANGED <<linkVars, readerPc, writerPc, quitVars, subVars, rosQ, due,
                   hand, inBox, removed, raced, inLock, rosVars, queued, dropped>>

\* Mutant: the flag is not cleared.
FetchKeepsFlag ==
    /\ ~inLock
    /\ AppGoto("fetch", "iterate")
    /\ mailLog' = mailLog \o SortedByTime(inBox)
    /\ inBox' = <<>>
    /\ UNCHANGED <<linkVars, readerPc, writerPc, quitVars, subVars, rosQ, due,
                   hand, removed, raced, inLock, mailPresent, rosVars, queued, dropped>>

(* Fetch empties the inbox under m_InLock; DoRunWork sorts what it got and *)
(* gives it to OnNewMail.                                                  *)
Fetch ==
    /\ ~inLock
    /\ AppGoto("fetch", "iterate")
    /\ mailLog' = mailLog \o SortedByTime(inBox)
    /\ inBox' = <<>>
    /\ mailPresent' = FALSE
    /\ UNCHANGED <<linkVars, readerPc, writerPc, quitVars, subVars, rosQ, due,
                   hand, removed, raced, inLock, rosVars, queued, dropped>>

(* Iterate may register and unregister.                                    *)
IterateRegister(k) ==
    /\ connected
    /\ AppGoto("iterate", "sleep")
    /\ Register(k)
    /\ UNCHANGED <<linkVars, readerPc, writerPc, quitVars, toRegister, inVars,
                   inLock, mailPresent, rosVars, logVars>>

IterateUnRegister(k) ==
    /\ connected
    /\ AppGoto("iterate", "sleep")
    /\ UnRegister(k)
    /\ UNCHANGED <<linkVars, readerPc, writerPc, quitVars, toRegister, due,
                   hand, inBox, removed, raced, inLock, mailPresent, rosVars,
                   mailLog, queued>>

IterateDone ==
    /\ AppGoto("iterate", "sleep")
    /\ UNCHANGED <<linkVars, readerPc, writerPc, quitVars, subVars, inVars,
                   inLock, mailPresent, rosVars, logVars>>
-----------------------------------------------------------------------------
(***************************************************************************)
(* The application thread: Close.                                          *)
(***************************************************************************)
ClearResources ==
    /\ ~inLock
    /\ inBox' = <<>>
    /\ dropped' = dropped \cup Elements(inBox)
    /\ registered' = {}

(* The application was asked to quit and has left its loop.                *)
CloseBegins ==
    /\ AppGoto("iterate", "clear")
    /\ quit' = TRUE
    /\ UNCHANGED <<connected, terminate, readerPc, writerPc, quitVars, subVars,
                   inVars, inLock, mailPresent, rosVars, logVars>>

CloseClears ==
    /\ AppGoto("clear", "shutDown")
    /\ ClearResources
    /\ UNCHANGED <<linkVars, readerPc, writerPc, quitVars,
                   toRegister, subscribed, rosQ, due, hand, removed, raced,
                   inLock, mailPresent, rosVars, mailLog, queued>>

(* The subscribers are destroyed and ros::shutdown forgets their messages. *)
(* (The active queues that are stopped here are in ActiveQueues.tla.)      *)
CloseShutsDownRos ==
    /\ AppGoto("shutDown", "stopReader")
    /\ subscribed' = {}
    /\ rosQ' = [k \in Keys |-> <<>>]
    /\ dropped' = dropped \cup UNION {Elements(rosQ[k]) : k \in Keys}
    /\ UNCHANGED <<linkVars, readerPc, writerPc, quitVars, toRegister,
                   registered, due, hand, inBox, removed, raced, inLock,
                   mailPresent, rosVars, mailLog, queued>>

\* Mutant: the reader is not asked to quit.
CloseForgetsReader ==
    /\ AppGoto("stopReader", "joinReader")
    /\ UNCHANGED <<linkVars, readerPc, writerPc, quitVars, subVars, inVars,
                   inLock, mailPresent, rosVars, logVars>>

CloseStopsReader ==
    /\ AppGoto("stopReader", "joinReader")
    /\ readerQuit' = TRUE
    /\ UNCHANGED <<linkVars, readerPc, writerPc, writerQuit, subVars, inVars,
                   inLock, mailPresent, rosVars, logVars>>

\* Mutant: the reader is not joined.
CloseHurries ==
    /\ AppGoto("joinReader", "stopWriter")
    /\ terminate' = TRUE
    /\ UNCHANGED <<connected, quit, readerPc, writerPc, quitVars, subVars,
                   inVars, inLock, mailPresent, rosVars, logVars>>

(* The reader has been joined: ask the writer to disconnect.               *)
CloseTerminates ==
    /\ readerPc = "done"
    /\ AppGoto("joinReader", "stopWriter")
    /\ terminate' = TRUE
    /\ UNCHANGED <<connected, quit, readerPc, writerPc, quitVars, subVars,
                   inVars, inLock, mailPresent, rosVars, logVars>>

CloseStopsWriter ==
    /\ AppGoto("stopWriter", "joinWriter")
    /\ writerQuit' = TRUE
    /\ UNCHANGED <<linkVars, readerPc, writerPc, readerQuit, subVars, inVars,
                   inLock, mailPresent, rosVars, logVars>>

CloseReturns ==
    /\ writerPc = "done"
    /\ AppGoto("joinWriter", "closed")
    /\ UNCHANGED <<linkVars, readerPc, writerPc, quitVars, subVars, inVars,
                   inLock, mailPresent, rosVars, logVars>>

-----------------------------------------------------------------------------
(***************************************************************************)
(* The reader thread.                                                      *)
(***************************************************************************)
ReaderGoto(from, to) == readerPc = from /\ readerPc' = to

(* ReadingLoop looks at its quit flag and at m_bConnected; without a       *)
(* connection it sleeps and looks again.                                   *)
ReaderLoop ==
    /\ readerQuit \/ connected
    /\ ReaderGoto("loop", IF readerQuit THEN "done" ELSE "lock")
    /\ UNCHANGED <<linkVars, appPc, writerPc, quitVars, subVars, inVars, inLock,
                   mailPresent, rosVars, logVars>>

(* DoReading locks the inbox and purges it if too much is unread.          *)
ReaderLocks ==
    /\ ~inLock
    /\ inLock' = TRUE
    /\ ReaderGoto("lock", "purge")
    /\ UNCHANGED <<linkVars, appPc, writerPc, quitVars, subVars, inVars,
                   mailPresent, rosVars, logVars>>

(* Nodes freed while the app thread is inside push_front.                  *)
Frees(nodes) ==
    removed' = IF appPc = "link" THEN removed \o nodes ELSE removed

ReaderPurges ==
    /\ ReaderGoto("purge", "dispatch")
    /\ IF Len(inBox) > InPendingLimit
       THEN /\ inBox' = <<>>
            /\ dropped' = dropped \cup Elements(inBox)
            /\ Frees(inBox)
       ELSE UNCHANGED <<inBox, dropped, removed>>
    /\ UNCHANGED <<linkVars, appPc, writerPc, quitVars, subVars, rosQ, due,
                   hand, raced, inLock, mailPresent, rosVars, mailLog, queued>>

(* DispatchInBoxToActiveThreads stops at the first message that has no     *)
(* route; the messages before it go to the active queues.                  *)
DispatchedLen(s) ==
    Cardinality({n \in DOMAIN s : \A m \in 1..n : s[m].key \in Routed})

ReaderDispatches ==
    LET n == DispatchedLen(inBox) IN
    /\ ReaderGoto("dispatch", "flag")
    /\ queued' = queued \cup {inBox[i] : i \in 1..n}
    /\ inBox' = SubSeq(inBox, n + 1, Len(inBox))
    /\ Frees(SubSeq(inBox, 1, n))
    /\ UNCHANGED <<linkVars, appPc, writerPc, quitVars, subVars, rosQ, due,
                   hand, raced, inLock, mailPresent, rosVars, mailLog, dropped>>

\* Mutant: the flag is never set.
ReaderForgets ==
    /\ ReaderGoto("flag", "loop")
    /\ mailPresent' = FALSE
    /\ inLock' = FALSE
    /\ UNCHANGED <<linkVars, appPc, writerPc, quitVars, subVars, inVars,
                   rosVars, logVars>>

ReaderUnlocks ==
    /\ ReaderGoto("flag", "loop")
    /\ mailPresent' = (inBox # <<>>)
    /\ inLock' = FALSE
    /\ UNCHANGED <<linkVars, appPc, writerPc, quitVars, subVars, inVars,
                   rosVars, logVars>>

-----------------------------------------------------------------------------
(***************************************************************************)
(* The writer thread.                                                      *)
(***************************************************************************)
WriterGoto(from, to) == writerPc = from /\ writerPc' = to

(* The outer loop: quit, or go and connect.                                *)
WriterOuterLoop ==
    /\ IF writerQuit
       THEN /\ WriterGoto("outer", "done")
            /\ connected' = FALSE
       ELSE /\ WriterGoto("outer", "connect")
            /\ UNCHANGED connected
    /\ UNCHANGED <<quit, terminate, appPc, readerPc, quitVars, subVars, inVars,
                   inLock, mailPresent, rosVars, logVars>>

(* ConnectToServer looks at m_bQuit ...                                    *)
ConnectToServer ==
    /\ WriterGoto("connect", IF quit THEN "giveUp" ELSE "connecting")
    /\ UNCHANGED <<linkVars, appPc, readerPc, quitVars, subVars, inVars, inLock,
                   mailPresent, rosVars, logVars>>

(* ... and then declares itself connected.  No callback is invoked.        *)
Connected ==
    /\ WriterGoto("connecting", "write")
    /\ connected' = TRUE
    /\ UNCHANGED <<quit, terminate, appPc, readerPc, quitVars, subVars, inVars,
                   inLock, mailPresent, rosVars, logVars>>

(* The inner loop ends when it sees the quit flag.                         *)
WriterQuits ==
    /\ writerQuit
    /\ WriterGoto("write", "outer")
    /\ UNCHANGED <<linkVars, appPc, readerPc, quitVars, subVars, inVars, inLock,
                   mailPresent, rosVars, logVars>>

(* DoWriting empties OutGoingQueue_; what it finds there was published by  *)
(* Post already, except for the request to terminate.                      *)
DoWriting ==
    /\ terminate
    /\ WriterGoto("write", "disconnect")
    /\ terminate' = FALSE
    /\ UNCHANGED <<connected, quit, appPc, readerPc, quitVars, subVars, inVars,
                   inLock, mailPresent, rosVars, logVars>>

(* OnCloseConnection, after DoWriting failed or ConnectToServer refused.   *)
OnCloseConnection ==
    /\ \/ WriterGoto("disconnect", "outer")
       \/ WriterGoto("giveUp", "done")
    /\ connected' = FALSE
    /\ ClearResources
    /\ UNCHANGED <<quit, terminate, appPc, readerPc, quitVars, toRegister,
                   subscribed, rosQ, due, hand, removed, raced, inLock,
                   mailPresent, rosVars, mailLog, queued>>
-----------------------------------------------------------------------------
(* Close has returned, or the process is gone.                             *)
Stopped ==
    /\ appPc \in {"closed", "crashed"}
    /\ UNCHANGED vars

RosNext == \E k \in Keys, t \in 0..MaxTime : RosReceive(k, t)

AppNext ==
    \/ ConnectionSeen
    \/ ConnectionWaitExpires
    \/ \E k \in Keys : StartUpRegister(k)
    \/ StartUpDone
    \/ SpinOnce
    \/ \E k \in Keys : CallbackBegins(k)
    \/ CallbackLinks
    \/ CallbackCrashes
    \/ FetchLooks
    \/ Fetch
    \/ \E k \in Keys : IterateRegister(k)
    \/ \E k \in Keys : IterateUnRegister(k)
    \/ IterateDone
    \/ CloseBegins
    \/ CloseClears
    \/ CloseShutsDownRos
    \/ CloseStopsReader
    \/ CloseTerminates
    \/ CloseStopsWriter
    \/ CloseReturns

ReaderNext ==
    \/ ReaderLoop
    \/ ReaderLocks
    \/ ReaderPurges
    \/ ReaderDispatches
    \/ ReaderUnlocks

WriterNext ==
    \/ WriterOuterLoop
    \/ ConnectToServer
    \/ Connected
    \/ WriterQuits
    \/ DoWriting
    \/ OnCloseConnection

Alive == appPc # "crashed"

Next ==
    \/ RosNext /\ Alive
    \/ AppNext
    \/ ReaderNext /\ Alive
    \/ WriterNext /\ Alive
    \/ Stopped

Spec == Init /\ [][Next]_vars

(***************************************************************************)
(* Every thread runs.  The reader loops without a pause, releasing and     *)
(* retaking m_InLock; that the other threads get the lock now and then is  *)
(* an assumption about the mutex, hence strong fairness.                   *)
(***************************************************************************)
Fairness ==
    /\ WF_vars(AppNext)
    /\ WF_vars(ReaderNext /\ Alive)
    /\ WF_vars(WriterNext /\ Alive)
    /\ SF_vars(Fetch)
    /\ SF_vars(CloseClears)
    /\ SF_vars(OnCloseConnection /\ Alive)

FairSpec == Spec /\ Fairness
-----------------------------------------------------------------------------
(***************************************************************************)
(* Properties.                                                             *)
(***************************************************************************)
AppPcs == {"waitConnect", "startUp", "sleep", "spin", "link", "fetch",
           "iterate", "clear", "shutDown", "stopReader", "joinReader",
           "stopWriter", "joinWriter", "closed", "crashed"}
ReaderPcs == {"loop", "lock", "purge", "dispatch", "flag", "done"}
WriterPcs == {"outer", "connect", "connecting", "giveUp", "write",
              "disconnect", "done"}

(* The type invariant: what each field of the client may hold.             *)
TypeOK ==
    /\ connected \in BOOLEAN
    /\ quit \in BOOLEAN
    /\ terminate \in BOOLEAN
    /\ appPc \in AppPcs
    /\ readerPc \in ReaderPcs
    /\ writerPc \in WriterPcs
    /\ readerQuit \in BOOLEAN
    /\ writerQuit \in BOOLEAN
    /\ toRegister \subseteq Wanted
    /\ registered \subseteq Keys
    /\ subscribed \subseteq Keys
    /\ rosQ \in [Keys -> Seq(Message)]
    /\ due \in Nat
    /\ hand \in Seq(Message)
    /\ inBox \in Seq(Message)
    /\ inLock \in BOOLEAN
    /\ mailPresent \in BOOLEAN
    /\ removed \in Seq(Message)
    /\ sent \in 0..MaxMsgs
    /\ lastTime \in [Keys -> 0..MaxTime]
    /\ mailLog \in Seq(Message)
    /\ queued \subseteq Message
    /\ dropped \subseteq Message
    /\ raced \in BOOLEAN

(* The places where message number i is, with its position in each.        *)
Places(i) ==
    LET In(name, s) == {<<name, n>> : n \in {n \in DOMAIN s : s[n].id = i}}
        Among(name, S) == {<<name, 0>> : m \in {m \in S : m.id = i}}
    IN (UNION {In("ros", rosQ[k]) : k \in Keys}) \cup In("hand", hand)
       \cup In("inBox", inBox) \cup In("mail", mailLog)
       \cup Among("queued", queued) \cup Among("dropped", dropped)

(* Every message ROS gave the process is in one place, and in one only:    *)
(* nothing is duplicated, and what is missing was dropped by a queue that  *)
(* was full, an inbox that was overfull, UnRegister or Close.  (Until two  *)
(* threads change m_InBox at once; see InBoxIsGuarded.)                    *)
Accounted ==
    ~raced => \A i \in 1..sent : Cardinality(Places(i)) = 1

(* OnNewMail sees the messages of one variable in the order of their time  *)
(* stamps, across calls too, although the inbox is kept newest first.      *)
MailInTimeOrder ==
    ~raced => \A m, n \in DOMAIN mailLog :
                  m < n /\ mailLog[m].key = mailLog[n].key
                      => mailLog[m].time <= mailLog[n].time

Closing == {"clear", "shutDown", "stopReader", "joinReader", "stopWriter",
            "joinWriter", "closed"}

(* The flag Fetch reads without the lock never promises mail that is not   *)
(* there, once the reader is out of its critical section.                  *)
MailPresentSound ==
    mailPresent /\ ~inLock /\ appPc \notin Closing => inBox # <<>>

(* While the application runs, m_Registered and the ROS subscriptions are  *)
(* about the same variables, and no mail is waiting at ROS for another.    *)
RegistrationsAgree ==
    appPc \notin Closing =>
        /\ registered = subscribed
        /\ \A k \in Keys : rosQ[k] # <<>> => k \in subscribed

(* When Close returns both threads are gone, nobody holds the inbox, and   *)
(* the client is disconnected, unsubscribed and empty.                     *)
ClosedIsClean ==
    appPc = "closed" =>
        /\ readerPc = "done" /\ writerPc = "done"
        /\ ~connected /\ ~inLock
        /\ registered = {} /\ subscribed = {}
        /\ inBox = <<>> /\ \A k \in Keys : rosQ[k] = <<>>

(* Close returns: the threads it joins stop, wherever it catches them.     *)
CloseReturnsEventually == appPc = "clear" ~> appPc = "closed"

(***************************************************************************)
(* Two statements of the documentation, as properties.                     *)
(***************************************************************************)
(* MOOSCommClient.h: m_InLock is the "Mutex around incoming mail box": no  *)
(* thread changes m_InBox while another is in its critical section.        *)
InBoxIsGuarded == ~(appPc = "link" /\ inLock)

(* MOOSApp.cpp, of the wait for the connection: the "success of an         *)
(* application is NOT dependent on this": the variables it wants are       *)
(* registered in the end, however long connecting took.                    *)
WantedIsRegistered == <>(Wanted \subseteq registered \/ appPc \in Closing)

-----------------------------------------------------------------------------
(***************************************************************************)
(* The client implements Mailbox, as long as the reader leaves the inbox   *)
(* alone (no active queue and no purge): then no two threads change it at  *)
(* once.                                                                   *)
(***************************************************************************)
Waiting ==
    (UNION {Elements(rosQ[k]) : k \in Keys}) \cup Elements(hand)
        \cup Elements(inBox)

MB == INSTANCE Mailbox WITH waiting <- Waiting, lost <- dropped

Implements == MB!MailboxSpec
=============================================================================
