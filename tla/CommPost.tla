------------------------------ MODULE CommPost ------------------------------
(***************************************************************************)
(* The sending side of the asynchronous client: Post, PostGlobal and       *)
(* Advertise, called by the application and by the callbacks of its active *)
(* queues, the writer thread that empties OutGoingQueue_, and Close.       *)
(*                                                                         *)
(* The client is connected when the module begins.  A message is published *)
(* at once; outbox and outgoing queue are what is left of the protocol     *)
(* that ROS replaces.  A message is its id.                                *)
(***************************************************************************)
EXTENDS Integers, Sequences, FiniteSets

CONSTANTS
    App,       \* the thread of the application, which closes the client
    Workers,   \* threads of active queues, whose callbacks post
    Topics,
    Global,    \* the topics PostGlobal posts to
    Limit,     \* OUTBOX_PENDING_LIMIT
    MaxPosts   \* bound on the messages posted

Threads == Workers \cup {App}

ASSUME PostAssumption ==
    /\ App \notin Workers /\ "free" \notin Threads
    /\ Global \subseteq Topics /\ Topics # {}
    /\ Limit \in Nat /\ MaxPosts \in Nat

VARIABLES
    connected,   \* m_bConnected
    publishers,  \* topics in publisherMap
    outLock,     \* who holds m_OutLock, or "free"
    pc,          \* what each thread is doing
    topic,       \* what it posts to; PostGlobal is known by it
    id,          \* m_nID of the message it posts
    nextId,      \* m_nNextMsgID
    outBox,      \* m_OutBox
    outgoing,    \* OutGoingQueue_
    published,   \* history: ids published on each topic
    shared,      \* history: ids posted by PostGlobal
    stopped,     \* workers that have been stopped
    closing,     \* how far Close is
    writer,      \* how far the writer thread is
    writerQuit   \* its quit flag

postVars == <<publishers, pc, topic, id, nextId, published, shared>>
boxVars == <<outLock, outBox, outgoing>>
closeVars == <<stopped, closing, writerQuit>>
writerVars == <<connected, writer>>
vars == <<postVars, boxVars, closeVars, writerVars>>

(* MOOS_TERMINATE_CONNECTION among the ids. *)
Terminate == 0
Ids == 1 .. nextId - 1

Init ==
    /\ connected = TRUE /\ publishers = {} /\ outLock = "free"
    /\ pc = [t \in Threads |-> "idle"]
    /\ topic = [t \in Threads |-> CHOOSE k \in Topics : TRUE]
    /\ id = [t \in Threads |-> 0] /\ nextId = 1
    /\ outBox = <<>> /\ outgoing = <<>>
    /\ published = [k \in Topics |-> <<>>] /\ shared = {}
    /\ stopped = {} /\ closing = "no"
    /\ writer = "write" /\ writerQuit = FALSE

Goto(t, from, to) ==
    /\ pc[t] = from
    /\ pc' = [pc EXCEPT ![t] = to]

-----------------------------------------------------------------------------
(* Post and PostGlobal look at m_bConnected before they take the lock.     *)
PostBegins(t, k) ==
    /\ connected
    /\ t \notin stopped /\ (t = App => closing = "no")
    /\ nextId + Cardinality({u \in Threads : pc[u] = "locking"}) <= MaxPosts
    /\ Goto(t, "idle", "locking")
    /\ topic' = [topic EXCEPT ![t] = k]
    /\ UNCHANGED <<publishers, id, nextId, published, shared, boxVars,
                   closeVars, writerVars>>

\* Mutant: the id is taken without the lock.
LocksLate(t) ==
    /\ Goto(t, "locking", "publishing")
    /\ outLock' = IF outLock = "free" THEN t ELSE outLock
    /\ id' = [id EXCEPT ![t] = nextId]
    /\ nextId' = nextId + 1
    /\ publishers' = publishers \cup {topic[t]}
    /\ UNCHANGED <<topic, outBox, outgoing, published, shared, closeVars,
                   writerVars>>

\* Mutant: the message keeps the id it came with.
LocksNoId(t) ==
    /\ outLock = "free"
    /\ Goto(t, "locking", IF topic[t] \in publishers \cup Global
                          THEN "publishing" ELSE "advertising")
    /\ outLock' = t
    /\ nextId' = nextId + 1
    /\ publishers' = publishers \cup {topic[t]}
    /\ UNCHANGED <<topic, id, outBox, outgoing, published, shared, closeVars,
                   writerVars>>

(* A message of its own id, and a publisher for a topic that has none.     *)
(* PostGlobal does not wait for subscribers.                               *)
Locks(t) ==
    /\ outLock = "free"
    /\ Goto(t, "locking", IF topic[t] \in publishers \cup Global
                          THEN "publishing" ELSE "advertising")
    /\ outLock' = t
    /\ id' = [id EXCEPT ![t] = nextId]
    /\ nextId' = nextId + 1
    /\ publishers' = publishers \cup {topic[t]}
    /\ UNCHANGED <<topic, outBox, outgoing, published, shared, closeVars,
                   writerVars>>

(* Every subscriber known to the master has connected, or five seconds     *)
(* have passed; the lock is held all the while.                            *)
AdvertiseReturns(t) ==
    /\ Goto(t, "advertising", "publishing")
    /\ UNCHANGED <<publishers, topic, id, nextId, published, shared, boxVars,
                   closeVars, writerVars>>

\* Mutant: a full outbox drops nothing.
PushedOver(m) == Append(outBox, m)

(* The oldest message goes when a new one is too many.                     *)
Pushed(m) ==
    IF Len(outBox) >= Limit THEN Tail(Append(outBox, m)) ELSE Append(outBox, m)

(* publisherMap.at throws when it finds nothing, and the lock is kept.     *)
Publish(t) ==
    /\ topic[t] \in publishers
    /\ Goto(t, "publishing", IF topic[t] \in Global THEN "idle" ELSE "moving")
    /\ published' = [published EXCEPT ![topic[t]] = Append(@, id[t])]
    /\ shared' = IF topic[t] \in Global THEN shared \cup {id[t]} ELSE shared
    /\ outBox' = Pushed(id[t])
    /\ id' = [id EXCEPT ![t] = 0]
    /\ outLock' = "free"
    /\ UNCHANGED <<publishers, topic, nextId, outgoing, closeVars, writerVars>>

\* Mutant: the queue is never cut.
DitchedNot(q) == q

(* Half of the unsent mail is ditched when there is too much.              *)
Ditched(q) ==
    IF Len(q) > Limit
    THEN SubSeq(q, Len(q) - Limit \div 2 + 1, Len(q))
    ELSE q

\* Mutant: the outbox is spliced in at the wrong end.
MoveToFront(t) ==
    /\ outLock = "free"
    /\ Goto(t, "moving", "idle")
    /\ outgoing' = outBox \o Ditched(outgoing)
    /\ outBox' = <<>>
    /\ UNCHANGED <<publishers, topic, id, nextId, published, shared, outLock,
                   closeVars, writerVars>>

\* Mutant: the outbox is copied, not spliced.
MoveCopies(t) ==
    /\ outLock = "free"
    /\ Goto(t, "moving", "idle")
    /\ outgoing' = Ditched(outgoing) \o outBox
    /\ UNCHANGED <<publishers, topic, id, nextId, published, shared, boxVars,
                   closeVars, writerVars>>

(* The second hold of the lock, in MOOSAsyncCommClient::Post.              *)
Move(t) ==
    /\ outLock = "free"
    /\ Goto(t, "moving", "idle")
    /\ outgoing' = Ditched(outgoing) \o outBox
    /\ outBox' = <<>>
    /\ UNCHANGED <<publishers, topic, id, nextId, published, shared, outLock,
                   closeVars, writerVars>>

(* WaitForEmptyOutbox asks GetNumberOfUnsentMessages until it is zero.     *)
WaitBegins ==
    /\ closing = "no"
    /\ Goto(App, "idle", "waiting")
    /\ UNCHANGED <<publishers, topic, id, nextId, published, shared, boxVars,
                   closeVars, writerVars>>

WaitEnds ==
    /\ outBox = <<>>
    /\ Goto(App, "waiting", "idle")
    /\ UNCHANGED <<publishers, topic, id, nextId, published, shared, boxVars,
                   closeVars, writerVars>>

-----------------------------------------------------------------------------
CloseGoto(from, to) ==
    /\ closing = from
    /\ closing' = to

CloseBegins ==
    /\ pc[App] = "idle"
    /\ CloseGoto("no", "clear")
    /\ UNCHANGED <<postVars, boxVars, stopped, writerQuit, writerVars>>

(* ClearResources. *)
CloseClears ==
    /\ outLock = "free"
    /\ CloseGoto("clear", "queues")
    /\ outBox' = <<>>
    /\ UNCHANGED <<postVars, outLock, outgoing, stopped, writerQuit, writerVars>>

(* Queues are stopped one by one: each waits for the callback it is in.    *)
CloseStopsQueue(t) ==
    /\ closing = "queues"
    /\ t \in Workers \ stopped /\ pc[t] = "idle"
    /\ stopped' = stopped \cup {t}
    /\ UNCHANGED <<postVars, boxVars, closing, writerQuit, writerVars>>

\* Mutant: the publishers are forgotten before the callbacks are over.
CloseForgetsEarly ==
    /\ CloseGoto("queues", "terminate")
    /\ publishers' = {}
    /\ UNCHANGED <<pc, topic, id, nextId, published, shared, boxVars, stopped,
                   writerQuit, writerVars>>

CloseForgets ==
    /\ stopped = Workers
    /\ CloseGoto("queues", "terminate")
    /\ publishers' = {}
    /\ UNCHANGED <<pc, topic, id, nextId, published, shared, boxVars, stopped,
                   writerQuit, writerVars>>

CloseTerminates ==
    /\ CloseGoto("terminate", "stop")
    /\ outgoing' = Append(outgoing, Terminate)
    /\ UNCHANGED <<postVars, outLock, outBox, stopped, writerQuit, writerVars>>

CloseStopsWriter ==
    /\ CloseGoto("stop", "join")
    /\ writerQuit' = TRUE
    /\ UNCHANGED <<postVars, boxVars, stopped, writerVars>>

CloseReturns ==
    /\ writer = "done"
    /\ CloseGoto("join", "closed")
    /\ UNCHANGED <<postVars, boxVars, stopped, writerQuit, writerVars>>

-----------------------------------------------------------------------------
WriterGoto(from, to) ==
    /\ writer = from
    /\ writer' = to

(* DoWriting empties the queue; sending was done by Post.                  *)
DoWriting ==
    /\ outgoing # <<>>
    /\ WriterGoto("write", IF \E i \in 1..Len(outgoing) : outgoing[i] = Terminate
                           THEN "disconnect" ELSE "write")
    /\ outgoing' = <<>>
    /\ UNCHANGED <<postVars, outLock, outBox, closeVars, connected>>

(* OnCloseConnection after DoWriting failed, or after ConnectToServer did, *)
(* because m_bQuit is set.                                                 *)
Disconnects ==
    /\ \/ WriterGoto("disconnect", "clear")
       \/ WriterGoto("connect", "clearAgain")
    /\ connected' = FALSE
    /\ UNCHANGED <<postVars, boxVars, closeVars>>

\* Mutant: the writer tries to connect until it is.
ClearsAndRetries ==
    /\ outLock = "free"
    /\ \/ WriterGoto("clear", "connect")
       \/ WriterGoto("clearAgain", "connect")
    /\ outBox' = <<>>
    /\ UNCHANGED <<postVars, outLock, outgoing, closeVars, connected>>

(* ClearResources, after which the loops look at the quit flag, or break.  *)
ClearsOutBox ==
    /\ outLock = "free"
    /\ \/ WriterGoto("clear", IF writerQuit THEN "done" ELSE "connect")
       \/ WriterGoto("clearAgain", "done")
    /\ outBox' = <<>>
    /\ UNCHANGED <<postVars, outLock, outgoing, closeVars, connected>>

WriterQuits ==
    /\ writerQuit
    /\ WriterGoto("write", "done")
    /\ connected' = FALSE
    /\ UNCHANGED <<postVars, boxVars, closeVars>>

-----------------------------------------------------------------------------
Posting(t) == Locks(t) \/ AdvertiseReturns(t) \/ Publish(t) \/ Move(t)

CloseNext ==
    \/ CloseClears \/ CloseForgets \/ CloseTerminates
    \/ CloseStopsWriter \/ CloseReturns
    \/ \E t \in Workers : CloseStopsQueue(t)

WriterNext == DoWriting \/ Disconnects \/ ClearsOutBox \/ WriterQuits

(* The client is closed, WaitForEmptyOutbox asks again, or the writer has  *)
(* waited a third of a second for something to write.                      *)
NothingNew ==
    /\ \/ closing = "closed" \/ pc[App] = "waiting"
       \/ writer = "write" /\ outgoing = <<>>
    /\ UNCHANGED vars

Next ==
    \/ \E t \in Threads : Posting(t) \/ \E k \in Topics : PostBegins(t, k)
    \/ WaitBegins \/ WaitEnds
    \/ CloseBegins \/ CloseNext
    \/ WriterNext
    \/ NothingNew

(* Every thread runs, and a callback or a wait for subscribers ends.       *)
Fairness ==
    /\ \A t \in Threads : WF_vars(Posting(t))
    /\ WF_vars(WaitEnds) /\ WF_vars(CloseNext) /\ WF_vars(WriterNext)

Spec == Init /\ [][Next]_vars
FairSpec == Spec /\ Fairness

-----------------------------------------------------------------------------
(* Messages are in the order of their ids; Terminate has none.             *)
Increases(s) ==
    \A i, j \in 1..Len(s) :
        i < j => s[i] < s[j] \/ Terminate \in {s[i], s[j]}

TypeOK ==
    /\ connected \in BOOLEAN /\ publishers \subseteq Topics
    /\ outLock \in Threads \cup {"free"}
    /\ pc \in [Threads -> {"idle", "locking", "advertising", "publishing",
                           "moving", "waiting"}]
    /\ topic \in [Threads -> Topics]
    /\ nextId \in Nat \ {0} /\ id \in [Threads -> {0} \cup Ids]
    /\ outBox \in Seq(Ids) /\ outgoing \in Seq(Ids \cup {Terminate})
    /\ published \in [Topics -> Seq(Ids)] /\ shared \subseteq Ids
    /\ stopped \subseteq Workers
    /\ closing \in {"no", "clear", "queues", "terminate", "stop", "join", "closed"}
    /\ writer \in {"write", "disconnect", "clear", "connect", "clearAgain", "done"}
    /\ writerQuit \in BOOLEAN

(* Whatever threads post to a topic, its messages are published in the     *)
(* order of their ids.                                                     *)
PublishedInOrder == \A k \in Topics : Increases(published[k])

(* What is not yet written is in order, too: first the queue, then the     *)
(* outbox, although the lock is let go of between the two.                 *)
UnsentInOrder == Increases(outgoing \o outBox)

(* Outbox and queue are never longer than their limits allow: the check in *)
(* Post looks at the queue before the outbox is appended.                  *)
Bounded ==
    /\ Len(outBox) <= Limit
    /\ Len(outgoing) <= 2 * Limit
                        + (IF closing \in {"stop", "join", "closed"} THEN 1 ELSE 0)

(* Who is about to publish finds the publisher: Close forgets publishers   *)
(* only when the callbacks that post are over.                             *)
PostNeverThrows ==
    \A t \in Threads : pc[t] = "publishing" => topic[t] \in publishers

(* Close returns, whatever is being posted: no thread it waits for is left *)
(* in front of the lock, and the writer comes to its end.                  *)
CloseReturnsEventually == closing # "no" ~> closing = "closed"

(* WaitForEmptyOutbox returns, unless what is in the outbox was put there  *)
(* by PostGlobal: then only another Post would empty it.                   *)
WaitReturns ==
    pc[App] = "waiting" ~>
        \/ pc[App] = "idle"
        \/ \E i \in 1..Len(outBox) : outBox[i] \in shared
=============================================================================
