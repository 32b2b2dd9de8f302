---------------------------- MODULE ActiveQueues ----------------------------
(***************************************************************************)
(* The active queues of a CMOOSCommClient: mail of some variables is not   *)
(* given to OnNewMail but to a callback that runs in a thread of its own.  *)
(*                                                                         *)
(*   users    threads that add and remove queues and routes; one of them,  *)
(*            App, is the application thread, which also receives from     *)
(*            ROS, fetches and closes                                      *)
(*   reader   DoReading, which scans m_InBox for mail that has a route     *)
(*   workers  ActiveMailQueue::DoWork, one thread for every queue          *)
(*                                                                         *)
(* What is done under ActiveQueuesLock_ without waiting for another thread *)
(* is one step.  A queue is stopped while the lock is held, and stopping   *)
(* waits for the worker, so lock says who holds it.  m_InLock is held by   *)
(* the reader whenever it is not idle.  The purge of an overfull inbox and *)
(* the unprotected push_front are in CommClient.tla; here the inbox is     *)
(* below its limit and a push is atomic.                                   *)
(***************************************************************************)
EXTENDS Integers, Sequences, FiniteSets

CONSTANTS
    Queues,     \* names of active queues
    Keys,       \* names of variables
    Patterns,   \* wildcard patterns, each the set of the keys it matches
    Users,      \* threads that call the client
    App,        \* the application thread
    Terminate,  \* a message of type MOOS_TERMINATE_CONNECTION
    MaxMsgs     \* bound: messages received

Message == [id : 1..MaxMsgs, key : Keys]

ASSUME QueuesAssumption ==
    /\ Patterns \subseteq SUBSET Keys
    /\ App \in Users /\ {"free", "reader"} \cap Users = {}
    /\ Terminate \notin Message
    /\ MaxMsgs \in Nat

VARIABLES
    exists,         \* keys of ActiveQueueMap_
    pattern,        \* WildcardQueuePatterns_; the empty set if it has none
    mapped,         \* keys of Msg2ActiveQueueName_
    route,          \* Msg2ActiveQueueName_
    seen,           \* WildcardCheckSet_
    inBox,          \* m_InBox, newest first
    mailPresent,    \* m_bMailPresent
    lock,           \* who holds ActiveQueuesLock_
    readerPc,
    todo,           \* messages the reader has still to look at
    user,           \* what each thread is doing
    worker,         \* where each worker thread is
    quitFlag,       \* m_bQuitRequested of each worker thread
    backlog,        \* queue_ of each active queue, oldest first
    received,       \* messages received so far
    pushed,         \* messages each queue was given since it was created
    started,        \* messages its callback was called with
    mail, queued, dropped,  \* messages fetched, queued, cleared by Close
    erased,         \* keys whose routes RemoveMessageRoute erased
    died            \* runtime_error reached the top of the reader thread

mapVars == <<exists, pattern, mapped, route, seen, erased>>
workVars == <<worker, quitFlag, backlog, pushed, started>>
boxVars == <<inBox, mailPresent, received, mail, queued, dropped>>
readerVars == <<readerPc, todo>>
vars == <<mapVars, workVars, boxVars, readerVars, lock, user, died>>

Ready == [at |-> "ready"]

Init ==
    /\ exists = {}
    /\ pattern = [q \in Queues |-> {}]
    /\ mapped = {}
    /\ route = [k \in Keys |-> {}]
    /\ seen = {}
    /\ inBox = <<>>
    /\ mailPresent = FALSE
    /\ lock = "free"
    /\ readerPc = "idle"
    /\ todo = 0
    /\ user = [u \in Users |-> Ready]
    /\ worker = [q \in Queues |-> "done"]
    /\ quitFlag = [q \in Queues |-> FALSE]
    /\ backlog = [q \in Queues |-> <<>>]
    /\ received = 0
    /\ pushed = [q \in Queues |-> <<>>]
    /\ started = [q \in Queues |-> <<>>]
    /\ mail = {}
    /\ queued = {}
    /\ dropped = {}
    /\ erased = {}
    /\ died = FALSE

Elements(s) == {s[n] : n \in DOMAIN s}

-----------------------------------------------------------------------------
(***************************************************************************)
(* The application thread: mail comes in and is fetched.                   *)
(***************************************************************************)
Arrive(k) ==
    /\ user[App] = Ready
    /\ received < MaxMsgs
    /\ received' = received + 1
    /\ inBox' = <<[id |-> received + 1, key |-> k]>> \o inBox
    /\ UNCHANGED <<mapVars, workVars, mailPresent, mail, queued, dropped,
                   readerVars, lock, user, died>>

\* m_bMailPresent is read before m_InLock is taken.
FetchLooks ==
    /\ user[App] = Ready
    /\ mailPresent
    /\ user' = [user EXCEPT ![App] = [at |-> "fetch"]]
    /\ UNCHANGED <<mapVars, workVars, boxVars, readerVars, lock, died>>

Fetch ==
    /\ user[App].at = "fetch"
    /\ readerPc = "idle"
    /\ mail' = mail \cup Elements(inBox)
    /\ inBox' = <<>>
    /\ mailPresent' = FALSE
    /\ user' = [user EXCEPT ![App] = Ready]
    /\ UNCHANGED <<mapVars, workVars, received, queued, dropped, readerVars,
                   lock, died>>

-----------------------------------------------------------------------------
(***************************************************************************)
(* Any user: queues and routes.                                            *)
(***************************************************************************)
HasActiveQueue(q) == q \in exists

(* A new queue, empty and with its thread started; an old one is left as   *)
(* it is.                                                                  *)
CreateQueue(q) ==
    IF HasActiveQueue(q)
    THEN UNCHANGED <<exists, workVars>>
    ELSE /\ exists' = exists \cup {q}
         /\ worker' = [worker EXCEPT ![q] = "check"]
         /\ UNCHANGED <<quitFlag, backlog, pushed, started>>

Goto(u, step) == user' = [user EXCEPT ![u] = step]

AddActiveQueue(u, q) ==
    /\ user[u] = Ready
    /\ lock = "free"
    /\ CreateQueue(q)
    /\ UNCHANGED <<pattern, mapped, route, seen, erased, boxVars, readerVars,
                   lock, user, died>>

(* AddWildcardActiveQueue locks twice: once to add the queue ...           *)
AddWildcardActiveQueue(u, q, p) ==
    /\ user[u] = Ready
    /\ lock = "free"
    /\ ~HasActiveQueue(q)
    /\ CreateQueue(q)
    /\ Goto(u, [at |-> "wildcard", queue |-> q, keys |-> p])
    /\ UNCHANGED <<pattern, mapped, route, seen, erased, boxVars, readerVars,
                   lock, died>>

\* Mutant: what was seen before is not routed.
SetWildcardLate(u) ==
    /\ user[u].at = "wildcard"
    /\ lock = "free"
    /\ pattern' = [pattern EXCEPT ![user[u].queue] = user[u].keys]
    /\ Goto(u, Ready)
    /\ UNCHANGED <<exists, mapped, route, seen, erased, workVars, boxVars,
                   readerVars, lock, died>>

(* ... and once to note its pattern and route what was seen to it.         *)
SetWildcard(u) ==
    LET q == user[u].queue
        old == user[u].keys \cap seen IN
    /\ user[u].at = "wildcard"
    /\ lock = "free"
    /\ pattern' = [pattern EXCEPT ![q] = user[u].keys]
    /\ mapped' = mapped \cup old
    /\ route' = [k \in Keys |->
                    IF k \in old THEN route[k] \cup {q} ELSE route[k]]
    /\ Goto(u, Ready)
    /\ UNCHANGED <<exists, seen, erased, workVars, boxVars, readerVars, lock,
                   died>>

(* AddMessageRouteToActiveQueue asks for the queue, with a callback makes  *)
(* it if need be and asks again, and then adds the route, locking and      *)
(* unlocking for each.                                                     *)
AddMessageRoute(u, q, k, withCallback) ==
    /\ user[u] = Ready
    /\ lock = "free"
    /\ HasActiveQueue(q) \/ withCallback
    /\ Goto(u, [at |-> IF HasActiveQueue(q) THEN "addRoute" ELSE "makeQueue",
                queue |-> q, key |-> k])
    /\ UNCHANGED <<mapVars, workVars, boxVars, readerVars, lock, died>>

MakeQueue(u) ==
    /\ user[u].at = "makeQueue"
    /\ lock = "free"
    /\ CreateQueue(user[u].queue)
    /\ Goto(u, [user[u] EXCEPT !.at = "askQueue"])
    /\ UNCHANGED <<pattern, mapped, route, seen, erased, boxVars, readerVars,
                   lock, died>>

AskQueue(u) ==
    /\ user[u].at = "askQueue"
    /\ lock = "free"
    /\ Goto(u, IF HasActiveQueue(user[u].queue)
               THEN [user[u] EXCEPT !.at = "addRoute"]
               ELSE Ready)
    /\ UNCHANGED <<mapVars, workVars, boxVars, readerVars, lock, died>>

AddRoute(u) ==
    /\ user[u].at = "addRoute"
    /\ lock = "free"
    /\ mapped' = mapped \cup {user[u].key}
    /\ route' = [route EXCEPT ![user[u].key] = @ \cup {user[u].queue}]
    /\ Goto(u, Ready)
    /\ UNCHANGED <<exists, pattern, seen, erased, workVars, boxVars, readerVars,
                   lock, died>>

(* RemoveMessageRouteToActiveQueue, once it has found that the queue it is *)
(* given exists, erases the routes of the variable to all queues.          *)
RemoveMessageRoute(u, q, k) ==
    /\ user[u] = Ready
    /\ lock = "free"
    /\ HasActiveQueue(q)
    /\ Goto(u, [at |-> "eraseRoute", queue |-> q, key |-> k])
    /\ UNCHANGED <<mapVars, workVars, boxVars, readerVars, lock, died>>

EraseRoute(u) ==
    LET k == user[u].key IN
    /\ user[u].at = "eraseRoute"
    /\ lock = "free"
    /\ mapped' = mapped \ {k}
    /\ route' = [route EXCEPT ![k] = {}]
    /\ erased' = erased \cup {k}
    /\ Goto(u, Ready)
    /\ UNCHANGED <<exists, pattern, seen, workVars, boxVars, readerVars, lock,
                   died>>

\* Mutant: Stop sets the quit flag only.
PushNothing(q) == UNCHANGED backlog

(* ActiveMailQueue::Stop: a Terminate is queued, then the quit flag is set *)
(* and the thread is joined.                                               *)
PushTerminate(q) == backlog' = [backlog EXCEPT ![q] = Append(@, Terminate)]

\* Mutant: the routes to the queue stay.
RemoveQueueOnly(u, q) ==
    /\ user[u] = Ready
    /\ lock = "free"
    /\ IF HasActiveQueue(q)
       THEN /\ lock' = u
            /\ PushTerminate(q)
            /\ Goto(u, [at |-> "quit", queue |-> q, closing |-> FALSE])
       ELSE UNCHANGED <<lock, backlog, user>>
    /\ UNCHANGED <<exists, pattern, mapped, route, seen, erased, worker, quitFlag,
                   pushed, started, boxVars, readerVars, died>>

RemoveActiveQueue(u, q) ==
    /\ user[u] = Ready
    /\ lock = "free"
    /\ route' = [k \in Keys |-> route[k] \ {q}]
    /\ IF HasActiveQueue(q)
       THEN /\ lock' = u
            /\ PushTerminate(q)
            /\ Goto(u, [at |-> "quit", queue |-> q, closing |-> FALSE])
       ELSE UNCHANGED <<lock, backlog, user>>
    /\ UNCHANGED <<exists, pattern, mapped, seen, erased, worker, quitFlag,
                   pushed, started, boxVars, readerVars, died>>

SetQuitFlag(u) ==
    /\ user[u].at = "quit"
    /\ quitFlag' = [quitFlag EXCEPT ![user[u].queue] = TRUE]
    /\ Goto(u, [user[u] EXCEPT !.at = "join"])
    /\ UNCHANGED <<mapVars, worker, backlog, pushed, started, boxVars,
                   readerVars, lock, died>>

\* Mutant: the worker is not waited for.
NotJoined(u) ==
    LET q == user[u].queue IN
    /\ user[u].at = "join"
    /\ exists' = exists \ {q}
    /\ quitFlag' = [quitFlag EXCEPT ![q] = FALSE]
    /\ backlog' = [backlog EXCEPT ![q] = <<>>]
    /\ pushed' = [pushed EXCEPT ![q] = <<>>]
    /\ started' = [started EXCEPT ![q] = <<>>]
    /\ IF user[u].closing
       THEN /\ Goto(u, [at |-> "closeQueues"])
            /\ UNCHANGED <<pattern, lock>>
       ELSE /\ Goto(u, Ready)
            /\ pattern' = [pattern EXCEPT ![q] = {}]
            /\ lock' = "free"
    /\ UNCHANGED <<mapped, route, seen, erased, worker, boxVars, readerVars,
                   died>>

\* The thread is gone; the queue is deleted with what is left in it.
Joined(u) ==
    LET q == user[u].queue IN
    /\ user[u].at = "join"
    /\ worker[q] = "done"
    /\ exists' = exists \ {q}
    /\ quitFlag' = [quitFlag EXCEPT ![q] = FALSE]
    /\ backlog' = [backlog EXCEPT ![q] = <<>>]
    /\ pushed' = [pushed EXCEPT ![q] = <<>>]
    /\ started' = [started EXCEPT ![q] = <<>>]
    /\ IF user[u].closing
       THEN /\ Goto(u, [at |-> "closeQueues"])
            /\ UNCHANGED <<pattern, lock>>
       ELSE /\ Goto(u, Ready)
            /\ pattern' = [pattern EXCEPT ![q] = {}]
            /\ lock' = "free"
    /\ UNCHANGED <<mapped, route, seen, erased, worker, boxVars, readerVars,
                   died>>

(***************************************************************************)
(* The application thread: Close empties the inbox, then stops every queue *)
(* under the lock and forgets queues and routes (but not the patterns).    *)
(***************************************************************************)
CloseClears ==
    /\ user[App] = Ready
    /\ readerPc = "idle"
    /\ inBox' = <<>>
    /\ dropped' = dropped \cup Elements(inBox)
    /\ Goto(App, [at |-> "closeLock"])
    /\ UNCHANGED <<mapVars, workVars, mailPresent, received, mail, queued,
                   readerVars, lock, died>>

CloseLocks ==
    /\ user[App].at = "closeLock"
    /\ lock = "free"
    /\ lock' = App
    /\ Goto(App, [at |-> "closeQueues"])
    /\ UNCHANGED <<mapVars, workVars, boxVars, readerVars, died>>

CloseStopsQueue(q) ==
    /\ user[App].at = "closeQueues"
    /\ HasActiveQueue(q)
    /\ PushTerminate(q)
    /\ Goto(App, [at |-> "quit", queue |-> q, closing |-> TRUE])
    /\ UNCHANGED <<mapVars, worker, quitFlag, pushed, started, boxVars,
                   readerVars, lock, died>>

CloseForgets ==
    /\ user[App].at = "closeQueues"
    /\ exists = {}
    /\ mapped' = {}
    /\ route' = [k \in Keys |-> {}]
    /\ seen' = {}
    /\ lock' = "free"
    /\ Goto(App, [at |-> "closed"])
    /\ UNCHANGED <<exists, pattern, erased, workVars, boxVars, readerVars, died>>

-----------------------------------------------------------------------------
(***************************************************************************)
(* The reader thread: DispatchInBoxToActiveThreads, newest message first.  *)
(***************************************************************************)
ReaderLocksInBox ==
    /\ readerPc = "idle"
    /\ readerPc' = "lock"
    /\ UNCHANGED <<mapVars, workVars, boxVars, todo, lock, user, died>>

DispatchBegins ==
    /\ readerPc = "lock"
    /\ lock = "free"
    /\ lock' = "reader"
    /\ readerPc' = "scan"
    /\ todo' = Len(inBox)
    /\ UNCHANGED <<mapVars, workVars, boxVars, user, died>>

Position == Len(inBox) - todo + 1

Scanned == inBox[Position]

DispatchReturns ==
    /\ readerPc' = "flag"
    /\ lock' = "free"

(* No route, or a variable the wildcard queues have not seen: they are     *)
(* asked.  If nobody wants the message the scan ends here, with the older  *)
(* messages not looked at.                                                 *)
ShowToWildcards ==
    LET k == Scanned.key
        wanting == {q \in Queues : k \in pattern[q]} IN
    /\ readerPc = "scan"
    /\ todo > 0
    /\ k \notin mapped \/ k \notin seen
    /\ seen' = seen \cup {k}
    /\ IF wanting = {}
       THEN UNCHANGED <<mapped, route>>
       ELSE /\ mapped' = mapped \cup {k}
            /\ route' = [route EXCEPT ![k] = @ \cup wanting]
    /\ IF wanting = {} /\ k \notin mapped
       THEN DispatchReturns
       ELSE UNCHANGED <<readerPc, lock>>
    /\ UNCHANGED <<exists, pattern, erased, workVars, boxVars, todo, user, died>>

\* Mutant: the message stays in the inbox.
PushAndKeep ==
    LET m == Scanned
        goal == route[m.key] IN
    /\ readerPc = "scan"
    /\ todo > 0
    /\ m.key \in mapped \cap seen
    /\ goal \subseteq exists
    /\ todo' = todo - 1
    /\ backlog' = [q \in Queues |->
                      IF q \in goal THEN Append(backlog[q], m) ELSE backlog[q]]
    /\ pushed' = [q \in Queues |->
                      IF q \in goal THEN Append(pushed[q], m) ELSE pushed[q]]
    /\ queued' = IF goal = {} THEN queued ELSE queued \cup {m}
    /\ UNCHANGED inBox
    /\ UNCHANGED <<mapVars, worker, quitFlag, started, mailPresent, received,
                   mail, dropped, readerPc, lock, user, died>>

\* Mutant: the iterator is advanced again after the erase.
PushAndSkip ==
    LET m == Scanned
        goal == route[m.key] IN
    /\ readerPc = "scan"
    /\ todo > 0
    /\ m.key \in mapped \cap seen
    /\ goal \subseteq exists
    /\ todo' = todo - (IF goal = {} THEN 1 ELSE 2)
    /\ backlog' = [q \in Queues |->
                      IF q \in goal THEN Append(backlog[q], m) ELSE backlog[q]]
    /\ pushed' = [q \in Queues |->
                      IF q \in goal THEN Append(pushed[q], m) ELSE pushed[q]]
    /\ IF goal = {}
       THEN UNCHANGED <<inBox, queued>>
       ELSE /\ queued' = queued \cup {m}
            /\ inBox' = SubSeq(inBox, 1, Position - 1)
                            \o SubSeq(inBox, Position + 1, Len(inBox))
    /\ UNCHANGED <<mapVars, worker, quitFlag, started, mailPresent, received,
                   mail, dropped, readerPc, lock, user, died>>

(* The message goes to every queue it has a route to and leaves the inbox. *)
(* If the entry in Msg2ActiveQueueName_ is empty it stays there.           *)
PushToQueues ==
    LET m == Scanned
        goal == route[m.key] IN
    /\ readerPc = "scan"
    /\ todo > 0
    /\ m.key \in mapped \cap seen
    /\ goal \subseteq exists
    /\ todo' = todo - 1
    /\ backlog' = [q \in Queues |->
                      IF q \in goal THEN Append(backlog[q], m) ELSE backlog[q]]
    /\ pushed' = [q \in Queues |->
                      IF q \in goal THEN Append(pushed[q], m) ELSE pushed[q]]
    /\ IF goal = {}
       THEN UNCHANGED <<inBox, queued>>
       ELSE /\ queued' = queued \cup {m}
            /\ inBox' = SubSeq(inBox, 1, Position - 1)
                            \o SubSeq(inBox, Position + 1, Len(inBox))
    /\ UNCHANGED <<mapVars, worker, quitFlag, started, mailPresent, received,
                   mail, dropped, readerPc, lock, user, died>>

(* A route to a queue that does not exist: runtime_error, which nobody in  *)
(* this thread catches.                                                    *)
QueueNotFound ==
    /\ readerPc = "scan"
    /\ todo > 0
    /\ Scanned.key \in mapped \cap seen
    /\ ~(route[Scanned.key] \subseteq exists)
    /\ died' = TRUE
    /\ UNCHANGED <<mapVars, workVars, boxVars, readerVars, lock, user>>

ScanEnds ==
    /\ readerPc = "scan"
    /\ todo = 0
    /\ DispatchReturns
    /\ UNCHANGED <<mapVars, workVars, boxVars, todo, user, died>>

ReaderSetsFlag ==
    /\ readerPc = "flag"
    /\ readerPc' = "idle"
    /\ todo' = 0
    /\ mailPresent' = (inBox # <<>>)
    /\ UNCHANGED <<mapVars, workVars, inBox, received, mail, queued, dropped,
                   lock, user, died>>

-----------------------------------------------------------------------------
(***************************************************************************)
(* The worker thread of queue q: ActiveMailQueue::DoWork.                  *)
(***************************************************************************)
CheckQuit(q) ==
    /\ worker[q] = "check"
    /\ worker' = [worker EXCEPT ![q] = IF quitFlag[q] THEN "done" ELSE "pull"]
    /\ UNCHANGED <<mapVars, quitFlag, backlog, pushed, started, boxVars,
                   readerVars, lock, user, died>>

\* Mutant: the newest element is pulled.
PullNewest(q) ==
    LET m == backlog[q][Len(backlog[q])] IN
    /\ worker[q] = "pull"
    /\ backlog[q] # <<>>
    /\ backlog' = [backlog EXCEPT ![q] = SubSeq(@, 1, Len(@) - 1)]
    /\ IF m = Terminate
       THEN /\ worker' = [worker EXCEPT ![q] = "done"]
            /\ UNCHANGED started
       ELSE /\ worker' = [worker EXCEPT ![q] = "call"]
            /\ started' = [started EXCEPT ![q] = Append(@, m)]
    /\ UNCHANGED <<mapVars, quitFlag, pushed, boxVars, readerVars, lock, user,
                   died>>

(* While its queue is empty the worker waits; it looks at nothing else.    *)
Pull(q) ==
    LET m == Head(backlog[q]) IN
    /\ worker[q] = "pull"
    /\ backlog[q] # <<>>
    /\ backlog' = [backlog EXCEPT ![q] = Tail(@)]
    /\ IF m = Terminate
       THEN /\ worker' = [worker EXCEPT ![q] = "done"]
            /\ UNCHANGED started
       ELSE /\ worker' = [worker EXCEPT ![q] = "call"]
            /\ started' = [started EXCEPT ![q] = Append(@, m)]
    /\ UNCHANGED <<mapVars, quitFlag, pushed, boxVars, readerVars, lock, user,
                   died>>

\* Mutant: the worker ends when the callback returns false.
CallbackEnds(q) ==
    /\ worker[q] = "call"
    /\ worker' = [worker EXCEPT ![q] = "done"]
    /\ UNCHANGED <<mapVars, quitFlag, backlog, pushed, started, boxVars,
                   readerVars, lock, user, died>>

CallbackReturns(q) ==
    /\ worker[q] = "call"
    /\ worker' = [worker EXCEPT ![q] = "check"]
    /\ UNCHANGED <<mapVars, quitFlag, backlog, pushed, started, boxVars,
                   readerVars, lock, user, died>>

-----------------------------------------------------------------------------
(* The process has died, or Close has returned.                            *)
Stopped ==
    /\ died \/ user[App].at = "closed"
    /\ UNCHANGED vars

\* What a user decides to do, and what it then has to finish.
Begin(u) ==
    \/ \E q \in Queues : AddActiveQueue(u, q)
    \/ \E q \in Queues, p \in Patterns : AddWildcardActiveQueue(u, q, p)
    \/ \E q \in Queues, k \in Keys, cb \in BOOLEAN : AddMessageRoute(u, q, k, cb)
    \/ \E q \in Queues, k \in Keys : RemoveMessageRoute(u, q, k)
    \/ \E q \in Queues : RemoveActiveQueue(u, q)

Continue(u) ==
    \/ SetWildcard(u)
    \/ MakeQueue(u)
    \/ AskQueue(u)
    \/ AddRoute(u)
    \/ EraseRoute(u)
    \/ SetQuitFlag(u)
    \/ Joined(u)
    \/ u = App /\ (Fetch \/ CloseLocks \/ CloseForgets)
    \/ u = App /\ \E q \in Queues : CloseStopsQueue(q)

Reader ==
    \/ ReaderLocksInBox
    \/ DispatchBegins
    \/ ShowToWildcards
    \/ PushToQueues
    \/ QueueNotFound
    \/ ScanEnds
    \/ ReaderSetsFlag

Worker(q) == CheckQuit(q) \/ Pull(q) \/ CallbackReturns(q)

Alive == ~died

Next ==
    \/ Alive /\ \E k \in Keys : Arrive(k)
    \/ Alive /\ (FetchLooks \/ CloseClears)
    \/ \E u \in Users : Alive /\ (Begin(u) \/ Continue(u))
    \/ Alive /\ Reader
    \/ \E q \in Queues : Alive /\ Worker(q)
    \/ Stopped

Spec == Init /\ [][Next]_vars

(***************************************************************************)
(* The threads run.  The reader takes and releases both locks in a loop    *)
(* without a pause; that a user waiting for one gets it now and then is an *)
(* assumption about the mutex, hence strong fairness.  A callback returns. *)
(***************************************************************************)
Fairness ==
    /\ \A q \in Queues : WF_vars(Alive /\ Worker(q))
    /\ \A u \in Users : SF_vars(Alive /\ Continue(u))
    /\ SF_vars(Alive /\ Reader)

FairSpec == Spec /\ Fairness

-----------------------------------------------------------------------------
(***************************************************************************)
(* Properties.                                                             *)
(***************************************************************************)
UserSteps ==
    {Ready}
    \cup [at : {"fetch", "closeLock", "closeQueues", "closed"}]
    \cup [at : {"wildcard"}, queue : Queues, keys : Patterns]
    \cup [at : {"addRoute", "makeQueue", "askQueue", "eraseRoute"},
           queue : Queues, key : Keys]
    \cup [at : {"quit", "join"}, queue : Queues, closing : BOOLEAN]

(* The type invariant: what each part of the client may hold.              *)
TypeOK ==
    /\ exists \subseteq Queues
    /\ pattern \in [Queues -> Patterns \cup {{}}]
    /\ mapped \subseteq Keys
    /\ route \in [Keys -> SUBSET Queues]
    /\ seen \subseteq Keys
    /\ inBox \in Seq(Message)
    /\ mailPresent \in BOOLEAN
    /\ lock \in Users \cup {"free", "reader"}
    /\ readerPc \in {"idle", "lock", "scan", "flag"}
    /\ todo \in 0..MaxMsgs
    /\ user \in [Users -> UserSteps]
    /\ worker \in [Queues -> {"check", "pull", "call", "done"}]
    /\ quitFlag \in [Queues -> BOOLEAN]
    /\ backlog \in [Queues -> Seq(Message \cup {Terminate})]
    /\ received \in 0..MaxMsgs
    /\ pushed \in [Queues -> Seq(Message)]
    /\ started \in [Queues -> Seq(Message)]
    /\ mail \subseteq Message
    /\ queued \subseteq Message
    /\ dropped \subseteq Message
    /\ erased \subseteq Keys
    /\ died \in BOOLEAN

(* With one thread managing the queues, Msg2ActiveQueueName_ never names a *)
(* queue that is gone when the reader looks it up, so the reader does not  *)
(* throw.                                                                  *)
RoutesLeadToQueues ==
    /\ lock = "reader" => \A k \in Keys : route[k] \subseteq exists
    /\ ~died

(* A callback is called with every message its queue was given, once, in   *)
(* the order they were pushed: what was pushed is what was handled and     *)
(* what is still in the backlog, where a Terminate can only be the last.   *)
EachOnceInOrder ==
    \A q \in exists :
        started[q] \o backlog[q] \in {pushed[q], Append(pushed[q], Terminate)}

(* Every message received is in one place: in the inbox, fetched, with the *)
(* active queues, or discarded by Close.  The dispatch neither loses nor   *)
(* duplicates one, though the inbox grows while it scans.                  *)
Accounted ==
    \A i \in 1..received :
        Cardinality({n \in DOMAIN inBox : inBox[n].id = i})
          + Cardinality({m \in mail : m.id = i})
          + Cardinality({m \in queued : m.id = i})
          + Cardinality({m \in dropped : m.id = i}) = 1

(* No callback outlives its queue: when RemoveActiveQueue or Close has     *)
(* deleted an ActiveMailQueue its worker thread has ended.                 *)
NoWorkerWithoutQueue ==
    \A q \in Queues : worker[q] # "done" => q \in exists

(* A wildcard queue has a route for every variable it matches that has     *)
(* been seen, whichever came first, the queue or the message; unless the   *)
(* routes of the variable were erased or a queue is being stopped.         *)
WildcardsServed ==
    lock \in {"free", "reader"} =>
        \A q \in exists, k \in seen \ erased :
            k \in pattern[q] => q \in route[k]

(* RemoveActiveQueue and Close come back, wherever they catch the worker   *)
(* and whoever else waits for the lock, unless the process dies.           *)
StoppingEnds ==
    /\ \A u \in Users :
          user[u].at = "quit" ~> died \/ user[u].at \in {"ready", "closed"}
    /\ user[App].at = "closeLock" ~> died \/ user[App].at = "closed"

(* A message pushed to a queue is handled, or its queue goes away.         *)
PushedIsHandled ==
    \A q \in Queues, i \in 1..MaxMsgs :
        (\E m \in Elements(backlog[q]) : m # Terminate /\ m.id = i)
            ~> \/ died
               \/ q \notin exists
               \/ \E m \in Elements(started[q]) : m.id = i

(***************************************************************************)
(* A statement of the documentation, as a property.                        *)
(***************************************************************************)
(* MOOSCommClient.h, of AddMessageRouteToActiveQueue: "make a message      *)
(* route to a Active Queue": no mail that has a route was in the inbox     *)
(* when the dispatch began and is still there when it returns.             *)
RoutedMailIsQueued ==
    [][readerPc = "scan" /\ readerPc' = "flag" =>
          \A n \in Position..Len(inBox) : route[inBox[n].key] = {}]_vars
=============================================================================
