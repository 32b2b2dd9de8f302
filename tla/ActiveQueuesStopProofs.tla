----------------------- MODULE ActiveQueuesStopProofs -----------------------
(***************************************************************************)
(* Why stopping an active queue ends: what ActiveQueues guarantees at      *)
(* every step to the thread that waits in Stop with ActiveQueuesLock_ in   *)
(* its hands, for all queues, variables, users and bounds; and why a       *)
(* message that waits in a queue is handled if the queue stays.  That the  *)
(* steps are taken at all is the fairness of FairSpec, and left to TLC.    *)
(***************************************************************************)
EXTENDS ActiveQueuesProofs

-----------------------------------------------------------------------------
(***************************************************************************)
(* The inductive invariant.                                                *)
(***************************************************************************)
StopsQueue(u, q) == Stops(u) /\ user[u].queue = q

\* ActiveQueuesLock_ is only held by who still has something to do with it.
LockInUse ==
    /\ lock = "reader" => readerPc = "scan"
    /\ \A u \in Users :
          lock = u => Stops(u) \/ (u = App /\ user[u].at = "closeQueues")

\* A quit flag is up while somebody waits for the worker.
FlagsAreRecent ==
    \A q \in Queues :
        quitFlag[q] => \E u \in Users : StopsQueue(u, q) /\ user[u].at = "join"

\* The worker of a queue only ends when somebody stops the queue.
Manned ==
    \A q \in exists :
        worker[q] = "done" => \E u \in Users : StopsQueue(u, q)

\* The worker has ended, or a Terminate waits for it.
Woken ==
    \A u \in Users, q \in Queues :
        StopsQueue(u, q) => worker[q] = "done" \/ Ending(q)

StopInv == QueueInv /\ LockInUse /\ FlagsAreRecent /\ Manned /\ Woken

LEMMA InitStopInv == Init => StopInv
BY InitQueueInv, QueuesAssumption
   DEF Init, StopInv, LockInUse, FlagsAreRecent, Manned, Woken, StopsQueue,
       Stops, Ready

-----------------------------------------------------------------------------
(***************************************************************************)
(* While somebody stops a queue.                                           *)
(***************************************************************************)
(* Nobody else stops one.                                                  *)
LEMMA OneStops ==
    ASSUME QueueInv, NEW u \in Users, NEW v \in Users, Stops(u), Stops(v)
    PROVE  u = v
BY DEF QueueInv, Locking

(* And nobody else does anything to the queues but their workers.          *)
Aside(u) ==
    UNCHANGED <<exists, workVars, lock>> /\ user'[u] = user[u]

LEMMA OthersStandAside ==
    ASSUME QueueInv, Next, NEW u \in Users, Stops(u)
    PROVE  \/ SetQuitFlag(u) \/ Joined(u)
           \/ \E q \in Queues : Worker(q)
           \/ Aside(u)
<1>1. /\ lock = u /\ lock # "free" /\ lock # "reader" /\ readerPc # "scan"
      /\ user \in [Users -> UserSteps] /\ App \in Users
      /\ user[u].at \in {"quit", "join"}
  BY QueuesAssumption DEF QueueInv, Locking, Stops, Typed, TypeOK
<1>2. user[u] # Ready /\ user[u].at \notin {"fetch", "closeLock", "closeQueues"}
  BY <1>1 DEF Ready
<1>3. CASE (\E k \in Keys : Arrive(k)) \/ FetchLooks \/ CloseClears
  BY <1>1, <1>2, <1>3
     DEF Arrive, FetchLooks, CloseClears, Goto, Aside, mapVars, workVars
<1>4. ASSUME NEW v \in Users, Begin(v) PROVE FALSE
  BY <1>1, <1>4 DEF Begin, AddActiveQueue, AddWildcardActiveQueue,
     AddMessageRoute, RemoveMessageRoute, RemoveActiveQueue
<1>5. ASSUME NEW v \in Users, Continue(v)
      PROVE  SetQuitFlag(u) \/ Joined(u) \/ Aside(u)
  <2>1. CASE SetQuitFlag(v) \/ Joined(v)
    <3>1. Stops(v)
      BY <2>1 DEF SetQuitFlag, Joined, Stops
    <3> QED
      BY <2>1, <3>1, OneStops
  <2>2. CASE Fetch
    <3>1. App # u
      BY <1>2, <2>2 DEF Fetch
    <3> QED
      BY <1>1, <2>2, <3>1 DEF Fetch, Aside, mapVars
  <2>3. CASE CloseForgets \/ \E q \in Queues : CloseStopsQueue(q)
    <3>1. user[App].at = "closeQueues"
      BY <2>3 DEF CloseForgets, CloseStopsQueue
    <3> QED
      BY <1>1, <1>2, <3>1 DEF QueueInv, Locking
  <2> QED
    BY <1>1, <1>5, <2>1, <2>2, <2>3
       DEF Continue, SetWildcard, MakeQueue, AskQueue, AddRoute, EraseRoute,
           CloseLocks
<1>6. CASE Reader
  BY <1>1, <1>6 DEF Reader, ReaderLocksInBox, DispatchBegins, ShowToWildcards,
     PushToQueues, QueueNotFound, ScanEnds, ReaderSetsFlag, Aside, mapVars
<1>7. CASE Stopped
  BY <1>7 DEF Stopped, Aside, vars, mapVars
<1> QED
  BY <1>3, <1>4, <1>5, <1>6, <1>7 DEF Next

(* Where only messages were pushed no Terminate waits.                     *)
LEMMA HandledIsMail ==
    ASSUME NEW s \in Seq(Element), NEW b \in Seq(Element), b # <<>>,
           s \o b \in Seq(Message)
    PROVE  Head(b) # Terminate
<1> DEFINE sb == s \o b
           n == Len(s) + 1
<1>1. /\ Len(s) \in Nat /\ Len(sb) = Len(s) + Len(b)
      /\ \A i \in 1..Len(b) : sb[Len(s) + i] = b[i]
  BY HandledAndWaiting
<1>2. Len(b) \in Nat \ {0} /\ Head(b) = b[1]
  BY HeadTailProperties, EmptySeq
<1>3. sb \in Seq(Message)
  OBVIOUS
<1> HIDE DEF sb
<1>4. n \in 1..Len(sb) /\ sb[n] = b[1]
  BY <1>1, <1>2
<1>5. sb[n] \in Message
  BY <1>3, <1>4, ElementOfSeq
<1> QED
  BY <1>2, <1>4, <1>5, QueuesAssumption

(* A worker ends because it has pulled a Terminate, or its flag is up, and *)
(* what waits for it is what it was given.                                 *)
LEMMA WorkerGoesOn ==
    ASSUME QueueInv, NEW q \in Queues, Worker(q)
    PROVE  /\ q \in exists
           /\ worker[q] # "done"
           /\ \A p \in Queues \ {q} : /\ worker'[p] = worker[p]
                                      /\ backlog'[p] = backlog[p]
                                      /\ started'[p] = started[p]
           /\ UNCHANGED <<exists, quitFlag, pushed, lock, readerPc, user>>
           /\ worker'[q] = "done" => quitFlag[q] \/ Ending(q)
           /\ Ending(q) => worker'[q] = "done" \/ Ending(q)'
<1> USE DEF QueueInv
<1>1. /\ worker[q] # "done" /\ worker \in [Queues -> {"check", "pull", "call", "done"}]
      /\ \A p \in Queues \ {q} : /\ worker'[p] = worker[p]
                                 /\ backlog'[p] = backlog[p]
                                 /\ started'[p] = started[p]
      /\ UNCHANGED <<exists, quitFlag, pushed, lock, readerPc, user>>
  BY DEF Worker, CheckQuit, Pull, CallbackReturns, mapVars, readerVars, Typed,
     TypeOK
<1>2. q \in exists
  BY <1>1 DEF Serving
<1>3. CASE CheckQuit(q) \/ CallbackReturns(q)
  <2>1. /\ UNCHANGED <<backlog, started>>
        /\ worker'[q] = "done" => quitFlag[q]
    BY <1>1, <1>3 DEF CheckQuit, CallbackReturns
  <2> QED
    BY <1>1, <1>2, <2>1 DEF Ending, Stops
<1>4. CASE Pull(q)
  <2> DEFINE b == backlog[q]
             m == Head(b)
  <2>1. /\ b # <<>> /\ backlog'[q] = Tail(b)
        /\ m = Terminate => worker'[q] = "done"
        /\ m # Terminate => /\ worker'[q] = "call"
                            /\ started'[q] = Append(started[q], m)
    BY <1>4 DEF Pull, Typed, TypeOK
  <2>2. /\ started[q] \in Seq(Message) /\ started[q] \in Seq(Element)
        /\ b \in Seq(Element) /\ pushed[q] \in Seq(Message)
    BY SeqMonotonic DEF Typed, TypeOK, Element
  <2> HIDE DEF m
  <2>3. m = Terminate => ~Handled(q)
    BY <2>1, <2>2, HandledIsMail DEF Handled, m
  <2>4. ASSUME m # Terminate, Ending(q) PROVE Ending(q)'
    <3>1. Append(started[q], m) \o Tail(b) = started[q] \o b
      BY <2>1, <2>2, HeadIsHandled DEF m
    <3>2. started'[q] \o backlog'[q] = Append(pushed'[q], Terminate)
      BY <1>1, <2>1, <2>4, <3>1 DEF Ending
    <3> QED
      BY <1>1, <2>4, <3>2 DEF Ending, Stops
  <2>5. Handled(q) \/ Ending(q)
    BY <1>2 DEF Serving
  <2> QED
    BY <1>1, <1>2, <2>1, <2>3, <2>4, <2>5
<1> QED
  BY <1>3, <1>4 DEF Worker

LEMMA WorkerServes ==
    ASSUME StopInv, NEW q \in Queues, Worker(q)
    PROVE  LockInUse' /\ FlagsAreRecent' /\ Manned' /\ Woken'
<1>1. QueueInv
  BY DEF StopInv
<1>2. /\ UNCHANGED <<exists, quitFlag, pushed, lock, readerPc, user>>
      /\ \A p \in Queues \ {q} : worker'[p] = worker[p]
  BY <1>1, WorkerGoesOn
<1>3. LockInUse' /\ FlagsAreRecent'
  BY <1>2 DEF StopInv, LockInUse, FlagsAreRecent, StopsQueue, Stops
<1>4. Manned'
  <2>1. ASSUME NEW p \in exists, worker'[p] = "done"
        PROVE  \E u \in Users : StopsQueue(u, p)
    <3>1. CASE p # q
      BY <1>1, <1>2, <2>1, <3>1 DEF StopInv, Manned, QueueInv, Typed, TypeOK
    <3>2. CASE p = q
      BY <1>1, <2>1, <3>2, WorkerGoesOn
         DEF StopInv, FlagsAreRecent, Ending, StopsQueue
    <3> QED
      BY <3>1, <3>2
  <2> QED
    BY <1>2, <2>1 DEF Manned, StopsQueue, Stops
<1>5. Woken'
  <2>1. ASSUME NEW u \in Users, NEW p \in Queues, StopsQueue(u, p)
        PROVE  worker'[p] = "done" \/ Ending(p)'
    <3>1. worker[p] = "done" \/ Ending(p)
      BY <2>1 DEF StopInv, Woken
    <3>2. CASE p # q
      BY <1>1, <1>2, <3>1, <3>2, WorkerGoesOn DEF Ending, Stops
    <3>3. CASE p = q
      BY <1>1, <3>1, <3>3, WorkerGoesOn
    <3> QED
      BY <3>2, <3>3
  <2> QED
    BY <1>2, <2>1 DEF Woken, StopsQueue, Stops
<1> QED
  BY <1>3, <1>4, <1>5

LEMMA QuitServes ==
    ASSUME StopInv, NEW u \in Users, SetQuitFlag(u)
    PROVE  LockInUse' /\ FlagsAreRecent' /\ Manned' /\ Woken'
<1>0. QueueInv
  BY DEF StopInv
<1>1. PICK q \in Queues : q = user[u].queue
  BY <1>0, StepFields DEF QueueInv, Typed, TypeOK, SetQuitFlag
<1>2. /\ UNCHANGED <<exists, worker, backlog, pushed, started, lock, readerPc>>
      /\ quitFlag' = [quitFlag EXCEPT ![q] = TRUE]
      /\ user \in [Users -> UserSteps] /\ user[u].at = "quit" /\ StopsQueue(u, q)
      /\ user' = [user EXCEPT ![u] = [user[u] EXCEPT !.at = "join"]]
      /\ quitFlag \in [Queues -> BOOLEAN]
  BY <1>0, <1>1 DEF SetQuitFlag, mapVars, readerVars, Goto, QueueInv, Typed,
     TypeOK, StopsQueue, Stops
<1>3. user'[u].at = "join" /\ user'[u].queue = q
  BY <1>1, <1>2, StepGoesOn
<1>4. \A v \in Users, p \in Queues : StopsQueue(v, p)' <=> StopsQueue(v, p)
  BY <1>1, <1>2, <1>3 DEF StopsQueue, Stops
<1>5. LockInUse'
  <2>1. lock = u /\ Stops(u)' /\ u # "reader"
    BY <1>0, <1>2, <1>3, QueuesAssumption
       DEF QueueInv, Locking, StopsQueue, Stops
  <2> QED
    BY <1>2, <2>1 DEF LockInUse
<1>6. FlagsAreRecent'
  <2>1. ASSUME NEW p \in Queues, quitFlag'[p]
        PROVE  \E v \in Users : StopsQueue(v, p)' /\ user'[v].at = "join"
    <3>1. CASE p = q
      BY <1>2, <1>3, <1>4, <3>1
    <3>2. CASE p # q
      <4>1. PICK v \in Users : StopsQueue(v, p) /\ user[v].at = "join"
        BY <1>2, <2>1, <3>2 DEF StopInv, FlagsAreRecent
      <4>2. v # u
        BY <1>2, <4>1
      <4> QED
        BY <1>2, <1>4, <4>1, <4>2
    <3> QED
      BY <3>1, <3>2
  <2> QED
    BY <2>1 DEF FlagsAreRecent, StopsQueue, Stops
<1>7. Manned'
  <2>1. \A p \in exists : p \in Queues
    BY <1>0 DEF QueueInv, Typed, TypeOK
  <2>2. ASSUME NEW p \in exists, worker[p] = "done"
        PROVE  \E v \in Users : StopsQueue(v, p)'
    BY <1>4, <2>1, <2>2 DEF StopInv, Manned
  <2> QED
    BY <1>2, <2>2 DEF Manned, StopsQueue, Stops
<1>8. Woken'
  <2>1. ASSUME NEW v \in Users, NEW p \in Queues, StopsQueue(v, p)'
        PROVE  worker'[p] = "done" \/ Ending(p)'
    <3>1. StopsQueue(v, p) /\ (worker[p] = "done" \/ Ending(p))
      BY <1>4, <2>1 DEF StopInv, Woken
    <3>2. Ending(p) => Ending(p)'
      BY <1>2, <1>4, <2>1 DEF Ending, StopsQueue
    <3> QED
      BY <1>2, <3>1, <3>2
  <2> QED
    BY <2>1 DEF Woken, StopsQueue, Stops
<1> QED
  BY <1>5, <1>6, <1>7, <1>8

(* When nobody stops a queue no flag is up and every queue has a worker.   *)
Undisturbed ==
    /\ \A u \in Users : ~Stops(u)
    /\ \A q \in Queues : ~quitFlag[q]
    /\ \A q \in exists : worker[q] # "done"

LEMMA Disturbed ==
    ASSUME StopInv
    PROVE  Undisturbed \/ \E u \in Users : Stops(u)
BY DEF StopInv, Undisturbed, FlagsAreRecent, Manned, StopsQueue

LEMMA UndisturbedServes ==
    ASSUME Undisturbed'
    PROVE  FlagsAreRecent' /\ Manned' /\ Woken'
BY DEF Undisturbed, FlagsAreRecent, Manned, Woken, StopsQueue

LEMMA JoinedServes ==
    ASSUME StopInv, QueueInv', NEW u \in Users, Joined(u)
    PROVE  LockInUse' /\ Undisturbed'
<1>0. QueueInv
  BY DEF StopInv
<1>1. PICK q \in Queues : q = user[u].queue
  BY <1>0, StepFields DEF QueueInv, Typed, TypeOK, Joined
<1>2. /\ Stops(u) /\ lock = u /\ u \notin {"free", "reader"}
      /\ exists' = exists \ {q} /\ exists \subseteq Queues
      /\ UNCHANGED <<worker, readerPc>>
      /\ quitFlag' = [quitFlag EXCEPT ![q] = FALSE]
      /\ quitFlag \in [Queues -> BOOLEAN]
      /\ \A v \in Users \ {u} : user'[v] = user[v]
  BY <1>0, <1>1, QueuesAssumption
     DEF Joined, Goto, Stops, QueueInv, Locking, Typed, TypeOK, readerVars
<1>3. \/ u = App /\ user'[u].at = "closeQueues" /\ lock' = lock
      \/ user'[u].at = "ready" /\ lock' = "free"
  <2>1. user[u].closing => u = App
    BY <1>0, <1>2 DEF QueueInv, Locking
  <2> QED
    BY <1>0, <2>1 DEF Joined, Goto, Ready, QueueInv, Typed, TypeOK
<1>4. ASSUME NEW v \in Users, Stops(v) PROVE v = u
  BY <1>0, <1>2, <1>4, OneStops
<1>5. \A v \in Users, p \in Queues : StopsQueue(v, p) => p = q
  BY <1>1, <1>4 DEF StopsQueue
<1>6. \A v \in Users : ~Stops(v)'
  BY <1>2, <1>3, <1>4 DEF Stops
<1>7. \A p \in Queues : ~quitFlag'[p]
  BY <1>2, <1>5 DEF StopInv, FlagsAreRecent
<1>8. \A p \in exists' : worker'[p] # "done"
  BY <1>2, <1>5 DEF StopInv, Manned
<1>9. LockInUse'
  <2>1. "free" \notin Users
    BY QueuesAssumption
  <2> QED
    BY <1>2, <1>3, <2>1 DEF LockInUse
<1> QED
  BY <1>6, <1>7, <1>8, <1>9 DEF Undisturbed

-----------------------------------------------------------------------------
(***************************************************************************)
(* While nobody stops a queue.                                             *)
(***************************************************************************)
(* A user goes on, or begins something else than to stop a queue.          *)
LEMMA GoesOn ==
    ASSUME StopInv, Undisturbed, NEW u \in Users, NEW s,
           user' = [user EXCEPT ![u] = s], s.at \notin {"quit", "join"},
           \/ lock' = lock /\ user[u].at # "closeQueues"
           \/ lock' = "free"
           \/ lock' = u /\ u = App /\ s.at = "closeQueues",
           UNCHANGED <<readerPc, quitFlag>>,
           \A q \in exists' : \/ q \in exists /\ worker'[q] = worker[q]
                              \/ worker'[q] = "check"
    PROVE  LockInUse' /\ Undisturbed'
<1>1. /\ user \in [Users -> UserSteps] /\ user'[u] = s
      /\ \A v \in Users \ {u} : user'[v] = user[v]
  BY DEF StopInv, QueueInv, Typed, TypeOK
<1>2. Undisturbed'
  BY <1>1 DEF Undisturbed, Stops
<1>3. LockInUse'
  <2>1. {"free", "reader"} \cap Users = {}
    BY QueuesAssumption
  <2>2. CASE lock' = lock /\ user[u].at # "closeQueues"
    BY <1>1, <2>2 DEF StopInv, LockInUse, Undisturbed
  <2>3. CASE lock' # lock \/ user[u].at = "closeQueues"
    BY <1>1, <2>1, <2>3 DEF LockInUse
  <2> QED
    BY <2>2, <2>3
<1> QED
  BY <1>2, <1>3

(* Stop begins: with the Terminate in the queue and the worker alive.      *)
LEMMA StopServes ==
    ASSUME StopInv, Undisturbed, NEW u \in Users, NEW q \in exists,
           NEW c \in BOOLEAN, lock' = u, PushTerminate(q),
           Goto(u, [at |-> "quit", queue |-> q, closing |-> c]),
           UNCHANGED <<exists, worker, quitFlag, pushed, started>>
    PROVE  LockInUse' /\ FlagsAreRecent' /\ Manned' /\ Woken'
<1> DEFINE s == [at |-> "quit", queue |-> q, closing |-> c]
<1>1. s.at = "quit" /\ s.queue = q
  OBVIOUS
<1>2. user' = [user EXCEPT ![u] = s]
  BY DEF Goto
<1> HIDE DEF s
<1>3. QueueInv /\ q \in Queues
  BY DEF StopInv, QueueInv, Typed, TypeOK
<1>4. /\ user'[u] = s /\ \A v \in Users \ {u} : user'[v] = user[v]
  BY <1>2, <1>3 DEF QueueInv, Typed, TypeOK
<1>5. StopsQueue(u, q)' /\ \A v \in Users : Stops(v)' => v = u
  BY <1>1, <1>4 DEF StopsQueue, Stops, Undisturbed
<1>6. LockInUse'
  <2>1. "reader" \notin Users
    BY QueuesAssumption
  <2> QED
    BY <1>5, <2>1 DEF LockInUse, StopsQueue
<1>7. FlagsAreRecent' /\ Manned'
  BY DEF Undisturbed, FlagsAreRecent, Manned
<1>8. Ending(q)'
  <2>1. /\ started[q] \in Seq(Element) /\ backlog[q] \in Seq(Element)
        /\ Terminate \in Element
    BY <1>3, SeqMonotonic DEF QueueInv, Typed, TypeOK, Element
  <2>2. Handled(q)
    BY <1>3 DEF QueueInv, Serving, Ending, Undisturbed
  <2>3. started[q] \o Append(backlog[q], Terminate) = Append(pushed[q], Terminate)
    BY <2>1, <2>2, MoreWaits DEF Handled
  <2>4. backlog'[q] = Append(backlog[q], Terminate)
    BY <1>3 DEF PushTerminate, QueueInv, Typed, TypeOK
  <2> QED
    BY <1>5, <2>3, <2>4 DEF Ending, StopsQueue
<1>9. Woken'
  BY <1>4, <1>5, <1>8 DEF Woken, StopsQueue
<1> QED
  BY <1>6, <1>7, <1>9

LEMMA UndisturbedReader ==
    ASSUME StopInv, Undisturbed, Reader
    PROVE  LockInUse' /\ Undisturbed'
<1>1. UNCHANGED <<exists, worker, quitFlag, user>>
  BY DEF Reader, ReaderLocksInBox, DispatchBegins, ShowToWildcards,
     PushToQueues, QueueNotFound, ScanEnds, ReaderSetsFlag, mapVars, workVars
<1>2. Undisturbed'
  BY <1>1 DEF Undisturbed, Stops
<1>3. /\ lock' = "reader" => readerPc' = "scan"
      /\ lock' \in {lock, "free", "reader"}
  BY DEF StopInv, LockInUse, Reader, ReaderLocksInBox, DispatchBegins,
     ShowToWildcards, DispatchReturns, PushToQueues, QueueNotFound, ScanEnds,
     ReaderSetsFlag, readerVars
<1>4. LockInUse'
  <2>1. "free" \notin Users /\ "reader" \notin Users
    BY QueuesAssumption
  <2> QED
    BY <1>1, <1>3, <2>1 DEF StopInv, LockInUse, Stops
<1> QED
  BY <1>2, <1>4

LEMMA UndisturbedApplication ==
    ASSUME StopInv, Undisturbed,
           (\E k \in Keys : Arrive(k)) \/ FetchLooks \/ CloseClears
    PROVE  LockInUse' /\ Undisturbed'
<1>1. App \in Users /\ user[App] = Ready
  BY QueuesAssumption DEF Arrive, FetchLooks, CloseClears
<1>2. PICK s : /\ user' = [user EXCEPT ![App] = s]
               /\ s.at \notin {"quit", "join"}
  <2>1. CASE FetchLooks
    <3> DEFINE t == [at |-> "fetch"]
    <3>1. user' = [user EXCEPT ![App] = t] /\ t.at = "fetch"
      BY <2>1 DEF FetchLooks
    <3> HIDE DEF t
    <3> QED
      BY <3>1
  <2>2. CASE CloseClears
    <3> DEFINE t == [at |-> "closeLock"]
    <3>1. user' = [user EXCEPT ![App] = t] /\ t.at = "closeLock"
      BY <2>2 DEF CloseClears, Goto
    <3> HIDE DEF t
    <3> QED
      BY <3>1
  <2>3. CASE \E k \in Keys : Arrive(k)
    <3>1. user' = [user EXCEPT ![App] = Ready]
      BY <1>1, <2>3 DEF Arrive, StopInv, QueueInv, Typed, TypeOK
    <3> QED
      BY <3>1, StepForms
  <2> QED
    BY <2>1, <2>2, <2>3
<1>3. UNCHANGED <<lock, readerPc, exists, worker, quitFlag>>
  BY DEF Arrive, FetchLooks, CloseClears, mapVars, readerVars, workVars
<1>4. user[App].at # "closeQueues"
  BY <1>1, StepForms
<1> QED
  BY <1>1, <1>2, <1>3, <1>4, GoesOn

(* A new queue has a worker.                                               *)
LEMMA Created ==
    ASSUME QueueInv, NEW p \in Queues, CreateQueue(p)
    PROVE  /\ UNCHANGED quitFlag
           /\ \A q \in exists' : \/ q \in exists /\ worker'[q] = worker[q]
                                 \/ worker'[q] = "check"
BY DEF QueueInv, Typed, TypeOK, CreateQueue, HasActiveQueue, workVars

LEMMA UndisturbedBegin ==
    ASSUME StopInv, Undisturbed, NEW u \in Users, Begin(u)
    PROVE  LockInUse' /\ FlagsAreRecent' /\ Manned' /\ Woken'
<1>1. /\ user[u] = Ready /\ user[u].at # "closeQueues" /\ lock = "free"
      /\ QueueInv
  BY StepForms
     DEF StopInv, Begin, AddActiveQueue, AddWildcardActiveQueue,
         AddMessageRoute, RemoveMessageRoute, RemoveActiveQueue
<1>2. user' = user => user' = [user EXCEPT ![u] = Ready]
  BY <1>1 DEF QueueInv, Typed, TypeOK
<1>3. Ready.at \notin {"quit", "join", "closeQueues"}
  BY StepForms
<1>4. CASE \E q \in Queues : RemoveActiveQueue(u, q) /\ q \in exists
  <2>1. PICK q \in exists : RemoveActiveQueue(u, q)
    BY <1>4
  <2>2. /\ lock' = u /\ PushTerminate(q)
        /\ Goto(u, [at |-> "quit", queue |-> q, closing |-> FALSE])
        /\ UNCHANGED <<exists, worker, quitFlag, pushed, started>>
    BY <2>1 DEF RemoveActiveQueue, HasActiveQueue
  <2> QED
    BY <2>2, StopServes
<1>5. CASE ~\E q \in Queues : RemoveActiveQueue(u, q) /\ q \in exists
  <2>1. PICK s : /\ user' = [user EXCEPT ![u] = s]
                 /\ s.at \notin {"quit", "join"}
    <3>1. CASE user' = user
      BY <1>2, <1>3, <3>1
    <3>2. ASSUME NEW q \in Queues, NEW p \in Patterns,
                 AddWildcardActiveQueue(u, q, p)
          PROVE  \E s : /\ user' = [user EXCEPT ![u] = s]
                        /\ s.at \notin {"quit", "join"}
      <4> DEFINE t == [at |-> "wildcard", queue |-> q, keys |-> p]
      <4>1. user' = [user EXCEPT ![u] = t] /\ t.at = "wildcard"
        BY <3>2 DEF AddWildcardActiveQueue, Goto
      <4> HIDE DEF t
      <4> QED
        BY <4>1
    <3>3. ASSUME NEW q \in Queues, NEW k \in Keys,
                 \/ \E cb \in BOOLEAN : AddMessageRoute(u, q, k, cb)
                 \/ RemoveMessageRoute(u, q, k)
          PROVE  \E s : /\ user' = [user EXCEPT ![u] = s]
                        /\ s.at \notin {"quit", "join"}
      <4>1. PICK at \in {"addRoute", "makeQueue", "eraseRoute"} :
                Goto(u, [at |-> at, queue |-> q, key |-> k])
        BY <3>3 DEF AddMessageRoute, RemoveMessageRoute
      <4> DEFINE t == [at |-> at, queue |-> q, key |-> k]
      <4>2. user' = [user EXCEPT ![u] = t] /\ t.at = at
        BY <4>1 DEF Goto
      <4> HIDE DEF t
      <4> QED
        BY <4>1, <4>2
    <3>4. ASSUME NEW q \in Queues, RemoveActiveQueue(u, q) PROVE user' = user
      BY <1>5, <3>4 DEF RemoveActiveQueue, HasActiveQueue
    <3>5. ASSUME NEW q \in Queues, AddActiveQueue(u, q) PROVE user' = user
      BY <3>5 DEF AddActiveQueue
    <3> QED
      BY <3>1, <3>2, <3>3, <3>4, <3>5 DEF Begin
  <2>2. UNCHANGED <<readerPc, quitFlag, lock>>
    BY <1>5 DEF Begin, AddActiveQueue, AddWildcardActiveQueue, CreateQueue,
       AddMessageRoute, RemoveMessageRoute, RemoveActiveQueue, HasActiveQueue,
       readerVars, workVars
  <2>3. \A q \in exists' : \/ q \in exists /\ worker'[q] = worker[q]
                           \/ worker'[q] = "check"
    <3>1. ASSUME NEW p \in Queues, CreateQueue(p)
          PROVE  \A q \in exists' : \/ q \in exists /\ worker'[q] = worker[q]
                                    \/ worker'[q] = "check"
      BY <1>1, <3>1, Created
    <3>2. ASSUME UNCHANGED <<exists, worker>>
          PROVE  \A q \in exists' : \/ q \in exists /\ worker'[q] = worker[q]
                                    \/ worker'[q] = "check"
      BY <3>2
    <3> QED
      BY <1>5, <3>1, <3>2 DEF Begin, AddActiveQueue, AddWildcardActiveQueue,
         AddMessageRoute, RemoveMessageRoute, RemoveActiveQueue, mapVars,
         workVars, HasActiveQueue
  <2> QED
    BY <1>1, <2>1, <2>2, <2>3, GoesOn, UndisturbedServes
<1> QED
  BY <1>4, <1>5

LEMMA UndisturbedContinue ==
    ASSUME StopInv, Undisturbed, NEW u \in Users, Continue(u)
    PROVE  LockInUse' /\ FlagsAreRecent' /\ Manned' /\ Woken'
<1>1. /\ user[u] \in UserSteps /\ App \in Users /\ QueueInv /\ ~Stops(u)
      /\ Ready.at = "ready"
  BY QueuesAssumption, StepForms
     DEF StopInv, QueueInv, Typed, TypeOK, Undisturbed
<1>2. CASE \E q \in Queues : CloseStopsQueue(q)
  <2>1. PICK q \in exists : CloseStopsQueue(q)
    BY <1>2 DEF CloseStopsQueue, HasActiveQueue
  <2>2. /\ lock' = App /\ PushTerminate(q)
        /\ Goto(App, [at |-> "quit", queue |-> q, closing |-> TRUE])
        /\ UNCHANGED <<exists, worker, quitFlag, pushed, started>>
    BY <1>1, <2>1 DEF CloseStopsQueue, QueueInv, Locking, mapVars
  <2> QED
    BY <1>1, <2>2, StopServes
<1>3. CASE Fetch \/ CloseLocks \/ CloseForgets
  <2>1. PICK s : /\ user' = [user EXCEPT ![App] = s]
                 /\ s.at \notin {"quit", "join"}
                 /\ CloseLocks => s.at = "closeQueues"
    <3>1. CASE Fetch
      BY <1>1, <3>1 DEF Fetch, CloseLocks
    <3>2. CASE CloseLocks
      <4> DEFINE t == [at |-> "closeQueues"]
      <4>1. user' = [user EXCEPT ![App] = t] /\ t.at = "closeQueues"
        BY <3>2 DEF CloseLocks, Goto
      <4> HIDE DEF t
      <4> QED
        BY <4>1
    <3>3. CASE CloseForgets
      <4> DEFINE t == [at |-> "closed"]
      <4>1. /\ user' = [user EXCEPT ![App] = t] /\ t.at = "closed"
            /\ ~CloseLocks
        BY <3>3 DEF CloseForgets, CloseLocks, Goto
      <4> HIDE DEF t
      <4> QED
        BY <4>1
    <3> QED
      BY <1>3, <3>1, <3>2, <3>3
  <2>2. /\ UNCHANGED <<readerPc, exists, worker, quitFlag>>
        /\ \/ lock' = lock /\ user[App].at # "closeQueues"
           \/ lock' = "free"
           \/ lock' = App /\ CloseLocks
    BY <1>3 DEF Fetch, CloseLocks, CloseForgets, mapVars, workVars, readerVars
  <2> QED
    BY <1>1, <2>1, <2>2, GoesOn, UndisturbedServes
<1>4. CASE \/ SetWildcard(u) \/ MakeQueue(u) \/ AskQueue(u)
           \/ AddRoute(u) \/ EraseRoute(u)
  <2>1. PICK s : /\ user' = [user EXCEPT ![u] = s]
                 /\ s.at \notin {"quit", "join"}
    <3>1. CASE user' = [user EXCEPT ![u] = Ready]
      BY <1>1, <3>1
    <3>2. CASE MakeQueue(u)
      <4>1. [user[u] EXCEPT !.at = "askQueue"].at = "askQueue"
        BY <1>1, <3>2, StepGoesOn DEF MakeQueue
      <4> QED
        BY <3>2, <4>1 DEF MakeQueue, Goto
    <3>3. CASE user' = [user EXCEPT ![u] = [user[u] EXCEPT !.at = "addRoute"]]
      <4>1. CASE user[u].at = "askQueue"
        <5>1. [user[u] EXCEPT !.at = "addRoute"].at = "addRoute"
          BY <1>1, <4>1, StepGoesOn
        <5> QED
          BY <3>3, <5>1
      <4>2. CASE user[u].at # "askQueue"
        <5>1. user' = [user EXCEPT ![u] = Ready] \/ MakeQueue(u)
          BY <1>4, <4>2 DEF SetWildcard, AskQueue, AddRoute, EraseRoute, Goto
        <5> QED
          BY <3>1, <3>2, <5>1
      <4> QED
        BY <4>1, <4>2
    <3> QED
      BY <1>4, <3>1, <3>2, <3>3
         DEF SetWildcard, AskQueue, AddRoute, EraseRoute, Goto
  <2>2. /\ UNCHANGED <<readerPc, lock, quitFlag>>
        /\ user[u].at # "closeQueues"
    BY <1>4 DEF SetWildcard, MakeQueue, AskQueue, AddRoute, EraseRoute,
       CreateQueue, mapVars, workVars, readerVars
  <2>3. \A q \in exists' : \/ q \in exists /\ worker'[q] = worker[q]
                           \/ worker'[q] = "check"
    <3>1. CASE MakeQueue(u)
      BY <1>1, <3>1, Created, StepFields DEF MakeQueue
    <3>2. CASE ~MakeQueue(u)
      BY <1>4, <3>2 DEF SetWildcard, AskQueue, AddRoute, EraseRoute,
         mapVars, workVars
    <3> QED
      BY <3>1, <3>2
  <2> QED
    BY <1>1, <2>1, <2>2, <2>3, GoesOn, UndisturbedServes
<1>5. CASE SetQuitFlag(u) \/ Joined(u)
  BY <1>1, <1>5 DEF SetQuitFlag, Joined, Stops
<1> QED
  BY <1>2, <1>3, <1>4, <1>5 DEF Continue

LEMMA StepStopInv == StopInv /\ [Next]_vars => StopInv'
<1> SUFFICES ASSUME StopInv, [Next]_vars
             PROVE  LockInUse' /\ FlagsAreRecent' /\ Manned' /\ Woken'
  BY StepQueueInv DEF StopInv
<1>1. CASE UNCHANGED vars
  <2>1. UNCHANGED <<exists, worker, quitFlag, backlog, pushed, started, lock,
                    readerPc, user>>
    BY <1>1 DEF vars, mapVars, workVars, readerVars
  <2>2. LockInUse'
    BY <2>1 DEF StopInv, LockInUse, Stops
  <2>3. FlagsAreRecent' /\ Manned'
    BY <2>1 DEF StopInv, FlagsAreRecent, Manned, StopsQueue, Stops
  <2>4. Woken'
    BY <2>1 DEF StopInv, Woken, StopsQueue, Stops, Ending
  <2> QED
    BY <2>2, <2>3, <2>4
<1>2. CASE Next /\ \E q \in Queues : Worker(q)
  BY <1>2, WorkerServes
<1>3. ASSUME Next, NEW u \in Users, Stops(u), ~\E q \in Queues : Worker(q)
      PROVE  LockInUse' /\ FlagsAreRecent' /\ Manned' /\ Woken'
  <2>1. QueueInv /\ QueueInv'
    BY StepQueueInv DEF StopInv
  <2>2. CASE SetQuitFlag(u)
    BY <2>2, QuitServes
  <2>3. CASE Joined(u)
    BY <2>1, <2>3, JoinedServes, UndisturbedServes
  <2>4. CASE Aside(u)
    <3>1. /\ lock = u /\ lock' = u /\ u \notin {"free", "reader"}
          /\ UNCHANGED <<exists, worker, quitFlag, backlog, pushed, started>>
          /\ user'[u] = user[u]
      BY <1>3, <2>1, <2>4, QueuesAssumption
         DEF QueueInv, Locking, Aside, workVars
    <3>2. Stops(u)'
      BY <1>3, <3>1 DEF Stops
    <3>3. ASSUME NEW v \in Users PROVE Stops(v) <=> Stops(v)'
      <4>1. Stops(v) => v = u
        BY <1>3, <2>1, OneStops
      <4>2. Stops(v)' => v = u
        BY <2>1, <3>1 DEF QueueInv, Locking
      <4> QED
        BY <1>3, <3>2, <4>1, <4>2
    <3>4. \A v \in Users : Stops(v) => v = u
      BY <1>3, <2>1, OneStops
    <3>5. \A v \in Users, q \in Queues :
              /\ StopsQueue(v, q)' <=> StopsQueue(v, q)
              /\ StopsQueue(v, q) => user'[v] = user[v]
      BY <3>1, <3>3, <3>4 DEF StopsQueue
    <3>6. LockInUse'
      BY <3>1, <3>2 DEF LockInUse
    <3>7. FlagsAreRecent'
      BY <3>1, <3>5 DEF StopInv, FlagsAreRecent
    <3>8. Manned'
      <4>1. \A q \in exists : q \in Queues
        BY <2>1 DEF QueueInv, Typed, TypeOK
      <4> QED
        BY <3>1, <3>5, <4>1 DEF StopInv, Manned
    <3>9. Woken'
      <4>1. \A q \in Queues : Ending(q) => Ending(q)'
        BY <3>1, <3>5 DEF Ending, StopsQueue
      <4> QED
        BY <3>1, <3>5, <4>1 DEF StopInv, Woken
    <3> QED
      BY <3>6, <3>7, <3>8, <3>9
  <2> QED
    BY <1>3, <2>1, <2>2, <2>3, <2>4, OthersStandAside
<1>4. CASE Next /\ Undisturbed /\ ~\E q \in Queues : Worker(q)
  <2>1. CASE Reader
    BY <1>4, <2>1, UndisturbedReader, UndisturbedServes
  <2>2. CASE (\E k \in Keys : Arrive(k)) \/ FetchLooks \/ CloseClears
    BY <1>4, <2>2, UndisturbedApplication, UndisturbedServes
  <2>3. CASE \E u \in Users : Begin(u) \/ Continue(u)
    BY <1>4, <2>3, UndisturbedBegin, UndisturbedContinue
  <2>4. CASE Stopped
    BY <1>1, <2>4 DEF Stopped
  <2> QED
    BY <1>4, <2>1, <2>2, <2>3, <2>4 DEF Next
<1> QED
  BY <1>1, <1>2, <1>3, <1>4, Disturbed

LEMMA StopInvariant == Spec => []StopInv
BY InitStopInv, StepStopInv, PTL DEF Spec

-----------------------------------------------------------------------------
(***************************************************************************)
(* What follows for the queues ...                                         *)
(***************************************************************************)
(* The last that waits is the Terminate.                                   *)
LEMMA TerminateWaits ==
    ASSUME NEW s \in Seq(Message), NEW b \in Seq(Element), NEW p \in Seq(Message),
           s \o b = Append(p, Terminate)
    PROVE  b # <<>> /\ b[Len(b)] = Terminate
<1> DEFINE sb == s \o b
           n == Len(p) + 1
<1>1. s \in Seq(Element) /\ p \in Seq(Element) /\ Terminate \in Element
  BY SeqMonotonic DEF Element
<1>2. /\ Len(s) \in Nat /\ Len(b) \in Nat /\ Len(p) \in Nat
      /\ Len(sb) = Len(s) + Len(b)
      /\ \A i \in 1..Len(s) : sb[i] = s[i]
      /\ \A i \in 1..Len(b) : sb[Len(s) + i] = b[i]
  BY <1>1, HandledAndWaiting, LenProperties
<1>3. Len(sb) = n /\ sb[n] = Terminate
  BY <1>1, AppendProperties
<1> HIDE DEF sb
<1>4. Len(b) # 0
  <2>1. SUFFICES ASSUME Len(b) = 0 PROVE FALSE
    OBVIOUS
  <2>2. n \in 1..Len(s)
    BY <1>2, <1>3, <2>1
  <2>3. s[n] = Terminate
    BY <1>2, <1>3, <2>2
  <2>4. s[n] \in Message
    BY <2>2, ElementOfSeq
  <2> QED
    BY <2>3, <2>4, QueuesAssumption
<1>5. Len(b) \in 1..Len(b) /\ Len(s) + Len(b) = n
  BY <1>2, <1>3, <1>4
<1>6. b[Len(b)] = Terminate
  BY <1>2, <1>3, <1>5
<1> QED
  BY <1>4, <1>6, EmptySeq

(* Whoever stops a queue, RemoveActiveQueue or Close, holds the lock, and  *)
(* the worker it waits for has ended or will find the Terminate last in    *)
(* its queue: no wake-up is lost, wherever Stop catches the worker.        *)
TerminateArrives ==
    \A u \in Users : Stops(u) =>
        LET q == user[u].queue IN
        /\ lock = u /\ q \in exists
        /\ \/ worker[q] = "done"
           \/ backlog[q] # <<>> /\ backlog[q][Len(backlog[q])] = Terminate

LEMMA StopInvTerminate == StopInv => TerminateArrives
<1> SUFFICES ASSUME StopInv, NEW u \in Users, Stops(u)
             PROVE  LET q == user[u].queue IN
                    /\ lock = u /\ q \in exists
                    /\ \/ worker[q] = "done"
                       \/ /\ backlog[q] # <<>>
                          /\ backlog[q][Len(backlog[q])] = Terminate
  BY DEF TerminateArrives
<1>1. PICK q \in exists : q = user[u].queue /\ lock = u /\ q \in Queues
  BY DEF StopInv, QueueInv, Locking, Typed, TypeOK
<1>2. worker[q] = "done" \/ Ending(q)
  BY <1>1 DEF StopInv, Woken, StopsQueue
<1>3. /\ started[q] \in Seq(Message) /\ backlog[q] \in Seq(Element)
      /\ pushed[q] \in Seq(Message)
  BY <1>1 DEF StopInv, QueueInv, Typed, TypeOK, Element
<1>4. Ending(q) => /\ backlog[q] # <<>>
                   /\ backlog[q][Len(backlog[q])] = Terminate
  BY <1>3, TerminateWaits DEF Ending
<1> QED
  BY <1>1, <1>2, <1>4

(* RemoveActiveQueue and Close never join a worker that waits for an       *)
(* element that nobody will push.                                          *)
THEOREM NoLostTerminate == Spec => []TerminateArrives
BY StopInvariant, StopInvTerminate, PTL

(* A queue that nobody is stopping has its worker: the thread of a queue   *)
(* does not end early, by a flag or a Terminate left from an earlier life. *)
QueuesManned ==
    \A q \in exists : worker[q] = "done" => \E u \in Users : StopsQueue(u, q)

(* The thread that AddActiveQueue starts lives until Stop is called for    *)
(* its queue.                                                              *)
THEOREM WorkersStay == Spec => []QueuesManned
<1>1. StopInv => QueuesManned
  BY DEF StopInv, Manned, QueuesManned
<1> QED
  BY <1>1, StopInvariant, PTL

-----------------------------------------------------------------------------
(***************************************************************************)
(* ... and for the lock.                                                   *)
(***************************************************************************)
\* The worker of q can take its next step.
CanWork(q) ==
    worker[q] \in {"check", "call"} \/ (worker[q] = "pull" /\ backlog[q] # <<>>)

(* ActiveQueuesLock_ is never held by a thread that waits in vain, nor     *)
(* kept by one that is through: it is free, or the reader is scanning, or  *)
(* a user has its next step of Stop or Close to take, or waits for a       *)
(* worker that can take a step.                                            *)
LockMoves ==
    \/ lock = "free"
    \/ lock = "reader" /\ readerPc = "scan"
    \/ \E u \in Users :
          /\ lock = u
          /\ \/ user[u].at \in {"quit", "closeQueues"}
             \/ /\ user[u].at = "join"
                /\ \/ worker[user[u].queue] = "done"
                   \/ CanWork(user[u].queue)

(* Whoever holds ActiveQueuesLock_, also while it joins a worker, gets to  *)
(* the point where it is released.                                         *)
THEOREM NobodyWaitsInVain == Spec => []LockMoves
<1>1. StopInv => LockMoves
  <2>1. SUFFICES ASSUME StopInv, lock # "free" PROVE LockMoves
    BY DEF LockMoves
  <2>2. CASE lock = "reader"
    BY <2>1, <2>2 DEF StopInv, LockInUse, LockMoves
  <2>3. ASSUME NEW u \in Users, lock = u PROVE LockMoves
    <3>1. Stops(u) \/ user[u].at = "closeQueues"
      BY <2>1, <2>3 DEF StopInv, LockInUse
    <3>2. CASE user[u].at = "join"
      <4>1. PICK q \in Queues : q = user[u].queue
        BY <2>1, <3>2, StepFields DEF StopInv, QueueInv, Typed, TypeOK
      <4>2. worker[q] \in {"check", "pull", "call", "done"}
        BY <2>1 DEF StopInv, QueueInv, Typed, TypeOK
      <4>3. worker[q] = "done" \/ backlog[q] # <<>>
        BY <2>1, <3>2, <4>1, StopInvTerminate DEF TerminateArrives, Stops
      <4>4. worker[q] = "done" \/ CanWork(q)
        BY <4>2, <4>3 DEF CanWork
      <4> QED
        BY <2>3, <3>2, <4>1, <4>4 DEF LockMoves
    <3> QED
      BY <2>3, <3>1, <3>2 DEF LockMoves, Stops
  <2> QED
    BY <2>1, <2>2, <2>3 DEF StopInv, QueueInv, Typed, TypeOK
<1> QED
  BY <1>1, StopInvariant, PTL

-----------------------------------------------------------------------------
(***************************************************************************)
(* Each step of the worker brings the end of Stop nearer.                  *)
(***************************************************************************)
\* How many steps the worker of q may take until it has pulled the nth of
\* what waits for it, and how many until it ends.
StepsTo(q, n) ==
    3 * n
      + IF worker[q] = "call" THEN 2 ELSE IF worker[q] = "check" THEN 1 ELSE 0

StepsLeft(q) == StepsTo(q, Len(backlog[q]))

(* While a queue is being stopped nothing is added to it, and whatever     *)
(* happens to it or to its worker leaves the worker fewer steps to take.   *)
StoppingApproaches ==
    [][\A u \in Users, q \in Queues :
          /\ StopsQueue(u, q)
          /\ user'[u].at \in {"quit", "join"}
          /\ worker'[q] # worker[q] \/ backlog'[q] # backlog[q]
          => StepsLeft(q)' < StepsLeft(q)]_vars

LEMMA WorkCounts ==
    ASSUME Typed, Typed', NEW q \in Queues, Worker(q)
    PROVE  StepsLeft(q)' < StepsLeft(q)
<1> DEFINE b == backlog[q]
<1>1. /\ b \in Seq(Element) /\ Len(b) \in Nat
      /\ worker \in [Queues -> {"check", "pull", "call", "done"}]
  BY LenProperties DEF Typed, TypeOK, Element
<1>2. CASE CheckQuit(q)
  <2>1. /\ backlog' = backlog /\ worker[q] = "check"
        /\ worker'[q] # "call" /\ worker'[q] # "check"
    BY <1>1, <1>2 DEF CheckQuit
  <2>2. StepsLeft(q) = 3 * Len(b) + 1 /\ StepsLeft(q)' = 3 * Len(b) + 0
    BY <2>1 DEF StepsLeft, StepsTo
  <2> QED
    BY <1>1, <2>2
<1>3. CASE CallbackReturns(q)
  <2>1. /\ backlog' = backlog /\ worker[q] = "call" /\ worker'[q] = "check"
    BY <1>1, <1>3 DEF CallbackReturns
  <2> QED
    BY <1>1, <2>1 DEF StepsLeft, StepsTo
<1>4. CASE Pull(q)
  <2>1. /\ b # <<>> /\ backlog'[q] = Tail(b) /\ worker[q] = "pull"
        /\ worker'[q] # "check"
    BY <1>1, <1>4 DEF Pull, Typed, TypeOK
  <2>2. Len(backlog'[q]) = Len(b) - 1
    BY <1>1, <2>1, HeadTailProperties
  <2>3. /\ StepsLeft(q) = 3 * Len(b) + 0
        /\ \/ StepsLeft(q)' = 3 * (Len(b) - 1) + 2
           \/ StepsLeft(q)' = 3 * (Len(b) - 1) + 0
    BY <2>1, <2>2 DEF StepsLeft, StepsTo
  <2> QED
    BY <1>1, <2>3
<1> QED
  BY <1>2, <1>3, <1>4 DEF Worker

(* The join in Stop comes to an end: each turn of DoWork leaves fewer.     *)
THEOREM StopComesCloser == Spec => StoppingApproaches
<1> DEFINE Closer(u, q) ==
        /\ StopsQueue(u, q)
        /\ user'[u].at \in {"quit", "join"}
        /\ worker'[q] # worker[q] \/ backlog'[q] # backlog[q]
        => StepsLeft(q)' < StepsLeft(q)
<1>1. ASSUME StopInv, [Next]_vars, NEW u \in Users, NEW q \in Queues
      PROVE  Closer(u, q)
  <2> SUFFICES ASSUME StopsQueue(u, q), user'[u].at \in {"quit", "join"},
                      worker'[q] # worker[q] \/ backlog'[q] # backlog[q]
               PROVE  StepsLeft(q)' < StepsLeft(q)
    OBVIOUS
  <2>1. QueueInv /\ Typed /\ Typed' /\ Stops(u)
    BY <1>1, StepTyped DEF StopInv, QueueInv, StopsQueue
  <2>2. Next
    BY <1>1 DEF vars, workVars
  <2>3. ~Aside(u)
    BY DEF Aside, workVars
  <2>4. ~SetQuitFlag(u)
    BY DEF SetQuitFlag
  <2>5. ~Joined(u)
    BY <2>1 DEF Joined, Goto, Ready, Typed, TypeOK
  <2>6. PICK p \in Queues : Worker(p)
    BY <2>1, <2>2, <2>3, <2>4, <2>5, OthersStandAside
  <2>7. p = q
    BY <2>1, <2>6, WorkerGoesOn
  <2> QED
    BY <2>1, <2>6, <2>7, WorkCounts
<1>2. StopInv /\ [Next]_vars => [\A u \in Users, q \in Queues : Closer(u, q)]_vars
  BY <1>1
<1> QED
  BY <1>2, InitStopInv, StepStopInv, PTL DEF Spec, StoppingApproaches

-----------------------------------------------------------------------------
(***************************************************************************)
(* What becomes of a message that was pushed.                              *)
(***************************************************************************)
(* A queue that stays is served by its worker; anybody else leaves it      *)
(* alone or adds to its end.                                               *)
LEMMA QueueStep ==
    ASSUME QueueInv, [Next]_vars, NEW q \in exists, q \in exists', ~Worker(q)
    PROVE  /\ worker'[q] = worker[q]
           /\ \/ backlog'[q] = backlog[q]
              \/ \E m \in Element : backlog'[q] = Append(backlog[q], m)
<1> DEFINE Left == worker'[q] = worker[q] /\ backlog'[q] = backlog[q]
           Longer == /\ worker'[q] = worker[q]
                     /\ \E m \in Element : backlog'[q] = Append(backlog[q], m)
<1>1. /\ q \in Queues /\ Typed /\ Terminate \in Element
      /\ worker \in [Queues -> {"check", "pull", "call", "done"}]
      /\ backlog \in [Queues -> Seq(Message \cup {Terminate})]
      /\ App \in Users
  BY QueuesAssumption DEF QueueInv, Typed, TypeOK, Element
<1>2. UNCHANGED workVars => Left
  BY DEF workVars
<1>3. ASSUME NEW p \in Queues, CreateQueue(p) PROVE Left
  BY <1>1, <1>3 DEF CreateQueue, HasActiveQueue, workVars
<1>4. ASSUME NEW p \in Queues, PushTerminate(p), worker' = worker
      PROVE  Left \/ Longer
  BY <1>1, <1>4 DEF PushTerminate
<1>5. ASSUME UNCHANGED vars \/ Stopped PROVE Left
  BY <1>2, <1>5 DEF Stopped, vars
<1>6. ASSUME (\E k \in Keys : Arrive(k)) \/ FetchLooks \/ CloseClears
      PROVE  Left
  BY <1>2, <1>6 DEF Arrive, FetchLooks, CloseClears
<1>7. ASSUME NEW u \in Users, Begin(u) PROVE Left \/ Longer
  <2>1. ASSUME NEW p \in Queues, RemoveActiveQueue(u, p) PROVE Left \/ Longer
    BY <1>4, <2>1 DEF RemoveActiveQueue
  <2> HIDE DEF Left, Longer
  <2> QED
    BY <1>2, <1>3, <1>7, <2>1 DEF Begin, AddActiveQueue,
       AddWildcardActiveQueue, AddMessageRoute, RemoveMessageRoute
<1>8. ASSUME NEW u \in Users, Continue(u) PROVE Left \/ Longer
  <2>1. CASE SetQuitFlag(u)
    BY <2>1 DEF SetQuitFlag
  <2>2. CASE Joined(u)
    <3>1. /\ exists' = exists \ {user[u].queue} /\ worker' = worker
          /\ backlog' = [backlog EXCEPT ![user[u].queue] = <<>>]
      BY <2>2 DEF Joined
    <3> QED
      BY <1>1, <3>1
  <2>3. CASE MakeQueue(u)
    <3>1. user[u].queue \in Queues
      BY <1>1, <2>3, StepFields DEF MakeQueue, Typed, TypeOK
    <3> QED
      BY <1>3, <2>3, <3>1 DEF MakeQueue
  <2>4. CASE \E p \in Queues : CloseStopsQueue(p)
    BY <1>4, <2>4 DEF CloseStopsQueue
  <2>5. CASE \/ SetWildcard(u) \/ AskQueue(u) \/ AddRoute(u) \/ EraseRoute(u)
             \/ Fetch \/ CloseLocks \/ CloseForgets
    <3> HIDE DEF Left, Longer
    <3> QED
      BY <1>2, <2>5 DEF SetWildcard, AskQueue, AddRoute, EraseRoute, Fetch,
         CloseLocks, CloseForgets
  <2> HIDE DEF Left, Longer
  <2> QED
    BY <1>8, <2>1, <2>2, <2>3, <2>4, <2>5 DEF Continue
<1>9. ASSUME Reader PROVE Left \/ Longer
  <2>1. CASE PushToQueues
    <3>1. Scanned \in Element
      BY <1>1, <2>1, ScannedIsMail DEF PushToQueues, Element
    <3>2. /\ worker' = worker
          /\ backlog'[q] \in {backlog[q], Append(backlog[q], Scanned)}
      BY <1>1, <2>1 DEF PushToQueues
    <3> QED
      BY <3>1, <3>2
  <2>2. CASE ~PushToQueues
    <3>1. UNCHANGED workVars
      BY <1>9, <2>2 DEF Reader, ReaderLocksInBox, DispatchBegins,
         ShowToWildcards, QueueNotFound, ScanEnds, ReaderSetsFlag
    <3> QED
      BY <1>2, <3>1
  <2> QED
    BY <2>1, <2>2
<1>10. ASSUME NEW p \in Queues, Worker(p) PROVE Left
  BY <1>1, <1>10, WorkerGoesOn
<1> HIDE DEF Left, Longer
<1>11. Left \/ Longer
  BY <1>5, <1>6, <1>7, <1>8, <1>9, <1>10 DEF Next
<1> QED
  BY <1>11 DEF Left, Longer

(* A worker whose queue is not empty can take its next step, or somebody   *)
(* stops the queue.                                                        *)
QueuesServed ==
    \A q \in exists :
        backlog[q] # <<>> => CanWork(q) \/ \E u \in Users : StopsQueue(u, q)

\* As long as its queue stays, a message that waits is handed to the
\* callback, or the worker ends because the queue is being stopped, or the
\* message still waits and only the worker changes how many steps it has to
\* take until then: it has fewer after each.
PushedAdvances ==
    [][\A q \in exists \cap exists' : \A n \in DOMAIN backlog[q] :
          backlog[q][n] # Terminate =>
             \/ backlog[q][n] \in Elements(started'[q])
             \/ worker'[q] = "done" /\ \E u \in Users : StopsQueue(u, q)'
             \/ \E k \in DOMAIN backlog'[q] :
                   /\ backlog'[q][k] = backlog[q][n]
                   /\ IF Worker(q) THEN StepsTo(q, k)' < StepsTo(q, n)
                                   ELSE StepsTo(q, k)' = StepsTo(q, n)]_vars

LEMMA PushedPulled ==
    ASSUME Typed, NEW q \in Queues, Worker(q), NEW n \in DOMAIN backlog[q],
           backlog[q][n] # Terminate
    PROVE  \/ backlog[q][n] \in Elements(started'[q])
           \/ worker'[q] = "done"
           \/ \E k \in DOMAIN backlog'[q] :
                 /\ backlog'[q][k] = backlog[q][n]
                 /\ StepsTo(q, k)' < StepsTo(q, n)
<1> DEFINE b == backlog[q]
<1>1. /\ b \in Seq(Element) /\ Len(b) \in Nat /\ DOMAIN b = 1..Len(b)
      /\ n \in 1..Len(b) /\ started[q] \in Seq(Message)
      /\ worker \in [Queues -> {"check", "pull", "call", "done"}]
  BY LenProperties DEF Typed, TypeOK, Element
<1>2. CASE CheckQuit(q)
  <2>1. /\ backlog' = backlog /\ worker[q] = "check"
        /\ worker'[q] # "call" /\ worker'[q] # "check"
    BY <1>1, <1>2 DEF CheckQuit
  <2>2. StepsTo(q, n) = 3 * n + 1 /\ StepsTo(q, n)' = 3 * n + 0
    BY <2>1 DEF StepsTo
  <2> QED
    BY <1>1, <2>1, <2>2
<1>3. CASE CallbackReturns(q)
  <2>1. /\ backlog' = backlog /\ worker[q] = "call" /\ worker'[q] = "check"
    BY <1>1, <1>3 DEF CallbackReturns
  <2>2. StepsTo(q, n) = 3 * n + 2 /\ StepsTo(q, n)' = 3 * n + 1
    BY <2>1 DEF StepsTo
  <2> QED
    BY <1>1, <2>1, <2>2
<1>4. CASE Pull(q)
  <2>1. /\ b # <<>> /\ backlog'[q] = Tail(b) /\ worker[q] = "pull"
        /\ \/ worker'[q] = "done"
           \/ /\ worker'[q] = "call" /\ Head(b) # Terminate
              /\ started'[q] = Append(started[q], Head(b))
    BY <1>1, <1>4 DEF Pull, Typed, TypeOK
  <2>2. /\ Head(b) = b[1] /\ Tail(b) \in Seq(Element)
        /\ Len(Tail(b)) = Len(b) - 1
        /\ \A i \in 1..(Len(b) - 1) : Tail(b)[i] = b[i + 1]
    BY <1>1, <2>1, HeadTailProperties
  <2>3. CASE n = 1 /\ worker'[q] = "call"
    <3>1. started'[q] = Append(started[q], b[n])
      BY <2>1, <2>2, <2>3
    <3>2. /\ Len(started[q]) + 1 \in DOMAIN Append(started[q], b[n])
          /\ Append(started[q], b[n])[Len(started[q]) + 1] = b[n]
      <4>1. b[n] \in Message
        BY <1>1, ElementOfSeq DEF Element
      <4> HIDE DEF b
      <4> QED
        BY <1>1, <4>1, AppendProperties
    <3> QED
      BY <3>1, <3>2 DEF Elements
  <2>4. CASE n # 1 /\ worker'[q] = "call"
    <3>1. n - 1 \in 1..(Len(b) - 1) /\ (n - 1) + 1 = n
      BY <1>1, <2>4
    <3>2. n - 1 \in DOMAIN backlog'[q] /\ backlog'[q][n - 1] = b[n]
      <4>1. DOMAIN Tail(b) = 1..Len(Tail(b))
        BY <2>2, LenProperties
      <4>2. n - 1 \in DOMAIN Tail(b) /\ Tail(b)[n - 1] = b[n]
        BY <2>2, <3>1, <4>1
      <4> QED
        BY <2>1, <4>2
    <3>3. StepsTo(q, n) = 3 * n + 0
      BY <2>1 DEF StepsTo
    <3>4. StepsTo(q, n - 1)' = 3 * (n - 1) + 2
      BY <2>4 DEF StepsTo
    <3>5. 3 * (n - 1) + 2 < 3 * n + 0
      BY <1>1
    <3> QED
      BY <3>2, <3>3, <3>4, <3>5
  <2> QED
    BY <2>1, <2>3, <2>4
<1> QED
  BY <1>2, <1>3, <1>4 DEF Worker

(* A message that the reader has pushed to an active queue comes closer to *)
(* its callback with every turn of DoWork, and nobody pushes in before it. *)
(* (That the worker runs is the fairness of the run queues_stop, where     *)
(* PushedIsHandled is checked.)                                            *)
THEOREM PushedComesCloser == Spec => []QueuesServed /\ PushedAdvances
<1> DEFINE Closer(q, n) ==
        backlog[q][n] # Terminate =>
           \/ backlog[q][n] \in Elements(started'[q])
           \/ worker'[q] = "done" /\ \E u \in Users : StopsQueue(u, q)'
           \/ \E k \in DOMAIN backlog'[q] :
                 /\ backlog'[q][k] = backlog[q][n]
                 /\ IF Worker(q) THEN StepsTo(q, k)' < StepsTo(q, n)
                                 ELSE StepsTo(q, k)' = StepsTo(q, n)
<1>1. StopInv => QueuesServed
  <2> SUFFICES ASSUME StopInv, NEW q \in exists, backlog[q] # <<>>
               PROVE  CanWork(q) \/ \E u \in Users : StopsQueue(u, q)
    BY DEF QueuesServed
  <2>1. worker[q] \in {"check", "pull", "call", "done"}
    BY DEF StopInv, QueueInv, Typed, TypeOK
  <2> QED
    BY <2>1 DEF StopInv, Manned, CanWork
<1>2. ASSUME StopInv, [Next]_vars, NEW q \in exists \cap exists',
             NEW n \in DOMAIN backlog[q]
      PROVE  Closer(q, n)
  <2> SUFFICES ASSUME backlog[q][n] # Terminate PROVE Closer(q, n)
    OBVIOUS
  <2>1. QueueInv /\ Typed /\ q \in Queues
    BY <1>2 DEF StopInv, QueueInv, Typed, TypeOK
  <2>2. worker'[q] = "done" => \E u \in Users : StopsQueue(u, q)'
    BY <1>2, StepStopInv DEF StopInv, Manned
  <2>3. CASE Worker(q)
    BY <1>2, <2>1, <2>2, <2>3, PushedPulled
  <2>4. CASE ~Worker(q)
    <3>1. /\ worker'[q] = worker[q]
          /\ \/ backlog'[q] = backlog[q]
             \/ \E m \in Element : backlog'[q] = Append(backlog[q], m)
      BY <1>2, <2>1, <2>4, QueueStep
    <3>2. backlog[q] \in Seq(Element)
      BY <2>1 DEF Typed, TypeOK, Element
    <3>3. n \in DOMAIN backlog'[q] /\ backlog'[q][n] = backlog[q][n]
      <4>1. ASSUME NEW b \in Seq(Element), NEW m \in Element, n \in DOMAIN b
            PROVE  n \in DOMAIN Append(b, m) /\ Append(b, m)[n] = b[n]
        BY <4>1
      <4> QED
        BY <1>2, <3>1, <3>2, <4>1
    <3>4. StepsTo(q, n)' = StepsTo(q, n)
      BY <3>1 DEF StepsTo
    <3> QED
      BY <2>4, <3>3, <3>4
  <2> QED
    BY <2>3, <2>4
<1>3. StopInv /\ [Next]_vars =>
          [\A q \in exists \cap exists' : \A n \in DOMAIN backlog[q] :
              Closer(q, n)]_vars
  BY <1>2
<1> QED
  BY <1>1, <1>3, InitStopInv, StepStopInv, PTL DEF Spec, PushedAdvances
=============================================================================
