# ROS-IvP in TLA+

ROS-IvP runs the MOOS-IvP autonomy suite on ROS. A vehicle is a *community* of
processes. Each is a `CMOOSApp` that owns a comms client; the client used to
talk to a MOOSDB and now publishes and subscribes through ROS. One of the
processes, `pHelmIvP`, drives the vehicle. The specifications here are about
the places where that is hard to get right: the client, which three threads and
more share; the hand-over between helms, which are processes that see each other
only through mail that may come late or not at all; and the loop between helm
and contact manager, two processes that keep a picture of each other's state
which a restart or a lost message makes wrong.

Line numbers below are those of the source tree. `MOOS/` stands for
`src/MOOS/MOOSCore/Core/libMOOS/`.

## 1. Inventory

| Part | State it keeps | Operations | Interacts through | Hard behaviour | What makes it correct |
|---|---|---|---|---|---|
| Comms client, receiving and life cycle (`MOOS/Comms/MOOSCommClient.cpp`, `MOOSAsyncCommClient.cpp`) | `m_bConnected`, `m_bQuit`, `m_InBox`, `m_bMailPresent`, `m_Registered`, `subscriberMap`, `m_InLock`, thread flags | `Register`, `UnRegister`, `Fetch`, the ROS callback, `DoReading`, `WritingLoop`, `Close` | calls by the application thread, two threads of its own, ROS | an inbox changed without its lock, a flag read without it, purging, shutting down | mail is neither lost silently nor duplicated, is seen in time order, and Close leaves nothing behind |
| Comms client, sending (same files) | `m_OutBox`, `OutGoingQueue_`, `publisherMap`, `m_OutLock` | `Post`, `Advertise`, `PostGlobal`, `DoWriting` | application threads, writer, ROS, pShare | waiting and throwing with a lock held, two outboxes under separate holds of it, closing meanwhile | what is posted is published in order, the boxes stay bounded, Close and the wait for an empty outbox return |
| Active queues (same files, `ActiveMailQueue.cpp`, `SafeList.h`, `MOOSThread.h`) | `ActiveQueueMap_`, `Msg2ActiveQueueName_`, `WildcardQueuePatterns_`, `WildcardCheckSet_`, `ActiveQueuesLock_`, one list and thread per queue | adding and removing queues and routes, dispatch, `DoWork`, `Stop` | application threads, reader, workers | asking and acting under separate holds of the lock, joining under the lock | routes lead to queues, workers end, mail is handled once |
| Main loop (`MOOS/App/MOOSApp.cpp`) | where `Run` is | `Run`, `DoRunWork`, `SleepAsRequired` | owns the client, calls `OnNewMail` and `Iterate` | waiting for the connection for five seconds only | the application gets the mail it wants |
| Helm (`ivp/src/pHelmIvP/HelmIvP.cpp`) | `m_helm_status`, `m_has_control`, `m_allstop_msg`, `m_no_decisions`, `m_standby_last_heartbeat` | `OnStartUp`, `OnNewMail`, `Iterate`, `postAllStop`, `checkForTakeOver` | mail to and from other helms and an operator | late, dropped and skewed heartbeats, restarts, death of the primary, the rest of a batch after being disabled | at most one helm goes on driving; a vehicle nobody drives is stopped |
| Helm engine, behaviors (`HelmEngine.cpp`, `lib_helmivp`, `lib_behaviors`) | behaviors, their states, templates, `m_bhv_names`, the delta vectors of the info buffer | spawning, running, completing, halting | called by the helm, alerts and resolutions | names that outlive their behavior for an iteration, buffers cleared by some modes and not by others | one behavior per alert, completed ones are gone and say so |
| Solver, function building (`lib_ivpsolve`, `lib_ivpbuild`) | a problem | solve | called by the engine | numerical | optimality |
| Contact manager (`pBasicContactMgr`) | ranges, ages, `m_par`, `m_map_node_alerts_active` | reports, requests, alerts, retirement, resolutions | mail to and from the helm | a helm that forgets, resolutions that never come, an unsigned counter | an alert is posted once until it is resolved, and is answered |
| Dead man's switch (`pDeadManPost`), timer scripts (`uTimerScript`) | time of the last heartbeat; position in a script | heartbeats; pause, reset, forward | mail | time-outs racing late mail | posts exactly when promised |
| Process watch, node communication and broker | tables of what was seen | | mail | | |
| MOOSDB and comms servers | | | not started in this fork | | |
| Launcher, controllers, simulators, viewers, log tools | | | | | |

`PROJECT.json` lists these components with what is modelled of each, and the
hazards with the lines at which they bite and the properties that watch them.

## 2. The modules

| Module | What it is |
|---|---|
| `CommClient` | the receiving half and the life cycle of one `MOOSAsyncCommClient`, with the threads app, reader and writer |
| `Mailbox` | what such a client promises: an abstract specification that `CommClient` implements |
| `ActiveQueues` | active queues, their routes, dispatch and workers |
| `Helm` | the helms of a vehicle, the clock, the operator and the mail between them |
| `CommPost` | the sending half of the client: posting threads, writer, waiting and closing |
| `ContactMail` | what contact manager and helm send each other |
| `ContactManager` | `pBasicContactMgr` |
| `BehaviorLife` | the behaviors the helm spawns from templates, and the info buffer they are spawned from |
| `ContactLoop` | the composition of the last three |
| `AlertCycle` | what the loop promises for a contact and an alert id: an abstract specification that `ContactLoop` implements |
| `CommClientProofs`, `CommClientMailProofs`, `CommPostProofs`, `ActiveQueuesProofs`, `ActiveQueuesStopProofs`, `HelmProofs`, `HelmTakeoverProofs`, `ContactLoopProofs` | the theorems |
| `MCCommClient`, `MCCommPost`, `MCActiveQueues`, `MCHelm`, `MCContactLoop` | instances for TLC |

Definitions marked *Mutant* are plausible bugs of the definition behind them;
nothing uses them, and each of the properties is violated by one.

`CommClient`, `ActiveQueues` and `CommPost` cut one class in three. The sending
side shares only `m_bConnected`, the writer and Close with the others. The first
two share the inbox and
the flag, and each simplifies what the other is about: in `CommClient` the
routes are a constant set (`Routed`), and in `ActiveQueues` the inbox stays
below its limit and a `push_front` is atomic.

### CommClient

State: every variable is a field of the client (its comment says which), a
program counter of a thread, the queue ROS keeps for a subscription, or a
history variable: `mailLog`, `queued` and `dropped` say where each message
went, `raced` whether two threads ever changed `m_InBox` at once.

* The code between Lock and UnLock of `m_InLock` is one step, except in the
  reader. `genericROSCallback` runs on the application thread (inside
  `ros::spinOnce`, which `Fetch` calls) and pushes to `m_InBox` **without**
  the lock, so the reader's critical section is three steps (purge, dispatch,
  flag) and a push is two (build the node, link it). If the reader freed nodes
  in between, linking has no defined result, and `CallbackLinks` and
  `CallbackCrashes` choose among those a build can give: freed nodes are back
  in the list, the new node is lost, or the process dies.
* `Fetch` looks at `m_bMailPresent` before it takes the lock, so that is a
  step of its own (`FetchLooks`).
* The writer's `ConnectToServer` is two steps, because `m_bQuit` may be set
  between looking at it and `m_bConnected = true`.
* `Close` is one step per thing another thread can see: `m_bQuit`, the
  resources, ROS, the reader's flag and join, the queued
  `MOOS_TERMINATE_CONNECTION`, the writer's flag and join.
* `DoReading` no longer reads a packet: the packet it decodes is zeros and adds
  nothing to the list. It then looks at the type of the element at the old end
  of the list, which is past the end. On a 64-bit build the byte it reads is
  the low byte of an aligned pointer, which is neither of the two cases of the
  switch; the model leaves the switch out for that reason.
* ROS calls the callbacks in order of arrival and drops the oldest message of
  a full queue; that part is external (`RosReceive`, `OldestKey`).
* **Assumed of publishers:** the time stamps of one variable do not go back in the
  order in which ROS delivers them (`t >= lastTime[k]` in `RosReceive`). They are
  the publisher's clock, so this is so for one publisher whose clock is not set
  back; nothing in the client enforces it, and two publishers of a variable whose
  clocks disagree break it. `MailInTimeOrder`, `Implements` and the theorems
  `MailIsInOrder`, `MailboxUntilRaced` and `ClientIsMailbox` rest on it; where
  mail can be (`Accounted`) is a question of ids and does not depend on stamps.

### ActiveQueues

State: the four maps and sets of the client, the inbox, who holds
`ActiveQueuesLock_`, the list, thread and quit flag of each queue, and what
each calling thread is doing. Actions follow the holds of the lock:
`AddMessageRouteToActiveQueue` asks for the queue, makes it, asks again and
adds the route, and gives the lock up each time; `RemoveActiveQueue` and
`Close` hold it while they stop a queue, which is three steps (queue a
terminate message, set the flag, join). The dispatch takes one step per
message, newest first, as the code does, because the inbox grows in front of it
meanwhile. A pattern is the set of variables it matches. Callbacks are assumed
to return and not to call the client themselves; the template version of
`AddWildcardActiveQueue`, which takes no lock, is not modelled.

### Helm

State: the fields of `HelmIvP` that decide about control, per helm, plus the
mail on its way to it. Mail at ROS and in the client's inbox is one sequence;
ROS's per-variable limit and its dropping of the oldest are `MadeRoom`. Each
message `OnNewMail` reads is one step, the check for a take-over at its end is
one, and `Iterate` is one. Abstractions:

* The decision variables are posted together: `"move"` stands for a decision
  of the engine, `"zero"` for an all-stop. The engine decides, finds nothing to
  do, leaves a variable undecided, or halts on an error.
* `age` is the time since the last heartbeat in ticks, up to one more than the
  threshold, which is all `checkForTakeOver` tells apart. Reading mail takes no
  time.
* The `+` that a standby helm adds to its status is left out, because the code
  only compares with `STANDBY`. All sets of missing variables are one message.
* A message may be skipped for its skew whenever `SkewPossible`.
* A configuration may be wrong (`Misconfigured`) or have a line that gives a
  warning when it is read again (`BehaviorsInConfig`): `BEHAVIORS`, because
  `addBehaviorFile` refuses a file it has, or `NODE_SKEW`, because
  `handleConfigNodeSkew` refuses a vehicle it has.
* A restart reads `START_ENGAGED` again: with the value true the helm has control
  (`StartEngaged`), with false it loses it (`StartDisengaged`), and without the
  line it keeps what it has.

### CommPost

The module begins with a client that is connected. A thread that posts takes
`m_OutLock` twice: once for the id, the publisher and the publication, and once
in `MOOSAsyncCommClient::Post` to move the outbox to the queue. The first hold is
two steps, because `Advertise` may wait for five seconds inside it (`Locks`,
`AdvertiseReturns`, `Publish`); other steps need no lock and happen meanwhile.
`PostGlobal` is a post to a topic of `Global`: it does not wait for subscribers
and does not move the outbox. `publisherMap.at` throws if the publisher is gone:
`Publish` has no step then, and `PostNeverThrows` says that it does not happen.
The writer only empties the queue, since ROS has had the message already; when it
finds the terminate message it disconnects, clears the outbox and ends. `Close`
is one step per thing another thread can see. What Close does about the inbox and
the reader is in `CommClient`, how a queue is stopped in `ActiveQueues`; here it
waits for the callback. `published` and `shared` are history variables. Post
without a connection returns at once and has no step.

### ContactManager, BehaviorLife and ContactLoop

Alerts and resolutions in flight are counted per pair of contact and alert id
(`ContactMail`): readers treat pairs independently, so the order of mail about
different pairs does not matter. Each message read is one step. `Iterate` of the
contact manager is one step (`PostAlerts`), as is `Iterate` of the helm: spawn
from the delta vectors, run, post, remove, clear the buffer (`IterateDrives`).

* Distances are zones. The two applications find the range of a contact
  independently (`range`, `distance`), and it may be anything: what is near for
  one may be far for the other, as it is when one extrapolates.
* A behavior that fails posts a `BHV_ERROR`, which ends the iteration for the
  behaviors behind it. Which those are is chosen anew in each iteration
  (`Turns`), except that a finished behavior comes before the one spawned after
  it.
* Modes: `mode` is the status of `Helm`, with what becomes of the vehicle left
  out. A helm that is parked returns from `Iterate` before it clears the buffer;
  on standby, disabled or in `MALCONFIG` it clears the buffer and spawns nothing.
  A disabled helm keeps its behaviors and drops all mail. When a standby helm
  takes over (`TakeOver`), when a primary yields (`Yield`) and what an operator
  orders (`ChangeMode`) is decided in `Helm`; here each may happen in any state
  that has the step. Whether the helm is a primary or a standby helm is `start`,
  which is chosen in `Init` and stays.
* `RESTART_HELM` deletes buffer, behaviors and names (`CleanUp`). The helm is then
  on standby again if it has a `STANDBY` line, also if it had taken over; in
  `DRIVE` or `PARK` as `START_ENGAGED` says, or as it was without that line; or in
  `MALCONFIG`, which it does not leave (`StartsUpIn`). Which restarts end there is
  decided in `Helm`; here any may.
* Behaviors are idle because a condition fails or because a variable is stale
  (`idle`). `isRunnable` looks at the duration between the two, so a behavior that
  starves may still end by its duration, but not by its range.
* A template has one alert id and is not of type clone; names of contacts and
  ids are in lower case; if behaviors report a contact resolved without an id
  (`Nameless`) it is the only id. Templates with a prefix have names of their
  own. The queue of alerts at the helm does not overflow; what is lost is lost
  to skew (`LoseAlert`).

`Stage` maps a state of the loop to a stage of `AlertCycle`, per pair: clear,
raised, guarded, released, and forgotten, when the contact manager waits for a
resolution that nobody will post. The cycle has no way back from there.

## 3. The runs

| Run | Instance | Shows |
|---|---|---|
| `client_safety` | 2 variables, one routed; ROS queues of 2, inbox limit 1, 3 messages, 2 time stamps | where mail can be, its order, the flag, the subscriptions, what Close leaves |
| `client_mailbox` | 2 variables, no route, no purge, ROS queues of 1, fairness | the client implements `Mailbox`, Close returns |
| `client_guard` | as the first, 2 messages | **violated**: `m_InLock` does not guard the inbox |
| `client_startup` | fairness | **violated**: an application that connects late has no subscriptions |
| `queues_mail` | 2 interchangeable queues, 2 interchangeable variables, 3 messages, 1 user | mail is handled once and in the order pushed, all is accounted for, routes lead to queues, wildcard queues are served |
| `queues_stop` | 1 queue, 2 messages, 2 users, no wildcards, fairness | no worker outlives its queue, stopping ends, pushed mail is handled |
| `queues_bypass` | 1 queue, 2 variables, 2 messages | **violated**: routed mail behind unrouted mail is not dispatched |
| `helm_safety` | primary and standby, 2 orders, queues of 1, skew, any pace | the all-stop is honest; parking and yielding stop the vehicle; the grace is one iteration |
| `helm_late` | helms of any pace, a primary that may die, 1 order that gives a helm control or a restart that fails, a threshold of 1 tick, fairness | the standby helm takes over when it should, and only then if helms keep up; two helms do not go on driving; a disabled helm stays so |
| `contact_loop` | 1 contact, 2 ids: one from the file with a prefix, one requested by its template; the helm a primary that starts in `PARK` or a standby helm; restart, `MALCONFIG`, take-over, yielding, lost mail, failing behaviors, idling, starving, durations; fairness | alerts are in one place at a time, counters and names are true, only faults forget an alert, the loop implements `AlertCycle`, a threat gets its behavior and a contact that is away is released |
| `client_post` | 2 callbacks and the application, a topic of the vehicle and a shared one, limits of 2, 5 messages, fairness | publications and unsent mail are in order, boxes bounded, publishers there; waiting and closing return |
| `helm_restart` | the configuration names a behavior file | **violated**: a restart disables the helm |

**Why the bounds are enough.** Limits are as small as they can be with the case on
either side of them occurring: an inbox limit of 1 is exceeded by two of three
messages, a ROS queue of 2 overflows with three. Two variables are needed for a
routed message to be behind an unrouted one, and two time stamps for messages that
arrive out of order and for ties. Three messages let an inbox hold one that is
dispatched, one that is in the way and one that arrives meanwhile. Two queues are
needed for one to lose its route with another. Two helms are what a mission has;
two orders give an override and a restart in either order. `contact_loop` starts a
primary in `PARK`, because only such a helm keeps its mode in a restart, and
reaches `DRIVE` by an order; a helm that starts in `DRIVE` differs only in that a
restart leads there at once, without the order. A contact and two ids are four
combinations of configuration and prefix less the two that a second id from the
file would repeat; contacts do not affect each other except through `failing`,
which ids do too. Limits of 2 in `client_post` are exceeded by the five messages
in the outbox (which shared ones fill) and in the queue, and `2 \div 2` leaves one
message when half is ditched.

`queues_mail` has a constraint, `FewAtOnce`: as soon as a second message has
arrived only one queue is in use and no routes are erased, and the third arrives
while nothing has been fetched or cleared. Several queues and erasing matter to
routes, several messages to order; states with both are the product of the two,
and each of the run's invariants is proved without these bounds. The symmetry is
sound because names of queues and of variables are compared only for equality, the
one pattern matches all variables, and the run checks invariants only. In
`helm_late` no helm starts engaged, so that the operator's order decides which has
control, also for a helm that yields in the middle of its mail. `helm_safety` has
a view, all variables but `late`, which is a history variable: `Tick` records in
it whether helms keep up, no guard reads it, and of the run's properties only
`TypeOK` mentions it.

Deadlock is checked in every run. A client that is closed or crashed stutters
explicitly (`Stopped`, `NothingNew`).

**Fairness.** Threads run (weak fairness). The reader loops without a pause and
retakes the locks it has just released, so a thread that waits for one gets it
only if the mutex is handed over now and then; that is assumed with strong
fairness of exactly the steps that need a lock, and is an assumption about
pthreads, not something the code ensures. In `Helm` time passes (strong fairness
of `Tick`, which is disabled for the moment while a helm reads) and each process
runs. In `ActiveQueues` nothing forces a user to begin anything: only what was
begun is finished. Callbacks return. No fairness is assumed of ROS, of the
operator or of crashes. In `ContactLoop` each application goes on fetching its
mail and iterating, which `Run` does in a loop (weak fairness of reading each
message and of `Iterate`, for the helm of an iteration in which no behavior's
duration is exceeded); nothing is assumed of contacts, operator or faults, nor
that a duration ever ends. In
`CommPost` threads that post, the writer and Close go on (weak fairness); a
thread in front of `m_OutLock` gets it because only `MaxPosts` messages are
posted, which stands for callbacks that do not post without end while Close waits
for them.

### What the violated runs show

* `client_guard`. `MOOSCommClient.h:520` calls `m_InLock` the mutex around the
  incoming mail box. The callback does not take it.
* `client_startup`. `MOOSApp.cpp:362` says that success does not depend on the
  wait for the connection. If the wait expires, `OnStartUp` registers while
  unconnected, `Register` returns false, and nobody registers again, because
  the connect callback is commented out (`MOOSCommClient.cpp:1040-1078`).
* `queues_bypass`. The dispatch returns where it should go on to the next
  message (`MOOSCommClient.cpp:924`).
* `helm_restart`. `RESTART_HELM` on any mission with a `BEHAVIORS` line ends in
  `MALCONFIG` (`HelmIvP.cpp:1247`), with the last desired speed in force.

Four more disagreements are visible in the models and have no run: `Fetch` does
not return the mail its own `spinOnce` has just received;
`RemoveMessageRouteToActiveQueue` removes the routes to all queues; and two
threads that manage one queue can leave a route to a queue that is gone, so that
the reader throws (`died` in `queues_stop`); and `WaitForEmptyOutbox`
("pause until all mail appears to have been sent", `MOOSApp.h:501`) does not
return after a `PostGlobal`, whose message stays in `m_OutBox` until something is
posted normally, which is why `WaitReturns` excepts it.

`contact_loop` shows besides how an alert is forgotten: `OnlyFaultsForget` names
the ways. One of them is a race without any fault: a behavior that completes
posts its resolution an iteration before it is removed, and if the contact manager
alerts again at once, the new alert finds the name in use and is dropped, while
the contact manager believes until the end of the mission that somebody guards.

## 4. The proofs

TLAPS checks each theorem for every set of variables, helms, limits and bounds.

**Assumptions.** `ClientAssumption`: the set of variables is finite, `Wanted` and
`Routed` are among them, limits are natural numbers. `HelmAssumption`: the subsets
are subsets, the threshold and the bounds natural, a queue holds at least one
message, and the operator is not a helm. Four theorems assume more of the
configuration. `RestartsRun`, that a helm that runs still does so after
`RESTART_HELM`, assumes that no helm that starts has a `BEHAVIORS` line (or one of
`NODE_SKEW`), or that the operator never orders a restart; the run `helm_restart`
violates the property with such a line, so the theorem says that the finding has
no other cause. `DisabledStops` needs the same of primaries only (`RestartsWell`);
without it a helm that a restart has put into `MALCONFIG` while moving may then
yield, and `postAllStop` does nothing for it. `NoTakeoverInTime` assumes
`WellPlanned`: one primary, standby helms that start and restart without a warning
(another helm's `MALCONFIG` makes a primary yield, like any status but `STANDBY`),
no mail ignored for its skew, a threshold of at least one tick, and a queue of at
least two messages for each variable. Neither of the last two can be spared: TLC
finds a takeover if `HelmLate.cfg` gets `Threshold = 0` or `QueueSize = 1`.
`YieldComesCloser` assumes `MissionOfTwo`: two helms, no mail ignored for its
skew, and again a queue of at least two messages; with `QueueSize = 1` TLC finds a
behavior in which both helms of `HelmLate.cfg` go on driving, because the
primary's own status always replaces the other's before it is read.
`PostAssumption`: the application is none of the workers, there is a topic, limits
are natural numbers. `QueuesAssumption`: the application is a user, no user goes
by the name of the reader or of a free lock, and a terminate message is no other
message; `RoutesAreSound` and `WildcardsAreServed` assume in addition that the
application thread is the only one that manages the queues (`Users = {App}`),
without which both are false. `ClientIsMailbox` assumes that no variable has an
active queue and that there are never more messages than the purge limit (`Routed
= {}`, `MaxMsgs <= InPendingLimit`): otherwise two threads may change the inbox at
once (`InBoxIsGuarded` is violated), and then a message may be in it twice.
`ManagerAssumption` and `BehaviorAssumption`: the subsets are subsets, there are
finitely many ids, and a nameless id is the only one. Assumptions that are built
into actions are said in section 2; the one that theorems rest on is that the time
stamps of one variable do not go back (`CommClient`).

**What is proved of liveness.** The prover has no fairness, so a leads-to property
itself stays with TLC. Its safety core does not: that nobody waits for something
that cannot happen, and that no step leads away. Two such facts are proved, where
they are needed, for every leads-to property and every instance (for
`OneHelmYields`, of two helms). *Somebody can go on*: at each point where a thread
waits, the thread it waits for has a step whose guard holds (`NobodyWaitsInVain`,
`CloseWaitsForTheLiving`, `LockIsNotLeaked`, `WaitsForAWorker`, `StandbyWakes`);
guards are restated as predicates, because `ENABLED` is out of reach. *It comes
closer*: a number of steps that are left, or of turns, which steps of the awaited
thread lower and no step of anybody raises (`StopComesCloser`,
`PushedComesCloser`, `CloseComesCloser`, `ThreatsAdvance`, `AwayUnloads`,
`TakeoverComesCloser`, `YieldComesCloser`). What remains an assumption is that a
thread that can go on does so, and that a mutex that is given up again and again
reaches everybody.

**HelmProofs.** `TypeOK` is nearly inductive; what it needs is that making room in
a queue and taking from a batch yield sequences of mail (`MadeRoom`).
`AllStopMeansZero` is not inductive: a message that is posted already posts
nothing again, so what is out has to be right before the step, for each message
`postAllStop` can leave. The invariant `HelmInv` is `TypeOK` and, for each helm,
two facts. `Honest`: a message that names a reason comes with zeros. `Counted`:
under `IncompleteOrEmptyDecision`, for which zeros are held back, either this was
the first missing decision or the vehicle is not moving. From it follow
`AllStopSound`, `GraceIsShort` and `ParkingStops`. For the rest, `StatusStep`
sorts the steps by what they do to one helm (keep its status, yield, restart, take
over). `Roles` then says that only standby helms are in `STANDBY` and only
primaries in `DISABLED`, and `StaysOutOfService` that a primary in `DISABLED` or
`MALCONFIG` goes from one to the other at most; `DisabledForGood` follows per
helm. `Ordered` says that mail of the operator carries nothing but what the
operator may order, so where `RESTART` is not among the `Orders` nobody restarts;
`StillBad` that a helm that was configured badly never runs. `RestartsRun`
follows: a restart of a helm that runs finds a warning only in its own `BEHAVIORS`
or `NODE_SKEW` line. `DisabledStops` needs `Halted`: with no behavior file to trip
over, a primary is in `MALCONFIG` only if it was misconfigured from the start, and
one out of service has stopped the vehicle.

**HelmTakeoverProofs.** The clock ticks only when every helm has iterated, so the
primary posts its status between any two ticks. `Prompt` says what that gives a
standby helm: if the mail it is reading holds no heartbeat, the last one is at
most one tick old; and if nothing has arrived since either, the primary has still
to post in this tick. `InHand` keeps heartbeats from being lost: a helm's own
status is in its inbox once at most, so when it takes the place of the oldest
message of a full queue of two, another heartbeat is left (`MadeRoomKeeps`,
`PublishedHere`). `Saying` is why the primary does not yield: standby helms say
nothing but `STANDBY`. `Standing`, the property itself, needs all three. The other
direction, that a standby helm does take over, needs none of `WellPlanned`.
`checkForTakeOver` is at the end of `OnNewMail`, which is not called without mail:
what keeps a helm awake whose primary is gone is its *own* status, which comes
back to it (`Wakes`, with `Gone` and `Deaf`: the dead do nothing, and who has
registered for nothing hears nothing). `ComesCloser` then follows the steps of a
helm that is alone: nobody sends heartbeats, fetching takes the last ones out of
the inbox, reading makes them fewer, and once they are read `age` only rises,
until the end of `OnNewMail` can only be a takeover. If a late primary comes back
then, two helms drive. `YieldsSooner` says why that ends: each iteration of the
other puts a notice into the primary's inbox (`NoticeIn`: the last it says of
another helm is a status that makes it yield); the notice is not lost there,
although the queue may be full, since `HandInv` leaves room for one own status at
most and what remains of the other's is a notice, too (`NoticeKept`); nor when the
mail is fetched; and once read it ends the drive.

**CommClientProofs.** Type correctness includes that the sort in `Fetch` is well
defined: `SortedByTime` chooses the element with n - 1 predecessors, and
`RankIncreases` and `RankTaken` show by counting that every n has one. The other
theorems rest on two invariants: `Threads` says which values of flags, lock and
program counters occur together (the reader holds the lock exactly from `purge` to
`flag`; it is gone once it is joined; the writer disconnects only when the client
is closing, and is not connected when it is gone), and `Contents` what inbox and
subscriptions hold before Close and after each of its steps. Neither
`ClosedIsClean` nor `RegistrationsAgree` is inductive without them: what Close
leaves behind depends on where it caught the other two threads. With `ReaderAsked`
(when the reader's quit flag is up), `Threads` also gives `CloseCanGoOn`, and
`CloseApproaches`: the writer may finish a connection or go once more round its
outer loop, but does not connect again.

**CommClientMailProofs.** Mail goes from the queue ROS keeps for a variable to the
callback's hand, the inbox (newest first) and `OnNewMail`. `MailInv` holds until
`raced`. Each of these sequences is in order of time per variable (`Sequences`),
and so are any two of them (`Line`): all that was handed over is earlier than
what is in the inbox, that earlier than what is in a callback, that earlier than
what is at ROS. Without `Line` the order of what was handed over is not
inductive. `Gone`, `OneInHand` and `Complete` say that places do not overlap and
that each id is one message somewhere; `Latest` that the newest time stamp of a
variable bounds all others. That the two sorts preserve it is `SortedIs`: the
result has the same elements, in order, whatever the ranks of equal time stamps.
`MailIsAccounted` counts places from it. The refinement of `Mailbox` maps what
waits at ROS, in a hand or in the inbox to its `waiting`; a step of the client
arrives, delivers, queues or loses mail, or does nothing (`StepIsMailboxStep`).
`MailboxUntilRaced` says this of every configuration, up to the step at which two
threads change the inbox at once; `StepIsCalm` shows that this step does not occur
where the reader takes nothing out of the inbox, and gives `ClientIsMailbox`.

**CommPostProofs.** The invariant `PostInv` joins to the properties three facts.
`Holding`: a thread between its two steps under `m_OutLock` is the one that holds
it, its topic has a publisher, and its message is the newest of all. `Quiet`:
when Close has stopped the queues nobody is posting. `Unsent` splits
`UnsentInOrder` in queue, outbox, and one before the other, which is what
dropping the oldest and ditching half preserve (`Part`, `PartIncreases`).
`Bounded` needs `Quiet`: the terminate message comes on top of the limit, and
nothing is moved to the queue behind it. `PublishedInOrder` needs that id and
publication are one hold of the lock (`Newest`). On top of `PostInv`, `OnceInv`
says that each id is published on one topic and once, or is held inside the lock;
so what outbox and queue drop when they overflow was never lost, because ROS had
it before. `WaitInv` adds who may hold `m_OutLock` (`LockHeld`) and that whoever
left something in the outbox, `PostGlobal` apart, comes back to move it
(`MoverComes`).

**ActiveQueuesProofs.** Two invariants, one on top of the other. `QueueInv` says
who holds `ActiveQueuesLock_` (`Locking`: a thread that stops a queue, the
application while it closes, the reader while it scans) and what that protects
(`Serving`: only a queue that exists has a worker or mail, and what it was given
is what it has handled and what waits, followed by a terminate message only while
somebody stops it). That a push keeps this needs the lock, because nothing may
come behind the terminate message; that pulling keeps it are facts about sequences
(`MoreWaits`, `HeadIsHandled`, `TerminateIsLast`). From it follow
`WorkersHaveQueues` and `HandledInOrder`, for any number of threads. `RouteInv`
adds for a single user that routes, patterns and half-made steps are of queues
that exist (`Leading`), that wildcard queues have their routes (`Served`), both
but for the queues that are just being stopped, and that there is nothing to scan
once Close has emptied the inbox (`NothingToScan`): Close forgets routes but not
patterns, so a reader that still found a message would route it to a queue that is
gone. `MailInv` needs neither: inbox, fetched, queued and dropped mail are
`Apart`, and together they are `Complete`, one message for each id. It rests on
the bounds of the scan's position (type correctness), for the scan takes one
message out of the middle of an inbox that grows meanwhile (`TakenOut`).

**ActiveQueuesStopProofs.** `Stop` queues a terminate message, sets a flag and
joins, with `ActiveQueuesLock_` held, while the worker looks at the flag, waits
for an element and calls back in its own time. `StopInv` is `QueueInv` and four
facts: who holds the lock still has something to do with it (`LockInUse`); a flag
that is up is of the Stop that waits, not of an earlier life of the queue
(`FlagsAreRecent`); so the worker of a queue nobody stops has not ended
(`Manned`); and the worker of a queue that is being stopped has ended or will find
the terminate message (`Woken`), which is where nothing may come behind it. From
the same invariant follows what happens to a message in a queue that stays:
`StepsTo` counts the worker's steps until it has pulled the message, each of them
lowers it, and nobody else changes what is before the message (`QueueStep`). This
holds for callbacks that do not manage queues themselves: one that does waits for
the lock that its own Stop holds (the hazard at `MOOSCommClient.cpp:553`, which
the model leaves out).

**ContactLoopProofs.** The invariant `LoopInv` is `TypeOK`, `OneAtATime`,
`NamesTell` and `AlertedIsKnown` (a pair that is alerted is of a known contact and
a configured id). `OneAtATime` needs `NamesTell`, because a new alert spawns a
behavior only where there is none, and `AlertedIsKnown`, because a resolution
takes back an alert only if contact and id are known. `CountsAgree` is proved on
top of it, with a lemma that counts the ids of a row before and after. The
refinement maps each step of either application to a step of `AlertCycle` or to
none, per pair; `OnlyFaultsForget` looks at the same steps once more, for those
that end in `"forgotten"`. `ThreatsAdvance` counts the turns a pair is from a
behavior that guards (`Left`): while the contact is a threat and its alert is
neither guarded nor forgotten no step raises the count, and the turn of whose turn
it is (`Advances`) lowers it. A forgotten alert counts as zero turns left, since
none can be taken any more: so the theorem says of a fault only that it does not
send an alert back to an earlier turn, not that the behavior still comes;
`OnlyFaultsForget` says in which ways one is forgotten. `AwayUnloads` does the
same for what is left to clear away of a contact that is away (`Load`): alerts,
behaviors and resolutions; with no load the alert is released, or forgotten.

| Theorem | States |
|---|---|
| `HelmProofs!TypeCorrect` | `TypeOK` |
| `HelmProofs!AllStopSound` | `AllStopMeansZero` |
| `HelmProofs!GraceIsShort` | `GraceIsOneIteration` |
| `HelmProofs!ParkingStops` | `ParkedIsStopped` |
| `HelmProofs!DisabledForGood` | `DisabledIsFinal` |
| `HelmProofs!DisabledStops` | `DisabledIsStopped` |
| `HelmProofs!RestartsRun` | `RestartedHelmRuns`, where no helm that starts has a `BEHAVIORS` (or `NODE_SKEW`) line |
| `HelmTakeoverProofs!NoTakeoverInTime` | `NoNeedlessTakeover` |
| `HelmTakeoverProofs!StandbyWakes` | `Wakes`: a standby helm that has heard a heartbeat always finds mail |
| `HelmTakeoverProofs!TakeoverComesCloser` | `TakeoverApproaches`: core of `StandbyTakesOver` |
| `HelmTakeoverProofs!YieldComesCloser` | `YieldApproaches`: core of `OneHelmYields`, in a mission of two helms |
| `CommClientProofs!TypeCorrect` | `TypeOK` |
| `CommClientProofs!RegistrationsSound` | `RegistrationsAgree` |
| `CommClientProofs!MailPresentIsSound` | `MailPresentSound` |
| `CommClientProofs!CloseIsClean` | `ClosedIsClean` |
| `CommClientProofs!CloseWaitsForTheLiving` | `CloseCanGoOn`: core of `CloseReturnsEventually` |
| `CommClientProofs!CloseComesCloser` | `CloseApproaches`: core of `CloseReturnsEventually` |
| `CommClientMailProofs!MailIsInOrder` | `MailInTimeOrder` |
| `CommClientMailProofs!MailIsAccounted` | `Accounted` |
| `CommClientMailProofs!MailboxUntilRaced` | initial states and steps of `Mailbox`, until `raced` |
| `CommClientMailProofs!ClientIsMailbox` | the safety part of `Implements` |
| `CommPostProofs!TypeCorrect` | `TypeOK` |
| `CommPostProofs!PublishingIsOrdered` | `PublishedInOrder` |
| `CommPostProofs!UnsentIsOrdered` | `UnsentInOrder` |
| `CommPostProofs!BoxesAreBounded` | `Bounded` |
| `CommPostProofs!PublishersAreThere` | `PostNeverThrows` |
| `CommPostProofs!EveryPostGoesOutOnce` | every message is published once, on one topic, or is inside the lock |
| `CommPostProofs!LockIsNotLeaked` | `LockMoves`: who holds `m_OutLock` goes on |
| `CommPostProofs!WaitsForAWorker` | `WaitIsForAWorker`: core of `WaitReturns` |
| `CommPostProofs!CloseWaitsForTheLiving` | `CloseCanGoOn`: core of `CloseReturnsEventually` |
| `CommPostProofs!CloseComesCloser` | `CloseApproaches`: core of `CloseReturnsEventually` |
| `ActiveQueuesProofs!TypeCorrect` | `TypeOK` |
| `ActiveQueuesProofs!WorkersHaveQueues` | `NoWorkerWithoutQueue` |
| `ActiveQueuesProofs!HandledInOrder` | `EachOnceInOrder` |
| `ActiveQueuesProofs!MailIsAccounted` | `Accounted` |
| `ActiveQueuesProofs!RoutesAreSound` | `RoutesLeadToQueues` |
| `ActiveQueuesProofs!WildcardsAreServed` | `WildcardsServed` |
| `ActiveQueuesStopProofs!NoLostTerminate` | `TerminateArrives`: no wake-up of a worker is lost |
| `ActiveQueuesStopProofs!WorkersStay` | `QueuesManned`: no worker ends before its queue |
| `ActiveQueuesStopProofs!NobodyWaitsInVain` | `LockMoves`: `ActiveQueuesLock_` is never leaked |
| `ActiveQueuesStopProofs!StopComesCloser` | `StoppingApproaches`: core of `StoppingEnds` |
| `ActiveQueuesStopProofs!PushedComesCloser` | `QueuesServed`, `PushedAdvances`: core of `PushedIsHandled` |
| `ContactLoopProofs!TypeCorrect` | `TypeOK` |
| `ContactLoopProofs!AlertsAreSingle` | `OneAtATime` |
| `ContactLoopProofs!NamesAreTrue` | `NamesTell` |
| `ContactLoopProofs!CountsAreRight` | `CountsAgree` |
| `ContactLoopProofs!LoopImplementsCycle` | `ImplementsCycle` |
| `ContactLoopProofs!OnlyFaults` | `OnlyFaultsForget` |
| `ContactLoopProofs!ThreatsAdvance` | `ThreatAdvances`: core of `ThreatIsGuarded` |
| `ContactLoopProofs!AwayUnloads` | `AwayAdvances`, `UnloadedIsReleased`: core of `AwayIsReleased` |

**Only model-checked:** liveness (the fairness in `Implements`,
`CloseReturnsEventually`, `WaitReturns`, `StoppingEnds`, `PushedIsHandled`,
`StandbyTakesOver`, `OneHelmYields`, `ThreatIsGuarded`, `AwayIsReleased`), which
is beyond the prover; of each the safety core is proved, as said above (of
`Implements` its safety part, `ClientIsMailbox`). `RoutedMailIsQueued`,
`InBoxIsGuarded` and `WantedIsRegistered` are false, and no theorem says when they
are not. That a misconfigured helm behaves is covered by the theorems, whose
`Misconfigured` is any set; the runs have none that is wrong from the start. The
same goes for nameless ids, of which `contact_loop` has none.

## 5. What is left out, and the plan

Left out of the modelled parts: running a client again after Close, the
deprecated and the template interfaces, the mail callback, time correction (its
messages no longer exist), wildcard registration, `ExpectOutboxOverflow`, server
requests, command line and configuration parsing, journalling and application
casting. Of the contact loop: numerical ranges and extrapolation (zones, freely
chosen), updates of behavior parameters, templates of type clone or with several
update variables, names that templates with a prefix share, a queue of alerts
that overflows, names and ids not in lower case.

Next, in this order:

1. `DeadMan`: heartbeats, the arming time and the posting policies of
   `pDeadManPost`.
2. A composition of client and active queues over one inbox, with the purge, and
   a client that is run again after Close (patterns and a terminate message that
   were left behind).
3. Timer scripts (`uTimerScript`): position, pauses, resets and forwarding; then
   the hand-over of control between helm and `pMarinePID`.
4. Node brokers (`uFldNodeBroker`, `uFldShoreBroker`): pings and routes.

Not planned: solver, control laws and simulators (reals), MOOSDB and its servers
(not started in this fork), launcher, viewers and log tools.
