------------------------- MODULE ActiveQueuesProofs -------------------------
(***************************************************************************)
(* What holds of ActiveQueues for all queues, variables, users and bounds. *)
(***************************************************************************)
EXTENDS ActiveQueues, SequenceTheorems, FiniteSetTheorems, TLAPS

-----------------------------------------------------------------------------
(***************************************************************************)
(* What a user is doing.                                                   *)
(***************************************************************************)
LEMMA StepFields ==
    ASSUME NEW s \in UserSteps
    PROVE  /\ s.at = "wildcard" => s.queue \in Queues /\ s.keys \in Patterns
           /\ s.at \in {"addRoute", "makeQueue", "askQueue", "eraseRoute"} =>
                 s.queue \in Queues /\ s.key \in Keys
           /\ s.at \in {"quit", "join"} =>
                 s.queue \in Queues /\ s.closing \in BOOLEAN
BY DEF UserSteps, Ready

LEMMA StepForms ==
    /\ Ready \in UserSteps /\ Ready.at = "ready"
    /\ \A at \in {"fetch", "closeLock", "closeQueues", "closed"} :
          [at |-> at] \in UserSteps
    /\ \A q \in Queues, p \in Patterns :
          [at |-> "wildcard", queue |-> q, keys |-> p] \in UserSteps
    /\ \A at \in {"addRoute", "makeQueue", "askQueue", "eraseRoute"},
          q \in Queues, k \in Keys :
          [at |-> at, queue |-> q, key |-> k] \in UserSteps
    /\ \A at \in {"quit", "join"}, q \in Queues, c \in BOOLEAN :
          [at |-> at, queue |-> q, closing |-> c] \in UserSteps
BY DEF UserSteps, Ready

(* A step of several goes on to the next with queue and variable the same. *)
LEMMA StepGoesOn ==
    ASSUME NEW s \in UserSteps, NEW next
    PROVE  LET t == [s EXCEPT !.at = next] IN
           /\ s.at = "quit" /\ next = "join" =>
                 t \in UserSteps /\ t.at = next
                   /\ t.queue = s.queue /\ t.closing = s.closing
           /\ s.at \in {"makeQueue", "askQueue"} /\ next \in {"askQueue", "addRoute"} =>
                 t \in UserSteps /\ t.at = next
                   /\ t.queue = s.queue /\ t.key = s.key
<1>1. ASSUME s.at = "quit", next = "join"
      PROVE  [s EXCEPT !.at = next] =
             [at |-> next, queue |-> s.queue, closing |-> s.closing]
  BY <1>1 DEF UserSteps, Ready
<1>2. ASSUME s.at \in {"makeQueue", "askQueue"}
      PROVE  [s EXCEPT !.at = next] =
             [at |-> next, queue |-> s.queue, key |-> s.key]
  BY <1>2 DEF UserSteps, Ready
<1> QED
  BY <1>1, <1>2, StepFields, StepForms

-----------------------------------------------------------------------------
(***************************************************************************)
(* A sequence without its p-th element.                                    *)
(***************************************************************************)
Without(s, p) == SubSeq(s, 1, p - 1) \o SubSeq(s, p + 1, Len(s))

LEMMA WithoutIs ==
    ASSUME NEW S, NEW s \in Seq(S), NEW p \in 1..Len(s)
    PROVE  /\ Without(s, p) \in Seq(S) /\ Len(Without(s, p)) = Len(s) - 1
           /\ \A i \in 1..(Len(s) - 1) :
                 Without(s, p)[i] = IF i < p THEN s[i] ELSE s[i + 1]
<1>1. PICK n \in Nat : n = Len(s) /\ p \in 1..n /\ \A i \in 1..n : s[i] \in S
  BY LenProperties, ElementOfSeq
<1> DEFINE f == SubSeq(s, 1, p - 1)
           b == SubSeq(s, p + 1, n)
           r == f \o b
<1>2. /\ f \in Seq(S) /\ Len(f) = p - 1
      /\ \A i \in 1..(p - 1) : f[i] = s[i]
  <2>1. /\ 1 \in Int /\ p - 1 \in Int
        /\ \A i \in 1..(p - 1) : s[i] \in S
    BY <1>1
  <2>2. /\ f \in Seq(S)
        /\ Len(f) = IF 1 <= p - 1 THEN (p - 1) - 1 + 1 ELSE 0
        /\ \A i \in 1..((p - 1) - 1 + 1) : f[i] = s[1 + i - 1]
    BY <2>1, SubSeqProperties
  <2> HIDE DEF f
  <2> QED
    BY <1>1, <2>2
<1>3. /\ b \in Seq(S) /\ Len(b) = n - p
      /\ \A i \in 1..(n - p) : b[i] = s[p + i]
  <2>1. /\ p + 1 \in Int /\ n \in Int
        /\ \A i \in (p + 1)..n : s[i] \in S
    BY <1>1
  <2>2. /\ b \in Seq(S)
        /\ Len(b) = IF p + 1 <= n THEN n - (p + 1) + 1 ELSE 0
        /\ \A i \in 1..(n - (p + 1) + 1) : b[i] = s[(p + 1) + i - 1]
    BY <2>1, SubSeqProperties
  <2> HIDE DEF b
  <2>3. Len(b) = n - p /\ \A i \in 1..(n - p) : i \in 1..(n - (p + 1) + 1)
    BY <1>1, <2>2
  <2>4. \A i \in 1..(n - p) : (p + 1) + i - 1 = p + i
    BY <1>1
  <2> QED
    BY <2>2, <2>3, <2>4
<1>4. /\ Without(s, p) = r /\ r \in Seq(S) /\ Len(r) = Len(f) + Len(b)
      /\ \A i \in 1..(Len(f) + Len(b)) :
             r[i] = IF i <= Len(f) THEN f[i] ELSE b[i - Len(f)]
  <2>1. Without(s, p) = r
    BY <1>1 DEF Without
  <2>2. f \in Seq(S) /\ b \in Seq(S)
    BY <1>2, <1>3
  <2> HIDE DEF f, b
  <2>3. /\ f \o b \in Seq(S) /\ Len(f \o b) = Len(f) + Len(b)
        /\ \A i \in 1..(Len(f) + Len(b)) :
               (f \o b)[i] = IF i <= Len(f) THEN f[i] ELSE b[i - Len(f)]
    BY <2>2, ConcatProperties
  <2> QED
    BY <2>1, <2>3
<1> HIDE DEF f, b, r
<1>5. Len(r) = n - 1
  BY <1>1, <1>2, <1>3, <1>4
<1>6. ASSUME NEW i \in 1..(n - 1)
      PROVE  r[i] = IF i < p THEN s[i] ELSE s[i + 1]
  <2>1. CASE i < p
    BY <1>1, <1>2, <1>3, <1>4, <2>1
  <2>2. CASE i >= p
    <3>1. i - (p - 1) \in 1..(n - p) /\ p + (i - (p - 1)) = i + 1
      BY <1>1, <2>2
    <3>2. r[i] = b[i - (p - 1)]
      BY <1>1, <1>2, <1>3, <1>4, <2>2
    <3>3. b[i - (p - 1)] = s[i + 1]
      BY <1>3, <3>1
    <3> QED
      BY <1>1, <2>2, <3>2, <3>3
  <2> QED
    BY <1>1, <2>1, <2>2
<1> QED
  BY <1>1, <1>4, <1>5, <1>6

-----------------------------------------------------------------------------
(***************************************************************************)
(* Types.                                                                  *)
(***************************************************************************)
\* The scan stays within the inbox.
InBoxBounds ==
    /\ Len(inBox) <= received
    /\ readerPc = "scan" => todo <= Len(inBox)

Typed == TypeOK /\ InBoxBounds

LEMMA InitTyped == Init => Typed
<1> SUFFICES ASSUME Init PROVE Typed
  OBVIOUS
<1>1. \A S : <<>> \in Seq(S) /\ Len(<<>>) = 0
  BY EmptySeq
<1>2. user \in [Users -> UserSteps]
  BY StepForms DEF Init
<1>3. /\ backlog \in [Queues -> Seq(Message \cup {Terminate})]
      /\ pushed \in [Queues -> Seq(Message)]
      /\ started \in [Queues -> Seq(Message)] /\ inBox \in Seq(Message)
  BY <1>1 DEF Init
<1>4. /\ exists = {} /\ mapped = {} /\ seen = {} /\ mail = {}
      /\ queued = {} /\ dropped = {} /\ erased = {}
      /\ pattern \in [Queues -> Patterns \cup {{}}]
      /\ route \in [Keys -> SUBSET Queues]
      /\ worker \in [Queues -> {"check", "pull", "call", "done"}]
      /\ quitFlag \in [Queues -> BOOLEAN]
  BY DEF Init
<1>5. todo \in 0..MaxMsgs /\ received \in 0..MaxMsgs
  BY QueuesAssumption DEF Init
<1>6. TypeOK
  BY <1>2, <1>3, <1>4, <1>5 DEF Init, TypeOK
<1> QED
  BY <1>1, <1>6 DEF Init, Typed, InBoxBounds

\* The message looked at is one of the inbox, and can be taken out of it.
LEMMA ScannedIsMail ==
    ASSUME Typed, readerPc = "scan", todo > 0
    PROVE  /\ Position \in 1..Len(inBox) /\ Scanned \in Message
           /\ Without(inBox, Position) \in Seq(Message)
           /\ Len(Without(inBox, Position)) = Len(inBox) - 1
<1>1. Position \in 1..Len(inBox)
  BY LenProperties DEF Typed, TypeOK, InBoxBounds, Position
<1>2. Scanned \in Message
  BY <1>1, ElementOfSeq DEF Scanned, Typed, TypeOK
<1> QED
  BY <1>1, <1>2, WithoutIs DEF Typed, TypeOK

LEMMA ElementsTyped ==
    ASSUME NEW S, NEW s \in Seq(S)
    PROVE  Elements(s) \subseteq S
BY ElementOfSeq, LenProperties DEF Elements

LEMMA CreateTyped ==
    ASSUME Typed, NEW q \in Queues, CreateQueue(q)
    PROVE  /\ exists' \subseteq Queues
           /\ worker' \in [Queues -> {"check", "pull", "call", "done"}]
           /\ UNCHANGED <<quitFlag, backlog, pushed, started>>
BY DEF Typed, TypeOK, CreateQueue, HasActiveQueue, workVars

LEMMA TerminateTyped ==
    ASSUME Typed, NEW q \in Queues, PushTerminate(q)
    PROVE  backlog' \in [Queues -> Seq(Message \cup {Terminate})]
<1>1. Append(backlog[q], Terminate) \in Seq(Message \cup {Terminate})
  BY AppendProperties DEF Typed, TypeOK
<1> QED
  BY <1>1 DEF Typed, TypeOK, PushTerminate

LEMMA UserTyped ==
    ASSUME Typed, NEW u \in Users, NEW s \in UserSteps, Goto(u, s)
    PROVE  user' \in [Users -> UserSteps]
BY DEF Typed, TypeOK, Goto

(* A step that leaves the mail and the reader alone.                       *)
LEMMA MailAlone ==
    ASSUME Typed, TypeOK', UNCHANGED <<inBox, received, readerVars>>
    PROVE  Typed'
BY DEF Typed, InBoxBounds, readerVars

LEMMA ApplicationTyped ==
    ASSUME Typed, \/ \E k \in Keys : Arrive(k)
                  \/ FetchLooks \/ CloseClears
    PROVE  Typed'
<1> USE DEF Typed
<1>1. Elements(inBox) \subseteq Message /\ Len(inBox) \in Nat
  BY ElementsTyped, LenProperties DEF TypeOK
<1>2. ASSUME NEW k \in Keys, Arrive(k) PROVE Typed'
  <2>1. received + 1 \in 1..MaxMsgs /\ received \in Nat
    BY <1>2, QueuesAssumption DEF Arrive, TypeOK
  <2> DEFINE m == [id |-> received + 1, key |-> k]
  <2>2. m \in Message
    BY <2>1 DEF Message
  <2>3. <<m>> \in Seq(Message) /\ Len(<<m>>) = 1
    <3> HIDE DEF m
    <3> QED
      BY <2>2
  <2>4. inBox' = <<m>> \o inBox
    BY <1>2 DEF Arrive
  <2> HIDE DEF m
  <2>5. inBox' \in Seq(Message) /\ Len(inBox') = Len(inBox) + 1
    BY <1>1, <2>3, <2>4, ConcatProperties DEF TypeOK
  <2>6. received' \in 0..MaxMsgs /\ received' = received + 1
    BY <1>2, <2>1 DEF Arrive
  <2>7. TypeOK'
    BY <1>2, <2>5, <2>6
       DEF Arrive, TypeOK, mapVars, workVars, readerVars
  <2>8. readerPc' = readerPc /\ todo' = todo /\ todo \in Nat
    BY <1>2 DEF Arrive, readerVars, TypeOK
  <2> QED
    BY <1>1, <2>1, <2>5, <2>6, <2>7, <2>8 DEF InBoxBounds
<1>3. ASSUME FetchLooks PROVE Typed'
  <2>1. user' \in [Users -> UserSteps]
    BY <1>3, StepForms DEF FetchLooks, TypeOK
  <2> QED
    BY <1>3, <2>1
       DEF FetchLooks, TypeOK, InBoxBounds, mapVars, workVars, boxVars, readerVars
<1>4. ASSUME CloseClears PROVE Typed'
  <2>1. user' \in [Users -> UserSteps]
    BY <1>4, StepForms, QueuesAssumption, UserTyped DEF CloseClears
  <2>2. inBox' \in Seq(Message) /\ Len(inBox') = 0
    BY <1>4, EmptySeq DEF CloseClears
  <2>3. dropped' \subseteq Message
    BY <1>1, <1>4 DEF CloseClears, TypeOK
  <2>4. TypeOK'
    BY <1>4, <2>1, <2>2, <2>3
       DEF CloseClears, TypeOK, mapVars, workVars, readerVars
  <2> QED
    BY <1>4, <2>2, <2>4 DEF CloseClears, InBoxBounds, TypeOK, readerVars
<1> QED
  BY <1>2, <1>3, <1>4

LEMMA BeginTyped ==
    ASSUME Typed, NEW u \in Users, Begin(u)
    PROVE  Typed'
<1> USE DEF Typed
<1>1. ASSUME NEW q \in Queues, AddActiveQueue(u, q) PROVE Typed'
  <2>1. TypeOK'
    BY <1>1, CreateTyped DEF AddActiveQueue, TypeOK, boxVars, readerVars
  <2> QED
    BY <1>1, <2>1, MailAlone DEF AddActiveQueue, boxVars
<1>2. ASSUME NEW q \in Queues, NEW p \in Patterns, AddWildcardActiveQueue(u, q, p)
      PROVE  Typed'
  <2>1. user' \in [Users -> UserSteps]
    BY <1>2, StepForms, UserTyped DEF AddWildcardActiveQueue
  <2>2. TypeOK'
    BY <1>2, <2>1, CreateTyped DEF AddWildcardActiveQueue, TypeOK, boxVars, readerVars
  <2> QED
    BY <1>2, <2>2, MailAlone DEF AddWildcardActiveQueue, boxVars
<1>3. ASSUME NEW q \in Queues, NEW k \in Keys, NEW cb \in BOOLEAN,
             AddMessageRoute(u, q, k, cb)
      PROVE  Typed'
  <2>1. user' \in [Users -> UserSteps]
    BY <1>3, StepForms, UserTyped DEF AddMessageRoute
  <2>2. TypeOK'
    BY <1>3, <2>1
       DEF AddMessageRoute, TypeOK, mapVars, workVars, boxVars, readerVars
  <2> QED
    BY <1>3, <2>2, MailAlone DEF AddMessageRoute, boxVars
<1>4. ASSUME NEW q \in Queues, NEW k \in Keys, RemoveMessageRoute(u, q, k)
      PROVE  Typed'
  <2>1. user' \in [Users -> UserSteps]
    BY <1>4, StepForms, UserTyped DEF RemoveMessageRoute
  <2>2. TypeOK'
    BY <1>4, <2>1
       DEF RemoveMessageRoute, TypeOK, mapVars, workVars, boxVars, readerVars
  <2> QED
    BY <1>4, <2>2, MailAlone DEF RemoveMessageRoute, boxVars
<1>5. ASSUME NEW q \in Queues, RemoveActiveQueue(u, q) PROVE Typed'
  <2>1. user' \in [Users -> UserSteps]
    BY <1>5, StepForms, UserTyped DEF RemoveActiveQueue, TypeOK
  <2>2. backlog' \in [Queues -> Seq(Message \cup {Terminate})]
    BY <1>5, TerminateTyped DEF RemoveActiveQueue, TypeOK
  <2>3. route' \in [Keys -> SUBSET Queues]
    BY <1>5 DEF RemoveActiveQueue, TypeOK
  <2>4. lock' \in Users \cup {"free", "reader"}
    BY <1>5 DEF RemoveActiveQueue, TypeOK
  <2>5. TypeOK'
    BY <1>5, <2>1, <2>2, <2>3, <2>4 DEF RemoveActiveQueue, TypeOK, boxVars, readerVars
  <2> QED
    BY <1>5, <2>5, MailAlone DEF RemoveActiveQueue, boxVars
<1> QED
  BY <1>1, <1>2, <1>3, <1>4, <1>5 DEF Begin

LEMMA ContinueTyped ==
    ASSUME Typed, NEW u \in Users, Continue(u)
    PROVE  Typed'
<1> USE DEF Typed
<1>0. user[u] \in UserSteps /\ App \in Users
  BY QueuesAssumption DEF TypeOK
<1>1. ASSUME SetWildcard(u) PROVE Typed'
  <2>1. user' \in [Users -> UserSteps]
    BY <1>1, StepForms, UserTyped DEF SetWildcard
  <2>2. user[u].queue \in Queues /\ user[u].keys \in Patterns
    BY <1>0, <1>1, StepFields DEF SetWildcard
  <2>3. /\ pattern' \in [Queues -> Patterns \cup {{}}]
        /\ mapped' \subseteq Keys /\ route' \in [Keys -> SUBSET Queues]
    BY <1>1, <2>2 DEF SetWildcard, TypeOK
  <2>4. TypeOK'
    BY <1>1, <2>1, <2>3 DEF SetWildcard, TypeOK, workVars, boxVars, readerVars
  <2> QED
    BY <1>1, <2>4, MailAlone DEF SetWildcard, boxVars
<1>2. ASSUME MakeQueue(u) PROVE Typed'
  <2>1. /\ user[u].queue \in Queues
        /\ [user[u] EXCEPT !.at = "askQueue"] \in UserSteps
    BY <1>0, <1>2, StepFields, StepGoesOn DEF MakeQueue
  <2>2. user' \in [Users -> UserSteps]
    BY <1>2, <2>1, UserTyped DEF MakeQueue
  <2>3. TypeOK'
    BY <1>2, <2>1, <2>2, CreateTyped DEF MakeQueue, TypeOK, boxVars, readerVars
  <2> QED
    BY <1>2, <2>3, MailAlone DEF MakeQueue, boxVars
<1>3. ASSUME AskQueue(u) PROVE Typed'
  <2>1. [user[u] EXCEPT !.at = "addRoute"] \in UserSteps
    BY <1>0, <1>3, StepGoesOn DEF AskQueue
  <2>2. user' \in [Users -> UserSteps]
    BY <1>3, <2>1, StepForms DEF AskQueue, Goto, TypeOK
  <2>3. TypeOK'
    BY <1>3, <2>2 DEF AskQueue, TypeOK, mapVars, workVars, boxVars, readerVars
  <2> QED
    BY <1>3, <2>3, MailAlone DEF AskQueue, boxVars
<1>4. ASSUME AddRoute(u) PROVE Typed'
  <2>1. user[u].queue \in Queues /\ user[u].key \in Keys
    BY <1>0, <1>4, StepFields DEF AddRoute
  <2>2. user' \in [Users -> UserSteps]
    BY <1>4, StepForms, UserTyped DEF AddRoute
  <2>3. route' \in [Keys -> SUBSET Queues] /\ mapped' \subseteq Keys
    BY <1>4, <2>1 DEF AddRoute, TypeOK
  <2>4. TypeOK'
    BY <1>4, <2>2, <2>3 DEF AddRoute, TypeOK, workVars, boxVars, readerVars
  <2> QED
    BY <1>4, <2>4, MailAlone DEF AddRoute, boxVars
<1>5. ASSUME EraseRoute(u) PROVE Typed'
  <2>1. user[u].key \in Keys
    BY <1>0, <1>5, StepFields DEF EraseRoute
  <2>2. user' \in [Users -> UserSteps]
    BY <1>5, StepForms, UserTyped DEF EraseRoute
  <2>3. /\ route' \in [Keys -> SUBSET Queues] /\ mapped' \subseteq Keys
        /\ erased' \subseteq Keys
    BY <1>5, <2>1 DEF EraseRoute, TypeOK
  <2>4. TypeOK'
    BY <1>5, <2>2, <2>3 DEF EraseRoute, TypeOK, workVars, boxVars, readerVars
  <2> QED
    BY <1>5, <2>4, MailAlone DEF EraseRoute, boxVars
<1>6. ASSUME SetQuitFlag(u) PROVE Typed'
  <2>1. /\ user[u].queue \in Queues
        /\ [user[u] EXCEPT !.at = "join"] \in UserSteps
    BY <1>0, <1>6, StepFields, StepGoesOn DEF SetQuitFlag
  <2>2. user' \in [Users -> UserSteps]
    BY <1>6, <2>1, UserTyped DEF SetQuitFlag
  <2>3. TypeOK'
    BY <1>6, <2>1, <2>2 DEF SetQuitFlag, TypeOK, mapVars, boxVars, readerVars
  <2> QED
    BY <1>6, <2>3, MailAlone DEF SetQuitFlag, boxVars
<1>7. ASSUME Joined(u) PROVE Typed'
  <2>1. user[u].queue \in Queues
    BY <1>0, <1>7, StepFields DEF Joined
  <2>2. user' \in [Users -> UserSteps]
    BY <1>7, StepForms, UserTyped DEF Joined
  <2>3. \A S : <<>> \in Seq(S)
    BY EmptySeq
  <2>4. /\ quitFlag' \in [Queues -> BOOLEAN]
        /\ backlog' \in [Queues -> Seq(Message \cup {Terminate})]
        /\ pushed' \in [Queues -> Seq(Message)]
        /\ started' \in [Queues -> Seq(Message)]
    BY <1>7, <2>3 DEF Joined, TypeOK
  <2>5. /\ pattern' \in [Queues -> Patterns \cup {{}}]
        /\ lock' \in Users \cup {"free", "reader"} /\ exists' \subseteq Queues
    BY <1>7 DEF Joined, TypeOK
  <2>6. TypeOK'
    BY <1>7, <2>2, <2>4, <2>5 DEF Joined, TypeOK, boxVars, readerVars
  <2> QED
    BY <1>7, <2>6, MailAlone DEF Joined, boxVars
<1>8. ASSUME Fetch PROVE Typed'
  <2>1. user' \in [Users -> UserSteps]
    BY <1>0, <1>8, StepForms DEF Fetch, TypeOK
  <2>2. inBox' \in Seq(Message) /\ Len(inBox') = 0
    BY <1>8, EmptySeq DEF Fetch
  <2>3. mail' \subseteq Message
    BY <1>8, ElementsTyped DEF Fetch, TypeOK
  <2>4. TypeOK'
    BY <1>8, <2>1, <2>2, <2>3 DEF Fetch, TypeOK, mapVars, workVars, readerVars
  <2> QED
    BY <1>8, <2>2, <2>4 DEF Fetch, InBoxBounds, TypeOK, readerVars
<1>9. ASSUME CloseLocks PROVE Typed'
  <2>1. user' \in [Users -> UserSteps]
    BY <1>0, <1>9, StepForms, UserTyped DEF CloseLocks
  <2>2. TypeOK'
    BY <1>0, <1>9, <2>1
       DEF CloseLocks, TypeOK, mapVars, workVars, boxVars, readerVars
  <2> QED
    BY <1>9, <2>2, MailAlone DEF CloseLocks, boxVars
<1>10. ASSUME CloseForgets PROVE Typed'
  <2>1. user' \in [Users -> UserSteps]
    BY <1>0, <1>10, StepForms, UserTyped DEF CloseForgets
  <2>2. route' \in [Keys -> SUBSET Queues]
    BY <1>10 DEF CloseForgets
  <2>3. TypeOK'
    BY <1>10, <2>1, <2>2 DEF CloseForgets, TypeOK, workVars, boxVars, readerVars
  <2> QED
    BY <1>10, <2>3, MailAlone DEF CloseForgets, boxVars
<1>11. ASSUME NEW q \in Queues, CloseStopsQueue(q) PROVE Typed'
  <2>1. user' \in [Users -> UserSteps]
    BY <1>0, <1>11, StepForms, UserTyped DEF CloseStopsQueue
  <2>2. backlog' \in [Queues -> Seq(Message \cup {Terminate})]
    BY <1>11, TerminateTyped DEF CloseStopsQueue
  <2>3. TypeOK'
    BY <1>11, <2>1, <2>2 DEF CloseStopsQueue, TypeOK, mapVars, boxVars, readerVars
  <2> QED
    BY <1>11, <2>3, MailAlone DEF CloseStopsQueue, boxVars
<1> QED
  BY <1>1, <1>2, <1>3, <1>4, <1>5, <1>6, <1>7, <1>8, <1>9, <1>10, <1>11 DEF Continue

LEMMA ReaderTyped ==
    ASSUME Typed, Reader
    PROVE  Typed'
<1> USE DEF Typed
<1>1. ASSUME ReaderLocksInBox PROVE Typed'
  BY <1>1 DEF ReaderLocksInBox, TypeOK, InBoxBounds, mapVars, workVars, boxVars
<1>2. ASSUME DispatchBegins PROVE Typed'
  <2>1. Len(inBox) \in 0..MaxMsgs
    BY LenProperties, QueuesAssumption DEF TypeOK, InBoxBounds
  <2>2. TypeOK'
    BY <1>2, <2>1 DEF DispatchBegins, TypeOK, mapVars, workVars, boxVars
  <2> QED
    BY <1>2, <2>1, <2>2 DEF DispatchBegins, InBoxBounds, boxVars
<1>3. ASSUME ShowToWildcards PROVE Typed'
  <2>1. Scanned.key \in Keys
    BY <1>3, ScannedIsMail DEF ShowToWildcards, Message
  <2>2. /\ seen' \subseteq Keys /\ mapped' \subseteq Keys
        /\ route' \in [Keys -> SUBSET Queues]
    <3> DEFINE k == Scanned.key
               wanting == {q \in Queues : k \in pattern[q]}
    <3>1. /\ seen' = seen \cup {k} /\ k \in Keys
          /\ mapped' \in {mapped, mapped \cup {k}}
          /\ route' \in {route, [route EXCEPT ![k] = @ \cup wanting]}
      BY <1>3, <2>1 DEF ShowToWildcards
    <3>2. wanting \subseteq Queues
      OBVIOUS
    <3> HIDE DEF k, wanting
    <3> QED
      BY <3>1, <3>2 DEF TypeOK
  <2>3. /\ lock' \in Users \cup {"free", "reader"}
        /\ readerPc' \in {"idle", "lock", "scan", "flag"}
    BY <1>3 DEF ShowToWildcards, DispatchReturns, TypeOK
  <2>4. TypeOK'
    BY <1>3, <2>2, <2>3 DEF ShowToWildcards, TypeOK, workVars, boxVars
  <2> QED
    BY <1>3, <2>4 DEF ShowToWildcards, InBoxBounds, boxVars
<1>4. ASSUME PushToQueues PROVE Typed'
  <2> DEFINE m == Scanned
             rest == Without(inBox, Position)
  <2>1. /\ m \in Message
        /\ rest \in Seq(Message) /\ Len(rest) = Len(inBox) - 1
    BY <1>4, ScannedIsMail DEF PushToQueues
  <2>2. /\ backlog' = [q \in Queues |-> IF q \in route[m.key]
                                        THEN Append(backlog[q], m) ELSE backlog[q]]
        /\ pushed' = [q \in Queues |-> IF q \in route[m.key]
                                       THEN Append(pushed[q], m) ELSE pushed[q]]
        /\ \/ UNCHANGED <<inBox, queued>>
           \/ inBox' = rest /\ queued' = queued \cup {m}
        /\ todo' = todo - 1 /\ readerPc = "scan" /\ todo > 0
        /\ UNCHANGED <<mapVars, worker, quitFlag, started, mailPresent, received,
                       mail, dropped, readerPc, lock, user, died>>
    BY <1>4 DEF PushToQueues, Without
  <2> HIDE DEF m, rest
  <2>3. \A q \in Queues : /\ Append(backlog[q], m) \in Seq(Message \cup {Terminate})
                          /\ Append(pushed[q], m) \in Seq(Message)
    BY <2>1, AppendProperties DEF TypeOK
  <2>4. /\ backlog' \in [Queues -> Seq(Message \cup {Terminate})]
        /\ pushed' \in [Queues -> Seq(Message)]
    BY <2>2, <2>3 DEF TypeOK
  <2>5. /\ todo' \in 0..MaxMsgs /\ queued' \subseteq Message
        /\ inBox' \in Seq(Message)
    <3>1. todo' \in 0..MaxMsgs
      BY <2>2, QueuesAssumption DEF TypeOK
    <3> QED
      BY <2>1, <2>2, <3>1 DEF TypeOK
  <2>6. TypeOK'
    BY <2>2, <2>4, <2>5 DEF TypeOK, mapVars
  <2>7. Len(inBox) \in Nat /\ todo \in Nat /\ received \in Nat
    BY LenProperties DEF TypeOK
  <2> QED
    BY <2>1, <2>2, <2>6, <2>7 DEF InBoxBounds
<1>5. ASSUME QueueNotFound PROVE Typed'
  BY <1>5 DEF QueueNotFound, TypeOK, InBoxBounds, mapVars, workVars, boxVars, readerVars
<1>6. ASSUME ScanEnds PROVE Typed'
  BY <1>6 DEF ScanEnds, DispatchReturns, TypeOK, InBoxBounds, mapVars, workVars, boxVars
<1>7. ASSUME ReaderSetsFlag PROVE Typed'
  BY <1>7, QueuesAssumption DEF ReaderSetsFlag, TypeOK, InBoxBounds, mapVars, workVars
<1> QED
  BY <1>1, <1>2, <1>3, <1>4, <1>5, <1>6, <1>7 DEF Reader

LEMMA WorkerTyped ==
    ASSUME Typed, NEW q \in Queues, Worker(q)
    PROVE  Typed'
<1> USE DEF Typed
<1>1. ASSUME CheckQuit(q) PROVE Typed'
  BY <1>1 DEF CheckQuit, TypeOK, InBoxBounds, mapVars, boxVars, readerVars
<1>2. ASSUME Pull(q) PROVE Typed'
  <2>1. /\ Head(backlog[q]) \in Message \cup {Terminate}
        /\ Tail(backlog[q]) \in Seq(Message \cup {Terminate})
    BY <1>2, HeadTailProperties DEF Pull, TypeOK
  <2>2. backlog' \in [Queues -> Seq(Message \cup {Terminate})]
    <3>1. backlog' = [backlog EXCEPT ![q] = Tail(@)]
      BY <1>2 DEF Pull
    <3> QED
      BY <2>1, <3>1 DEF TypeOK
  <2>3. started' \in [Queues -> Seq(Message)]
    <3>1. CASE Head(backlog[q]) = Terminate
      BY <1>2, <3>1 DEF Pull, TypeOK
    <3>2. CASE Head(backlog[q]) \in Message /\ Head(backlog[q]) # Terminate
      <4>1. Append(started[q], Head(backlog[q])) \in Seq(Message)
        BY <3>2, AppendProperties DEF TypeOK
      <4> QED
        BY <1>2, <3>2, <4>1 DEF Pull, TypeOK
    <3> QED
      BY <2>1, <3>1, <3>2
  <2>4. worker' \in [Queues -> {"check", "pull", "call", "done"}]
    BY <1>2 DEF Pull, TypeOK
  <2>5. TypeOK'
    BY <1>2, <2>2, <2>3, <2>4 DEF Pull, TypeOK, mapVars, boxVars, readerVars
  <2> QED
    BY <1>2, <2>5, MailAlone DEF Pull, boxVars
<1>3. ASSUME CallbackReturns(q) PROVE Typed'
  BY <1>3 DEF CallbackReturns, TypeOK, InBoxBounds, mapVars, boxVars, readerVars
<1> QED
  BY <1>1, <1>2, <1>3 DEF Worker

LEMMA StepTyped == Typed /\ [Next]_vars => Typed'
<1> SUFFICES ASSUME Typed, [Next]_vars PROVE Typed'
  OBVIOUS
<1>1. CASE UNCHANGED vars
  BY <1>1 DEF Typed, TypeOK, InBoxBounds, vars, mapVars, workVars, boxVars, readerVars
<1>2. CASE Stopped
  BY <1>1, <1>2 DEF Stopped
<1> QED
  BY <1>1, <1>2, ApplicationTyped, BeginTyped, ContinueTyped, ReaderTyped, WorkerTyped
     DEF Next

(* Every part of the client keeps to its type.                             *)
THEOREM TypeCorrect == Spec => []TypeOK
<1>1. Typed => TypeOK
  BY DEF Typed
<1> QED
  BY InitTyped, StepTyped, <1>1, PTL DEF Spec

-----------------------------------------------------------------------------
(***************************************************************************)
(* Sequences with a Terminate.                                             *)
(***************************************************************************)
Element == Message \cup {Terminate}

LEMMA HandledAndWaiting ==
    ASSUME NEW s \in Seq(Element), NEW b \in Seq(Element)
    PROVE  /\ s \o b \in Seq(Element) /\ Len(s \o b) = Len(s) + Len(b)
           /\ Len(s) \in Nat /\ Len(b) \in Nat
           /\ \A i \in 1..Len(s) : (s \o b)[i] = s[i]
           /\ \A i \in 1..Len(b) : (s \o b)[Len(s) + i] = b[i]
BY ConcatProperties, LenProperties

LEMMA MoreWaits ==
    ASSUME NEW s \in Seq(Element), NEW b \in Seq(Element), NEW m \in Element
    PROVE  s \o Append(b, m) = Append(s \o b, m)
<1> DEFINE sb == s \o b
<1>0. /\ sb \in Seq(Element) /\ Len(sb) = Len(s) + Len(b)
      /\ Len(s) \in Nat /\ Len(b) \in Nat
      /\ \A i \in 1..Len(s) : sb[i] = s[i]
      /\ \A i \in 1..Len(b) : sb[Len(s) + i] = b[i]
  BY HandledAndWaiting
<1> DEFINE l == s \o Append(b, m)
           r == Append(s \o b, m)
<1>1. /\ Append(b, m) \in Seq(Element) /\ Len(Append(b, m)) = Len(b) + 1
      /\ \A i \in 1..Len(b) : Append(b, m)[i] = b[i]
      /\ Append(b, m)[Len(b) + 1] = m
  BY AppendProperties
<1>2. /\ r \in Seq(Element) /\ Len(r) = Len(s) + Len(b) + 1
      /\ \A i \in 1..(Len(s) + Len(b)) : r[i] = sb[i]
      /\ r[Len(s) + Len(b) + 1] = m
  BY <1>0, AppendProperties
<1>3. /\ l \in Seq(Element) /\ Len(l) = Len(s) + (Len(b) + 1)
      /\ \A i \in 1..Len(s) : l[i] = s[i]
      /\ \A i \in 1..(Len(b) + 1) : l[Len(s) + i] = Append(b, m)[i]
  BY <1>1, HandledAndWaiting
<1> HIDE DEF l, r, sb
<1>4. ASSUME NEW i \in 1..Len(l) PROVE l[i] = r[i]
  <2>1. CASE i <= Len(s)
    BY <1>0, <1>2, <1>3, <2>1
  <2>2. CASE i > Len(s) /\ i <= Len(s) + Len(b)
    <3> DEFINE j == i - Len(s)
    <3>1. j \in 1..Len(b) /\ j \in 1..(Len(b) + 1) /\ i = Len(s) + j
      BY <1>0, <1>3, <2>2
    <3> HIDE DEF j
    <3>2. l[i] = b[j]
      BY <1>1, <1>3, <3>1
    <3>3. sb[i] = b[j]
      BY <1>0, <3>1
    <3>4. r[i] = sb[i]
      <4>1. i \in 1..(Len(s) + Len(b))
        BY <1>0, <2>2
      <4> QED
        BY <1>2, <4>1
    <3> QED
      BY <3>2, <3>3, <3>4
  <2>3. CASE i = Len(s) + (Len(b) + 1)
    <3>1. Len(b) + 1 \in 1..(Len(b) + 1) /\ i = Len(s) + Len(b) + 1
      BY <1>0, <2>3
    <3>2. l[i] = Append(b, m)[Len(b) + 1]
      BY <1>3, <2>3, <3>1
    <3>3. r[i] = m
      BY <1>2, <3>1
    <3> QED
      BY <1>1, <3>2, <3>3
  <2> QED
    BY <1>0, <1>3, <2>1, <2>2, <2>3
<1>5. l = r
  BY <1>0, <1>2, <1>3, <1>4, SeqEqual
<1> QED
  BY <1>5 DEF l, r, sb

(* The head of what waits is handled next.                                 *)
LEMMA HeadIsHandled ==
    ASSUME NEW s \in Seq(Element), NEW b \in Seq(Element), b # <<>>
    PROVE  Append(s, Head(b)) \o Tail(b) = s \o b
<1> DEFINE sb == s \o b
<1>0. /\ sb \in Seq(Element) /\ Len(sb) = Len(s) + Len(b)
      /\ Len(s) \in Nat /\ Len(b) \in Nat
      /\ \A i \in 1..Len(s) : sb[i] = s[i]
      /\ \A i \in 1..Len(b) : sb[Len(s) + i] = b[i]
  BY HandledAndWaiting
<1> DEFINE h == Append(s, Head(b))
           t == Tail(b)
<1>1. /\ Head(b) \in Element /\ Head(b) = b[1]
      /\ t \in Seq(Element) /\ Len(t) = Len(b) - 1
      /\ \A i \in 1..Len(t) : t[i] = b[i + 1]
      /\ Len(b) \in Nat \ {0}
  BY HeadTailProperties, EmptySeq
<1>2. /\ h \in Seq(Element) /\ Len(h) = Len(s) + 1
      /\ \A i \in 1..Len(s) : h[i] = s[i]
      /\ h[Len(s) + 1] = b[1]
  BY <1>1, AppendProperties
<1> DEFINE ht == h \o t
<1> HIDE DEF h, t, sb
<1>3. /\ ht \in Seq(Element) /\ Len(ht) = Len(s) + Len(b)
      /\ \A i \in 1..Len(h) : ht[i] = h[i]
      /\ \A i \in 1..Len(t) : ht[Len(h) + i] = t[i]
  <2>1. Len(ht) = Len(h) + Len(t) /\ ht \in Seq(Element)
    BY <1>1, <1>2, HandledAndWaiting
  <2>2. /\ \A i \in 1..Len(h) : ht[i] = h[i]
        /\ \A i \in 1..Len(t) : ht[Len(h) + i] = t[i]
    BY <1>1, <1>2, HandledAndWaiting
  <2> QED
    BY <1>0, <1>1, <1>2, <2>1, <2>2
<1> HIDE DEF ht
<1>4. ASSUME NEW i \in 1..(Len(s) + Len(b)) PROVE ht[i] = sb[i]
  <2>1. CASE i <= Len(s)
    BY <1>0, <1>2, <1>3, <2>1
  <2>2. CASE i = Len(s) + 1
    BY <1>0, <1>1, <1>2, <1>3, <2>2
  <2>3. CASE i > Len(s) + 1
    <3> DEFINE j == i - (Len(s) + 1)
    <3>1. /\ j \in 1..Len(t) /\ i = Len(h) + j
          /\ j + 1 \in 1..Len(b) /\ i = Len(s) + (j + 1)
      BY <1>0, <1>1, <1>2, <2>3
    <3> HIDE DEF j
    <3>2. ht[i] = b[j + 1]
      BY <1>1, <1>3, <3>1
    <3>3. sb[i] = b[j + 1]
      BY <1>0, <3>1
    <3> QED
      BY <3>2, <3>3
  <2>4. i \in Nat /\ Len(s) \in Nat
    BY <1>0
  <2> QED
    BY <2>1, <2>2, <2>3, <2>4
<1>5. ht = sb
  BY <1>0, <1>3, <1>4, SeqEqual
<1> QED
  BY <1>5 DEF h, t, sb, ht

(* A Terminate is the last, and what was pushed has been handled.          *)
LEMMA TerminateIsLast ==
    ASSUME NEW s \in Seq(Message), NEW b \in Seq(Element), NEW p \in Seq(Message),
           b # <<>>, Head(b) = Terminate,
           s \o b \in {p, Append(p, Terminate)}
    PROVE  s \o Tail(b) = p
<1>1. /\ s \in Seq(Element) /\ p \in Seq(Element)
      /\ Len(s) \in Nat /\ Len(p) \in Nat
      /\ \A i \in 1..Len(p) : p[i] \in Message
  BY SeqMonotonic, LenProperties, ElementOfSeq DEF Element
<1>2. /\ Len(b) \in Nat \ {0} /\ b[1] = Terminate
      /\ Tail(b) \in Seq(Element) /\ Len(Tail(b)) = Len(b) - 1
  BY HeadTailProperties, EmptySeq
<1>3. (s \o b)[Len(s) + 1] = Terminate /\ Len(s \o b) = Len(s) + Len(b)
  BY <1>1, <1>2, HandledAndWaiting
<1>4. Terminate \notin Message /\ Terminate \in Element
  BY QueuesAssumption DEF Element
<1>5. s \o b = Append(p, Terminate)
  BY <1>1, <1>2, <1>3, <1>4
<1>6. /\ Len(s) + Len(b) = Len(p) + 1
      /\ \A i \in 1..Len(p) : (s \o b)[i] = p[i]
  BY <1>1, <1>3, <1>4, <1>5, AppendProperties
<1>7. Len(b) = 1
  <2>1. Len(s) + 1 \notin 1..Len(p)
    BY <1>1, <1>3, <1>4, <1>6
  <2> QED
    BY <1>1, <1>2, <1>6, <2>1
<1>8. Tail(b) = <<>>
  <2>1. \A t \in Seq(Element) : Len(t) = 0 => t = <<>>
    BY EmptySeq
  <2>2. Tail(b) \in Seq(Element) /\ Len(Tail(b)) = 0
    BY <1>2, <1>7
  <2> QED
    BY <2>1, <2>2, Zenon
<1>9. s = p
  <2>1. Len(s) = Len(p)
    BY <1>1, <1>6, <1>7
  <2>2. \A i \in 1..Len(s) : s[i] = p[i]
    BY <1>1, <1>6, <2>1, HandledAndWaiting
  <2> QED
    BY <2>1, <2>2, SeqEqual
<1> QED
  BY <1>8, <1>9, ConcatEmptySeq

-----------------------------------------------------------------------------
(***************************************************************************)
(* Queues and their workers.                                               *)
(***************************************************************************)
Stops(u) == user[u].at \in {"quit", "join"}

(* Who stops a queue holds the lock and the queue is still there; who      *)
(* closes and who scans holds it too.                                      *)
Locking ==
    /\ \A u \in Users : Stops(u) =>
          /\ lock = u /\ user[u].queue \in exists
          /\ user[u].closing => u = App
    /\ user[App].at = "closeQueues" => lock = App
    /\ readerPc = "scan" => lock = "reader"

Handled(q) == started[q] \o backlog[q] = pushed[q]

Ending(q) ==
    /\ started[q] \o backlog[q] = Append(pushed[q], Terminate)
    /\ \E u \in Users : Stops(u) /\ user[u].queue = q

Untouched(q) ==
    backlog[q] = <<>> /\ started[q] = <<>> /\ pushed[q] = <<>>

(* Only the queues there are have a worker or mail, and nothing is lost.   *)
Serving ==
    /\ \A q \in Queues \ exists : worker[q] = "done" /\ Untouched(q)
    /\ \A q \in exists : Handled(q) \/ Ending(q)

QueueInv == Typed /\ Locking /\ Serving

LEMMA UntouchedIsHandled == \A q : Untouched(q) => Handled(q)
BY ConcatEmptySeq, EmptySeq DEF Untouched, Handled

LEMMA InitQueueInv == Init => QueueInv
BY InitTyped, QueuesAssumption
   DEF Init, QueueInv, Locking, Serving, Untouched, Stops, Ready

\* Nobody stops a queue while somebody else has the lock, or nobody has it.
LEMMA NobodyStops ==
    ASSUME QueueInv, \A u \in Users : Stops(u) => lock # u
    PROVE  /\ \A u \in Users : ~Stops(u)
           /\ \A q \in exists : Handled(q)
BY DEF QueueInv, Locking, Serving, Ending

(* A step of a user that neither begins nor goes on stopping a queue.      *)
LEMMA Elsewhere ==
    ASSUME QueueInv, Typed', NEW u \in Users, NEW s, ~Stops(u),
           user' = [user EXCEPT ![u] = s], s.at \notin {"quit", "join"},
           s.at = "closeQueues" => u = App /\ lock' = App,
           lock' = lock \/ lock \in {"free", u},
           UNCHANGED <<readerPc, backlog, pushed, started>>,
           exists \subseteq exists',
           \A q \in Queues \ exists' : worker'[q] = worker[q]
    PROVE  QueueInv'
<1> USE DEF QueueInv
<1>1. /\ user \in [Users -> UserSteps] /\ exists' \subseteq Queues
      /\ \A v \in Users \ {u} : user'[v] = user[v]
      /\ user'[u] = s
  BY DEF Typed, TypeOK
<1>2. \A v \in Users : Stops(v)' => Stops(v) /\ v # u /\ user'[v] = user[v]
  BY <1>1 DEF Stops
<1>3. \A v \in Users : Stops(v) => v # u /\ lock' = lock /\ Stops(v)'
  BY <1>1, QueuesAssumption DEF Stops, Locking
<1>4. Locking'
  <2>1. user'[App].at = "closeQueues" => lock' = App
    BY <1>1, QueuesAssumption DEF Locking
  <2>2. readerPc' = "scan" => lock' = "reader"
    BY QueuesAssumption DEF Locking
  <2>3. ASSUME NEW v \in Users, Stops(v)'
        PROVE  /\ lock' = v /\ user'[v].queue \in exists'
               /\ user'[v].closing => v = App
    BY <1>2, <1>3, <2>3 DEF Locking
  <2> QED
    BY <2>1, <2>2, <2>3 DEF Locking
<1>5. Serving'
  <2>1. ASSUME NEW q \in exists' PROVE Handled(q)' \/ Ending(q)'
    <3>1. Handled(q) \/ Ending(q)
      BY <1>1, UntouchedIsHandled DEF Serving
    <3>2. Handled(q) => Handled(q)'
      BY DEF Handled
    <3>3. Ending(q) => Ending(q)'
      BY <1>1, <1>3 DEF Ending, Stops
    <3> QED
      BY <3>1, <3>2, <3>3
  <2>2. ASSUME NEW q \in Queues \ exists'
        PROVE  worker'[q] = "done" /\ Untouched(q)'
    BY DEF Serving, Untouched
  <2> QED
    BY <2>1, <2>2 DEF Serving
<1> QED
  BY <1>4, <1>5

(* Stop begins, by RemoveActiveQueue or by Close.                          *)
LEMMA StopBegins ==
    ASSUME QueueInv, Typed', NEW u \in Users, NEW q \in exists, NEW c \in BOOLEAN,
           lock = "free" \/ (lock = u /\ ~Stops(u)), lock' = u, c => u = App,
           Goto(u, [at |-> "quit", queue |-> q, closing |-> c]), PushTerminate(q),
           UNCHANGED <<exists, worker, pushed, started, readerPc>>
    PROVE  QueueInv'
<1> USE DEF QueueInv
<1>1. /\ user \in [Users -> UserSteps] /\ q \in Queues
      /\ \A v \in Users \ {u} : user'[v] = user[v]
      /\ user'[u] = [at |-> "quit", queue |-> q, closing |-> c]
      /\ Stops(u)' /\ user'[u].queue = q /\ user'[u].closing = c
      /\ user'[u].at = "quit"
  BY DEF Typed, TypeOK, Goto, Stops
<1>2. /\ \A v \in Users : ~Stops(v)
      /\ \A p \in exists : Handled(p)
  BY NobodyStops, QueuesAssumption DEF Locking
<1>3. Locking'
  <2>1. \A v \in Users : Stops(v)' => v = u
    BY <1>1, <1>2 DEF Stops
  <2>2. user'[App].at # "closeQueues"
    BY <1>1, QueuesAssumption DEF Locking
  <2>3. readerPc' # "scan"
    BY QueuesAssumption DEF Locking
  <2> QED
    BY <1>1, <2>1, <2>2, <2>3 DEF Locking
<1>4. Ending(q)'
  <2>1. /\ started[q] \in Seq(Element) /\ backlog[q] \in Seq(Element)
        /\ Terminate \in Element
    BY <1>1, SeqMonotonic DEF Typed, TypeOK, Element
  <2>2. started[q] \o Append(backlog[q], Terminate) = Append(pushed[q], Terminate)
    BY <1>2, <2>1, MoreWaits DEF Handled
  <2>3. backlog'[q] = Append(backlog[q], Terminate)
    BY <1>1 DEF PushTerminate, Typed, TypeOK
  <2> QED
    BY <1>1, <2>2, <2>3 DEF Ending
<1>5. \A p \in Queues \ {q} : backlog'[p] = backlog[p]
  BY DEF PushTerminate, Typed, TypeOK
<1>6. Serving'
  <2>1. \A p \in Queues \ exists : worker'[p] = "done" /\ Untouched(p)'
    BY <1>5 DEF Serving, Untouched
  <2>2. \A p \in exists \ {q} : Handled(p)'
    BY <1>2, <1>5 DEF Handled, Typed, TypeOK
  <2> QED
    BY <1>4, <2>1, <2>2 DEF Serving
<1> QED
  BY <1>3, <1>6

LEMMA QuitKeeps ==
    ASSUME QueueInv, Typed', NEW u \in Users, SetQuitFlag(u)
    PROVE  QueueInv'
<1> USE DEF QueueInv
<1>1. /\ user \in [Users -> UserSteps] /\ user[u].at = "quit" /\ Stops(u)
      /\ \A v \in Users \ {u} : user'[v] = user[v]
      /\ user'[u] = [user[u] EXCEPT !.at = "join"]
  BY DEF Typed, TypeOK, SetQuitFlag, Goto, Stops
<1>2. /\ user'[u].at = "join" /\ user'[u].queue = user[u].queue
      /\ user'[u].closing = user[u].closing
  BY <1>1, StepGoesOn
<1>3. /\ \A v \in Users : user'[v].at \in {"quit", "join"} => Stops(v)
      /\ \A v \in Users : Stops(v) => user'[v].at \in {"quit", "join"}
      /\ \A v \in Users : Stops(v) => user'[v].queue = user[v].queue
      /\ \A v \in Users : Stops(v) => user'[v].closing = user[v].closing
      /\ user'[App].at = "closeQueues" => user[App].at = "closeQueues"
  BY <1>1, <1>2, QueuesAssumption DEF Stops
<1>4. UNCHANGED <<exists, worker, backlog, pushed, started, lock, readerPc>>
  BY DEF SetQuitFlag, mapVars, readerVars
<1>5. Locking'
  <2>1. ASSUME NEW v \in Users, Stops(v)'
        PROVE  /\ lock' = v /\ user'[v].queue \in exists'
               /\ user'[v].closing => v = App
    <3>1. Stops(v)
      BY <1>3, <2>1 DEF Stops
    <3> QED
      BY <1>3, <1>4, <3>1 DEF Locking
  <2>2. /\ user'[App].at = "closeQueues" => lock' = App
        /\ readerPc' = "scan" => lock' = "reader"
    BY <1>3, <1>4 DEF Locking
  <2> QED
    BY <2>1, <2>2 DEF Locking
<1>6. Serving'
  <2>1. ASSUME NEW q \in exists' PROVE Handled(q)' \/ Ending(q)'
    <3>1. Handled(q) \/ Ending(q)
      BY <1>4 DEF Serving
    <3>2. Handled(q) => Handled(q)'
      BY <1>4 DEF Handled
    <3>3. ASSUME Ending(q) PROVE Ending(q)'
      <4>1. PICK v \in Users : Stops(v) /\ user[v].queue = q
        BY <3>3 DEF Ending
      <4>2. Stops(v)' /\ user'[v].queue = q
        BY <1>3, <4>1 DEF Stops
      <4>3. started'[q] \o backlog'[q] = Append(pushed'[q], Terminate)
        BY <1>4, <3>3 DEF Ending
      <4> QED
        BY <4>2, <4>3 DEF Ending
    <3> QED
      BY <3>1, <3>2, <3>3
  <2>2. ASSUME NEW q \in Queues \ exists'
        PROVE  worker'[q] = "done" /\ Untouched(q)'
    BY <1>4 DEF Serving, Untouched
  <2> QED
    BY <2>1, <2>2 DEF Serving
<1> QED
  BY <1>5, <1>6

LEMMA JoinedKeeps ==
    ASSUME QueueInv, Typed', NEW u \in Users, Joined(u)
    PROVE  QueueInv'
<1> USE DEF QueueInv
<1>0. PICK q \in Queues : q = user[u].queue
  BY StepFields DEF Typed, TypeOK, Joined
<1>1. /\ user \in [Users -> UserSteps] /\ user[u].at = "join" /\ Stops(u)
      /\ q \in exists /\ lock = u /\ worker[q] = "done"
      /\ user[u].closing => u = App
  BY <1>0 DEF Typed, TypeOK, Joined, Stops, Locking
<1>2. /\ exists' = exists \ {q} /\ q \in Queues
      /\ Untouched(q)' /\ UNCHANGED <<worker, readerPc>>
      /\ \A p \in Queues \ {q} : /\ backlog'[p] = backlog[p]
                                 /\ started'[p] = started[p]
                                 /\ pushed'[p] = pushed[p]
      /\ \A v \in Users \ {u} : user'[v] = user[v]
  <2>1. /\ exists' = exists \ {q} /\ q \in Queues
        /\ UNCHANGED <<worker, readerPc>>
    BY <1>0, <1>1 DEF Joined, Typed, TypeOK, readerVars
  <2>2. /\ backlog' = [backlog EXCEPT ![q] = <<>>]
        /\ started' = [started EXCEPT ![q] = <<>>]
        /\ pushed' = [pushed EXCEPT ![q] = <<>>]
    BY <1>0 DEF Joined
  <2>3. \A v \in Users \ {u} : user'[v] = user[v]
    BY DEF Joined, Goto, Typed, TypeOK
  <2>4. Untouched(q)'
    BY <2>1, <2>2 DEF Untouched, Typed, TypeOK
  <2> QED
    BY <2>1, <2>2, <2>3, <2>4 DEF Typed, TypeOK
<1>3. \/ /\ u = App /\ user'[u].at = "closeQueues" /\ lock' = lock
      \/ user'[u].at = "ready" /\ lock' = "free"
  BY <1>1 DEF Joined, Goto, Ready, Typed, TypeOK
<1>4. \A v \in Users : ~Stops(v)'
  BY <1>1, <1>2, <1>3 DEF Stops, Locking
<1>5. Locking'
  <2>1. user'[App].at = "closeQueues" => lock' = App
    BY <1>1, <1>2, <1>3, QueuesAssumption DEF Locking
  <2>2. readerPc' # "scan"
    BY <1>1, <1>2, QueuesAssumption DEF Locking
  <2> QED
    BY <1>4, <2>1, <2>2 DEF Locking
<1>6. \A p \in exists \ {q} : Handled(p)
  BY <1>0, <1>1 DEF Serving, Ending, Locking
<1>7. Serving'
  <2>1. ASSUME NEW p \in exists' PROVE Handled(p)'
    <3>1. p \in Queues \ {q} /\ Handled(p)
      BY <1>2, <1>6 DEF Typed, TypeOK
    <3>2. /\ backlog'[p] = backlog[p] /\ started'[p] = started[p]
          /\ pushed'[p] = pushed[p]
      BY <1>2, <3>1
    <3> QED
      BY <3>1, <3>2 DEF Handled
  <2>2. ASSUME NEW p \in Queues \ exists'
        PROVE  worker'[p] = "done" /\ Untouched(p)'
    <3>1. CASE p = q
      BY <1>1, <1>2, <3>1
    <3>2. CASE p # q
      BY <1>2, <3>2 DEF Serving, Untouched
    <3> QED
      BY <3>1, <3>2
  <2> QED
    BY <2>1, <2>2 DEF Serving
<1> QED
  BY <1>5, <1>7

(* A step of the reader that leaves the queues alone.                      *)
LEMMA ReaderElsewhere ==
    ASSUME QueueInv, Typed', UNCHANGED <<exists, workVars, user>>,
           lock' = lock \/ lock \in {"free", "reader"},
           readerPc' = "scan" => lock' = "reader"
    PROVE  QueueInv'
<1> USE DEF QueueInv
<1>1. ASSUME NEW u \in Users, Stops(u)
      PROVE  lock' = u /\ user[u].queue \in exists /\ (user[u].closing => u = App)
  BY <1>1, QueuesAssumption DEF Locking
<1>2. user[App].at = "closeQueues" => lock' = App
  BY QueuesAssumption DEF Locking
<1>3. Locking'
  BY <1>1, <1>2 DEF Locking, Stops
<1>4. Serving'
  BY DEF Serving, Handled, Ending, Untouched, Stops, workVars
<1> QED
  BY <1>3, <1>4

LEMMA PushKeeps ==
    ASSUME QueueInv, Typed', PushToQueues
    PROVE  QueueInv'
<1> USE DEF QueueInv
<1> DEFINE m == Scanned
           goal == route[m.key]
<1>1. /\ readerPc = "scan" /\ todo > 0 /\ goal \subseteq exists
      /\ backlog' = [q \in Queues |->
                        IF q \in goal THEN Append(backlog[q], m) ELSE backlog[q]]
      /\ pushed' = [q \in Queues |->
                       IF q \in goal THEN Append(pushed[q], m) ELSE pushed[q]]
      /\ UNCHANGED <<exists, worker, started, readerPc, lock, user>>
  BY DEF PushToQueues, mapVars
<1>2. m \in Message
  BY <1>1, ScannedIsMail
<1> HIDE DEF m, goal
<1>3. /\ lock = "reader" /\ \A u \in Users : ~Stops(u)
      /\ \A q \in exists : Handled(q)
  BY <1>1, NobodyStops, QueuesAssumption DEF Locking
<1>4. Locking'
  BY <1>1 DEF Locking, Stops
<1>5. ASSUME NEW q \in exists' PROVE Handled(q)'
  <2>1. /\ q \in Queues /\ Handled(q)
        /\ started[q] \in Seq(Element) /\ backlog[q] \in Seq(Element)
        /\ m \in Element
    BY <1>1, <1>2, <1>3, SeqMonotonic DEF Typed, TypeOK, Element
  <2>2. CASE q \in goal
    <3>1. started[q] \o Append(backlog[q], m) = Append(started[q] \o backlog[q], m)
      BY <2>1, MoreWaits
    <3>2. /\ backlog'[q] = Append(backlog[q], m) /\ started'[q] = started[q]
          /\ pushed'[q] = Append(pushed[q], m)
      BY <1>1, <2>1, <2>2
    <3> QED
      BY <2>1, <3>1, <3>2 DEF Handled
  <2>3. CASE q \notin goal
    BY <1>1, <2>1, <2>3 DEF Handled
  <2> QED
    BY <2>2, <2>3
<1>6. ASSUME NEW q \in Queues \ exists'
      PROVE  worker'[q] = "done" /\ Untouched(q)'
  BY <1>1 DEF Serving, Untouched
<1> QED
  BY <1>4, <1>5, <1>6 DEF Serving

LEMMA ReaderKeeps ==
    ASSUME QueueInv, Reader
    PROVE  QueueInv'
<1>1. Typed'
  BY ReaderTyped DEF QueueInv
<1>2. CASE PushToQueues
  BY <1>1, <1>2, PushKeeps
<1>3. ASSUME ~PushToQueues
      PROVE  /\ UNCHANGED <<exists, workVars, user>>
             /\ lock' = lock \/ lock \in {"free", "reader"}
             /\ readerPc' = "scan" => lock' = "reader"
  BY <1>3 DEF Reader, ReaderLocksInBox, DispatchBegins, ShowToWildcards,
     DispatchReturns, QueueNotFound, ScanEnds, ReaderSetsFlag, QueueInv,
     Locking, mapVars, readerVars
<1> QED
  BY <1>1, <1>2, <1>3, ReaderElsewhere

LEMMA PullKeeps ==
    ASSUME QueueInv, Typed', NEW q \in Queues, Pull(q)
    PROVE  QueueInv'
<1> USE DEF QueueInv
<1> DEFINE m == Head(backlog[q])
           b == backlog[q]
<1>1. /\ worker[q] = "pull" /\ b # <<>>
      /\ backlog' = [backlog EXCEPT ![q] = Tail(@)]
      /\ UNCHANGED <<exists, pushed, lock, readerPc, user>>
      /\ \/ /\ m = Terminate /\ UNCHANGED started
            /\ worker' = [worker EXCEPT ![q] = "done"]
         \/ /\ m # Terminate /\ started' = [started EXCEPT ![q] = Append(@, m)]
            /\ worker' = [worker EXCEPT ![q] = "call"]
  BY DEF Pull, mapVars, readerVars
<1>2. /\ q \in exists /\ (Handled(q) \/ Ending(q))
  BY <1>1 DEF Serving
<1>3. /\ started[q] \in Seq(Message) /\ started[q] \in Seq(Element)
      /\ b \in Seq(Element) /\ pushed[q] \in Seq(Message)
  BY SeqMonotonic DEF Typed, TypeOK, Element
<1> HIDE DEF m
<1>4. \A p \in Queues \ {q} : /\ backlog'[p] = backlog[p]
                             /\ started'[p] = started[p]
                             /\ worker'[p] = worker[p]
  BY <1>1 DEF Typed, TypeOK
<1>5. Locking'
  BY <1>1 DEF Locking, Stops
<1>6. Handled(q)' \/ Ending(q)'
  <2>1. CASE m = Terminate
    <3>1. started[q] \o b \in {pushed[q], Append(pushed[q], Terminate)}
      BY <1>2 DEF Handled, Ending
    <3>2. started[q] \o Tail(b) = pushed[q]
      BY <1>1, <1>3, <2>1, <3>1, TerminateIsLast DEF m
    <3>3. backlog'[q] = Tail(b) /\ started'[q] = started[q]
      BY <1>1, <2>1 DEF Typed, TypeOK
    <3> QED
      BY <1>1, <3>2, <3>3 DEF Handled
  <2>2. CASE m # Terminate
    <3>1. Append(started[q], m) \o Tail(b) = started[q] \o b
      BY <1>1, <1>3, HeadIsHandled DEF m
    <3>2. backlog'[q] = Tail(b) /\ started'[q] = Append(started[q], m)
      BY <1>1, <2>2 DEF Typed, TypeOK
    <3>3. started'[q] \o backlog'[q] = started[q] \o b
      BY <3>1, <3>2
    <3>4. Handled(q) => Handled(q)'
      BY <1>1, <3>3 DEF Handled
    <3>5. Ending(q) => Ending(q)'
      BY <1>1, <3>3 DEF Ending, Stops
    <3> QED
      BY <1>2, <3>4, <3>5
  <2> QED
    BY <2>1, <2>2
<1>7. ASSUME NEW p \in exists', p # q PROVE Handled(p)' \/ Ending(p)'
  <2>1. /\ p \in exists /\ (Handled(p) \/ Ending(p))
        /\ backlog'[p] = backlog[p] /\ started'[p] = started[p]
    BY <1>1, <1>4, <1>7 DEF Serving, Typed, TypeOK
  <2> QED
    BY <1>1, <2>1 DEF Handled, Ending, Stops
<1>8. ASSUME NEW p \in Queues \ exists'
      PROVE  worker'[p] = "done" /\ Untouched(p)'
  BY <1>1, <1>2, <1>4 DEF Serving, Untouched
<1> QED
  BY <1>5, <1>6, <1>7, <1>8 DEF Serving

LEMMA WorkerKeeps ==
    ASSUME QueueInv, NEW q \in Queues, Worker(q)
    PROVE  QueueInv'
<1>1. Typed'
  BY WorkerTyped DEF QueueInv
<1>2. CASE Pull(q)
  BY <1>1, <1>2, PullKeeps
<1>3. CASE CheckQuit(q) \/ CallbackReturns(q)
  <2>1. /\ UNCHANGED <<exists, backlog, pushed, started, lock, readerPc, user>>
        /\ worker[q] # "done" /\ \A p \in Queues \ {q} : worker'[p] = worker[p]
    BY <1>3 DEF CheckQuit, CallbackReturns, mapVars, readerVars, QueueInv,
       Typed, TypeOK
  <2>2. Locking'
    BY <2>1 DEF QueueInv, Locking, Stops
  <2>3. q \in exists
    BY <2>1 DEF QueueInv, Serving
  <2>4. Serving'
    BY <2>1, <2>3
       DEF QueueInv, Serving, Handled, Ending, Untouched, Stops
  <2> QED
    BY <1>1, <2>2, <2>4 DEF QueueInv
<1> QED
  BY <1>2, <1>3 DEF Worker

(* What CreateQueue does is no more than Elsewhere allows.                 *)
LEMMA CreateElsewhere ==
    ASSUME QueueInv, NEW q \in Queues, CreateQueue(q)
    PROVE  /\ exists \subseteq exists' /\ UNCHANGED <<backlog, pushed, started>>
           /\ \A p \in Queues \ exists' : worker'[p] = worker[p]
BY DEF QueueInv, Typed, TypeOK, CreateQueue, HasActiveQueue, workVars

LEMMA ApplicationKeeps ==
    ASSUME QueueInv, \/ \E k \in Keys : Arrive(k)
                     \/ FetchLooks \/ CloseClears
    PROVE  QueueInv'
<1>1. Typed' /\ App \in Users
  BY ApplicationTyped, QueuesAssumption DEF QueueInv
<1>2. PICK s : /\ user' = [user EXCEPT ![App] = s]
               /\ s.at \notin {"quit", "join", "closeQueues"}
  <2>1. CASE FetchLooks
    <3> DEFINE t == [at |-> "fetch"]
    <3>1. user' = [user EXCEPT ![App] = t] /\ t.at = "fetch"
      BY <2>1 DEF FetchLooks
    <3> HIDE DEF t
    <3> QED
      BY <3>1
  <2>2. CASE CloseClears
    <3> DEFINE t == [at |-> "closeLock"]
    <3>1. user' = [user EXCEPT ![App] = t] /\ t.at = "closeLock"
      BY <2>2 DEF CloseClears, Goto
    <3> HIDE DEF t
    <3> QED
      BY <3>1
  <2>3. CASE \E k \in Keys : Arrive(k)
    <3>1. user' = [user EXCEPT ![App] = Ready]
      BY <1>1, <2>3 DEF Arrive, QueueInv, Typed, TypeOK
    <3> QED
      BY <3>1, StepForms
  <2> QED
    BY <2>1, <2>2, <2>3
<1>3. ~Stops(App)
  BY StepForms DEF Arrive, FetchLooks, CloseClears, Stops
<1>4. UNCHANGED <<lock, readerPc, workVars, exists>>
  BY DEF Arrive, FetchLooks, CloseClears, mapVars, readerVars
<1> QED
  BY <1>1, <1>2, <1>3, <1>4, Elsewhere DEF workVars

LEMMA BeginKeeps ==
    ASSUME QueueInv, NEW u \in Users, Begin(u)
    PROVE  QueueInv'
<1>1. Typed' /\ user[u] = Ready /\ ~Stops(u) /\ lock = "free"
  BY BeginTyped, StepForms
     DEF QueueInv, Begin, AddActiveQueue, AddWildcardActiveQueue,
         AddMessageRoute, RemoveMessageRoute, RemoveActiveQueue, Stops
<1>2. user' = user => user' = [user EXCEPT ![u] = Ready]
  BY <1>1 DEF QueueInv, Typed, TypeOK
<1>3. Ready.at \notin {"quit", "join", "closeQueues"}
  BY StepForms
<1>4. ASSUME NEW q \in Queues, AddActiveQueue(u, q) PROVE QueueInv'
  <2>1. user' = user /\ lock' = lock /\ readerPc' = readerPc
    BY <1>4 DEF AddActiveQueue, readerVars
  <2> QED
    BY <1>1, <1>2, <1>3, <1>4, <2>1, CreateElsewhere, Elsewhere DEF AddActiveQueue
<1>5. ASSUME NEW q \in Queues, NEW p \in Patterns, AddWildcardActiveQueue(u, q, p)
      PROVE  QueueInv'
  <2> DEFINE s == [at |-> "wildcard", queue |-> q, keys |-> p]
  <2>1. /\ user' = [user EXCEPT ![u] = s] /\ lock' = lock /\ readerPc' = readerPc
        /\ s.at \notin {"quit", "join", "closeQueues"}
    BY <1>5 DEF AddWildcardActiveQueue, Goto, readerVars
  <2> HIDE DEF s
  <2> QED
    BY <1>1, <1>5, <2>1, CreateElsewhere, Elsewhere DEF AddWildcardActiveQueue
<1>6. ASSUME NEW q \in Queues, NEW k \in Keys,
             \/ \E cb \in BOOLEAN : AddMessageRoute(u, q, k, cb)
             \/ RemoveMessageRoute(u, q, k)
      PROVE  QueueInv'
  <2>1. PICK at \in {"addRoute", "makeQueue", "eraseRoute"} :
            Goto(u, [at |-> at, queue |-> q, key |-> k])
    BY <1>6 DEF AddMessageRoute, RemoveMessageRoute
  <2> DEFINE s == [at |-> at, queue |-> q, key |-> k]
  <2>2. /\ user' = [user EXCEPT ![u] = s]
        /\ s.at \notin {"quit", "join", "closeQueues"}
    BY <2>1 DEF Goto
  <2>3. UNCHANGED <<lock, readerPc, workVars, exists>>
    BY <1>6 DEF AddMessageRoute, RemoveMessageRoute, mapVars, readerVars
  <2> HIDE DEF s
  <2> QED
    BY <1>1, <2>2, <2>3, Elsewhere DEF workVars
<1>7. ASSUME NEW q \in Queues, RemoveActiveQueue(u, q) PROVE QueueInv'
  <2>1. UNCHANGED <<exists, worker, pushed, started, readerPc>>
    BY <1>7 DEF RemoveActiveQueue, readerVars
  <2>2. CASE q \in exists
    BY <1>1, <1>7, <2>1, <2>2, StopBegins DEF RemoveActiveQueue, HasActiveQueue
  <2>3. CASE q \notin exists
    <3>1. user' = user /\ lock' = lock /\ backlog' = backlog
      BY <1>7, <2>3 DEF RemoveActiveQueue, HasActiveQueue
    <3> QED
      BY <1>1, <1>2, <1>3, <2>1, <3>1, Elsewhere
  <2> QED
    BY <2>2, <2>3
<1> QED
  BY <1>4, <1>5, <1>6, <1>7 DEF Begin

LEMMA ContinueKeeps ==
    ASSUME QueueInv, NEW u \in Users, Continue(u)
    PROVE  QueueInv'
<1>1. Typed' /\ App \in Users /\ user[u] \in UserSteps
  BY ContinueTyped, QueuesAssumption DEF QueueInv, Typed, TypeOK
<1>2. Ready.at \notin {"quit", "join", "closeQueues"}
  BY StepForms
<1>3. CASE SetWildcard(u) \/ AddRoute(u) \/ EraseRoute(u)
  <2>1. ~Stops(u) /\ user' = [user EXCEPT ![u] = Ready]
    BY <1>3 DEF SetWildcard, AddRoute, EraseRoute, Goto, Stops
  <2>2. UNCHANGED <<lock, readerPc, workVars, exists>>
    BY <1>3 DEF SetWildcard, AddRoute, EraseRoute, readerVars
  <2> QED
    BY <1>1, <1>2, <2>1, <2>2, Elsewhere DEF workVars
<1>4. CASE MakeQueue(u)
  <2> DEFINE s == [user[u] EXCEPT !.at = "askQueue"]
  <2>1. user[u].queue \in Queues /\ s.at = "askQueue" /\ ~Stops(u)
    BY <1>1, <1>4, StepFields, StepGoesOn DEF MakeQueue, Stops
  <2>2. /\ user' = [user EXCEPT ![u] = s] /\ lock' = lock /\ readerPc' = readerPc
        /\ CreateQueue(user[u].queue)
    BY <1>4 DEF MakeQueue, Goto, readerVars
  <2> HIDE DEF s
  <2> QED
    BY <1>1, <2>1, <2>2, CreateElsewhere, Elsewhere
<1>5. CASE AskQueue(u)
  <2>1. PICK s : /\ user' = [user EXCEPT ![u] = s]
                 /\ s.at \notin {"quit", "join", "closeQueues"}
    <3>1. [user[u] EXCEPT !.at = "addRoute"].at = "addRoute"
      BY <1>1, <1>5, StepGoesOn DEF AskQueue
    <3>2. \/ user' = [user EXCEPT ![u] = [user[u] EXCEPT !.at = "addRoute"]]
          \/ user' = [user EXCEPT ![u] = Ready]
      BY <1>5 DEF AskQueue, Goto
    <3> QED
      BY <1>2, <3>1, <3>2
  <2>2. ~Stops(u) /\ UNCHANGED <<lock, readerPc, workVars, exists>>
    BY <1>5 DEF AskQueue, Stops, mapVars, readerVars
  <2> QED
    BY <1>1, <2>1, <2>2, Elsewhere DEF workVars
<1>6. CASE SetQuitFlag(u)
  BY <1>1, <1>6, QuitKeeps
<1>7. CASE Joined(u)
  BY <1>1, <1>7, JoinedKeeps
<1>8. CASE Fetch
  <2>1. ~Stops(App) /\ user' = [user EXCEPT ![App] = Ready]
    BY <1>8 DEF Fetch, Stops
  <2>2. UNCHANGED <<lock, readerPc, workVars, exists>>
    BY <1>8 DEF Fetch, mapVars, readerVars
  <2> QED
    BY <1>1, <1>2, <2>1, <2>2, Elsewhere DEF workVars
<1>9. CASE CloseLocks
  <2> DEFINE s == [at |-> "closeQueues"]
  <2>1. /\ ~Stops(App) /\ user' = [user EXCEPT ![App] = s] /\ s.at = "closeQueues"
        /\ lock = "free" /\ lock' = App
    BY <1>9 DEF CloseLocks, Goto, Stops
  <2>2. UNCHANGED <<readerPc, workVars, exists>>
    BY <1>9 DEF CloseLocks, mapVars, readerVars
  <2> HIDE DEF s
  <2> QED
    BY <1>1, <2>1, <2>2, Elsewhere DEF workVars
<1>10. CASE CloseForgets
  <2> DEFINE s == [at |-> "closed"]
  <2>1. /\ ~Stops(App) /\ user' = [user EXCEPT ![App] = s] /\ s.at = "closed"
        /\ lock = App
    BY <1>10 DEF CloseForgets, Goto, Stops, QueueInv, Locking
  <2>2. UNCHANGED <<readerPc, workVars, exists>>
    BY <1>10 DEF CloseForgets, mapVars, readerVars
  <2> HIDE DEF s
  <2> QED
    BY <1>1, <2>1, <2>2, Elsewhere DEF workVars
<1>11. CASE \E q \in Queues : CloseStopsQueue(q)
  <2>1. PICK q \in exists :
            Goto(App, [at |-> "quit", queue |-> q, closing |-> TRUE]) /\ PushTerminate(q)
    BY <1>11 DEF CloseStopsQueue, HasActiveQueue
  <2>2. /\ UNCHANGED <<exists, worker, pushed, started, readerPc, lock>>
        /\ lock = App /\ ~Stops(App)
    BY <1>11 DEF CloseStopsQueue, mapVars, readerVars, QueueInv, Locking, Stops
  <2> QED
    BY <1>1, <2>1, <2>2, StopBegins
<1> QED
  BY <1>3, <1>4, <1>5, <1>6, <1>7, <1>8, <1>9, <1>10, <1>11 DEF Continue

LEMMA StepQueueInv == QueueInv /\ [Next]_vars => QueueInv'
<1> SUFFICES ASSUME QueueInv, [Next]_vars PROVE QueueInv'
  OBVIOUS
<1>1. CASE UNCHANGED vars
  <2>1. Typed'
    BY <1>1, StepTyped DEF QueueInv
  <2> QED
    BY <1>1, <2>1, ReaderElsewhere
       DEF QueueInv, Locking, vars, mapVars, readerVars, workVars
<1>2. CASE Stopped
  BY <1>1, <1>2 DEF Stopped
<1> QED
  BY <1>1, <1>2, ApplicationKeeps, BeginKeeps, ContinueKeeps, ReaderKeeps, WorkerKeeps
     DEF Next

LEMMA QueueInvariant == Spec => []QueueInv
BY InitQueueInv, StepQueueInv, PTL DEF Spec

(* No callback outlives its queue, whoever stops it and wherever its       *)
(* worker is: Stop comes back only when the thread has ended.              *)
THEOREM WorkersHaveQueues == Spec => []NoWorkerWithoutQueue
<1>1. QueueInv => NoWorkerWithoutQueue
  BY DEF QueueInv, Serving, NoWorkerWithoutQueue
<1> QED
  BY QueueInvariant, <1>1, PTL

(* Every message a queue was given since it was created is handled once,   *)
(* in order, or still waits; a Terminate comes after all of them.          *)
THEOREM HandledInOrder == Spec => []EachOnceInOrder
<1>1. QueueInv => EachOnceInOrder
  BY DEF QueueInv, Serving, Handled, Ending, EachOnceInOrder
<1> QED
  BY QueueInvariant, <1>1, PTL

-----------------------------------------------------------------------------
(***************************************************************************)
(* Routes, if the application thread is the only one that manages them.    *)
(***************************************************************************)
At == user[App].at
Target == user[App].queue

\* From when the inbox is cleared, and while the queues are stopped.
Closing ==
    \/ At \in {"closeLock", "closeQueues", "closed"}
    \/ Stops(App) /\ user[App].closing
Clearing ==
    \/ At = "closeQueues"
    \/ Stops(App) /\ user[App].closing

(* The reader has nothing to look at between scans and after Close began.  *)
NothingToScan ==
    /\ Closing => inBox = <<>> /\ todo = 0
    /\ readerPc \in {"idle", "lock"} => todo = 0

(* Routes, patterns and steps half done are of queues that exist.          *)
Leading ==
    /\ ~Clearing => \A k \in Keys : route[k] \subseteq exists
    /\ ~Closing => \A q \in Queues \ exists : pattern[q] = {}
    /\ At \in {"addRoute", "wildcard"} => Target \in exists
    /\ Stops(App) /\ ~user[App].closing => \A k \in Keys : Target \notin route[k]
    /\ ~died

\* But for a queue that is being removed.
Served ==
    ~Clearing => \A q \in exists, k \in seen \ erased :
        k \in pattern[q] => q \in route[k] \/ (Stops(App) /\ q = Target)

RouteInv == QueueInv /\ NothingToScan /\ Leading /\ Served

LEMMA InitRouteInv == Init => RouteInv
<1> SUFFICES ASSUME Init PROVE RouteInv
  OBVIOUS
<1>1. QueueInv
  BY InitQueueInv
<1>2. user[App].at = "ready"
  BY QueuesAssumption DEF Init, Ready
<1>3. ~Closing /\ ~Stops(App) /\ NothingToScan
  BY <1>2 DEF Init, Closing, Stops, At, NothingToScan
<1>4. Leading /\ Served
  BY <1>2, <1>3 DEF Init, Leading, Served, At
<1> QED
  BY <1>1, <1>3, <1>4 DEF RouteInv

(* Steps of reader and workers, which leave the user alone.                *)
LEMMA ReaderRoutes ==
    ASSUME RouteInv, QueueInv', Reader
    PROVE  RouteInv'
<1> USE DEF RouteInv
<1>0. UNCHANGED <<user, exists, pattern, erased>>
  BY DEF Reader, ReaderLocksInBox, DispatchBegins, ShowToWildcards, PushToQueues,
     QueueNotFound, ScanEnds, ReaderSetsFlag, mapVars
<1>1. /\ Closing' = Closing /\ Clearing' = Clearing /\ At' = At /\ Target' = Target
      /\ Stops(App)' = Stops(App) /\ user'[App].closing = user[App].closing
  BY <1>0 DEF Closing, Clearing, At, Target, Stops
<1>2. ASSUME readerPc = "scan", todo > 0
      PROVE  ~Closing /\ ~Clearing /\ ~Stops(App) /\ Scanned.key \in Keys
  <2>1. ~Closing
    BY <1>2 DEF NothingToScan
  <2>2. Scanned.key \in Keys
    BY <1>2, ScannedIsMail DEF QueueInv, Message
  <2>3. ~Stops(App)
    BY <1>2, QueuesAssumption DEF QueueInv, Locking
  <2> QED
    BY <2>1, <2>2, <2>3 DEF Closing, Clearing
<1>3. NothingToScan'
  <2>1. Closing => inBox' = <<>> /\ todo' = 0
    <3>1. SUFFICES ASSUME Closing PROVE inBox' = <<>> /\ todo' = 0
      OBVIOUS
    <3>2. inBox = <<>> /\ todo = 0 /\ Len(inBox) = 0
      BY <3>1, EmptySeq DEF NothingToScan
    <3> QED
      BY <3>2 DEF Reader, ReaderLocksInBox, DispatchBegins, ShowToWildcards,
         PushToQueues, QueueNotFound, ScanEnds, ReaderSetsFlag, boxVars, readerVars
  <2>2. readerPc' \in {"idle", "lock"} => todo' = 0
    BY DEF NothingToScan, Reader, ReaderLocksInBox, DispatchBegins, ShowToWildcards,
       DispatchReturns, PushToQueues, QueueNotFound, ScanEnds, ReaderSetsFlag,
       readerVars
  <2> QED
    BY <1>1, <2>1, <2>2 DEF NothingToScan
<1>4. CASE ShowToWildcards
  <2> DEFINE k == Scanned.key
             wanting == {q \in Queues : k \in pattern[q]}
  <2>1. /\ k \in Keys /\ wanting \subseteq exists /\ wanting \subseteq Queues
        /\ ~Closing /\ ~Clearing /\ ~Stops(App)
    BY <1>2, <1>4 DEF ShowToWildcards, Leading
  <2>2. /\ route' = IF wanting = {} THEN route
                    ELSE [route EXCEPT ![k] = @ \cup wanting]
        /\ seen' = seen \cup {k} /\ died' = died
    BY <1>4 DEF ShowToWildcards
  <2>3. \A q \in exists : k \in pattern[q] => q \in wanting
    BY DEF QueueInv, Typed, TypeOK
  <2> HIDE DEF k, wanting
  <2>4. /\ \A l \in Keys \ {k} : route'[l] = route[l]
        /\ route'[k] = route[k] \cup wanting
    BY <2>1, <2>2 DEF QueueInv, Typed, TypeOK
  <2>5. Leading'
    BY <1>0, <1>1, <2>1, <2>2, <2>4 DEF Leading
  <2>6. ASSUME NEW q \in exists, NEW l \in seen' \ erased', l \in pattern[q]
        PROVE  q \in route'[l]
    <3>1. CASE l = k
      BY <2>3, <2>4, <2>6, <3>1
    <3>2. CASE l # k
      <4>1. l \in seen \ erased /\ l \in Keys
        BY <1>0, <2>2, <2>6, <3>2 DEF QueueInv, Typed, TypeOK
      <4> QED
        BY <2>1, <2>4, <2>6, <3>2, <4>1 DEF Served
    <3> QED
      BY <3>1, <3>2
  <2>7. Served'
    BY <1>0, <2>6 DEF Served
  <2> QED
    BY <1>3, <2>5, <2>7
<1>5. CASE ~ShowToWildcards
  <2>1. ~QueueNotFound
    BY <1>2 DEF QueueNotFound, Leading
  <2>2. UNCHANGED <<route, seen, died>>
    BY <1>5, <2>1 DEF Reader, ReaderLocksInBox, DispatchBegins, PushToQueues,
       ScanEnds, ReaderSetsFlag, mapVars
  <2>3. Leading' /\ Served'
    BY <1>0, <1>1, <2>2 DEF Leading, Served
  <2> QED
    BY <1>3, <2>3
<1> QED
  BY <1>4, <1>5

LEMMA WorkerRoutes ==
    ASSUME RouteInv, QueueInv', NEW q \in Queues, Worker(q)
    PROVE  RouteInv'
<1>1. UNCHANGED <<user, exists, pattern, erased, route, seen, died, inBox,
                  todo, readerPc>>
  BY DEF Worker, CheckQuit, Pull, CallbackReturns, mapVars, boxVars, readerVars
<1>2. NothingToScan'
  BY <1>1 DEF RouteInv, NothingToScan, Closing, Stops, At
<1>3. Leading' /\ Served'
  BY <1>1 DEF RouteInv, Leading, Served, Closing, Clearing, Stops, At, Target
<1> QED
  BY <1>2, <1>3 DEF RouteInv

\* Steps at which the application thread neither stops a queue nor closes.
Plain == {"ready", "fetch", "wildcard", "addRoute", "makeQueue", "askQueue",
          "eraseRoute"}

Led == /\ \A k \in Keys : route[k] \subseteq exists
       /\ \A q \in Queues \ exists : pattern[q] = {}
       /\ \A q \in exists, k \in seen \ erased :
             k \in pattern[q] => q \in route[k]

LEMMA PlainIsLed ==
    ASSUME RouteInv, At \in Plain
    PROVE  Led /\ ~Closing /\ ~Clearing /\ ~Stops(App)
<1>1. ~Closing /\ ~Clearing /\ ~Stops(App)
  BY DEF Plain, Closing, Clearing, Stops, At
<1> QED
  BY <1>1 DEF RouteInv, Leading, Served, Led

LEMMA PlainStep ==
    ASSUME RouteInv, QueueInv', At' \in Plain, Led',
           At' \in {"addRoute", "wildcard"} => Target' \in exists',
           died' = died, readerVars' = readerVars
    PROVE  RouteInv'
<1>1. ~Closing' /\ ~Clearing' /\ ~Stops(App)'
  BY DEF Plain, Closing, Clearing, Stops, At
<1>2. NothingToScan'
  BY <1>1 DEF RouteInv, NothingToScan, readerVars
<1>3. Leading' /\ Served'
  BY <1>1 DEF RouteInv, Leading, Served, Led
<1> QED
  BY <1>2, <1>3 DEF RouteInv

LEMMA UserAt ==
    ASSUME RouteInv, NEW s, user' = [user EXCEPT ![App] = s]
    PROVE  user'[App] = s /\ At' = s.at /\ Target' = s.queue
BY QueuesAssumption DEF RouteInv, QueueInv, Typed, TypeOK, At, Target

LEMMA CreateLed ==
    ASSUME RouteInv, At \in Plain, NEW q \in Queues, CreateQueue(q),
           UNCHANGED <<pattern, route, seen, erased>>
    PROVE  Led' /\ exists' = exists \cup {q}
<1>1. Led
  BY PlainIsLed
<1>2. exists' = exists \cup {q}
  BY DEF CreateQueue, HasActiveQueue
<1>3. exists \subseteq Queues /\ (q \notin exists => pattern[q] = {})
  BY <1>1 DEF Led, RouteInv, QueueInv, Typed, TypeOK
<1> QED
  BY <1>1, <1>2, <1>3 DEF Led

LEMMA ApplicationRoutes ==
    ASSUME RouteInv, QueueInv', \/ \E k \in Keys : Arrive(k)
                               \/ FetchLooks \/ CloseClears
    PROVE  RouteInv'
<1>1. At \in Plain /\ At = "ready"
  BY StepForms DEF Arrive, FetchLooks, CloseClears, At, Plain
<1>2. Led /\ ~Closing /\ ~Clearing /\ ~Stops(App)
  BY <1>1, PlainIsLed
<1>3. UNCHANGED <<exists, pattern, route, seen, erased, died, readerVars>>
  BY DEF Arrive, FetchLooks, CloseClears, mapVars, readerVars
<1>4. Led'
  BY <1>2, <1>3 DEF Led
<1>5. CASE \E k \in Keys : Arrive(k)
  <2>1. At' = "ready"
    BY <1>1, <1>5 DEF Arrive, At
  <2> QED
    BY <1>3, <1>4, <2>1, PlainStep DEF Plain
<1>6. CASE FetchLooks
  <2>1. At' = "fetch"
    BY <1>6, QueuesAssumption
       DEF FetchLooks, RouteInv, QueueInv, Typed, TypeOK, At
  <2> QED
    BY <1>3, <1>4, <2>1, PlainStep DEF Plain
<1>7. CASE CloseClears
  <2>1. At' = "closeLock"
    BY <1>7, QueuesAssumption
       DEF CloseClears, Goto, RouteInv, QueueInv, Typed, TypeOK, At
  <2>2. ~Clearing' /\ ~Stops(App)' /\ Closing'
    BY <2>1 DEF Clearing, Closing, Stops, At
  <2>3. NothingToScan'
    BY <1>3, <1>7 DEF CloseClears, RouteInv, NothingToScan, readerVars
  <2>4. Leading' /\ Served'
    BY <1>3, <1>4, <2>1, <2>2 DEF RouteInv, Leading, Served, Led
  <2> QED
    BY <2>3, <2>4 DEF RouteInv
<1> QED
  BY <1>5, <1>6, <1>7

(* Stop begins: the routes to the queue are gone, or Close is at it.       *)
LEMMA StopRoutes ==
    ASSUME RouteInv, QueueInv', NEW q \in Queues, NEW c \in BOOLEAN,
           Goto(App, [at |-> "quit", queue |-> q, closing |-> c]),
           \/ ~c /\ Led /\ \A k \in Keys : route'[k] = route[k] \ {q}
           \/ c /\ Closing,
           UNCHANGED <<exists, pattern, seen, erased, died, inBox, readerVars>>
    PROVE  RouteInv'
<1>1. /\ At' = "quit" /\ Target' = q /\ user'[App].closing = c
      /\ Stops(App)'
  <2>1. user'[App] = [at |-> "quit", queue |-> q, closing |-> c]
    BY QueuesAssumption DEF Goto, RouteInv, QueueInv, Typed, TypeOK
  <2> QED
    BY <2>1 DEF At, Target, Stops
<1>2. Clearing' = c /\ Closing' = c
  BY <1>1 DEF Clearing, Closing
<1>3. NothingToScan'
  BY <1>2 DEF RouteInv, NothingToScan, readerVars
<1>4. Leading'
  BY <1>1, <1>2 DEF RouteInv, Leading, Led
<1>5. Served'
  <2>1. SUFFICES ASSUME ~c, NEW p \in exists, NEW k \in seen \ erased, k \in pattern[p]
                 PROVE  p \in route'[k] \/ p = q
    BY <1>1, <1>2 DEF Served
  <2>2. k \in Keys /\ p \in route[k]
    BY <2>1 DEF Led, RouteInv, QueueInv, Typed, TypeOK
  <2> QED
    BY <2>1, <2>2
<1> QED
  BY <1>3, <1>4, <1>5 DEF RouteInv

LEMMA BeginRoutes ==
    ASSUME RouteInv, QueueInv', Begin(App)
    PROVE  RouteInv'
<1>1. At = "ready" /\ At \in Plain /\ user[App] = Ready
  BY StepForms
     DEF At, Plain, Begin, AddActiveQueue, AddWildcardActiveQueue,
         AddMessageRoute, RemoveMessageRoute, RemoveActiveQueue
<1>2. Led
  BY <1>1, PlainIsLed
<1>3. ASSUME NEW q \in Queues, AddActiveQueue(App, q) PROVE RouteInv'
  <2>1. Led'
    BY <1>1, <1>3, CreateLed DEF AddActiveQueue
  <2>2. At' = "ready"
    BY <1>1, <1>3 DEF AddActiveQueue, At
  <2> QED
    BY <1>3, <2>1, <2>2, PlainStep DEF AddActiveQueue, Plain
<1>4. ASSUME NEW q \in Queues, NEW p \in Patterns, AddWildcardActiveQueue(App, q, p)
      PROVE  RouteInv'
  <2>1. Led' /\ q \in exists'
    BY <1>1, <1>4, CreateLed DEF AddWildcardActiveQueue
  <2>2. At' = "wildcard" /\ Target' = q
    BY <1>4, UserAt DEF AddWildcardActiveQueue, Goto
  <2> QED
    BY <1>4, <2>1, <2>2, PlainStep DEF AddWildcardActiveQueue, Plain
<1>5. ASSUME NEW q \in Queues, NEW k \in Keys, NEW cb \in BOOLEAN,
             AddMessageRoute(App, q, k, cb)
      PROVE  RouteInv'
  <2>1. Led'
    BY <1>2, <1>5 DEF AddMessageRoute, Led, mapVars
  <2>2. /\ At' = IF q \in exists THEN "addRoute" ELSE "makeQueue"
        /\ Target' = q
    BY <1>5, UserAt DEF AddMessageRoute, Goto, HasActiveQueue
  <2>3. exists' = exists /\ died' = died /\ readerVars' = readerVars
    BY <1>5 DEF AddMessageRoute, mapVars
  <2> QED
    BY <2>1, <2>2, <2>3, PlainStep DEF Plain
<1>6. ASSUME NEW q \in Queues, NEW k \in Keys, RemoveMessageRoute(App, q, k)
      PROVE  RouteInv'
  <2>1. Led'
    BY <1>2, <1>6 DEF RemoveMessageRoute, Led, mapVars
  <2>2. At' = "eraseRoute"
    BY <1>6, UserAt DEF RemoveMessageRoute, Goto
  <2> QED
    BY <1>6, <2>1, <2>2, PlainStep DEF RemoveMessageRoute, Plain
<1>7. ASSUME NEW q \in Queues, RemoveActiveQueue(App, q) PROVE RouteInv'
  <2>1. /\ \A k \in Keys : route'[k] = route[k] \ {q}
        /\ UNCHANGED <<exists, pattern, seen, erased, died, inBox, readerVars>>
    BY <1>7 DEF RemoveActiveQueue, boxVars
  <2>2. CASE q \in exists
    <3>1. Goto(App, [at |-> "quit", queue |-> q, closing |-> FALSE])
      BY <1>7, <2>2 DEF RemoveActiveQueue, HasActiveQueue
    <3> QED
      BY <1>2, <2>1, <3>1, StopRoutes
  <2>3. CASE q \notin exists
    <3>1. user' = user
      BY <1>7, <2>3 DEF RemoveActiveQueue, HasActiveQueue
    <3>2. Led'
      BY <1>2, <2>1, <2>3 DEF Led, RouteInv, QueueInv, Typed, TypeOK
    <3>3. At' = "ready"
      BY <1>1, <3>1 DEF At
    <3> QED
      BY <2>1, <3>2, <3>3, PlainStep DEF Plain
  <2> QED
    BY <2>2, <2>3
<1> QED
  BY <1>3, <1>4, <1>5, <1>6, <1>7 DEF Begin

LEMMA ContinueRoutes ==
    ASSUME RouteInv, QueueInv', Continue(App)
    PROVE  RouteInv'
<1>0. /\ App \in Users /\ user[App] \in UserSteps
      /\ user \in [Users -> UserSteps]
  BY QueuesAssumption DEF RouteInv, QueueInv, Typed, TypeOK
<1>1. ASSUME SetWildcard(App) PROVE RouteInv'
  <2>1. PICK q \in exists, p \in Patterns : user[App].queue = q /\ user[App].keys = p
    BY <1>0, <1>1, StepFields DEF SetWildcard, RouteInv, Leading, At, Target
  <2>2. /\ At = "wildcard" /\ At \in Plain
        /\ pattern' = [pattern EXCEPT ![q] = p]
        /\ route' = [k \in Keys |->
                        IF k \in p \cap seen THEN route[k] \cup {q} ELSE route[k]]
        /\ UNCHANGED <<exists, seen, erased, died, readerVars>>
    BY <1>1, <2>1 DEF SetWildcard, At, Plain
  <2>3. Led
    BY <2>2, PlainIsLed
  <2>4. Led'
    <3>1. \A k \in Keys : route'[k] \subseteq exists
      BY <2>2, <2>3 DEF Led
    <3>2. \A r \in Queues \ {q} : pattern'[r] = pattern[r]
      BY <2>2 DEF RouteInv, QueueInv, Typed, TypeOK
    <3>3. ASSUME NEW r \in exists, NEW k \in seen \ erased, k \in pattern'[r]
          PROVE  r \in route'[k]
      <4>1. k \in Keys /\ r \in Queues
        BY <3>3 DEF RouteInv, QueueInv, Typed, TypeOK
      <4>2. CASE r = q
        <5>1. k \in p
          BY <2>2, <3>3, <4>1, <4>2 DEF RouteInv, QueueInv, Typed, TypeOK
        <5> QED
          BY <2>2, <3>3, <4>1, <4>2, <5>1
      <4>3. CASE r # q
        BY <2>2, <2>3, <3>2, <3>3, <4>1, <4>3 DEF Led
      <4> QED
        BY <4>2, <4>3
    <3> QED
      BY <2>2, <2>3, <3>1, <3>2, <3>3 DEF Led
  <2>5. At' = "ready"
    BY <1>0, <1>1 DEF SetWildcard, Goto, Ready, At
  <2> QED
    BY <2>2, <2>4, <2>5, PlainStep DEF Plain
<1>2. ASSUME MakeQueue(App) PROVE RouteInv'
  <2>1. user[App].queue \in Queues /\ At \in Plain
    BY <1>0, <1>2, StepFields DEF MakeQueue, At, Plain
  <2>2. Led'
    BY <1>2, <2>1, CreateLed DEF MakeQueue
  <2>3. At' = "askQueue"
    BY <1>0, <1>2, StepGoesOn DEF MakeQueue, Goto, At
  <2> QED
    BY <1>2, <2>2, <2>3, PlainStep DEF MakeQueue, Plain
<1>3. ASSUME AskQueue(App) PROVE RouteInv'
  <2>1. At \in Plain /\ UNCHANGED <<exists, pattern, route, seen, erased, died, readerVars>>
    BY <1>3 DEF AskQueue, At, Plain, mapVars
  <2>2. Led /\ Led'
    BY <2>1, PlainIsLed DEF Led
  <2>3. /\ At' \in {"addRoute", "ready"}
        /\ At' = "addRoute" => Target' \in exists
    <3>1. CASE HasActiveQueue(user[App].queue)
      BY <1>0, <1>3, <3>1, StepGoesOn DEF AskQueue, Goto, At, Target, HasActiveQueue
    <3>2. CASE ~HasActiveQueue(user[App].queue)
      BY <1>0, <1>3, <3>2 DEF AskQueue, Goto, At, Ready
    <3> QED
      BY <3>1, <3>2
  <2> QED
    BY <2>1, <2>2, <2>3, PlainStep DEF Plain
<1>4. ASSUME AddRoute(App) PROVE RouteInv'
  <2>1. PICK q \in exists, k \in Keys : user[App].queue = q /\ user[App].key = k
    BY <1>0, <1>4, StepFields DEF AddRoute, RouteInv, Leading, At, Target
  <2>2. /\ At \in Plain /\ route' = [route EXCEPT ![k] = @ \cup {q}]
        /\ UNCHANGED <<exists, pattern, seen, erased, died, readerVars>>
    BY <1>4, <2>1 DEF AddRoute, At, Plain
  <2>3. \A l \in Keys : route'[l] = IF l = k THEN route[l] \cup {q} ELSE route[l]
    BY <2>2 DEF RouteInv, QueueInv, Typed, TypeOK
  <2>4. Led /\ seen \subseteq Keys
    BY <2>2, PlainIsLed DEF RouteInv, QueueInv, Typed, TypeOK
  <2>5. Led'
    BY <2>2, <2>3, <2>4 DEF Led
  <2>6. At' = "ready"
    BY <1>0, <1>4 DEF AddRoute, Goto, Ready, At
  <2> QED
    BY <2>2, <2>5, <2>6, PlainStep DEF Plain
<1>5. ASSUME EraseRoute(App) PROVE RouteInv'
  <2>1. PICK k \in Keys : user[App].key = k
    BY <1>0, <1>5, StepFields DEF EraseRoute
  <2>2. /\ At \in Plain /\ route' = [route EXCEPT ![k] = {}]
        /\ erased' = erased \cup {k}
        /\ UNCHANGED <<exists, pattern, seen, died, readerVars>>
    BY <1>5, <2>1 DEF EraseRoute, At, Plain
  <2>3. \A l \in Keys : route'[l] = IF l = k THEN {} ELSE route[l]
    BY <2>2 DEF RouteInv, QueueInv, Typed, TypeOK
  <2>4. Led /\ seen \subseteq Keys
    BY <2>2, PlainIsLed DEF RouteInv, QueueInv, Typed, TypeOK
  <2>5. Led'
    BY <2>2, <2>3, <2>4 DEF Led
  <2>6. At' = "ready"
    BY <1>0, <1>5 DEF EraseRoute, Goto, Ready, At
  <2> QED
    BY <2>2, <2>5, <2>6, PlainStep DEF Plain
<1>6. ASSUME SetQuitFlag(App) PROVE RouteInv'
  <2>1. /\ At = "quit" /\ At' = "join" /\ Target' = Target
        /\ user'[App].closing = user[App].closing
        /\ UNCHANGED <<exists, pattern, route, seen, erased, died, inBox, readerVars>>
    BY <1>0, <1>6, StepGoesOn
       DEF SetQuitFlag, Goto, At, Target, mapVars, boxVars
  <2>2. /\ Stops(App) /\ Stops(App)' /\ Closing' = Closing /\ Clearing' = Clearing
    BY <2>1 DEF Stops, Closing, Clearing, At
  <2>3. NothingToScan'
    BY <2>1, <2>2 DEF RouteInv, NothingToScan, readerVars
  <2>4. Leading' /\ Served'
    BY <2>1, <2>2 DEF RouteInv, Leading, Served
  <2> QED
    BY <2>3, <2>4 DEF RouteInv
<1>7. ASSUME Joined(App) PROVE RouteInv'
  <2>1. PICK q \in Queues : user[App].queue = q
    BY <1>0, <1>7, StepFields DEF Joined
  <2>2. /\ Stops(App) /\ At = "join" /\ Target = q /\ user[App].closing \in BOOLEAN
        /\ exists' = exists \ {q}
        /\ UNCHANGED <<route, seen, erased, died, inBox, readerVars>>
    BY <1>0, <1>7, <2>1, StepFields DEF Joined, Stops, At, Target, boxVars
  <2>3. CASE user[App].closing
    <3>1. At' = "closeQueues" /\ pattern' = pattern
      <4>1. pattern' = pattern /\ user'[App] = [at |-> "closeQueues"]
        BY <1>0, <1>7, <2>3 DEF Joined, Goto
      <4> QED
        BY <4>1 DEF At
    <3>2. /\ Closing /\ Closing' /\ Clearing' /\ ~Stops(App)'
      BY <2>2, <2>3, <3>1 DEF Closing, Clearing, Stops, At
    <3>3. NothingToScan'
      BY <2>2, <3>2 DEF RouteInv, NothingToScan, readerVars
    <3>4. Leading' /\ Served'
      BY <2>2, <3>1, <3>2 DEF RouteInv, Leading, Served
    <3> QED
      BY <3>3, <3>4 DEF RouteInv
  <2>4. CASE ~user[App].closing
    <3>1. At' = "ready" /\ pattern' = [pattern EXCEPT ![q] = {}]
      BY <1>0, <1>7, <2>1, <2>4 DEF Joined, Goto, Ready, At
    <3>2. ~Closing /\ ~Clearing
      BY <2>2, <2>4 DEF Closing, Clearing, At
    <3>3. /\ \A k \in Keys : route[k] \subseteq exists \ {q}
          /\ \A p \in Queues \ {q} : pattern'[p] = pattern[p]
          /\ pattern'[q] = {} /\ exists \subseteq Queues
      BY <2>2, <2>4, <3>1, <3>2
         DEF RouteInv, Leading, QueueInv, Typed, TypeOK
    <3>4. Led'
      BY <2>2, <3>1, <3>2, <3>3 DEF RouteInv, Leading, Served, Led
    <3> QED
      BY <2>2, <3>1, <3>4, PlainStep DEF Plain
  <2> QED
    BY <2>2, <2>3, <2>4
<1>8. ASSUME Fetch PROVE RouteInv'
  <2>1. At \in Plain /\ UNCHANGED <<exists, pattern, route, seen, erased, died, readerVars>>
    BY <1>8 DEF Fetch, At, Plain, mapVars
  <2>2. Led /\ Led'
    BY <2>1, PlainIsLed DEF Led
  <2>3. At' = "ready"
    BY <1>0, <1>8 DEF Fetch, Ready, At
  <2> QED
    BY <2>1, <2>2, <2>3, PlainStep DEF Plain
<1>9. ASSUME CloseLocks PROVE RouteInv'
  <2>1. /\ At = "closeLock" /\ At' = "closeQueues"
        /\ UNCHANGED <<exists, pattern, route, seen, erased, died, inBox, readerVars>>
    <3>1. user'[App] = [at |-> "closeQueues"]
      BY <1>0, <1>9 DEF CloseLocks, Goto
    <3> QED
      BY <1>9, <3>1 DEF CloseLocks, At, mapVars, boxVars
  <2>2. Closing /\ Closing' /\ Clearing' /\ ~Stops(App)'
    BY <2>1 DEF Closing, Clearing, Stops, At
  <2>3. NothingToScan'
    BY <2>1, <2>2 DEF RouteInv, NothingToScan, readerVars
  <2>4. Leading' /\ Served'
    BY <2>1, <2>2 DEF RouteInv, Leading, Served
  <2> QED
    BY <2>3, <2>4 DEF RouteInv
<1>10. ASSUME CloseForgets PROVE RouteInv'
  <2>1. /\ At = "closeQueues" /\ At' = "closed" /\ seen' = {}
        /\ \A k \in Keys : route'[k] = {}
        /\ UNCHANGED <<exists, pattern, erased, died, inBox, readerVars>>
    BY <1>0, <1>10 DEF CloseForgets, Goto, At, boxVars
  <2>2. Closing /\ Closing' /\ ~Clearing' /\ ~Stops(App)'
    BY <2>1 DEF Closing, Clearing, Stops, At
  <2>3. NothingToScan'
    BY <2>1, <2>2 DEF RouteInv, NothingToScan, readerVars
  <2>4. Leading' /\ Served'
    BY <2>1, <2>2 DEF RouteInv, Leading, Served
  <2> QED
    BY <2>3, <2>4 DEF RouteInv
<1>11. ASSUME NEW q \in Queues, CloseStopsQueue(q) PROVE RouteInv'
  <2>1. /\ At = "closeQueues" /\ Goto(App, [at |-> "quit", queue |-> q, closing |-> TRUE])
        /\ UNCHANGED <<exists, pattern, seen, erased, died, inBox, readerVars>>
    BY <1>11 DEF CloseStopsQueue, At, mapVars, boxVars
  <2>2. Closing
    BY <2>1 DEF Closing
  <2> QED
    BY <2>1, <2>2, StopRoutes
<1> QED
  BY <1>1, <1>2, <1>3, <1>4, <1>5, <1>6, <1>7, <1>8, <1>9, <1>10, <1>11 DEF Continue

LEMMA StepRouteInv ==
    ASSUME Users = {App}
    PROVE  RouteInv /\ [Next]_vars => RouteInv'
<1> SUFFICES ASSUME RouteInv, [Next]_vars PROVE RouteInv'
  OBVIOUS
<1>1. QueueInv'
  BY StepQueueInv DEF RouteInv
<1>2. CASE UNCHANGED vars
  <2>1. NothingToScan'
    BY <1>2 DEF RouteInv, NothingToScan, Closing, Stops, At, vars, boxVars, readerVars
  <2>2. Leading' /\ Served'
    BY <1>2 DEF RouteInv, Leading, Served, Closing, Clearing, Stops, At, Target,
       vars, mapVars
  <2> QED
    BY <1>1, <2>1, <2>2 DEF RouteInv
<1>3. CASE Stopped
  BY <1>2, <1>3 DEF Stopped
<1> QED
  BY <1>1, <1>2, <1>3, ApplicationRoutes, BeginRoutes, ContinueRoutes, ReaderRoutes,
     WorkerRoutes DEF Next

LEMMA RouteInvariant ==
    ASSUME Users = {App}
    PROVE  Spec => []RouteInv
BY InitRouteInv, StepRouteInv, PTL DEF Spec

(* Where the application thread alone manages the queues, no route dangles *)
(* when the reader follows it, before, while or after Close, and nothing   *)
(* is thrown in the reader's thread.                                       *)
THEOREM RoutesAreSound ==
    ASSUME Users = {App}
    PROVE  Spec => []RoutesLeadToQueues
<1>1. RouteInv => RoutesLeadToQueues
  BY QueuesAssumption DEF RouteInv, QueueInv, Locking, Leading, Clearing, At,
     RoutesLeadToQueues
<1> QED
  BY RouteInvariant, <1>1, PTL

(* Nor does a wildcard queue then miss a variable that was seen, whether   *)
(* the message or the queue came first.                                    *)
THEOREM WildcardsAreServed ==
    ASSUME Users = {App}
    PROVE  Spec => []WildcardsServed
<1>1. RouteInv => WildcardsServed
  BY QueuesAssumption DEF RouteInv, QueueInv, Locking, Served, Clearing, At,
     WildcardsServed
<1> QED
  BY RouteInvariant, <1>1, PTL

-----------------------------------------------------------------------------
(***************************************************************************)
(* Where the mail is.                                                      *)
(***************************************************************************)
Injective(s) == \A i, j \in 1..Len(s) : s[i] = s[j] => i = j

Boxed == Elements(inBox)
Everywhere == Boxed \cup mail \cup queued \cup dropped

\* No message is in two places, or twice in the inbox.
Apart ==
    /\ Injective(inBox)
    /\ Boxed \cap mail = {} /\ Boxed \cap queued = {} /\ Boxed \cap dropped = {}
    /\ mail \cap queued = {} /\ mail \cap dropped = {} /\ queued \cap dropped = {}

\* The messages there are are those received, one for each id.
Complete ==
    /\ \A m, l \in Everywhere : m.id = l.id => m = l
    /\ \A m \in Everywhere : m.id \in 1..received
    /\ \A i \in 1..received : \E m \in Everywhere : m.id = i

MailInv == Typed /\ Apart /\ Complete

LEMMA ElementsAre ==
    ASSUME NEW S, NEW s \in Seq(S)
    PROVE  /\ DOMAIN s = 1..Len(s)
           /\ Elements(s) = {s[i] : i \in 1..Len(s)}
BY LenProperties DEF Elements

LEMMA NothingIsIn == Elements(<<>>) = {} /\ Injective(<<>>)
<1>1. <<>> \in Seq({}) /\ Len(<<>>) = 0
  BY EmptySeq
<1>2. Elements(<<>>) = {<<>>[i] : i \in 1..Len(<<>>)}
  BY <1>1, ElementsAre
<1> QED
  BY <1>1, <1>2 DEF Injective

(* Taking one message out of the inbox takes out that one only.            *)
LEMMA TakenOut ==
    ASSUME NEW S, NEW s \in Seq(S), NEW p \in 1..Len(s), Injective(s)
    PROVE  /\ Injective(Without(s, p)) /\ s[p] \in Elements(s)
           /\ Elements(Without(s, p)) = Elements(s) \ {s[p]}
<1>1. PICK n \in Nat : n = Len(s) /\ p \in 1..n
  BY LenProperties
<1>2. PICK r \in Seq(S) : /\ r = Without(s, p) /\ Len(r) = n - 1
                           /\ \A i \in 1..(n - 1) :
                                r[i] = IF i < p THEN s[i] ELSE s[i + 1]
  BY <1>1, WithoutIs
<1>3. /\ Elements(s) = {s[i] : i \in 1..n}
      /\ Elements(r) = {r[i] : i \in 1..(n - 1)}
  BY <1>1, <1>2, ElementsAre
<1>4. \A i, j \in 1..n : s[i] = s[j] => i = j
  BY <1>1 DEF Injective
<1>5. Injective(r)
  <2>1. SUFFICES ASSUME NEW i \in 1..(n - 1), NEW j \in 1..(n - 1), r[i] = r[j]
                 PROVE  i = j
    BY <1>2 DEF Injective
  <2>2. PICK k \in 1..n : r[i] = s[k] /\ k = IF i < p THEN i ELSE i + 1
    BY <1>1, <1>2
  <2>3. PICK l \in 1..n : r[j] = s[l] /\ l = IF j < p THEN j ELSE j + 1
    BY <1>1, <1>2
  <2>4. k = l
    BY <1>4, <2>1, <2>2, <2>3
  <2> QED
    BY <1>1, <2>2, <2>3, <2>4
<1>6. ASSUME NEW i \in 1..(n - 1) PROVE \E k \in 1..n : k # p /\ r[i] = s[k]
  <2>1. CASE i < p
    BY <1>1, <1>2, <2>1
  <2>2. CASE i >= p
    <3>1. r[i] = s[i + 1] /\ i + 1 \in 1..n /\ i + 1 # p
      BY <1>1, <1>2, <2>2
    <3> QED
      BY <3>1
  <2> QED
    BY <1>1, <2>1, <2>2
<1>7. ASSUME NEW k \in 1..n, k # p PROVE \E i \in 1..(n - 1) : r[i] = s[k]
  <2>1. CASE k < p
    <3>1. k \in 1..(n - 1) /\ r[k] = s[k]
      BY <1>1, <1>2, <2>1
    <3> QED
      BY <3>1
  <2>2. CASE k > p
    <3>1. PICK i \in 1..(n - 1) : i + 1 = k /\ ~(i < p)
      BY <1>1, <2>2
    <3>2. r[i] = s[k]
      BY <1>2, <3>1
    <3> QED
      BY <3>2
  <2> QED
    BY <1>1, <1>7, <2>1, <2>2
<1>8. Elements(r) = Elements(s) \ {s[p]}
  <2>1. Elements(r) \subseteq Elements(s) \ {s[p]}
    BY <1>1, <1>3, <1>4, <1>6
  <2>2. Elements(s) \ {s[p]} \subseteq Elements(r)
    BY <1>3, <1>7
  <2> QED
    BY <2>1, <2>2
<1> QED
  BY <1>1, <1>2, <1>3, <1>5, <1>8

LEMMA PutInFront ==
    ASSUME NEW S, NEW s \in Seq(S), NEW m \in S, Injective(s), m \notin Elements(s)
    PROVE  /\ Injective(<<m>> \o s)
           /\ Elements(<<m>> \o s) = {m} \cup Elements(s)
<1>1. PICK n \in Nat : n = Len(s)
  BY LenProperties
<1> DEFINE r == <<m>> \o s
<1>2. <<m>> \in Seq(S) /\ Len(<<m>>) = 1 /\ <<m>>[1] = m
  OBVIOUS
<1>3. /\ r \in Seq(S) /\ Len(r) = n + 1
      /\ \A i \in 1..(n + 1) : r[i] = IF i <= 1 THEN m ELSE s[i - 1]
  <2> DEFINE a == <<m>>
  <2>1. a \in Seq(S) /\ Len(a) = 1 /\ a[1] = m
    BY <1>2
  <2> HIDE DEF a
  <2>2. /\ a \o s \in Seq(S) /\ Len(a \o s) = Len(a) + Len(s)
        /\ \A i \in 1..(Len(a) + Len(s)) :
               (a \o s)[i] = IF i <= Len(a) THEN a[i] ELSE s[i - Len(a)]
    BY <2>1, ConcatProperties
  <2>3. /\ a \o s \in Seq(S) /\ Len(a \o s) = n + 1
        /\ \A i \in 1..(n + 1) : (a \o s)[i] = IF i <= 1 THEN m ELSE s[i - 1]
    BY <1>1, <2>1, <2>2
  <2> QED
    BY <2>3 DEF a
<1> HIDE DEF r
<1>4. r[1] = m /\ \A k \in 1..n : k + 1 \in 1..(n + 1) /\ r[k + 1] = s[k]
  BY <1>1, <1>3
<1>5. /\ Elements(s) = {s[i] : i \in 1..n}
      /\ Elements(r) = {r[i] : i \in 1..(n + 1)}
  BY <1>1, <1>3, ElementsAre
<1>6. \A i \in 1..(n + 1) : i = 1 \/ (i - 1 \in 1..n /\ r[i] = s[i - 1])
  BY <1>1, <1>3
<1>7. Injective(r)
  <2>1. SUFFICES ASSUME NEW i \in 1..(n + 1), NEW j \in 1..(n + 1), r[i] = r[j]
                 PROVE  i = j
    BY <1>3 DEF Injective
  <2>2. CASE i = 1 \/ j = 1
    BY <1>4, <1>5, <1>6, <2>1, <2>2
  <2>3. CASE i # 1 /\ j # 1
    <3>1. i - 1 = j - 1
      BY <1>1, <1>6, <2>1, <2>3 DEF Injective
    <3> QED
      BY <1>1, <3>1
  <2> QED
    BY <2>2, <2>3
<1>8. Elements(r) = {m} \cup Elements(s)
  <2>1. 1 \in 1..(n + 1)
    BY <1>1
  <2>2. {m} \cup Elements(s) \subseteq Elements(r)
    BY <1>4, <1>5, <2>1
  <2>3. Elements(r) \subseteq {m} \cup Elements(s)
    BY <1>4, <1>5, <1>6
  <2> QED
    BY <2>2, <2>3
<1> QED
  BY <1>7, <1>8 DEF r

LEMMA InitMailInv == Init => MailInv
<1> SUFFICES ASSUME Init PROVE MailInv
  OBVIOUS
<1>1. Boxed = {} /\ Everywhere = {} /\ Injective(inBox)
  BY NothingIsIn DEF Init, Boxed, Everywhere
<1>2. Apart
  BY <1>1 DEF Apart, Init
<1>3. Complete
  BY <1>1 DEF Complete, Init
<1> QED
  BY <1>2, <1>3, InitTyped DEF MailInv

(* Whatever moves the mail, it is complete if none appears or disappears.  *)
LEMMA MovedIsComplete ==
    ASSUME Complete, Everywhere' = Everywhere, received' = received
    PROVE  Complete'
BY DEF Complete

LEMMA MailStays ==
    ASSUME MailInv, Typed', UNCHANGED <<inBox, received, mail, queued, dropped>>
    PROVE  MailInv'
<1>1. Boxed' = Boxed /\ Everywhere' = Everywhere
  BY DEF Boxed, Everywhere
<1>2. Apart'
  BY <1>1 DEF MailInv, Apart
<1> QED
  BY <1>1, <1>2, MovedIsComplete DEF MailInv

LEMMA ArriveMail ==
    ASSUME MailInv, Typed', NEW k \in Keys, Arrive(k)
    PROVE  MailInv'
<1>1. received \in Nat /\ received' = received + 1 /\ received + 1 \in 1..MaxMsgs
  BY QueuesAssumption DEF Arrive, MailInv, Typed, TypeOK
<1>2. PICK m \in Message : /\ m.id = received + 1 /\ inBox' = <<m>> \o inBox
                            /\ UNCHANGED <<mail, queued, dropped>>
  <2>1. [id |-> received + 1, key |-> k] \in Message
    BY <1>1 DEF Message
  <2> QED
    BY <2>1 DEF Arrive
<1>3. \A l \in Everywhere : l.id # m.id
  BY <1>1, <1>2 DEF MailInv, Complete
<1>4. Injective(inBox') /\ Elements(inBox') = {m} \cup Boxed
  BY <1>2, <1>3, PutInFront
     DEF MailInv, Typed, TypeOK, Apart, Boxed, Everywhere
<1>5. Boxed' = {m} \cup Boxed /\ Everywhere' = {m} \cup Everywhere
  BY <1>2, <1>4 DEF Boxed, Everywhere
<1>6. Apart'
  BY <1>2, <1>3, <1>4, <1>5 DEF MailInv, Apart, Everywhere
<1>7. Complete'
  <2>1. \A i \in 1..received' : i = received + 1 \/ i \in 1..received
    BY <1>1
  <2>2. 1..received \subseteq 1..received' /\ received + 1 \in 1..received'
    BY <1>1
  <2>3. \A x, l \in Everywhere' : x.id = l.id => x = l
    BY <1>3, <1>5 DEF MailInv, Complete
  <2>4. \A x \in Everywhere' : x.id \in 1..received'
    BY <1>2, <1>5, <2>2 DEF MailInv, Complete
  <2>5. \A i \in 1..received' : \E x \in Everywhere' : x.id = i
    BY <1>2, <1>5, <2>1 DEF MailInv, Complete
  <2> QED
    BY <2>3, <2>4, <2>5 DEF Complete
<1> QED
  BY <1>6, <1>7 DEF MailInv

LEMMA EmptiedMail ==
    ASSUME MailInv, Typed', Fetch \/ CloseClears
    PROVE  MailInv'
<1>1. /\ inBox' = <<>> /\ received' = received /\ queued' = queued
      /\ \/ mail' = mail \cup Boxed /\ dropped' = dropped
         \/ dropped' = dropped \cup Boxed /\ mail' = mail
  BY DEF Fetch, CloseClears, Boxed
<1>2. Boxed' = {} /\ Injective(inBox')
  BY <1>1, NothingIsIn DEF Boxed
<1>3. Everywhere' = Everywhere
  BY <1>1, <1>2 DEF Everywhere
<1>4. Apart'
  BY <1>1, <1>2 DEF MailInv, Apart
<1> QED
  BY <1>1, <1>3, <1>4, MovedIsComplete DEF MailInv

LEMMA PushedMail ==
    ASSUME MailInv, Typed', PushToQueues
    PROVE  MailInv'
<1>1. UNCHANGED <<received, mail, dropped>>
  BY DEF PushToQueues
<1>2. CASE route[Scanned.key] = {}
  BY <1>1, <1>2, MailStays DEF PushToQueues
<1>3. CASE route[Scanned.key] # {}
  <2>1. readerPc = "scan" /\ todo > 0 /\ Typed
    BY DEF PushToQueues, MailInv
  <2>2. PICK p \in 1..Len(inBox) : p = Position
    BY <2>1, ScannedIsMail
  <2>3. PICK m \in Message : m = inBox[p]
    BY <2>1, <2>2, ScannedIsMail DEF Scanned
  <2>4. queued' = queued \cup {m} /\ inBox' = Without(inBox, p)
    BY <1>3, <2>2, <2>3 DEF PushToQueues, Scanned, Without
  <2>5. inBox \in Seq(Message) /\ Injective(inBox)
    BY DEF MailInv, Typed, TypeOK, Apart
  <2>6. /\ Injective(inBox') /\ m \in Boxed
        /\ Elements(inBox') = Boxed \ {m}
    BY <2>3, <2>4, <2>5, TakenOut DEF Boxed
  <2>7. Boxed' = Boxed \ {m}
    BY <2>6 DEF Boxed
  <2>8. Everywhere' = Everywhere
    BY <1>1, <2>4, <2>6, <2>7 DEF Everywhere
  <2>9. Apart'
    BY <1>1, <2>4, <2>6, <2>7 DEF MailInv, Apart
  <2> QED
    BY <1>1, <2>8, <2>9, MovedIsComplete DEF MailInv
<1> QED
  BY <1>2, <1>3

LEMMA StepMailInv == MailInv /\ [Next]_vars => MailInv'
<1> SUFFICES ASSUME MailInv, [Next]_vars PROVE MailInv'
  OBVIOUS
<1>1. Typed'
  BY StepTyped DEF MailInv
<1> DEFINE Same == UNCHANGED <<inBox, received, mail, queued, dropped>>
<1>2. ASSUME FetchLooks PROVE Same
  BY <1>2 DEF FetchLooks, boxVars
<1>3. ASSUME NEW u \in Users, Begin(u) PROVE Same
  BY <1>3 DEF Begin, AddActiveQueue, AddWildcardActiveQueue, AddMessageRoute,
     RemoveMessageRoute, RemoveActiveQueue, boxVars
<1>4. ASSUME NEW u \in Users, Continue(u), ~Fetch PROVE Same
  BY <1>4 DEF Continue, SetWildcard, MakeQueue, AskQueue, AddRoute, EraseRoute,
     SetQuitFlag, Joined, CloseLocks, CloseForgets, CloseStopsQueue, boxVars
<1>5. ASSUME Reader, ~PushToQueues PROVE Same
  BY <1>5 DEF Reader, ReaderLocksInBox, DispatchBegins, ShowToWildcards,
     QueueNotFound, ScanEnds, ReaderSetsFlag, boxVars
<1>6. ASSUME NEW q \in Queues, Worker(q) PROVE Same
  BY <1>6 DEF Worker, CheckQuit, Pull, CallbackReturns, boxVars
<1>7. ASSUME Stopped \/ UNCHANGED vars PROVE Same
  BY <1>7 DEF Stopped, vars, boxVars
<1>8. Same => MailInv'
  BY <1>1, MailStays
<1> HIDE DEF Same
<1> QED
  BY <1>1, <1>2, <1>3, <1>4, <1>5, <1>6, <1>7, <1>8, ArriveMail, EmptiedMail,
     PushedMail DEF Next

(* Of messages that agree when their ids do, at most one has a given id.   *)
LEMMA HowMany ==
    ASSUME NEW T, NEW m, \A l \in T : l.id = m.id => l = m
    PROVE  Cardinality({l \in T : l.id = m.id}) = IF m \in T THEN 1 ELSE 0
<1>1. CASE m \in T
  <2>1. {l \in T : l.id = m.id} = {m}
    BY <1>1
  <2> QED
    BY <1>1, <2>1, FS_Singleton
<1>2. CASE m \notin T
  <2>1. {l \in T : l.id = m.id} = {}
    BY <1>2
  <2> QED
    BY <1>2, <2>1, FS_EmptySet
<1> QED
  BY <1>1, <1>2

(* The dispatch, the fetch and Close only move messages: none is lost and  *)
(* none is doubled, however the inbox grows while it is scanned.           *)
THEOREM MailIsAccounted == Spec => []Accounted
<1>1. ASSUME MailInv PROVE Accounted
  <2>1. SUFFICES ASSUME NEW i \in 1..received
                 PROVE  Cardinality({n \in DOMAIN inBox : inBox[n].id = i})
                          + Cardinality({m \in mail : m.id = i})
                          + Cardinality({m \in queued : m.id = i})
                          + Cardinality({m \in dropped : m.id = i}) = 1
    BY DEF Accounted
  <2>2. PICK m \in Everywhere : m.id = i
    BY <1>1 DEF MailInv, Complete
  <2>3. \A l \in Everywhere : l.id = i => l = m
    BY <1>1, <2>2 DEF MailInv, Complete
  <2>4. /\ Cardinality({l \in mail : l.id = i}) = IF m \in mail THEN 1 ELSE 0
        /\ Cardinality({l \in queued : l.id = i}) = IF m \in queued THEN 1 ELSE 0
        /\ Cardinality({l \in dropped : l.id = i}) = IF m \in dropped THEN 1 ELSE 0
    BY <2>2, <2>3, HowMany DEF Everywhere
  <2>5. /\ DOMAIN inBox = 1..Len(inBox) /\ Boxed = {inBox[n] : n \in 1..Len(inBox)}
        /\ \A n, j \in 1..Len(inBox) : inBox[n] = inBox[j] => n = j
    BY <1>1, ElementsAre DEF MailInv, Typed, TypeOK, Apart, Injective, Boxed
  <2>6. \A n \in DOMAIN inBox : inBox[n].id = i => inBox[n] = m
    BY <2>3, <2>5 DEF Everywhere
  <2>7. Cardinality({n \in DOMAIN inBox : inBox[n].id = i})
          = IF m \in Boxed THEN 1 ELSE 0
    <3>1. CASE m \in Boxed
      <4>1. PICK j \in DOMAIN inBox : inBox[j] = m
        BY <2>5, <3>1
      <4>2. {n \in DOMAIN inBox : inBox[n].id = i} = {j}
        BY <2>2, <2>5, <2>6, <4>1
      <4> QED
        BY <3>1, <4>2, FS_Singleton
    <3>2. CASE m \notin Boxed
      <4>1. {n \in DOMAIN inBox : inBox[n].id = i} = {}
        BY <2>5, <2>6, <3>2
      <4> QED
        BY <3>2, <4>1, FS_EmptySet
    <3> QED
      BY <3>1, <3>2
  <2> QED
    BY <1>1, <2>2, <2>4, <2>7 DEF MailInv, Apart, Everywhere
<1>2. Spec => []MailInv
  BY InitMailInv, StepMailInv, PTL DEF Spec
<1> QED
  BY <1>1, <1>2, PTL
=============================================================================
