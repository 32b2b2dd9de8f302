------------------------------ MODULE Mailbox ------------------------------
(***************************************************************************)
(* What a MOOS application is promised by its comms client, without        *)
(* threads, locks or queues: a message that reaches the process is, from   *)
(* then on, in one of three places.  It waits, or it has been taken by the *)
(* application (by OnNewMail or by an active queue), or it has been lost.  *)
(* It never comes back from the last two, and OnNewMail sees the messages  *)
(* of one variable in the order of their time stamps.                      *)
(*                                                                         *)
(* CommClient.tla shows which configurations of the client keep that       *)
(* promise (see Implements there).                                         *)
(***************************************************************************)
EXTENDS Naturals, Sequences

CONSTANT Message    \* records with at least the fields key and time

VARIABLES
    waiting,    \* messages the process has received and nobody has taken
    mailLog,    \* sequence of the messages handed to OnNewMail
    queued,     \* messages handed to an active queue instead
    lost        \* messages dropped by a full queue or by shutting down

mailboxVars == <<waiting, mailLog, queued, lost>>

Read == {mailLog[n] : n \in DOMAIN mailLog}

(* The messages of one key appear in s with non-decreasing time stamps.    *)
InTimeOrder(s) ==
    \A m, n \in DOMAIN s :
        m < n /\ s[m].key = s[n].key => s[m].time <= s[n].time

MailboxInit ==
    /\ waiting = {}
    /\ mailLog = <<>>
    /\ queued = {}
    /\ lost = {}

Arrive(m) ==
    /\ m \notin waiting \cup Read \cup queued \cup lost
    /\ waiting' \subseteq waiting \cup {m}
    /\ m \in waiting'
    /\ lost' = lost \cup (waiting \ waiting')
    /\ UNCHANGED <<mailLog, queued>>

(* The application reads: the log grows by a batch of waiting messages.    *)
Deliver ==
    LET fresh == {mailLog'[n] : n \in Len(mailLog) + 1 .. Len(mailLog')} IN
    /\ Len(mailLog') > Len(mailLog)
    /\ SubSeq(mailLog', 1, Len(mailLog)) = mailLog
    /\ fresh \subseteq waiting
    /\ InTimeOrder(mailLog')
    /\ waiting' = waiting \ fresh
    /\ UNCHANGED <<queued, lost>>

Queue ==
    /\ queued \subseteq queued'
    /\ waiting' = waiting \ queued'
    /\ queued' \ queued \subseteq waiting
    /\ UNCHANGED <<mailLog, lost>>

Lose ==
    /\ lost \subseteq lost'
    /\ waiting' = waiting \ lost'
    /\ lost' \ lost \subseteq waiting
    /\ UNCHANGED <<mailLog, queued>>

MailboxNext == (\E m \in Message : Arrive(m)) \/ Deliver \/ Queue \/ Lose

(* Nothing waits forever.                                                  *)
NothingWaitsForever ==
    \A m \in Message : m \in waiting ~> m \notin waiting

MailboxSpec ==
    MailboxInit /\ [][MailboxNext]_mailboxVars /\ NothingWaitsForever
=============================================================================
