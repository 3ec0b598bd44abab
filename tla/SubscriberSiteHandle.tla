------------------------ MODULE SubscriberSiteHandle ------------------------
(***************************************************************************)
(* MessageSubscriberSiteHandle of src/baseSrc/siteService: the queue, the  *)
(* semaphore and the send thread between publishMessage and one subscriber.*)
(* Publishers hold messageSubscriberList_mutex for the whole loop over the *)
(* handles, so one of them is in sendMessage at a time; the send thread    *)
(* runs beside it.  isStop is never set to TRUE and the retry counter      *)
(* decides nothing: both are left out.                                     *)
(*                                                                         *)
(* A message is the number of its publication.                             *)
(***************************************************************************)
EXTENDS Naturals, Sequences

CONSTANTS
    MAX_QUEUE_SIZE, \* 20 in the code
    MaxMessages     \* bound: publications

ASSUME QueueSizeAssumption == MAX_QUEUE_SIZE \in Nat
ASSUME MessagesAssumption == MaxMessages \in Nat

NoMessage == 0      \* "": the send thread holds no message

VARIABLES
    queue,      \* messages to send
    sem,        \* value of the semaphore
    posting,    \* the publisher has pushed and not yet called sem_post
    pc,         \* send thread: "sem_wait", "woken" or "sending"
    message,    \* what the send thread is posting
    published,  \* number of messages published
    newest,     \* history: the last message posted and not refused
    overdue,    \* requests whose reply did not come in time
    received    \* history: messages the subscriber has handled

sender    == <<pc, message>>
network   == <<newest, overdue, received>>
handleVars      == <<queue, sem, posting, sender, published, network>>

HandleInit ==
    /\ queue = <<>>
    /\ sem = 0
    /\ posting = FALSE
    /\ pc = "sem_wait"
    /\ message = NoMessage
    /\ published = 0
    /\ newest = 0
    /\ overdue = {}
    /\ received = {}

-----------------------------------------------------------------------------
(* Faulty variants of operations defined below.                             *)

\* A wake-up is consumed that was never posted.
SemTryWait ==
    /\ pc = "sem_wait"
    /\ sem' = sem - 1
    /\ pc' = "woken"
    /\ UNCHANGED <<queue, posting, message, published, network>>

\* sem_post only when the queue was empty before the push.
PostOnlyFirst ==
    /\ posting
    /\ posting' = FALSE
    /\ sem' = IF Len(queue) = 1 THEN sem + 1 ELSE sem
    /\ UNCHANGED <<queue, sender, published, network>>

\* A failed message goes back to the end of the queue.
PostFailsRequeues ==
    /\ pc = "sending"
    /\ queue' = Append(queue, message)
    /\ sem' = sem + 1
    /\ pc' = "sem_wait" /\ message' = NoMessage
    /\ UNCHANGED <<posting, published, network>>

-----------------------------------------------------------------------------
(* The publisher: publishMessage, through sendMessage.                      *)

Full(q) == Len(q) > MAX_QUEUE_SIZE

SendMessage ==
    /\ ~posting
    /\ published < MaxMessages
    /\ published' = published + 1
    /\ queue' = Append(IF Full(queue) THEN <<>> ELSE queue, published + 1)
    /\ posting' = TRUE
    /\ UNCHANGED <<sem, sender, network>>

SemPost ==
    /\ posting
    /\ posting' = FALSE
    /\ sem' = sem + 1
    /\ UNCHANGED <<queue, sender, published, network>>

-----------------------------------------------------------------------------
(* The send thread: sendFromThread.                                         *)

SemWait ==
    /\ pc = "sem_wait"
    /\ sem > 0
    /\ sem' = sem - 1
    /\ pc' = "woken"
    /\ UNCHANGED <<queue, posting, message, published, network>>

\* A cleared queue leaves the semaphore too high: the thread may find nothing.
TakeMessage ==
    /\ pc = "woken"
    /\ IF queue = <<>>
       THEN pc' = "sem_wait" /\ UNCHANGED <<queue, message>>
       ELSE /\ message' = Head(queue)
            /\ queue' = Tail(queue)
            /\ pc' = "sending"
    /\ UNCHANGED <<sem, posting, published, network>>

BackToWait == pc' = "sem_wait" /\ message' = NoMessage

PostDelivers ==
    /\ pc = "sending"
    /\ received' = received \cup {message}
    /\ newest' = message
    /\ BackToWait
    /\ UNCHANGED <<queue, sem, posting, published, overdue>>

\* No connection: nothing reached the subscriber, and nothing is retried.
PostFails ==
    /\ pc = "sending"
    /\ BackToWait
    /\ UNCHANGED <<queue, sem, posting, published, network>>

\* The reply does not come before the read timeout: the subscriber may still
\* handle the request while later messages are on their way.
PostTimesOut ==
    /\ pc = "sending"
    /\ overdue' = overdue \cup {message}
    /\ newest' = message
    /\ BackToWait
    /\ UNCHANGED <<queue, sem, posting, published, received>>

ArrivesLate(n) ==
    /\ n \in overdue
    /\ overdue' = overdue \ {n}
    /\ received' = received \cup {n}
    /\ UNCHANGED <<queue, sem, posting, sender, published, newest>>

-----------------------------------------------------------------------------
Post == PostDelivers \/ PostFails \/ PostTimesOut

SendFromThread == SemWait \/ TakeMessage \/ Post

HandleNext ==
    \/ SendMessage
    \/ SemPost
    \/ SendFromThread
    \/ \E n \in 1..MaxMessages : ArrivesLate(n)

HandleSpec == HandleInit /\ [][HandleNext]_handleVars

\* The publisher returns from sem_post and the send thread runs: connection
\* and read timeouts end every request.
HandleFairSpec == HandleSpec /\ WF_handleVars(SemPost) /\ WF_handleVars(SendFromThread)

-----------------------------------------------------------------------------
HandleTypeOK ==
    /\ queue \in Seq(1..MaxMessages)
    /\ sem \in Nat
    /\ posting \in BOOLEAN
    /\ pc \in {"sem_wait", "woken", "sending"}
    /\ message \in 0..MaxMessages
    /\ pc = "sending" => message # NoMessage
    /\ published \in 0..MaxMessages
    /\ newest \in 0..MaxMessages
    /\ overdue \subseteq 1..MaxMessages
    /\ received \subseteq 1..MaxMessages

\* The queue is cleared one message later than its size limit says, never
\* later than that.
QueueIsBounded == Len(queue) <= MAX_QUEUE_SIZE + 1

\* Clearing the queue does not touch the semaphore.  The semaphore may then be
\* too high but never too low: every queued message has a wake-up of its own.
EveryMessageHasItsWakeup ==
    Len(queue) <= sem + (IF posting THEN 1 ELSE 0) + (IF pc = "woken" THEN 1 ELSE 0)

\* No message waits in the queue for ever.
EveryMessageLeavesTheQueue ==
    \A n \in 1..MaxMessages :
       (\E i \in DOMAIN queue : queue[i] = n) ~> ~(\E i \in DOMAIN queue : queue[i] = n)

\* The queue, the semaphore and the thread together keep the promise of an
\* in-order, at-most-once channel.
Channel == INSTANCE InOrderChannel WITH
    MaxMessages <- MaxMessages, published <- published, newest <- newest,
    overdue <- overdue, received <- received
ImplementsChannel == Channel!Spec
=============================================================================
