---------------------- MODULE ServiceSiteManagerProofs ----------------------
(***************************************************************************)
(* Proofs about the two modules of ServiceSiteManager's subscribers, for   *)
(* any number of sites, messages, threads and requests: the handle that    *)
(* sends a subscriber its messages (SubscriberSiteHandle), up to the       *)
(* refinement of InOrderChannel, and the subscriptions with their file     *)
(* (Subscription).  The two share no variable; TypeCorrect is about the    *)
(* subscriptions, HandleTypeCorrect about the handle.                      *)
(***************************************************************************)
EXTENDS SubscriberSiteHandle, Subscription, SequenceTheorems, WellFoundedInduction, TLAPS

-----------------------------------------------------------------------------
(* The handle of a subscriber.                                               *)

USE QueueSizeAssumption, MessagesAssumption DEF NoMessage

\* Every variable keeps its type; in particular the semaphore is never waited
\* on below zero and no number beyond the published ones is sent.
THEOREM HandleTypeCorrect == HandleSpec => []HandleTypeOK
<1>1. HandleInit => HandleTypeOK
  <2>1. <<>> \in Seq(1..MaxMessages) /\ 0 \in 0..MaxMessages
    BY EmptySeq
  <2>2. {} \subseteq 1..MaxMessages
    OBVIOUS
  <2> SUFFICES ASSUME HandleInit
               PROVE  HandleTypeOK
    OBVIOUS
  <2>3. /\ queue \in Seq(1..MaxMessages) /\ sem \in Nat
        /\ message \in 0..MaxMessages /\ published \in 0..MaxMessages
        /\ newest \in 0..MaxMessages
        /\ overdue \subseteq 1..MaxMessages /\ received \subseteq 1..MaxMessages
    BY <2>1, <2>2 DEF HandleInit
  <2>4. posting \in BOOLEAN
    BY DEF HandleInit
  <2>5. pc = "sem_wait"
    BY DEF HandleInit
  <2> QED BY <2>3, <2>4, <2>5 DEF HandleTypeOK
<1>2. HandleTypeOK /\ [HandleNext]_handleVars => HandleTypeOK'
  <2> SUFFICES ASSUME HandleTypeOK, [HandleNext]_handleVars
               PROVE  HandleTypeOK'
    OBVIOUS
  <2> USE DEF HandleTypeOK, sender, network
  <2>1. CASE UNCHANGED handleVars
    BY <2>1 DEF handleVars
  <2>2. CASE SendMessage
    <3>1. published + 1 \in 1..MaxMessages
      BY <2>2 DEF SendMessage
    <3> DEFINE rest == IF Full(queue) THEN <<>> ELSE queue
    <3>2. rest \in Seq(1..MaxMessages) /\ queue' = Append(rest, published + 1)
      BY <2>2, EmptySeq DEF SendMessage
    <3> HIDE DEF rest
    <3>3. queue' \in Seq(1..MaxMessages)
      BY <3>1, <3>2
    <3>4. published' \in 0..MaxMessages
      BY <2>2, <3>1 DEF SendMessage
    <3> QED BY <2>2, <3>3, <3>4 DEF SendMessage
  <2>3. CASE SemPost
    <3>1. posting' \in BOOLEAN
      BY <2>3 DEF SemPost
    <3>2. sem' \in Nat /\ UNCHANGED <<queue, pc, message, published, newest, overdue, received>>
      BY <2>3 DEF SemPost
    <3> QED BY <3>1, <3>2
  <2>4. CASE SemWait
    BY <2>4 DEF SemWait
  <2>5. CASE TakeMessage
    <3>1. CASE queue = <<>>
      BY <2>5, <3>1 DEF TakeMessage
    <3>2. CASE queue # <<>>
      <4>1. Head(queue) \in 1..MaxMessages /\ Tail(queue) \in Seq(1..MaxMessages)
        BY <3>2, HeadTailProperties
      <4> QED BY <2>5, <3>2, <4>1 DEF TakeMessage
    <3> QED BY <3>1, <3>2
  <2>6. ASSUME Post
        PROVE  HandleTypeOK'
    <3>1. pc = "sending" /\ pc' = "sem_wait" /\ message' = 0
      BY <2>6 DEF Post, PostDelivers, PostFails, PostTimesOut, BackToWait
    <3>2. message \in 1..MaxMessages
      BY <3>1
    <3>3. /\ received' \subseteq 1..MaxMessages /\ overdue' \subseteq 1..MaxMessages
          /\ newest' \in 0..MaxMessages
      BY <2>6, <3>2 DEF Post, PostDelivers, PostFails, PostTimesOut
    <3>4. UNCHANGED <<queue, sem, posting, published>>
      BY <2>6 DEF Post, PostDelivers, PostFails, PostTimesOut
    <3> QED BY <3>1, <3>3, <3>4
  <2>7. ASSUME NEW n \in 1..MaxMessages, ArrivesLate(n)
        PROVE  HandleTypeOK'
    BY <2>7 DEF ArrivesLate
  <2> QED BY <2>1, <2>2, <2>3, <2>4, <2>5, <2>6, <2>7 DEF HandleNext, SendFromThread
<1> QED BY <1>1, <1>2, PTL DEF HandleSpec

\* What TakeMessage does to the length of the queue.
LEMMA TakingShortens ==
    ASSUME HandleTypeOK, TakeMessage
    PROVE  Len(queue') = IF queue = <<>> THEN 0 ELSE Len(queue) - 1
BY EmptySeq, HeadTailProperties DEF HandleTypeOK, TakeMessage

\* The queue never holds more than MAX_QUEUE_SIZE + 1 messages.
THEOREM QueueBounded == HandleSpec => []QueueIsBounded
<1>1. HandleInit => QueueIsBounded
  BY EmptySeq DEF HandleInit, QueueIsBounded
<1>2. HandleTypeOK /\ QueueIsBounded /\ [HandleNext]_handleVars => QueueIsBounded'
  <2> SUFFICES ASSUME HandleTypeOK, QueueIsBounded, [HandleNext]_handleVars
               PROVE  QueueIsBounded'
    OBVIOUS
  <2> USE DEF QueueIsBounded
  <2>1. Len(queue) \in Nat
    BY LenProperties DEF HandleTypeOK
  <2>2. CASE UNCHANGED queue
    BY <2>2
  <2>3. CASE SendMessage
    <3>1. CASE Full(queue)
      <4>1. queue' = <<published + 1>>
        BY <2>3, <3>1 DEF SendMessage
      <4> QED BY <4>1
    <3>2. CASE ~Full(queue)
      <4>1. queue' = Append(queue, published + 1) /\ Len(queue) <= MAX_QUEUE_SIZE
        BY <2>1, <2>3, <3>2 DEF SendMessage, Full
      <4>2. Len(queue') = Len(queue) + 1
        BY <4>1 DEF HandleTypeOK
      <4> QED BY <2>1, <4>1, <4>2
    <3> QED BY <3>1, <3>2
  <2>4. CASE TakeMessage
    BY <2>1, <2>4, TakingShortens
  <2> QED BY <2>2, <2>3, <2>4
          DEF HandleNext, SendFromThread, SemPost, SemWait, Post, PostDelivers, PostFails,
              PostTimesOut, ArrivesLate, handleVars
<1> QED BY <1>1, <1>2, HandleTypeCorrect, PTL DEF HandleSpec

\* However the clears, posts and waits interleave, each queued message is
\* matched by a posted wake-up, a post still to come or the woken thread.
THEOREM WakeupsSuffice == HandleSpec => []EveryMessageHasItsWakeup
<1>1. HandleInit => EveryMessageHasItsWakeup
  BY EmptySeq DEF HandleInit, EveryMessageHasItsWakeup
<1>2. HandleTypeOK /\ EveryMessageHasItsWakeup /\ [HandleNext]_handleVars
         => EveryMessageHasItsWakeup'
  <2> SUFFICES ASSUME HandleTypeOK, EveryMessageHasItsWakeup, [HandleNext]_handleVars
               PROVE  EveryMessageHasItsWakeup'
    OBVIOUS
  <2> USE DEF EveryMessageHasItsWakeup, sender, network
  <2>1. Len(queue) \in Nat /\ sem \in Nat /\ posting \in BOOLEAN
    BY LenProperties DEF HandleTypeOK
  <2>2. CASE UNCHANGED handleVars
    BY <2>2 DEF handleVars
  <2>3. CASE SendMessage
    <3>1. Len(queue') = IF Full(queue) THEN 1 ELSE Len(queue) + 1
      <4>1. CASE Full(queue)
        <5>1. queue' = <<published + 1>>
          BY <2>3, <4>1 DEF SendMessage
        <5> QED BY <4>1, <5>1
      <4>2. CASE ~Full(queue)
        BY <2>3, <4>2 DEF SendMessage, HandleTypeOK
      <4> QED BY <4>1, <4>2
    <3> QED BY <2>1, <2>3, <3>1 DEF SendMessage
  <2>4. CASE SemPost
    BY <2>1, <2>4 DEF SemPost
  <2>5. CASE SemWait
    BY <2>1, <2>5 DEF SemWait
  <2>6. CASE TakeMessage
    BY <2>1, <2>6, TakingShortens DEF TakeMessage
  <2>7. CASE Post
    BY <2>7 DEF Post, PostDelivers, PostFails, PostTimesOut, BackToWait
  <2>8. ASSUME NEW n \in 1..MaxMessages, ArrivesLate(n)
        PROVE  EveryMessageHasItsWakeup'
    BY <2>8 DEF ArrivesLate
  <2> QED BY <2>2, <2>3, <2>4, <2>5, <2>6, <2>7, <2>8 DEF HandleNext, SendFromThread
<1> QED BY <1>1, <1>2, HandleTypeCorrect, PTL DEF HandleSpec

-----------------------------------------------------------------------------
\* The inductive invariant of the refinement: the queue is in the order of
\* publication and everything in it is younger than what the send thread holds
\* and than what it has handed to the network.
OrderInv ==
    /\ \A i, j \in 1..Len(queue) : i < j => queue[i] < queue[j]
    /\ \A i \in 1..Len(queue) :
          /\ message < queue[i] /\ newest < queue[i]
          /\ queue[i] <= published
    /\ message <= published /\ newest <= published
    /\ pc = "sending" => newest < message

LEMMA OrderInvInvariant == HandleSpec => []OrderInv
<1>1. HandleInit => OrderInv
  BY EmptySeq DEF HandleInit, OrderInv
<1>2. HandleTypeOK /\ OrderInv /\ [HandleNext]_handleVars => OrderInv'
  <2> SUFFICES ASSUME HandleTypeOK, OrderInv, [HandleNext]_handleVars
               PROVE  OrderInv'
    OBVIOUS
  <2> USE DEF sender, network
  <2>1. /\ Len(queue) \in Nat
        /\ \A i \in 1..Len(queue) : queue[i] \in 1..MaxMessages
        /\ message \in Nat /\ newest \in Nat /\ published \in Nat
    BY LenProperties, ElementOfSeq DEF HandleTypeOK
  <2>2. CASE UNCHANGED handleVars
    BY <2>2 DEF handleVars, OrderInv
  <2>3. CASE SendMessage
    <3>1. /\ message' = message /\ newest' = newest /\ pc' = pc
          /\ published' = published + 1
      BY <2>3 DEF SendMessage
    <3>2. CASE Full(queue)
      <4>1. Len(queue') = 1 /\ queue'[1] = published + 1
        BY <2>3, <3>2 DEF SendMessage
      <4> QED BY <2>1, <3>1, <4>1 DEF OrderInv
    <3>3. CASE ~Full(queue)
      <4>1. /\ Len(queue') = Len(queue) + 1
            /\ queue'[Len(queue) + 1] = published + 1
            /\ \A i \in 1..Len(queue) : queue'[i] = queue[i]
        BY <2>1, <2>3, <3>3 DEF SendMessage, HandleTypeOK
      <4>2. \A i, j \in 1..Len(queue') : i < j => queue'[i] < queue'[j]
        BY <2>1, <4>1 DEF OrderInv
      <4>3. \A i \in 1..Len(queue') :
               message' < queue'[i] /\ newest' < queue'[i] /\ queue'[i] <= published'
        BY <2>1, <3>1, <4>1 DEF OrderInv
      <4> QED BY <2>1, <3>1, <4>2, <4>3 DEF OrderInv
    <3> QED BY <3>2, <3>3
  <2>4. CASE SemPost \/ SemWait
    BY <2>4 DEF SemPost, SemWait, OrderInv
  <2>5. CASE TakeMessage
    <3>1. CASE queue = <<>>
      BY <2>5, <3>1 DEF TakeMessage, OrderInv
    <3>2. CASE queue # <<>>
      <4>1. /\ Len(queue) > 0 /\ Len(queue') = Len(queue) - 1
            /\ \A i \in 1..(Len(queue) - 1) : queue'[i] = queue[i + 1]
        <5>1. queue \in Seq(1..MaxMessages) /\ queue' = Tail(queue) /\ Len(queue) > 0
          BY <2>1, <2>5, <3>2, EmptySeq DEF TakeMessage, HandleTypeOK
        <5> QED BY <3>2, <5>1, HeadTailProperties
      <4>2. message' = queue[1] /\ newest' = newest /\ published' = published
        BY <2>1, <2>5, <3>2 DEF TakeMessage, HandleTypeOK
      <4>3. \A i \in 1..Len(queue') : queue'[i] = queue[i + 1] /\ i + 1 \in 2..Len(queue)
        BY <2>1, <4>1
      <4>4. \A i, j \in 1..Len(queue') : i < j => queue'[i] < queue'[j]
        BY <2>1, <4>3 DEF OrderInv
      <4>5. \A i \in 1..Len(queue') :
               message' < queue'[i] /\ newest' < queue'[i] /\ queue'[i] <= published'
        BY <2>1, <4>1, <4>2, <4>3 DEF OrderInv
      <4>6. message' <= published' /\ newest' <= published' /\ newest' < message'
        BY <2>1, <4>1, <4>2 DEF OrderInv
      <4> QED BY <4>4, <4>5, <4>6 DEF OrderInv
    <3> QED BY <3>1, <3>2
  <2>6. CASE Post
    <3>1. /\ pc = "sending" /\ pc' = "sem_wait" /\ message' = 0
          /\ queue' = queue /\ published' = published
          /\ newest' \in {message, newest}
      BY <2>6 DEF Post, PostDelivers, PostFails, PostTimesOut, BackToWait
    <3> QED BY <2>1, <3>1 DEF OrderInv
  <2>7. ASSUME NEW n \in 1..MaxMessages, ArrivesLate(n)
        PROVE  OrderInv'
    BY <2>7 DEF ArrivesLate, OrderInv
  <2> QED BY <2>2, <2>3, <2>4, <2>5, <2>6, <2>7 DEF HandleNext, SendFromThread
<1> QED BY <1>1, <1>2, HandleTypeCorrect, PTL DEF HandleSpec

\* The queue with its semaphore and thread implements the channel: messages
\* arrive at most once, in the order of publication unless the sender gave up
\* waiting for the reply.
THEOREM HandleImplementsChannel == HandleSpec => ImplementsChannel
<1> USE DEF sender, network
<1>1. HandleInit => Channel!Init
  BY DEF HandleInit, Channel!Init
<1>2. HandleTypeOK /\ OrderInv /\ [HandleNext]_handleVars => [Channel!Next]_(Channel!vars)
  <2> SUFFICES ASSUME HandleTypeOK, OrderInv, [HandleNext]_handleVars
               PROVE  Channel!Next \/ UNCHANGED Channel!vars
    OBVIOUS
  <2>1. CASE UNCHANGED handleVars
    BY <2>1 DEF handleVars, Channel!vars
  <2>2. CASE SendMessage
    BY <2>2 DEF SendMessage, Channel!Next, Channel!Publish
  <2>3. CASE SemPost \/ SemWait \/ TakeMessage \/ PostFails
    BY <2>3 DEF SemPost, SemWait, TakeMessage, PostFails, Channel!vars
  <2>4. ASSUME PostDelivers \/ PostTimesOut
        PROVE  /\ message \in 1..MaxMessages
               /\ newest < message /\ message <= published
    <3>1. pc = "sending"
      BY <2>4 DEF PostDelivers, PostTimesOut
    <3>2. newest < message /\ message <= published
      BY <3>1 DEF OrderInv
    <3> QED BY <3>2 DEF HandleTypeOK
  <2>5. CASE PostDelivers
    <3>1. Channel!Deliver(message)
      BY <2>4, <2>5 DEF PostDelivers, Channel!Deliver
    <3> QED BY <2>4, <2>5, <3>1 DEF Channel!Next
  <2>6. CASE PostTimesOut
    <3>1. Channel!GiveUp(message)
      BY <2>4, <2>6 DEF PostTimesOut, Channel!GiveUp
    <3> QED BY <2>4, <2>6, <3>1 DEF Channel!Next
  <2>7. ASSUME NEW n \in 1..MaxMessages, ArrivesLate(n)
        PROVE  Channel!Next
    BY <2>7 DEF ArrivesLate, Channel!Next, Channel!DeliverLate
  <2> QED BY <2>1, <2>2, <2>3, <2>5, <2>6, <2>7 DEF HandleNext, SendFromThread, Post
<1> QED BY <1>1, <1>2, HandleTypeCorrect, OrderInvInvariant, PTL
        DEF HandleSpec, ImplementsChannel, Channel!Spec

-----------------------------------------------------------------------------
(* The subscriptions and their file.                                         *)

\* The lists of subscribers: a site is entered once for a message.
IsLists(f) == IsList(f) /\ \A m \in DOMAIN f : IsInjective(f[m])

Listings ==
    [pc : {"listing"}, op : {"subscribe", "unsubscribe"}, site : Site, ids : Seq(Id),
     next : Nat \ {0}, needSave : BOOLEAN, changed : BOOLEAN]

\* Who saves has the lists it has read and the ids it has left to read.
IsSaving(r) ==
    /\ r \in [pc : {"dumping", "writing"}, op : {"subscribe", "unsubscribe"}, site : Site,
              ids : Seq(Id), changed : {TRUE}, text : {r.text}, left : SUBSET Message]
    /\ IsLists(r.text)
    /\ r.left \subseteq DOMAIN messageSubscriberList
    /\ r.pc = "writing" => r.left = {}

RequestType ==
    /\ DOMAIN request = Thread
    /\ \A t \in Thread : request[t] = Idle \/ request[t] \in Listings \/ IsSaving(request[t])

ListsType ==
    /\ IsLists(messageSubscriberList)
    /\ siteHandles \subseteq Site
    /\ \A m \in DOMAIN messageSubscriberList : ToSet(messageSubscriberList[m]) \subseteq siteHandles

FileType ==
    \/ file \in {Empty, Garbage}
    \/ file = Dump(file.list) /\ IsLists(file.list)

HistoryType ==
    /\ requests \in 0..MaxRequests
    /\ answered \subseteq Site \X Message
    /\ entered \in [Thread -> SUBSET (Site \X Message)]
    /\ undisturbed \in Thread \cup {Nobody} /\ raced \in BOOLEAN

TypeInv == RequestType /\ ListsType /\ FileType /\ HistoryType

\* What has been answered, or is about to be, is in the lists.
AnswersAreListed ==
    /\ answered \subseteq Subscribed
    /\ \A t \in Thread : entered[t] \subseteq Subscribed

\* Who has been saving alone so far has read the lists as they are, unless
\* another handler has changed them since; but every subscription that has
\* been answered, or that it will answer itself, it has read or has yet to.
SavesAlone(t) ==
    /\ Saving(t) /\ \A u \in Thread : Saving(u) => u = t
    /\ request[t].pc = "writing" => file = Empty
    /\ Unsaved = {t} =>
          /\ DOMAIN request[t].text = DOMAIN messageSubscriberList \ request[t].left
          /\ \A m \in DOMAIN request[t].text : request[t].text[m] = messageSubscriberList[m]
    /\ \A p \in answered \cup entered[t] :
          p[2] \in request[t].left \/ p \in PairsOf(request[t].text)

UndisturbedIsAlone == \A t \in Thread : undisturbed = t => SavesAlone(t)

\* What no handler has changed is in the file, unless raced, ...
FileIsLists == ~raced /\ Unsaved = {} => Saved = Subscribed

\* ... and so is what has been answered, whatever is being handled.
AnsweredIsSaved == ~raced /\ file.is = "dump" => answered \subseteq Saved

FileInv ==
    TypeInv /\ AnswersAreListed /\ UndisturbedIsAlone /\ FileIsLists /\ AnsweredIsSaved

-----------------------------------------------------------------------------
(* What the handlers do to a list of subscribers.                            *)

\* The least element of a set of numbers.
LEMMA LeastElement ==
    ASSUME NEW T \in SUBSET Nat, T # {}
    PROVE  \E m \in T : \A k \in T : m <= k
<1>1. IsWellFoundedOn(OpToRel(<, Nat), Nat)
  BY NatLessThanWellFounded, Zenon
<1>2. PICK m \in T : \A k \in T : ~(<<k, m>> \in OpToRel(<, Nat))
  BY <1>1, WFMin, Zenon
<1>3. \A k \in T : ~(k < m)
  BY <1>2, Zenon DEF OpToRel
<1> QED BY <1>3

LEMMA AppendSite ==
    ASSUME NEW q \in Seq(Site), IsInjective(q), NEW s \in Site, s \notin ToSet(q)
    PROVE  /\ Append(q, s) \in Seq(Site) /\ IsInjective(Append(q, s))
           /\ ToSet(Append(q, s)) = ToSet(q) \cup {s}
<1>1. /\ Append(q, s) \in Seq(Site) /\ Len(q) \in Nat
      /\ DOMAIN q = 1..Len(q) /\ DOMAIN Append(q, s) = 1..(Len(q) + 1)
      /\ \A i \in 1..Len(q) : Append(q, s)[i] = q[i]
      /\ Append(q, s)[Len(q) + 1] = s
  OBVIOUS
<1>2. \A i \in 1..Len(q) : q[i] # s
  BY <1>1 DEF ToSet
<1>3. IsInjective(Append(q, s))
  BY <1>1, <1>2 DEF IsInjective
<1>4. ToSet(Append(q, s)) = ToSet(q) \cup {s}
  BY <1>1 DEF ToSet
<1> QED BY <1>1, <1>3, <1>4

LEMMA FrontOfSites ==
    ASSUME NEW q \in Seq(Site), IsInjective(q), q # <<>>
    PROVE  Front(q) \in Seq(Site) /\ IsInjective(Front(q)) /\ ToSet(Front(q)) \subseteq ToSet(q)
<1>1. /\ Len(q) \in Nat /\ Len(q) # 0 /\ DOMAIN q = 1..Len(q)
      /\ \A i \in 1..Len(q) : q[i] \in Site
  OBVIOUS
<1>2. /\ Front(q) \in Seq(Site) /\ Len(Front(q)) = Len(q) - 1
      /\ \A i \in 1..(Len(q) - 1) : Front(q)[i] = q[i]
  BY <1>1 DEF Front
<1>3. DOMAIN Front(q) = 1..(Len(q) - 1)
  BY <1>2
<1> QED BY <1>1, <1>2, <1>3 DEF IsInjective, ToSet

\* erase of what find has returned takes just this site out.
LEMMA RemovedSite ==
    ASSUME NEW q \in Seq(Site), IsInjective(q), NEW s \in ToSet(q)
    PROVE  /\ Removed(q, s) \in Seq(Site) /\ IsInjective(Removed(q, s))
           /\ ToSet(Removed(q, s)) = ToSet(q) \ {s}
<1> DEFINE I == {i \in 1..Len(q) : q[i] = s}
<1>1. /\ Len(q) \in Nat /\ DOMAIN q = 1..Len(q)
      /\ \A i \in 1..Len(q) : q[i] \in Site
  OBVIOUS
<1>2. I # {} /\ I \in SUBSET Nat
  BY <1>1 DEF ToSet
<1>3. PICK k \in I : k = SelectInSeq(q, LAMBDA v : v = s)
  <2>1. \E x \in I : \A y \in I : x <= y
    <3> HIDE DEF I
    <3> QED BY <1>2, LeastElement
  <2>2. Min(I) \in I
    <3> HIDE DEF I
    <3> QED BY <2>1, Zenon DEF Min
  <2>3. SelectInSeq(q, LAMBDA v : v = s) = Min(I)
    BY <1>2, Zenon DEF SelectInSeq
  <2> QED BY <2>2, <2>3
<1>4. Removed(q, s) = RemoveAt(q, k)
  <2>1. \E i \in 1..Len(q) : q[i] = s
    BY <1>3
  <2> QED BY <1>3, <2>1, Zenon DEF Removed, RemoveFirst
<1>5. k \in 1..Len(q) /\ q[k] = s
  BY <1>3
<1> DEFINE g == Removed(q, s)
<1>6. /\ g \in Seq(Site) /\ Len(g) = Len(q) - 1
      /\ \A i \in 1..(Len(q) - 1) : g[i] = IF i < k THEN q[i] ELSE q[i + 1]
  <2> DEFINE a == SubSeq(q, 1, k - 1)
             b == SubSeq(q, k + 1, Len(q))
  <2>1. /\ a \in Seq(Site) /\ Len(a) = k - 1
        /\ \A i \in 1..(k - 1) : a[i] = q[i]
    BY <1>1, <1>5
  <2>2. /\ b \in Seq(Site) /\ Len(b) = Len(q) - k
        /\ \A i \in 1..(Len(q) - k) : b[i] = q[k + i]
    <3> DEFINE l == k + 1
               n == Len(q)
    <3>1. l \in Int /\ n \in Int /\ \A i \in l..n : q[i] \in Site
      BY <1>1, <1>5
    <3>2. /\ n - l + 1 = n - k
          /\ IF l <= n THEN n - l + 1 = n - k ELSE 0 = n - k
          /\ \A i \in 1..(n - k) : l + i - 1 = k + i
      <4>1. k \in Int /\ n \in Int /\ k <= n
        BY <1>1, <1>5
      <4> HIDE DEF n
      <4> QED BY <4>1
    <3> HIDE DEF l, n
    <3>3. /\ SubSeq(q, l, n) \in Seq(Site)
          /\ Len(SubSeq(q, l, n)) = IF l <= n THEN n - l + 1 ELSE 0
          /\ \A i \in 1..(n - l + 1) : SubSeq(q, l, n)[i] = q[l + i - 1]
      BY <3>1, SubSeqProperties
    <3> QED BY <3>2, <3>3 DEF l, n
  <2>3. g = a \o b
    BY <1>4 DEF RemoveAt
  <2> HIDE DEF a, b, g
  <2>4. /\ g \in Seq(Site) /\ Len(g) = Len(q) - 1
        /\ \A i \in 1..(Len(q) - 1) : g[i] = IF i <= k - 1 THEN a[i] ELSE b[i - (k - 1)]
    <3>1. Len(a) + Len(b) = Len(q) - 1
      BY <1>1, <1>5, <2>1, <2>2
    <3>2. /\ a \o b \in Seq(Site) /\ Len(a \o b) = Len(a) + Len(b)
          /\ \A i \in 1..(Len(a) + Len(b)) :
                (a \o b)[i] = IF i <= Len(a) THEN a[i] ELSE b[i - Len(a)]
      BY <2>1, <2>2, ConcatProperties
    <3> QED BY <2>1, <2>3, <3>1, <3>2
  <2>5. ASSUME NEW i \in 1..(Len(q) - 1)
        PROVE  g[i] = IF i < k THEN q[i] ELSE q[i + 1]
    <3>1. CASE i < k
      BY <1>1, <1>5, <2>1, <2>4, <3>1
    <3>2. CASE ~(i < k)
      <4>1. i - (k - 1) \in 1..(Len(q) - k) /\ k + (i - (k - 1)) = i + 1 /\ ~(i <= k - 1)
        BY <1>1, <1>5, <3>2
      <4>2. g[i] = b[i - (k - 1)]
        BY <2>4, <4>1
      <4>3. b[i - (k - 1)] = q[k + (i - (k - 1))]
        BY <2>2, <4>1
      <4> QED BY <3>2, <4>1, <4>2, <4>3
    <3> QED BY <3>1, <3>2
  <2> QED BY <2>4, <2>5
<1> HIDE DEF g, I
<1>7. DOMAIN g = 1..(Len(q) - 1)
  BY <1>6
<1>8. IsInjective(g)
  <2> SUFFICES ASSUME NEW i \in DOMAIN g, NEW j \in DOMAIN g, g[i] = g[j]
               PROVE  i = j
    BY DEF IsInjective
  <2>1. \A x, y \in 1..Len(q) : q[x] = q[y] => x = y
    BY <1>1 DEF IsInjective
  <2> QED BY <1>1, <1>5, <1>6, <1>7, <2>1
<1>9. ToSet(g) = ToSet(q) \ {s}
  <2>1. ASSUME NEW i \in DOMAIN g
        PROVE  g[i] \in ToSet(q) \ {s}
    <3>1. PICK j \in 1..Len(q) : j # k /\ g[i] = q[j]
      <4>1. i \in 1..Len(q) /\ i + 1 \in 1..Len(q)
        BY <1>1, <1>7
      <4> QED BY <1>1, <1>5, <1>6, <1>7, <4>1
    <3>2. q[j] # s
      BY <1>1, <1>5, <3>1 DEF IsInjective
    <3> QED BY <1>1, <3>1, <3>2 DEF ToSet
  <2>2. ASSUME NEW j \in 1..Len(q), q[j] # s
        PROVE  q[j] \in ToSet(g)
    <3>1. CASE j < k
      <4>1. j \in 1..(Len(q) - 1)
        BY <1>1, <1>5, <3>1
      <4> QED BY <1>6, <1>7, <3>1, <4>1 DEF ToSet
    <3>2. CASE ~(j < k)
      <4>1. j - 1 \in 1..(Len(q) - 1) /\ ~(j - 1 < k) /\ (j - 1) + 1 = j
        BY <1>1, <1>5, <2>2, <3>2
      <4> QED BY <1>6, <1>7, <4>1 DEF ToSet
    <3> QED BY <3>1, <3>2
  <2> QED BY <1>1, <2>1, <2>2 DEF ToSet
<1> QED BY <1>6, <1>8, <1>9 DEF g

\* The pairs of the lists f, those of m replaced by the subscribers in q.
PairsWith(f, m, q) == {p \in PairsOf(f) : p[2] # m} \cup (ToSet(q) \X {m})

\* Who is subscribed after the list of m has been replaced or entered.
LEMMA WithListPairs ==
    ASSUME NEW f, IsLists(f), NEW m \in Message, NEW q \in Seq(Site), IsInjective(q)
    PROVE  /\ IsLists(WithList(f, m, q))
           /\ DOMAIN WithList(f, m, q) = DOMAIN f \cup {m}
           /\ WithList(f, m, q)[m] = q
           /\ \A n \in DOMAIN f : n # m => WithList(f, m, q)[n] = f[n]
           /\ PairsOf(WithList(f, m, q)) = PairsWith(f, m, q)
<1> DEFINE g == WithList(f, m, q)
<1>1. /\ DOMAIN g = DOMAIN f \cup {m} /\ g[m] = q
      /\ \A n \in DOMAIN f : n # m => g[n] = f[n]
  BY DEF WithList
<1> HIDE DEF g
<1>2. IsLists(g)
  BY <1>1 DEF IsLists, IsList
<1>3. ToSet(q) \subseteq Site
  BY DEF ToSet
<1>4. PairsOf(g) = PairsWith(f, m, q)
  BY <1>1, <1>3 DEF PairsOf, PairsWith
<1> QED BY <1>1, <1>2, <1>4 DEF g

-----------------------------------------------------------------------------
(* What each step does to its request and to the lists.                      *)

\* Only t's request changes.
OnlyRequest(t) ==
    /\ DOMAIN request' = Thread
    /\ \A u \in Thread : u # t => request'[u] = request[u]

LEMMA PcTells ==
    ASSUME RequestType, NEW t \in Thread
    PROVE  /\ request[t].pc = "listing" => request[t] \in Listings
           /\ Saving(t) => IsSaving(request[t])
           /\ Saving(t) => request[t] # Idle /\ request[t].changed = TRUE
           /\ request[t].pc \in {"idle", "listing", "dumping", "writing"}
<1>1. CASE request[t] = Idle
  <2>1. request[t].pc = "idle"
    BY <1>1 DEF Idle
  <2> QED BY <2>1 DEF Saving
<1>2. CASE request[t] \in Listings
  <2>1. request[t].pc = "listing"
    BY <1>2 DEF Listings
  <2> QED BY <1>2, <2>1 DEF Saving
<1>3. CASE IsSaving(request[t])
  <2>1. request[t].pc \in {"dumping", "writing"} /\ request[t].changed = TRUE
    BY <1>3 DEF IsSaving
  <2>2. request[t] # Idle
    BY <2>1 DEF Idle
  <2> QED BY <1>3, <2>1, <2>2 DEF Saving
<1> QED BY <1>1, <1>2, <1>3 DEF RequestType

LEMMA RequestKeeps ==
    ASSUME RequestType, NEW t \in Thread, OnlyRequest(t),
           DOMAIN messageSubscriberList \subseteq DOMAIN messageSubscriberList',
           request'[t] = Idle \/ request'[t] \in Listings \/ IsSaving(request[t])'
    PROVE  RequestType'
<1>1. \A u \in Thread : u # t => (IsSaving(request[u]) => IsSaving(request[u])')
  BY DEF IsSaving, OnlyRequest
<1>2. \A u \in Thread : u # t => request'[u] = request[u]
  BY DEF OnlyRequest
<1> QED BY <1>1, <1>2 DEF RequestType, OnlyRequest

LEMMA ReceiveStep ==
    ASSUME RequestType, NEW t \in Thread, NEW op \in {"subscribe", "unsubscribe"},
           NEW s \in Site, NEW ids \in BoundedSeq(Id, MaxIds), Receive(t, op, s, ids)
    PROVE  /\ OnlyRequest(t) /\ request[t] = Idle
           /\ request'[t] \in Listings /\ request'[t].changed = FALSE
<1>1. ids \in Seq(Id)
  BY LimitAssumption DEF BoundedSeq, SeqOf
<1>2. request' = [request EXCEPT ![t] =
                      [pc |-> "listing", op |-> op, site |-> s, ids |-> ids,
                       next |-> 1, needSave |-> FALSE, changed |-> FALSE]]
  BY DEF Receive
<1>3. OnlyRequest(t) /\ request'[t] \in Listings /\ request'[t].changed = FALSE
  BY <1>1, <1>2 DEF RequestType, OnlyRequest, Listings
<1> QED BY <1>3, LimitAssumption DEF Receive

LEMMA AdvanceStep ==
    ASSUME RequestType, NEW t \in Thread, request[t].pc = "listing",
           NEW ns \in BOOLEAN, Advance(t, ns)
    PROVE  /\ OnlyRequest(t) /\ request'[t] \in Listings
           /\ request[t].changed \in BOOLEAN
           /\ request'[t].changed = (request[t].changed \/ ns)
<1>1. request[t] \in Listings
  BY PcTells
<1>2. /\ DOMAIN request' = Thread
      /\ \A u \in Thread : u # t => request'[u] = request[u]
      /\ request'[t] = [request[t] EXCEPT !.next = @ + 1, !.needSave = ns,
                                          !.changed = @ \/ ns]
  BY DEF Advance, RequestType
<1>3. request[t].changed \in BOOLEAN /\ request[t].next \in Nat \ {0}
  BY <1>1 DEF Listings
<1> DEFINE r == request[t]
           n == r.next + 1
           c == r.changed \/ ns
<1>4. request'[t] = [r EXCEPT !.next = n, !.needSave = ns, !.changed = c]
  BY <1>2
<1>5. n \in Nat \ {0} /\ c \in BOOLEAN
  BY <1>3
<1> HIDE DEF n, c
<1>6. request'[t] \in Listings /\ request'[t].changed = c
  BY <1>1, <1>4, <1>5 DEF Listings
<1> QED BY <1>2, <1>3, <1>6 DEF OnlyRequest, c

LEMMA IdleStep ==
    ASSUME RequestType, NEW t \in Thread, request' = [request EXCEPT ![t] = Idle]
    PROVE  OnlyRequest(t) /\ request'[t] = Idle
BY DEF RequestType, OnlyRequest

LEMMA SaveStep ==
    ASSUME RequestType, ListsType, NEW t \in Thread, SaveMessageSubscriber(t)
    PROVE  /\ OnlyRequest(t) /\ IsSaving(request[t])' /\ ~Saving(t)
           /\ request'[t].pc = "dumping"
           /\ request'[t].left = DOMAIN messageSubscriberList
           /\ DOMAIN request'[t].text = {}
<1>1. request[t] \in Listings
  BY PcTells DEF SaveMessageSubscriber
<1> DEFINE e == [m \in {} |-> <<>>]
<1>2. /\ request' = [request EXCEPT ![t] =
                        [pc |-> "dumping", op |-> request[t].op, site |-> request[t].site,
                         ids |-> request[t].ids, changed |-> TRUE, text |-> e,
                         left |-> DOMAIN messageSubscriberList]]
      /\ UNCHANGED lists
  BY DEF SaveMessageSubscriber
<1>3. IsLists(e) /\ DOMAIN e = {}
  BY DEF IsLists, IsList
<1>4. /\ DOMAIN messageSubscriberList \subseteq Message
      /\ messageSubscriberList' = messageSubscriberList
  BY <1>2 DEF ListsType, IsLists, IsList, lists
<1> HIDE DEF e
<1>5. OnlyRequest(t)
  BY <1>2 DEF RequestType, OnlyRequest
<1>6. request'[t] = [pc |-> "dumping", op |-> request[t].op, site |-> request[t].site,
                     ids |-> request[t].ids, changed |-> TRUE, text |-> e,
                     left |-> DOMAIN messageSubscriberList]
  BY <1>2 DEF RequestType
<1>7. IsSaving(request[t])'
  BY <1>1, <1>3, <1>4, <1>6 DEF IsSaving, Listings
<1>8. ~Saving(t)
  BY DEF SaveMessageSubscriber, Saving
<1> QED BY <1>3, <1>5, <1>6, <1>7, <1>8

LEMMA DumpStep ==
    ASSUME RequestType, ListsType, NEW t \in Thread, DumpMessage(t)
    PROVE  /\ OnlyRequest(t) /\ IsSaving(request[t])' /\ request'[t].pc = "dumping"
           /\ request[t].pc = "dumping" /\ IsLists(request[t].text)
           /\ request[t].left \subseteq DOMAIN messageSubscriberList
           /\ \E m \in request[t].left :
                 /\ request'[t].left = request[t].left \ {m}
                 /\ request'[t].text = WithList(request[t].text, m, messageSubscriberList[m])
<1>1. request[t].pc = "dumping" /\ IsSaving(request[t])
  BY PcTells DEF DumpMessage, Saving
<1>2. PICK m \in request[t].left :
         request' = [request EXCEPT ![t].left = @ \ {m},
                                    ![t].text = WithList(@, m, messageSubscriberList[m])]
  BY DEF DumpMessage
<1>3. messageSubscriberList' = messageSubscriberList
  BY DEF DumpMessage, lists
<1>4. m \in Message /\ m \in DOMAIN messageSubscriberList
      /\ IsLists(request[t].text) /\ request[t].left \subseteq DOMAIN messageSubscriberList
  BY <1>1, <1>2 DEF IsSaving
<1> DEFINE w == WithList(request[t].text, m, messageSubscriberList[m])
<1>5. IsLists(w)
  <2>1. messageSubscriberList[m] \in Seq(Site) /\ IsInjective(messageSubscriberList[m])
    BY <1>4 DEF ListsType, IsLists, IsList
  <2> QED BY <1>4, <2>1, WithListPairs
<1>6. /\ DOMAIN request' = Thread
      /\ \A u \in Thread : u # t => request'[u] = request[u]
      /\ request'[t] = [request[t] EXCEPT !.left = request[t].left \ {m}, !.text = w]
  <2> HIDE DEF w
  <2>1. DOMAIN request = Thread /\ {"left", "text"} \subseteq DOMAIN request[t]
    BY <1>1 DEF RequestType, IsSaving
  <2> QED BY <1>2, <2>1 DEF w
<1> HIDE DEF w
<1>7. /\ request'[t].left = request[t].left \ {m} /\ request'[t].text = w
      /\ request'[t].pc = "dumping"
  BY <1>1, <1>6 DEF IsSaving
<1>8. IsSaving(request[t])'
  BY <1>1, <1>3, <1>4, <1>5, <1>6, <1>7 DEF IsSaving
<1> QED BY <1>1, <1>2, <1>4, <1>6, <1>7, <1>8 DEF OnlyRequest, w

LEMMA OpenStep ==
    ASSUME RequestType, NEW t \in Thread, OpenFile(t)
    PROVE  /\ OnlyRequest(t) /\ IsSaving(request[t])' /\ request'[t].pc = "writing"
           /\ request[t].pc = "dumping" /\ request[t].left = {} /\ request'[t].left = {}
           /\ request'[t].text = request[t].text
<1>1. request[t].pc = "dumping" /\ IsSaving(request[t]) /\ request[t].left = {}
  BY PcTells DEF OpenFile, Saving
<1>2. /\ DOMAIN request' = Thread
      /\ \A u \in Thread : u # t => request'[u] = request[u]
      /\ request'[t] = [request[t] EXCEPT !.pc = "writing"]
      /\ messageSubscriberList' = messageSubscriberList
  BY DEF OpenFile, RequestType, lists
<1>3. /\ request'[t].pc = "writing" /\ request'[t].left = {}
      /\ request'[t].text = request[t].text
  BY <1>1, <1>2 DEF IsSaving
<1>4. IsSaving(request[t])'
  BY <1>1, <1>2, <1>3 DEF IsSaving
<1> QED BY <1>1, <1>2, <1>3, <1>4 DEF OnlyRequest

LEMMA AddedLists ==
    ASSUME NEW f, IsLists(f), NEW m \in Message, NEW s \in Site
    PROVE  /\ IsLists(Added(f, m, s))
           /\ DOMAIN Added(f, m, s) = DOMAIN f \cup {m}
           /\ \A n \in DOMAIN Added(f, m, s) :
                 ToSet(Added(f, m, s)[n]) \subseteq
                    {s} \cup (IF n \in DOMAIN f THEN ToSet(f[n]) ELSE {})
           /\ PairsOf(Added(f, m, s)) = PairsOf(f) \cup {<<s, m>>}
           /\ <<s, m>> \in PairsOf(f) => Added(f, m, s) = f
<1>1. CASE m \notin DOMAIN f
  <2> DEFINE q == <<s>>
  <2>1. q \in Seq(Site) /\ IsInjective(q) /\ ToSet(q) = {s}
    BY DEF IsInjective, ToSet
  <2>2. Added(f, m, s) = WithList(f, m, q)
    BY <1>1 DEF Added
  <2> HIDE DEF q
  <2>3. /\ IsLists(WithList(f, m, q)) /\ DOMAIN WithList(f, m, q) = DOMAIN f \cup {m}
        /\ WithList(f, m, q)[m] = q
        /\ \A n \in DOMAIN f : n # m => WithList(f, m, q)[n] = f[n]
        /\ PairsOf(WithList(f, m, q)) = PairsWith(f, m, q)
    BY <2>1, WithListPairs
  <2>4. \A p \in PairsOf(f) : p[2] # m
    BY <1>1 DEF PairsOf
  <2>5. PairsWith(f, m, q) = PairsOf(f) \cup {<<s, m>>}
    BY <2>1, <2>4 DEF PairsWith
  <2>6. <<s, m>> \notin PairsOf(f)
    BY <2>4
  <2>7. PairsOf(WithList(f, m, q)) = PairsOf(f) \cup {<<s, m>>}
    BY <2>3, <2>5
  <2> QED BY <2>1, <2>2, <2>3, <2>6, <2>7
<1>2. CASE m \in DOMAIN f /\ s \in ToSet(f[m])
  <2>1. Added(f, m, s) = f
    BY <1>2 DEF Added
  <2>2. <<s, m>> \in PairsOf(f)
    BY <1>2 DEF PairsOf
  <2> QED BY <1>2, <2>1, <2>2
<1>3. CASE m \in DOMAIN f /\ s \notin ToSet(f[m])
  <2> DEFINE q == Append(f[m], s)
  <2>1. f[m] \in Seq(Site) /\ IsInjective(f[m])
    BY <1>3 DEF IsLists, IsList
  <2>2. q \in Seq(Site) /\ IsInjective(q) /\ ToSet(q) = ToSet(f[m]) \cup {s}
    BY <1>3, <2>1, AppendSite
  <2>3. Added(f, m, s) = WithList(f, m, q)
    BY <1>3 DEF Added
  <2> HIDE DEF q
  <2>4. /\ IsLists(WithList(f, m, q)) /\ DOMAIN WithList(f, m, q) = DOMAIN f \cup {m}
        /\ WithList(f, m, q)[m] = q
        /\ \A n \in DOMAIN f : n # m => WithList(f, m, q)[n] = f[n]
        /\ PairsOf(WithList(f, m, q)) = PairsWith(f, m, q)
    BY <2>2, WithListPairs
  <2>5. <<s, m>> \notin PairsOf(f)
    BY <1>3 DEF PairsOf
  <2>6. PairsOf(WithList(f, m, q)) = PairsOf(f) \cup {<<s, m>>}
    BY <1>3, <2>2, <2>4 DEF PairsOf, PairsWith
  <2> QED BY <1>3, <2>2, <2>3, <2>4, <2>5, <2>6
<1> QED BY <1>1, <1>2, <1>3

\* Who is lost when the list of m becomes q.
Lost(f, m, q) == {p \in PairsOf(f) : p[2] = m /\ p[1] \notin ToSet(q)}

LEMMA ReplacedLists ==
    ASSUME NEW f, IsLists(f), NEW m \in DOMAIN f,
           NEW q \in Seq(Site), IsInjective(q), ToSet(q) \subseteq ToSet(f[m])
    PROVE  /\ IsLists([f EXCEPT ![m] = q])
           /\ DOMAIN [f EXCEPT ![m] = q] = DOMAIN f
           /\ \A n \in DOMAIN f : ToSet([f EXCEPT ![m] = q][n]) \subseteq ToSet(f[n])
           /\ PairsOf([f EXCEPT ![m] = q]) = PairsOf(f) \ Lost(f, m, q)
<1> DEFINE g == [f EXCEPT ![m] = q]
<1>1. /\ DOMAIN g = DOMAIN f /\ g[m] = q
      /\ \A n \in DOMAIN f : n # m => g[n] = f[n]
  OBVIOUS
<1> HIDE DEF g
<1>2. IsLists(g)
  BY <1>1 DEF IsLists, IsList
<1>3. \A n \in DOMAIN f : ToSet(g[n]) \subseteq ToSet(f[n])
  BY <1>1
<1>4. PairsOf(g) = PairsOf(f) \ Lost(f, m, q)
  BY <1>1, <1>3 DEF PairsOf, Lost
<1> QED BY <1>1, <1>2, <1>3, <1>4 DEF g

\* A restart loads all that is in the file, or nothing.
LEMMA LoadedLists ==
    ASSUME FileType
    PROVE  /\ IsLists(Loaded)
           /\ PairsOf(Loaded) = {} \/ PairsOf(Loaded) = Saved
<1> DEFINE none == [m \in {} |-> <<>>]
           kept == [m \in {m \in DOMAIN file.list : file.list[m] # <<>>} |-> file.list[m]]
<1>1. CASE file.is = "dump" /\ Entries(file.list) < FileLimit
  <2>1. IsLists(file.list)
    BY <1>1 DEF FileType, Empty, Garbage
  <2>2. Loaded = kept
    BY <1>1 DEF Loaded
  <2>3. /\ DOMAIN kept \subseteq DOMAIN file.list
        /\ \A m \in DOMAIN kept : kept[m] = file.list[m]
        /\ \A m \in DOMAIN file.list : m \in DOMAIN kept \/ file.list[m] = <<>>
    OBVIOUS
  <2> HIDE DEF kept
  <2>4. IsLists(kept)
    BY <2>1, <2>3 DEF IsLists, IsList
  <2>5. ToSet(<<>>) = {}
    BY DEF ToSet
  <2>6. PairsOf(kept) = PairsOf(file.list)
    BY <2>3, <2>5 DEF PairsOf
  <2> QED BY <1>1, <2>2, <2>4, <2>6 DEF Saved
<1>2. CASE ~(file.is = "dump" /\ Entries(file.list) < FileLimit)
  <2>1. Loaded = none
    BY <1>2 DEF Loaded
  <2>2. IsLists(none) /\ PairsOf(none) = {}
    BY DEF IsLists, IsList, PairsOf
  <2> QED BY <2>1, <2>2
<1> QED BY <1>1, <1>2

LEMMA SubscribeStep ==
    ASSUME RequestType, ListsType, entered \in [Thread -> SUBSET (Site \X Message)],
           NEW t \in Thread, SubscribeMessage(t)
    PROVE  /\ request[t].pc = "listing" /\ OnlyRequest(t) /\ RequestType' /\ ListsType'
           /\ request'[t] \in Listings /\ request[t].changed \in BOOLEAN
           /\ request[t].changed => request'[t].changed
           /\ request'[t].changed \/ messageSubscriberList' = messageSubscriberList
           /\ Subscribed \subseteq Subscribed'
           /\ entered' \in [Thread -> SUBSET (Site \X Message)]
           /\ \A u \in Thread : u # t => entered'[u] = entered[u]
           /\ entered'[t] \subseteq entered[t] \cup Subscribed'
<1> DEFINE s == request[t].site
           m == NextId(t)
<1>1. request[t].pc = "listing" /\ request[t] \in Listings
  BY PcTells DEF SubscribeMessage, Listing
<1>2. s \in Site
  BY <1>1 DEF Listings
<1>3. CASE m \in Message
  <2> DEFINE ns == <<s, m>> \notin Subscribed
  <2>1. /\ messageSubscriberList' = Added(messageSubscriberList, m, s)
        /\ siteHandles' = siteHandles \cup {s}
        /\ Advance(t, ns)
        /\ entered' = [entered EXCEPT ![t] = entered[t] \cup {<<s, m>>}]
    BY <1>3, Zenon DEF SubscribeMessage
  <2>2. ns \in BOOLEAN /\ (ns <=> <<s, m>> \notin PairsOf(messageSubscriberList))
    BY DEF Subscribed
  <2> HIDE DEF ns, s, m
  <2>3. /\ OnlyRequest(t) /\ request'[t] \in Listings /\ request[t].changed \in BOOLEAN
        /\ request'[t].changed = (request[t].changed \/ ns)
    BY <1>1, <2>1, <2>2, AdvanceStep
  <2> DEFINE f == messageSubscriberList
             g == Added(f, m, s)
  <2>4. IsLists(f)
    BY DEF ListsType
  <2>5. /\ IsLists(g) /\ DOMAIN g = DOMAIN f \cup {m}
        /\ \A n \in DOMAIN g :
              ToSet(g[n]) \subseteq {s} \cup (IF n \in DOMAIN f THEN ToSet(f[n]) ELSE {})
        /\ PairsOf(g) = PairsOf(f) \cup {<<s, m>>}
        /\ <<s, m>> \in PairsOf(f) => g = f
    BY <1>2, <1>3, <2>4, AddedLists
  <2> HIDE DEF g
  <2>6. messageSubscriberList' = g
    BY <2>1 DEF g
  <2>7. ListsType'
    BY <1>2, <2>1, <2>5, <2>6 DEF ListsType
  <2>8. RequestType'
    <3>1. DOMAIN messageSubscriberList \subseteq DOMAIN messageSubscriberList'
      BY <2>5, <2>6
    <3> QED BY <2>3, <3>1, RequestKeeps
  <2>9. Subscribed' = Subscribed \cup {<<s, m>>}
    BY <2>5, <2>6 DEF Subscribed
  <2>10. request'[t].changed \/ messageSubscriberList' = messageSubscriberList
    BY <2>2, <2>3, <2>5, <2>6
  <2>11. entered' \in [Thread -> SUBSET (Site \X Message)]
    BY <1>2, <1>3, <2>1
  <2> QED BY <1>1, <2>1, <2>3, <2>7, <2>8, <2>9, <2>10, <2>11
<1>4. CASE m \notin Message
  <2>1. UNCHANGED <<lists, entered>> /\ Advance(t, FALSE)
    BY <1>4 DEF SubscribeMessage
  <2>2. /\ OnlyRequest(t) /\ request'[t] \in Listings /\ request[t].changed \in BOOLEAN
        /\ request'[t].changed = (request[t].changed \/ FALSE)
    BY <1>1, <2>1, AdvanceStep
  <2>3. messageSubscriberList' = messageSubscriberList /\ siteHandles' = siteHandles
    BY <2>1 DEF lists
  <2>4. RequestType' /\ ListsType' /\ Subscribed' = Subscribed
    BY <2>2, <2>3, RequestKeeps DEF ListsType, Subscribed
  <2> QED BY <1>1, <2>1, <2>2, <2>3, <2>4
<1> QED BY <1>3, <1>4

\* An unsubscription, of the site itself or of the last in the list.
LEMMA RemovalStep ==
    ASSUME RequestType, ListsType, HistoryType, NEW t \in Thread,
           UnsubscribeMessage(t) \/ EraseEnd(t)
    PROVE  /\ request[t].pc = "listing" /\ OnlyRequest(t)
           /\ RequestType' /\ ListsType' /\ HistoryType'
           /\ request'[t] \in Listings /\ request'[t].changed = TRUE
           /\ Subscribed' \subseteq Subscribed
           /\ answered' = answered \cap Subscribed'
           /\ \A u \in Thread : entered'[u] = entered[u] \cap Subscribed'
           /\ \A p \in Subscribed \ Subscribed' :
                 /\ p[2] = NextId(t)
                 /\ UnsubscribeMessage(t) => p[1] = request[t].site
           /\ UNCHANGED <<file, undisturbed, raced>>
<1> DEFINE f == messageSubscriberList
           m == NextId(t)
           s == request[t].site
<1>1. request[t].pc = "listing" /\ m \in DOMAIN f
  BY DEF UnsubscribeMessage, EraseEnd, Listing, Known
<1>2. IsLists(f) /\ f[m] \in Seq(Site) /\ IsInjective(f[m])
  BY <1>1 DEF ListsType, IsLists, IsList
<1>3. PICK q : /\ Replace(t, q) /\ q \in Seq(Site) /\ IsInjective(q)
               /\ ToSet(q) \subseteq ToSet(f[m])
               /\ UnsubscribeMessage(t) => ToSet(q) = ToSet(f[m]) \ {s}
  <2>1. CASE UnsubscribeMessage(t)
    <3>1. Replace(t, Removed(f[m], s)) /\ <<s, m>> \in Subscribed
      BY <2>1 DEF UnsubscribeMessage
    <3>2. s \in ToSet(f[m])
      BY <3>1 DEF Subscribed, PairsOf
    <3> HIDE DEF f, m, s
    <3>3. /\ Removed(f[m], s) \in Seq(Site) /\ IsInjective(Removed(f[m], s))
          /\ ToSet(Removed(f[m], s)) = ToSet(f[m]) \ {s}
      BY <1>2, <3>2, RemovedSite
    <3> QED BY <3>1, <3>3
  <2>2. CASE EraseEnd(t) /\ ~UnsubscribeMessage(t)
    <3>1. Replace(t, Front(f[m])) /\ f[m] # <<>>
      BY <2>2 DEF EraseEnd
    <3> HIDE DEF f, m, s
    <3>2. /\ Front(f[m]) \in Seq(Site) /\ IsInjective(Front(f[m]))
          /\ ToSet(Front(f[m])) \subseteq ToSet(f[m])
      BY <1>2, <3>1, FrontOfSites
    <3> QED BY <2>2, <3>1, <3>2
  <2> QED BY <2>1, <2>2
<1> DEFINE left == Subscribed \ Lost(f, m, q)
<1>4. /\ messageSubscriberList' = [f EXCEPT ![m] = q]
      /\ answered' = answered \cap left
      /\ entered' = [u \in Thread |-> entered[u] \cap left]
      /\ Advance(t, TRUE)
      /\ UNCHANGED <<siteHandles, file, requests, undisturbed, raced>>
  BY <1>3 DEF Replace, Forget, Lost, Subscribed
<1>5. /\ OnlyRequest(t) /\ request'[t] \in Listings /\ request[t].changed \in BOOLEAN
      /\ request'[t].changed = (request[t].changed \/ TRUE)
  BY <1>1, <1>4, AdvanceStep
<1> HIDE DEF f, m, s
<1>6. /\ IsLists([f EXCEPT ![m] = q]) /\ DOMAIN [f EXCEPT ![m] = q] = DOMAIN f
      /\ \A n \in DOMAIN f : ToSet([f EXCEPT ![m] = q][n]) \subseteq ToSet(f[n])
      /\ PairsOf([f EXCEPT ![m] = q]) = PairsOf(f) \ Lost(f, m, q)
  BY <1>1, <1>2, <1>3, ReplacedLists
<1>7. RequestType'
  <2>1. DOMAIN messageSubscriberList \subseteq DOMAIN messageSubscriberList'
    BY <1>4, <1>6 DEF f
  <2> QED BY <1>5, <2>1, RequestKeeps
<1>8. ListsType'
  BY <1>4, <1>6 DEF ListsType, f
<1>9. Subscribed' = left
  BY <1>4, <1>6 DEF Subscribed, f
<1> HIDE DEF left
<1>10. HistoryType'
  BY <1>4 DEF HistoryType
<1>11. ASSUME NEW p \in Subscribed \ Subscribed'
       PROVE  p[2] = m /\ (UnsubscribeMessage(t) => p[1] = s)
  <2>1. p \in Lost(f, m, q)
    BY <1>9 DEF left
  <2>2. p[2] = m /\ p[1] \notin ToSet(q) /\ p[1] \in ToSet(f[m])
    BY <2>1 DEF Lost, PairsOf
  <2> QED BY <1>3, <2>2
<1>12. Subscribed' \subseteq Subscribed
  BY <1>9 DEF left
<1>13. /\ answered' = answered \cap Subscribed'
       /\ \A u \in Thread : entered'[u] = entered[u] \cap Subscribed'
  BY <1>4, <1>9
<1>14. request'[t].changed = TRUE
  BY <1>5
<1> QED BY <1>1, <1>4, <1>5, <1>7, <1>8, <1>10, <1>11, <1>12, <1>13, <1>14 DEF m, s

\* Both ways to end a handler that does not save.
LEMMA EndStep ==
    ASSUME NEW t \in Thread, UnsubscribeUnknown(t) \/ EndWithoutSave(t)
    PROVE  request[t].pc = "listing" /\ AnswerWithoutSave(t)
BY DEF UnsubscribeUnknown, EndWithoutSave, Listing

LEMMA AnswerStep ==
    ASSUME HistoryType, NEW t \in Thread, Answer(t)
    PROVE  /\ answered' \subseteq Site \X Message
           /\ entered' \in [Thread -> SUBSET (Site \X Message)]
           /\ answered' = answered \cup entered[t]
           /\ \A u \in Thread : entered'[u] \subseteq entered[u]
BY DEF HistoryType, Answer

-----------------------------------------------------------------------------
(* Types.                                                                    *)

LEMMA TypeInvInit == Init => TypeInv
<1> SUFFICES ASSUME Init PROVE TypeInv
  OBVIOUS
<1>1. RequestType
  BY DEF Init, RequestType
<1>2. ListsType
  BY DEF Init, ListsType, IsLists, IsList
<1>3. FileType
  BY DEF Init, FileType
<1>4. HistoryType
  <2>1. /\ requests = 0 /\ answered = {} /\ entered = [t \in Thread |-> {}]
        /\ undisturbed = Nobody /\ raced = FALSE
    BY DEF Init
  <2>2. requests \in 0..MaxRequests
    BY <2>1, LimitAssumption
  <2>3. entered \in [Thread -> SUBSET (Site \X Message)]
    BY <2>1
  <2> QED BY <2>1, <2>2, <2>3 DEF HistoryType
<1> QED BY <1>1, <1>2, <1>3, <1>4 DEF TypeInv

LEMMA TypeInvStep == TypeInv /\ [Next]_vars => TypeInv'
<1> SUFFICES ASSUME TypeInv, [Next]_vars PROVE TypeInv'
  OBVIOUS
<1> USE DEF TypeInv
<1>1. ASSUME NEW t \in Thread, NEW op \in {"subscribe", "unsubscribe"}, NEW s \in Site,
             NEW ids \in BoundedSeq(Id, MaxIds), Receive(t, op, s, ids)
      PROVE  TypeInv'
  <2>1. UNCHANGED <<lists, file, history>> /\ requests' = requests + 1 /\ requests < MaxRequests
    BY <1>1 DEF Receive
  <2>2. OnlyRequest(t) /\ request'[t] \in Listings
    BY <1>1, ReceiveStep
  <2>3. RequestType'
    BY <2>1, <2>2, RequestKeeps DEF lists
  <2>4. ListsType' /\ FileType'
    BY <2>1 DEF lists, ListsType, FileType
  <2>5. HistoryType'
    BY <2>1, LimitAssumption DEF history, HistoryType
  <2> QED BY <2>3, <2>4, <2>5
<1>2. ASSUME NEW t \in Thread, SubscribeMessage(t)
      PROVE  TypeInv'
  <2>1. UNCHANGED <<file, requests, answered, undisturbed, raced>>
    BY <1>2 DEF SubscribeMessage
  <2>2. RequestType' /\ ListsType' /\ entered' \in [Thread -> SUBSET (Site \X Message)]
    BY <1>2, SubscribeStep DEF HistoryType
  <2> QED BY <2>1, <2>2 DEF FileType, HistoryType
<1>3. ASSUME NEW t \in Thread, UnsubscribeMessage(t) \/ EraseEnd(t)
      PROVE  TypeInv'
  BY <1>3, RemovalStep DEF FileType
<1>4. ASSUME NEW t \in Thread, UnsubscribeUnknown(t) \/ EndWithoutSave(t)
      PROVE  TypeInv'
  <2>1. AnswerWithoutSave(t)
    BY <1>4, EndStep
  <2>2. /\ Answer(t) /\ request' = [request EXCEPT ![t] = Idle]
        /\ UNCHANGED <<lists, file, requests>>
        /\ UNCHANGED <<undisturbed, raced>> \/ (raced' = TRUE /\ undisturbed' = Nobody)
    BY <2>1 DEF AnswerWithoutSave, Race
  <2>3. OnlyRequest(t) /\ request'[t] = Idle
    BY <2>2, IdleStep
  <2>4. RequestType'
    BY <2>2, <2>3, RequestKeeps DEF lists
  <2>5. HistoryType'
    BY <2>2, AnswerStep DEF HistoryType
  <2> QED BY <2>2, <2>4, <2>5 DEF lists, ListsType, FileType
<1>5. ASSUME NEW t \in Thread, SaveMessageSubscriber(t)
      PROVE  TypeInv'
  <2>1. OnlyRequest(t) /\ IsSaving(request[t])'
    BY <1>5, SaveStep
  <2>2. /\ UNCHANGED <<lists, file, requests, answered, entered, raced>>
        /\ undisturbed' \in {Nobody, t}
    BY <1>5 DEF SaveMessageSubscriber
  <2>3. RequestType'
    BY <2>1, <2>2, RequestKeeps DEF lists
  <2> QED BY <2>2, <2>3 DEF lists, ListsType, FileType, HistoryType
<1>6. ASSUME NEW t \in Thread, DumpMessage(t)
      PROVE  TypeInv'
  <2>1. OnlyRequest(t) /\ IsSaving(request[t])'
    BY <1>6, DumpStep
  <2>2. UNCHANGED <<lists, file, requests, history>>
    BY <1>6 DEF DumpMessage
  <2>3. RequestType'
    BY <2>1, <2>2, RequestKeeps DEF lists
  <2> QED BY <2>2, <2>3 DEF lists, history, ListsType, FileType, HistoryType
<1>7. ASSUME NEW t \in Thread, OpenFile(t)
      PROVE  TypeInv'
  <2>1. OnlyRequest(t) /\ IsSaving(request[t])'
    BY <1>7, OpenStep
  <2>2. file' = Empty /\ UNCHANGED <<lists, requests, history>>
    BY <1>7 DEF OpenFile
  <2>3. RequestType'
    BY <2>1, <2>2, RequestKeeps DEF lists
  <2> QED BY <2>2, <2>3 DEF lists, history, ListsType, FileType, HistoryType
<1>8. ASSUME NEW t \in Thread, WriteFile(t)
      PROVE  TypeInv'
  <2> DEFINE f == request[t].text
  <2>1. /\ file' \in {Dump(f), Garbage} /\ Answer(t) /\ request' = [request EXCEPT ![t] = Idle]
        /\ raced' \in BOOLEAN /\ undisturbed' = Nobody /\ UNCHANGED <<lists, requests>>
    BY <1>8 DEF WriteFile, Overwritten
  <2>2. IsLists(f)
    <3>1. IsSaving(request[t])
      BY <1>8, PcTells DEF WriteFile, Saving
    <3> QED BY <3>1 DEF IsSaving
  <2>3. FileType'
    <3> HIDE DEF f
    <3>1. Dump(f).list = f
      BY DEF Dump
    <3> QED BY <2>1, <2>2, <3>1 DEF FileType
  <2>4. RequestType'
    <3>1. OnlyRequest(t) /\ request'[t] = Idle
      BY <2>1, IdleStep
    <3> QED BY <2>1, <3>1, RequestKeeps DEF lists
  <2>5. HistoryType'
    BY <2>1, AnswerStep DEF HistoryType
  <2> QED BY <2>1, <2>3, <2>4, <2>5 DEF lists, ListsType
<1>9. ASSUME Restart
      PROVE  TypeInv'
  <2>1. IsLists(Loaded)
    BY LoadedLists
  <2>2. /\ messageSubscriberList' = Loaded /\ siteHandles' = {p[1] : p \in PairsOf(Loaded)}
        /\ request' = [t \in Thread |-> Idle]
        /\ answered' = answered \cap PairsOf(Loaded)
        /\ entered' = [t \in Thread |-> {}]
        /\ raced' \in BOOLEAN /\ undisturbed' = Nobody /\ UNCHANGED <<file, requests>>
    BY <1>9 DEF Restart
  <2> DEFINE f == Loaded
  <2>3. \A m \in DOMAIN f : ToSet(f[m]) \subseteq {p[1] : p \in PairsOf(f)}
    <3> HIDE DEF f
    <3>1. IsLists(f)
      BY <2>1 DEF f
    <3>2. \A m \in DOMAIN f : m \in Message /\ ToSet(f[m]) \subseteq Site
      BY <3>1 DEF IsLists, IsList, ToSet
    <3>3. ASSUME NEW m \in DOMAIN f, NEW s \in ToSet(f[m])
          PROVE  s \in {p[1] : p \in PairsOf(f)}
      <4>1. <<s, m>> \in PairsOf(f) /\ <<s, m>>[1] = s
        BY <3>2 DEF PairsOf
      <4> QED BY <4>1
    <3> QED BY <3>3
  <2>4. {p[1] : p \in PairsOf(f)} \subseteq Site
    BY DEF PairsOf
  <2>5. ListsType'
    <3> HIDE DEF f
    <3> QED BY <2>1, <2>2, <2>3, <2>4 DEF ListsType, f
  <2>6. RequestType'
    BY <2>2 DEF RequestType
  <2> QED BY <2>2, <2>5, <2>6 DEF FileType, HistoryType
<1>10. CASE UNCHANGED vars
  BY <1>10 DEF vars, lists, history, RequestType, ListsType, FileType, HistoryType, IsSaving
<1> QED BY <1>1, <1>2, <1>3, <1>4, <1>5, <1>6, <1>7, <1>8, <1>9, <1>10 DEF Next, Handle

LEMMA TypeInvariant == Spec => []TypeInv
BY TypeInvInit, TypeInvStep, PTL DEF Spec

LEMMA TypeInvType == TypeInv => TypeOK
<1> SUFFICES ASSUME TypeInv PROVE TypeOK
  OBVIOUS
<1>1. /\ IsList(messageSubscriberList) /\ siteHandles \subseteq Site
      /\ \A m \in DOMAIN messageSubscriberList :
            /\ IsInjective(messageSubscriberList[m])
            /\ ToSet(messageSubscriberList[m]) \subseteq siteHandles
  BY DEF TypeInv, ListsType, IsLists
<1>2. \A t \in Thread : request[t].pc \in {"idle", "listing", "dumping", "writing"}
  BY PcTells DEF TypeInv
<1>3. \A t \in Thread : request[t] # Idle =>
         request[t].site \in Site /\ request[t].ids \in Seq(Id) /\ request[t].changed \in BOOLEAN
  BY DEF TypeInv, RequestType, Listings, IsSaving
<1>4. \A t \in Thread : Saving(t) => IsList(request[t].text)
  BY PcTells DEF TypeInv, IsSaving, IsLists
<1>5. \/ file \in {Empty, Garbage}
      \/ file = Dump(file.list) /\ IsList(file.list)
  BY DEF TypeInv, FileType, IsLists
<1> QED BY <1>1, <1>2, <1>3, <1>4, <1>5 DEF TypeOK, TypeInv, HistoryType

\* The lists, the requests, the file and the history have their types; a
\* subscriber is in the list of a message once, and has a handle.
THEOREM TypeCorrect == Spec => []TypeOK
<1>1. TypeInv => TypeOK
  BY TypeInvType
<1> QED BY <1>1, TypeInvariant, PTL

-----------------------------------------------------------------------------
(* What the file holds.                                                      *)

\* Who of the other threads has not saved, or saves.
LEMMA OthersKeep ==
    ASSUME NEW t \in Thread, OnlyRequest(t), NEW u \in Thread, u # t
    PROVE  /\ request'[u] = request[u]
           /\ u \in Unsaved' <=> u \in Unsaved
           /\ Saving(u)' <=> Saving(u)
BY DEF OnlyRequest, Unsaved, Saving

\* Of the thread itself.
LEMMA StateTells ==
    ASSUME RequestType, NEW t \in Thread
    PROVE  /\ request[t].pc = "listing" => ~Saving(t) /\ (t \in Unsaved <=> request[t].changed)
           /\ Saving(t) => t \in Unsaved
           /\ request[t] = Idle => ~Saving(t) /\ t \notin Unsaved
<1>1. request[t].pc = "listing" => request[t] # Idle
  BY DEF Idle
<1>2. request[t] = Idle => request[t].pc = "idle"
  BY DEF Idle
<1> QED BY <1>1, <1>2, PcTells DEF Saving, Unsaved

LEMMA SaverIsUnsaved ==
    ASSUME NEW t \in Thread, IsSaving(request[t])'
    PROVE  Saving(t)' /\ t \in Unsaved'
<1>1. request'[t].pc \in {"dumping", "writing"} /\ request'[t].changed = TRUE
  BY DEF IsSaving
<1>2. request'[t] # Idle
  BY <1>1 DEF Idle
<1> QED BY <1>1, <1>2 DEF Saving, Unsaved

LEMMA FileInvInit == Init => FileInv
<1> SUFFICES ASSUME Init PROVE FileInv
  OBVIOUS
<1>1. TypeInv
  BY TypeInvInit
<1>2. Subscribed = {}
  BY DEF Init, Subscribed, PairsOf
<1>3. /\ answered = {} /\ entered = [t \in Thread |-> {}] /\ undisturbed = Nobody
      /\ file.is = "empty"
  BY DEF Init, Empty
<1>4. Saved = {}
  BY <1>3 DEF Saved
<1> QED BY <1>1, <1>2, <1>3, <1>4, NamesAssumption
      DEF FileInv, AnswersAreListed, UndisturbedIsAlone, FileIsLists, AnsweredIsSaved

LEMMA ReceiveKeeps ==
    ASSUME FileInv, TypeInv', NEW t \in Thread, NEW op \in {"subscribe", "unsubscribe"},
           NEW s \in Site, NEW ids \in BoundedSeq(Id, MaxIds), Receive(t, op, s, ids)
    PROVE  FileInv'
<1>1. /\ UNCHANGED <<messageSubscriberList, file, answered, entered, undisturbed, raced>>
      /\ Subscribed' = Subscribed /\ Saved' = Saved
  BY DEF Receive, lists, history, Subscribed, Saved
<1>2. OnlyRequest(t) /\ request[t] = Idle /\ request'[t] \in Listings /\ request'[t].changed = FALSE
  BY ReceiveStep DEF FileInv, TypeInv
<1>3. \A u \in Thread : u # t =>
         /\ request'[u] = request[u]
         /\ u \in Unsaved' <=> u \in Unsaved
         /\ Saving(u)' <=> Saving(u)
  BY <1>2, OthersKeep
<1>4. ~Saving(t) /\ t \notin Unsaved
  BY <1>2, StateTells DEF FileInv, TypeInv
<1>5. ~Saving(t)' /\ t \notin Unsaved'
  BY <1>2 DEF Listings, Saving, Unsaved
<1>6. Unsaved' = Unsaved
  BY <1>3, <1>4, <1>5 DEF Unsaved
<1>7. ASSUME NEW u \in Thread, undisturbed' = u
      PROVE  SavesAlone(u)'
  <2>1. SavesAlone(u) /\ u # t
    BY <1>1, <1>4, <1>7 DEF FileInv, UndisturbedIsAlone, SavesAlone
  <2> QED BY <1>1, <1>3, <1>5, <1>6, <2>1 DEF SavesAlone
<1>8. UndisturbedIsAlone'
  BY <1>7 DEF UndisturbedIsAlone
<1>9. AnswersAreListed' /\ FileIsLists' /\ AnsweredIsSaved'
  BY <1>1, <1>6 DEF FileInv, AnswersAreListed, FileIsLists, AnsweredIsSaved
<1> QED BY <1>8, <1>9 DEF FileInv

\* Another handler that changes the lists: who saves is not in the way of what
\* has been answered, and the file is not called current.
LEMMA ListingKeeps ==
    ASSUME FileInv, TypeInv', NEW t \in Thread, request[t].pc = "listing", OnlyRequest(t),
           request'[t] \in Listings,
           request[t].changed => request'[t].changed,
           request'[t].changed \/ messageSubscriberList' = messageSubscriberList,
           answered' \subseteq answered,
           \A u \in Thread : u # t => entered'[u] \subseteq entered[u],
           AnswersAreListed',
           UNCHANGED <<file, undisturbed, raced>>
    PROVE  FileInv'
<1>1. \A u \in Thread : u # t =>
         /\ request'[u] = request[u]
         /\ u \in Unsaved' <=> u \in Unsaved
         /\ Saving(u)' <=> Saving(u)
  BY OthersKeep
<1>2. ~Saving(t) /\ (t \in Unsaved <=> request[t].changed)
  BY StateTells DEF FileInv, TypeInv
<1>3. ~Saving(t)' /\ (t \in Unsaved' <=> request'[t].changed)
  <2>1. request'[t].pc = "listing"
    BY DEF Listings
  <2>2. request'[t] # Idle
    BY <2>1 DEF Idle
  <2> QED BY <2>1, <2>2 DEF Saving, Unsaved
<1>4. t \notin Unsaved' =>
         /\ Unsaved' = Unsaved
         /\ messageSubscriberList' = messageSubscriberList
  BY <1>1, <1>2, <1>3 DEF Unsaved
<1>5. ASSUME NEW u \in Thread, undisturbed' = u
      PROVE  SavesAlone(u)'
  <2>1. SavesAlone(u) /\ u # t
    BY <1>2, <1>5 DEF FileInv, UndisturbedIsAlone, SavesAlone
  <2>2. Unsaved' = {u} => Unsaved = {u} /\ messageSubscriberList' = messageSubscriberList
    BY <1>4, <2>1
  <2>3. answered' \cup entered'[u] \subseteq answered \cup entered[u]
    BY <2>1
  <2> QED BY <1>1, <1>3, <2>1, <2>2, <2>3 DEF SavesAlone
<1>6. UndisturbedIsAlone'
  BY <1>5 DEF UndisturbedIsAlone
<1>7. FileIsLists'
  <2> SUFFICES ASSUME ~raced', Unsaved' = {} PROVE Saved' = Subscribed'
    BY DEF FileIsLists
  <2>1. Unsaved = {} /\ messageSubscriberList' = messageSubscriberList
    BY <1>4
  <2>2. Subscribed' = Subscribed /\ Saved' = Saved
    BY <2>1 DEF Subscribed, Saved
  <2> QED BY <2>1, <2>2 DEF FileInv, FileIsLists
<1>8. AnsweredIsSaved'
  BY DEF FileInv, AnsweredIsSaved, Saved
<1> QED BY <1>6, <1>7, <1>8 DEF FileInv

LEMMA SubscribeKeeps ==
    ASSUME FileInv, TypeInv', NEW t \in Thread, SubscribeMessage(t)
    PROVE  FileInv'
<1>1. /\ request[t].pc = "listing" /\ OnlyRequest(t) /\ request'[t] \in Listings
      /\ request[t].changed => request'[t].changed
      /\ request'[t].changed \/ messageSubscriberList' = messageSubscriberList
      /\ Subscribed \subseteq Subscribed'
      /\ \A u \in Thread : u # t => entered'[u] = entered[u]
      /\ entered'[t] \subseteq entered[t] \cup Subscribed'
  BY SubscribeStep DEF FileInv, TypeInv, HistoryType
<1>2. UNCHANGED <<file, answered, undisturbed, raced>>
  BY DEF SubscribeMessage
<1>3. AnswersAreListed'
  <2>1. answered \subseteq Subscribed /\ \A u \in Thread : entered[u] \subseteq Subscribed
    BY DEF FileInv, AnswersAreListed
  <2>2. ASSUME NEW u \in Thread PROVE entered'[u] \subseteq Subscribed'
    BY <1>1, <2>1
  <2> QED BY <1>1, <1>2, <2>1, <2>2 DEF AnswersAreListed
<1> QED BY <1>1, <1>2, <1>3, ListingKeeps

LEMMA RemovalKeeps ==
    ASSUME FileInv, TypeInv', NEW t \in Thread, UnsubscribeMessage(t) \/ EraseEnd(t)
    PROVE  FileInv'
<1>1. /\ request[t].pc = "listing" /\ OnlyRequest(t)
      /\ request'[t] \in Listings /\ request'[t].changed = TRUE
      /\ answered' = answered \cap Subscribed'
      /\ \A u \in Thread : entered'[u] = entered[u] \cap Subscribed'
      /\ UNCHANGED <<file, undisturbed, raced>>
  BY RemovalStep DEF FileInv, TypeInv
<1>2. AnswersAreListed'
  BY <1>1 DEF AnswersAreListed
<1> QED BY <1>1, <1>2, ListingKeeps

LEMMA EndKeeps ==
    ASSUME FileInv, TypeInv', NEW t \in Thread, UnsubscribeUnknown(t) \/ EndWithoutSave(t)
    PROVE  FileInv'
<1>1. request[t].pc = "listing" /\ AnswerWithoutSave(t)
  BY EndStep
<1>2. /\ Answer(t) /\ request' = [request EXCEPT ![t] = Idle]
      /\ IF Unsaved = {} THEN UNCHANGED <<undisturbed, raced>>
         ELSE raced' = TRUE /\ undisturbed' = Nobody
      /\ UNCHANGED <<lists, file, requests>>
  BY <1>1 DEF AnswerWithoutSave, Race
<1>3. answered' = answered \cup entered[t] /\ \A u \in Thread : entered'[u] \subseteq entered[u]
  BY <1>2, AnswerStep DEF FileInv, TypeInv
<1>4. Subscribed' = Subscribed /\ Saved' = Saved
  BY <1>2 DEF lists, Subscribed, Saved
<1>5. AnswersAreListed'
  BY <1>3, <1>4 DEF FileInv, AnswersAreListed
<1>6. CASE Unsaved = {}
  <2>1. \A u \in Thread : undisturbed # u
    BY <1>6, StateTells DEF FileInv, TypeInv, UndisturbedIsAlone, SavesAlone
  <2>2. UndisturbedIsAlone'
    BY <1>2, <1>6, <2>1 DEF UndisturbedIsAlone
  <2>3. ~raced => Saved = Subscribed
    BY <1>6 DEF FileInv, FileIsLists
  <2>4. FileIsLists' /\ AnsweredIsSaved'
    BY <1>2, <1>4, <1>5, <1>6, <2>3 DEF FileIsLists, AnsweredIsSaved, AnswersAreListed
  <2> QED BY <1>5, <2>2, <2>4 DEF FileInv
<1>7. CASE Unsaved # {}
  <2>1. raced' = TRUE /\ \A u \in Thread : undisturbed' # u
    BY <1>2, <1>7, NamesAssumption
  <2> QED BY <1>5, <2>1 DEF FileInv, UndisturbedIsAlone, FileIsLists, AnsweredIsSaved
<1> QED BY <1>6, <1>7

LEMMA SaveKeeps ==
    ASSUME FileInv, TypeInv', NEW t \in Thread, SaveMessageSubscriber(t)
    PROVE  FileInv'
<1>1. /\ UNCHANGED <<messageSubscriberList, file, answered, entered, raced>>
      /\ undisturbed' = IF \E u \in Thread : Saving(u) THEN Nobody ELSE t
      /\ Subscribed' = Subscribed /\ Saved' = Saved
  BY DEF SaveMessageSubscriber, lists, Subscribed, Saved
<1>2. /\ OnlyRequest(t) /\ request'[t].pc = "dumping"
      /\ request'[t].left = DOMAIN messageSubscriberList /\ DOMAIN request'[t].text = {}
  BY SaveStep DEF FileInv, TypeInv
<1>3. \A u \in Thread : u # t => (Saving(u)' <=> Saving(u))
  BY <1>2, OthersKeep
<1>4. t \in Unsaved' /\ Saving(t)'
  <2>1. IsSaving(request[t])'
    BY SaveStep DEF FileInv, TypeInv
  <2> QED BY <2>1, SaverIsUnsaved
<1>5. ASSUME NEW u \in Thread, undisturbed' = u
      PROVE  SavesAlone(u)'
  <2>1. u = t /\ ~\E v \in Thread : Saving(v)
    BY <1>1, <1>5, NamesAssumption
  <2>2. \A p \in answered' \cup entered'[t] : p[2] \in request'[t].left
    BY <1>1, <1>2 DEF FileInv, AnswersAreListed, Subscribed, PairsOf
  <2>3. /\ request'[t].pc # "writing"
        /\ DOMAIN request'[t].text = DOMAIN messageSubscriberList' \ request'[t].left
    BY <1>1, <1>2
  <2> QED BY <1>2, <1>3, <1>4, <2>1, <2>2, <2>3 DEF SavesAlone
<1>6. UndisturbedIsAlone'
  BY <1>5 DEF UndisturbedIsAlone
<1>7. AnswersAreListed' /\ FileIsLists' /\ AnsweredIsSaved'
  BY <1>1, <1>4 DEF FileInv, AnswersAreListed, FileIsLists, AnsweredIsSaved
<1> QED BY <1>6, <1>7 DEF FileInv

\* A step of the one that saves, the others as they are.
LEMMA SaverStep ==
    ASSUME FileInv, NEW t \in Thread, Saving(t), OnlyRequest(t), IsSaving(request[t])'
    PROVE  /\ \A u \in Thread : undisturbed = u => u = t /\ SavesAlone(t)
           /\ SavesAlone(t) => \A u \in Thread : Saving(u)' => u = t
           /\ Saving(t)' /\ t \in Unsaved /\ Unsaved' = Unsaved
<1>1. t \in Unsaved
  BY StateTells DEF FileInv, TypeInv
<1>2. Saving(t)' /\ t \in Unsaved'
  BY SaverIsUnsaved
<1>3. \A u \in Thread : u # t =>
         (u \in Unsaved' <=> u \in Unsaved) /\ (Saving(u)' <=> Saving(u))
  BY OthersKeep
<1>4. Unsaved' = Unsaved
  BY <1>1, <1>2, <1>3 DEF Unsaved
<1>5. \A u \in Thread : undisturbed = u => u = t /\ SavesAlone(t)
  BY DEF FileInv, UndisturbedIsAlone, SavesAlone
<1>6. SavesAlone(t) => \A u \in Thread : Saving(u)' => u = t
  BY <1>3 DEF SavesAlone
<1> QED BY <1>1, <1>2, <1>4, <1>5, <1>6

LEMMA DumpKeeps ==
    ASSUME FileInv, TypeInv', NEW t \in Thread, DumpMessage(t)
    PROVE  FileInv'
<1> DEFINE text == request[t].text
           left == request[t].left
           f == messageSubscriberList
<1>1. /\ UNCHANGED <<messageSubscriberList, file, answered, entered, undisturbed, raced>>
      /\ Subscribed' = Subscribed /\ Saved' = Saved
  BY DEF DumpMessage, lists, history, Subscribed, Saved
<1>2. /\ OnlyRequest(t) /\ IsSaving(request[t])' /\ request'[t].pc = "dumping"
      /\ request[t].pc = "dumping" /\ IsLists(text) /\ left \subseteq DOMAIN f
      /\ \E m \in left : /\ request'[t].left = left \ {m}
                         /\ request'[t].text = WithList(text, m, f[m])
  BY DumpStep DEF FileInv, TypeInv
<1>3. PICK m \in left : /\ request'[t].left = left \ {m}
                        /\ request'[t].text = WithList(text, m, f[m])
  BY <1>2
<1>4. Saving(t)
  BY <1>2 DEF Saving
<1>5. /\ \A u \in Thread : undisturbed = u => u = t /\ SavesAlone(t)
      /\ SavesAlone(t) => \A u \in Thread : Saving(u)' => u = t
      /\ Saving(t)' /\ t \in Unsaved /\ Unsaved' = Unsaved
  BY <1>2, <1>4, SaverStep
<1>6. m \in Message /\ f[m] \in Seq(Site) /\ IsInjective(f[m])
  BY <1>2, <1>3 DEF FileInv, TypeInv, ListsType, IsLists, IsList
<1> DEFINE w == WithList(text, m, f[m])
<1>7. /\ DOMAIN w = DOMAIN text \cup {m} /\ w[m] = f[m]
      /\ \A n \in DOMAIN text : n # m => w[n] = text[n]
      /\ PairsOf(w) = PairsWith(text, m, f[m])
  <2> DEFINE q == f[m]
  <2>1. IsLists(text) /\ m \in Message /\ q \in Seq(Site) /\ IsInjective(q)
    BY <1>2, <1>6
  <2> HIDE DEF text, q
  <2>2. /\ DOMAIN WithList(text, m, q) = DOMAIN text \cup {m} /\ WithList(text, m, q)[m] = q
        /\ \A n \in DOMAIN text : n # m => WithList(text, m, q)[n] = text[n]
        /\ PairsOf(WithList(text, m, q)) = PairsWith(text, m, q)
    BY <2>1, WithListPairs
  <2> QED BY <2>2 DEF q
<1>8. request'[t].text = w
  BY <1>3
<1> HIDE DEF w
<1>9. ASSUME SavesAlone(t)
      PROVE  SavesAlone(t)'
  <2>1. ASSUME Unsaved' = {t}
        PROVE  /\ DOMAIN w = DOMAIN f \ (left \ {m})
               /\ \A n \in DOMAIN w : w[n] = f[n]
    <3>1. DOMAIN text = DOMAIN f \ left /\ \A n \in DOMAIN text : text[n] = f[n]
      BY <1>5, <1>9, <2>1 DEF SavesAlone
    <3> QED BY <1>2, <1>3, <1>7, <3>1
  <2>2. ASSUME NEW p \in answered \cup entered[t]
        PROVE  p[2] \in left \ {m} \/ p \in PairsOf(w)
    <3>1. p \in Subscribed
      BY <2>2 DEF FileInv, AnswersAreListed
    <3>2. CASE p[2] = m
      <4>1. p \in ToSet(f[m]) \X {m}
        BY <3>1, <3>2 DEF Subscribed, PairsOf
      <4> QED BY <1>7, <4>1 DEF PairsWith
    <3>3. CASE p[2] # m
      <4>1. p[2] \in left \/ p \in PairsOf(text)
        BY <1>9 DEF SavesAlone
      <4> QED BY <1>7, <3>3, <4>1 DEF PairsWith
    <3> QED BY <3>2, <3>3
  <2>3. request'[t].pc # "writing"
    BY <1>2
  <2> QED BY <1>1, <1>3, <1>5, <1>8, <1>9, <2>1, <2>2, <2>3 DEF SavesAlone
<1>10. UndisturbedIsAlone'
  BY <1>1, <1>5, <1>9 DEF UndisturbedIsAlone
<1>11. AnswersAreListed' /\ FileIsLists' /\ AnsweredIsSaved'
  BY <1>1, <1>5 DEF FileInv, AnswersAreListed, FileIsLists, AnsweredIsSaved
<1> QED BY <1>10, <1>11 DEF FileInv

LEMMA OpenKeeps ==
    ASSUME FileInv, TypeInv', NEW t \in Thread, OpenFile(t)
    PROVE  FileInv'
<1>1. /\ UNCHANGED <<messageSubscriberList, answered, entered, undisturbed, raced>>
      /\ file' = Empty /\ Subscribed' = Subscribed
  BY DEF OpenFile, lists, history, Subscribed
<1>2. /\ OnlyRequest(t) /\ IsSaving(request[t])' /\ request[t].pc = "dumping"
      /\ request'[t].left = request[t].left /\ request'[t].text = request[t].text
  BY OpenStep DEF FileInv, TypeInv
<1>3. Saving(t)
  BY <1>2 DEF Saving
<1>4. /\ \A u \in Thread : undisturbed = u => u = t /\ SavesAlone(t)
      /\ SavesAlone(t) => \A u \in Thread : Saving(u)' => u = t
      /\ Saving(t)' /\ t \in Unsaved /\ Unsaved' = Unsaved
  BY <1>2, <1>3, SaverStep
<1>5. SavesAlone(t) => SavesAlone(t)'
  BY <1>1, <1>2, <1>4 DEF SavesAlone
<1>6. UndisturbedIsAlone'
  BY <1>1, <1>4, <1>5 DEF UndisturbedIsAlone
<1>7. file'.is # "dump"
  BY <1>1 DEF Empty
<1>8. AnswersAreListed' /\ FileIsLists' /\ AnsweredIsSaved'
  BY <1>1, <1>4, <1>7 DEF FileInv, AnswersAreListed, FileIsLists, AnsweredIsSaved
<1> QED BY <1>6, <1>8 DEF FileInv

\* A save that was alone leaves the lists in the file, unless they have changed
\* since, and in any case what has been answered.
LEMMA WriteKeeps ==
    ASSUME FileInv, TypeInv', NEW t \in Thread, WriteFile(t)
    PROVE  FileInv'
<1> DEFINE text == request[t].text
           f == messageSubscriberList
<1>1. /\ Answer(t) /\ request' = [request EXCEPT ![t] = Idle]
      /\ file = Empty => file' = Dump(text)
      /\ raced' = (undisturbed # t) /\ undisturbed' = Nobody
      /\ messageSubscriberList' = messageSubscriberList
  BY DEF WriteFile, Overwritten, lists
<1>2. answered' = answered \cup entered[t] /\ \A u \in Thread : entered'[u] \subseteq entered[u]
  BY <1>1, AnswerStep DEF FileInv, TypeInv
<1>3. Subscribed' = Subscribed
  BY <1>1 DEF Subscribed
<1>4. AnswersAreListed'
  BY <1>2, <1>3 DEF FileInv, AnswersAreListed
<1>5. UndisturbedIsAlone'
  BY <1>1, NamesAssumption DEF UndisturbedIsAlone
<1>6. ASSUME ~raced'
      PROVE  answered' \subseteq Saved' /\ (Unsaved' = {} => Saved' = Subscribed')
  <2>1. SavesAlone(t)
    BY <1>1, <1>6 DEF FileInv, UndisturbedIsAlone
  <2>2. request[t].pc = "writing" /\ Saving(t)
    BY DEF WriteFile, Saving
  <2>3. request[t].left = {}
    BY <2>2, PcTells DEF FileInv, TypeInv, IsSaving
  <2>4. file' = Dump(text)
    BY <1>1, <2>1, <2>2 DEF SavesAlone
  <2>5. Saved' = PairsOf(text)
    <3> HIDE DEF text
    <3> QED BY <2>4 DEF Saved, Dump
  <2>6. answered' \subseteq Saved'
    BY <1>2, <2>1, <2>3, <2>5 DEF SavesAlone
  <2>7. ASSUME Unsaved' = {}
        PROVE  Saved' = Subscribed'
    <3>1. OnlyRequest(t)
      BY <1>1, IdleStep DEF FileInv, TypeInv
    <3>2. \A u \in Thread : u # t => u \notin Unsaved
      BY <2>7, <3>1, OthersKeep
    <3>3. t \in Unsaved
      BY <2>2, StateTells DEF FileInv, TypeInv
    <3>4. Unsaved = {t}
      BY <3>2, <3>3 DEF Unsaved
    <3>5. DOMAIN text = DOMAIN f /\ \A m \in DOMAIN text : text[m] = f[m]
      BY <2>1, <2>3, <3>4 DEF SavesAlone
    <3>6. PairsOf(text) = PairsOf(f)
      BY <3>5 DEF PairsOf
    <3> QED BY <1>3, <2>5, <3>6 DEF Subscribed
  <2> QED BY <2>6, <2>7
<1>7. FileIsLists' /\ AnsweredIsSaved'
  BY <1>6 DEF FileIsLists, AnsweredIsSaved
<1> QED BY <1>4, <1>5, <1>7 DEF FileInv

LEMMA RestartKeeps ==
    ASSUME FileInv, TypeInv', Restart
    PROVE  FileInv'
<1>1. /\ messageSubscriberList' = Loaded /\ file' = file
      /\ answered' = answered \cap PairsOf(Loaded)
      /\ entered' = [t \in Thread |-> {}]
      /\ raced' = (PairsOf(Loaded) # Saved) /\ undisturbed' = Nobody
  BY DEF Restart
<1>2. Subscribed' = PairsOf(Loaded) /\ Saved' = Saved
  <2> DEFINE f == Loaded
  <2>1. messageSubscriberList' = f
    BY <1>1
  <2> HIDE DEF f
  <2>2. Subscribed' = PairsOf(f)
    BY <2>1 DEF Subscribed
  <2> QED BY <1>1, <2>2 DEF f, Saved
<1>3. AnswersAreListed'
  BY <1>1, <1>2 DEF AnswersAreListed
<1>4. UndisturbedIsAlone'
  BY <1>1, NamesAssumption DEF UndisturbedIsAlone
<1>5. FileIsLists' /\ AnsweredIsSaved'
  BY <1>1, <1>2 DEF FileIsLists, AnsweredIsSaved
<1> QED BY <1>3, <1>4, <1>5 DEF FileInv

LEMMA FileInvStep == FileInv /\ [Next]_vars => FileInv'
<1> SUFFICES ASSUME FileInv, [Next]_vars PROVE FileInv'
  OBVIOUS
<1>1. TypeInv'
  BY TypeInvStep DEF FileInv
<1>2. ASSUME NEW t \in Thread, NEW op \in {"subscribe", "unsubscribe"}, NEW s \in Site,
             NEW ids \in BoundedSeq(Id, MaxIds), Receive(t, op, s, ids)
      PROVE  FileInv'
  BY <1>1, <1>2, ReceiveKeeps
<1>3. ASSUME NEW t \in Thread, Handle(t)
      PROVE  FileInv'
  <2>1. CASE SubscribeMessage(t)
    BY <1>1, <2>1, SubscribeKeeps
  <2>2. CASE UnsubscribeMessage(t) \/ EraseEnd(t)
    BY <1>1, <2>2, RemovalKeeps
  <2>3. CASE UnsubscribeUnknown(t) \/ EndWithoutSave(t)
    BY <1>1, <2>3, EndKeeps
  <2>4. CASE SaveMessageSubscriber(t)
    BY <1>1, <2>4, SaveKeeps
  <2>5. CASE DumpMessage(t)
    BY <1>1, <2>5, DumpKeeps
  <2>6. CASE OpenFile(t)
    BY <1>1, <2>6, OpenKeeps
  <2>7. CASE WriteFile(t)
    BY <1>1, <2>7, WriteKeeps
  <2> QED BY <1>3, <2>1, <2>2, <2>3, <2>4, <2>5, <2>6, <2>7 DEF Handle
<1>4. CASE Restart
  BY <1>1, <1>4, RestartKeeps
<1>5. CASE UNCHANGED vars
  <2>1. /\ UNCHANGED <<messageSubscriberList, request, file, answered, entered, undisturbed, raced>>
        /\ Subscribed' = Subscribed /\ Saved' = Saved /\ Unsaved' = Unsaved
    BY <1>5 DEF vars, lists, history, Subscribed, Saved, Unsaved
  <2>2. AnswersAreListed' /\ FileIsLists' /\ AnsweredIsSaved'
    BY <2>1 DEF FileInv, AnswersAreListed, FileIsLists, AnsweredIsSaved
  <2>3. UndisturbedIsAlone'
    BY <2>1 DEF FileInv, UndisturbedIsAlone, SavesAlone, Saving
  <2> QED BY <1>1, <2>2, <2>3 DEF FileInv
<1> QED BY <1>2, <1>3, <1>4, <1>5 DEF Next

LEMMA FileInvariant == Spec => []FileInv
BY FileInvInit, FileInvStep, PTL DEF Spec

\* When no request is being handled the file holds the subscriptions, unless
\* handlers have raced since the last save that was alone.
THEOREM FileIsCurrentHolds == Spec => []FileIsCurrent
<1>1. FileInv => FileIsCurrent
  BY DEF FileInv, FileIsLists, FileIsCurrent, Quiet, Unsaved
<1> QED BY <1>1, FileInvariant, PTL

\* A restart at any point loads all of the file or nothing, and with it, unless
\* handlers have raced, every subscription that has been answered.
THEOREM AnsweredSurvive == Spec => AnsweredSurviveTogether
<1>1. FileInv /\ [Next]_vars =>
         [Restart /\ ~raced => Subscribed' = {} \/ answered \subseteq Subscribed']_vars
  <2> SUFFICES ASSUME FileInv, Restart, ~raced
               PROVE  Subscribed' = {} \/ answered \subseteq Subscribed'
    OBVIOUS
  <2>1. IsLists(Loaded) /\ (PairsOf(Loaded) = {} \/ PairsOf(Loaded) = Saved)
    BY LoadedLists DEF FileInv, TypeInv
  <2>2. Subscribed' = PairsOf(Loaded)
    <3> DEFINE f == Loaded
    <3>1. messageSubscriberList' = f
      BY DEF Restart
    <3> HIDE DEF f
    <3>2. Subscribed' = PairsOf(f)
      BY <3>1 DEF Subscribed
    <3> QED BY <3>2 DEF f
  <2>3. file.is # "dump" => Saved = {}
    BY DEF Saved
  <2> QED BY <2>1, <2>2, <2>3 DEF FileInv, AnsweredIsSaved
<1> QED BY <1>1, FileInvariant, PTL DEF Spec, AnsweredSurviveTogether

\* No subscription ends but by its site's own unsubscription, by a restart, or
\* when a site unsubscribes from a message it has not subscribed to.
THEOREM OthersStayHolds == Spec => OthersStay
<1>1. TypeInv /\ [Next]_vars =>
         [\A p \in Subscribed :
             p \in Subscribed' \/ Restart
             \/ \E t \in Thread :
                   /\ Listing(t, "unsubscribe") /\ NextId(t) = p[2]
                   /\ request[t].site = p[1] \/ <<request[t].site, p[2]>> \notin Subscribed]_vars
  <2> DEFINE Ends(p) ==
         \/ Restart
         \/ \E t \in Thread :
               /\ Listing(t, "unsubscribe") /\ NextId(t) = p[2]
               /\ request[t].site = p[1] \/ <<request[t].site, p[2]>> \notin Subscribed
  <2> SUFFICES ASSUME TypeInv, Next, NEW p \in Subscribed, p \notin Subscribed'
               PROVE  Ends(p)
    OBVIOUS
  <2>1. ASSUME NEW t \in Thread, NEW op \in {"subscribe", "unsubscribe"}, NEW s \in Site,
               NEW ids \in BoundedSeq(Id, MaxIds), Receive(t, op, s, ids)
        PROVE  FALSE
    BY <2>1 DEF Receive, lists, Subscribed
  <2>2. ASSUME NEW t \in Thread, SubscribeMessage(t)
        PROVE  FALSE
    BY <2>2, SubscribeStep DEF TypeInv, HistoryType
  <2>3. ASSUME NEW t \in Thread, UnsubscribeMessage(t) \/ EraseEnd(t)
        PROVE  Ends(p)
    <3>1. p[2] = NextId(t) /\ (UnsubscribeMessage(t) => p[1] = request[t].site)
      BY <2>3, RemovalStep DEF TypeInv
    <3>2. /\ Listing(t, "unsubscribe")
          /\ UnsubscribeMessage(t) \/ <<request[t].site, NextId(t)>> \notin Subscribed
      BY <2>3 DEF UnsubscribeMessage, EraseEnd
    <3> QED BY <3>1, <3>2
  <2>4. ASSUME NEW t \in Thread,
               \/ UnsubscribeUnknown(t) \/ EndWithoutSave(t) \/ SaveMessageSubscriber(t)
               \/ DumpMessage(t) \/ OpenFile(t) \/ WriteFile(t)
        PROVE  FALSE
    <3>1. UNCHANGED lists
      BY <2>4 DEF UnsubscribeUnknown, EndWithoutSave, AnswerWithoutSave,
                  SaveMessageSubscriber, DumpMessage, OpenFile, WriteFile
    <3> QED BY <3>1 DEF lists, Subscribed
  <2> QED BY <2>1, <2>2, <2>3, <2>4 DEF Next, Handle
<1> QED BY <1>1, TypeInvariant, PTL DEF Spec, OthersStay
=============================================================================
