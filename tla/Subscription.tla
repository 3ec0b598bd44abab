---------------------------- MODULE Subscription ----------------------------
(***************************************************************************)
(* The subscriptions a site keeps for the others, and their file:          *)
(* ServiceSiteManager's handlers of subscribe_message and                  *)
(* unsubscribe_message, saveMessageSubscriber and loadMessageSubscriber    *)
(* (src/baseSrc/siteService).  Requests are handled on the threads of the  *)
(* HTTP server; the lists are locked for one message id at a time, and the *)
(* saving of the file is not locked at all.  What becomes of a message     *)
(* once its subscriber is known is SubscriberSiteHandle's.                 *)
(***************************************************************************)
EXTENDS FiniteSets, SequencesExt

CONSTANTS
    Site,           \* subscribers: address and port
    Message,        \* message ids the site has registered
    OtherId,        \* any other id
    Thread,         \* threads of the HTTP server
    Nobody,         \* no thread
    FileLimit,      \* entries in a file of 10 KB
    MaxIds,         \* bound: ids in a request
    MaxRequests     \* bound: requests in all

ASSUME NamesAssumption == OtherId \notin Message /\ Nobody \notin Thread
ASSUME LimitAssumption == FileLimit \in Nat /\ MaxIds \in Nat /\ MaxRequests \in Nat

VARIABLES
    messageSubscriberList,  \* message ids somebody has subscribed to: by whom
    siteHandles,            \* messageSubscriberSiteHandlePList
    request,                \* what each thread is doing
    file,                   \* the subscriber file
    requests,               \* count for the bound
    answered,               \* history: subscriptions answered with ok
    entered,                \* history: those each thread is about to answer
    undisturbed,            \* history: who has been saving alone so far
    raced                   \* history: an answer without a save of its own, or
                            \* overlapping saves, since the last good save

lists   == <<messageSubscriberList, siteHandles>>
history == <<answered, entered, undisturbed, raced>>
vars    == <<lists, request, file, requests, history>>

Id      == Message \cup {OtherId}
Idle    == [pc |-> "idle"]
Empty   == [is |-> "empty"]     \* just truncated, or no file
Garbage == [is |-> "garbage"]   \* not JSON
Dump(f) == [is |-> "dump", list |-> f]

\* The lists f with the list of m replaced or entered.
WithList(f, m, list) == [i \in DOMAIN f \cup {m} |-> IF i = m THEN list ELSE f[i]]

Entries(f)  == Cardinality(DOMAIN f) + FoldSet(LAMBDA m, n : n + Len(f[m]), 0, DOMAIN f)
PairsOf(f)  == {p \in Site \X Message : p[2] \in DOMAIN f /\ p[1] \in ToSet(f[p[2]])}
Subscribed  == PairsOf(messageSubscriberList)
Saved       == IF file.is = "dump" THEN PairsOf(file.list) ELSE {}
Saving(t)   == request[t].pc \in {"dumping", "writing"}
Quiet       == \A t \in Thread : request[t] = Idle

Init ==
    /\ messageSubscriberList = [m \in {} |-> <<>>]
    /\ siteHandles = {}
    /\ request = [t \in Thread |-> Idle]
    /\ file = Empty
    /\ requests = 0
    /\ answered = {} /\ entered = [t \in Thread |-> {}]
    /\ undisturbed = Nobody /\ raced = FALSE

-----------------------------------------------------------------------------
Receive(t, op, s, ids) ==
    /\ request[t] = Idle /\ requests < MaxRequests
    /\ requests' = requests + 1
    /\ request' = [request EXCEPT ![t] =
                      [pc |-> "listing", op |-> op, site |-> s, ids |-> ids,
                       next |-> 1, needSave |-> FALSE, changed |-> FALSE]]
    /\ UNCHANGED <<lists, file, history>>

\* A handler that is about to end: with or without a save.
Race == raced' = TRUE /\ undisturbed' = Nobody

\* The answer goes out when the handler returns.
Answer(t) ==
    /\ answered' = answered \cup entered[t]
    /\ entered' = [entered EXCEPT ![t] = {}]

\* Only a subscription that is still there is expected to survive.
Forget(left) ==
    /\ answered' = answered \cap left
    /\ entered' = [u \in Thread |-> entered[u] \cap left]

\* Handlers that have changed the lists and have not saved them.
Unsaved == {u \in Thread : request[u] # Idle /\ request[u].changed}

AnswerWithoutSave(t) ==
    /\ Answer(t)
    /\ request' = [request EXCEPT ![t] = Idle]
    /\ IF Unsaved = {} THEN UNCHANGED <<undisturbed, raced>> ELSE Race
    /\ UNCHANGED <<lists, file, requests>>

NextId(t) == request[t].ids[request[t].next]

Listing(t, op) ==
    /\ request[t].pc = "listing" /\ request[t].op = op
    /\ request[t].next <= Len(request[t].ids)

Advance(t, needSave) ==
    request' = [request EXCEPT ![t].next = @ + 1, ![t].needSave = needSave,
                               ![t].changed = @ \/ needSave]

-----------------------------------------------------------------------------
(* subscribe_message.                                                       *)

\* Faulty: a subscriber is entered without being looked for.
AddsAgain(f, m, s) ==
    WithList(f, m, IF m \in DOMAIN f THEN Append(f[m], s) ELSE <<s>>)

Added(f, m, s) ==
    IF m \notin DOMAIN f THEN WithList(f, m, <<s>>)
    ELSE IF s \in ToSet(f[m]) THEN f
    ELSE WithList(f, m, Append(f[m], s))

\* need_save is what the last id has left in it.
SubscribeMessage(t) ==
    LET s == request[t].site
        m == NextId(t)
    IN  /\ Listing(t, "subscribe")
        /\ IF m \in Message
           THEN /\ messageSubscriberList' = Added(messageSubscriberList, m, s)
                /\ siteHandles' = siteHandles \cup {s}
                /\ Advance(t, <<s, m>> \notin Subscribed)
                /\ entered' = [entered EXCEPT ![t] = @ \cup {<<s, m>>}]
           ELSE UNCHANGED <<lists, entered>> /\ Advance(t, FALSE)
        /\ UNCHANGED <<file, requests, answered, undisturbed, raced>>

-----------------------------------------------------------------------------
(* unsubscribe_message.                                                     *)

Known(t) == request[t].site \in siteHandles /\ NextId(t) \in DOMAIN messageSubscriberList

\* The rest of the ids is ignored, and what has been removed is not saved.
UnsubscribeUnknown(t) ==
    /\ Listing(t, "unsubscribe") /\ ~Known(t)
    /\ AnswerWithoutSave(t)

\* Faulty: the first subscriber is removed.
RemovesFirst(list, s) == Tail(list)

Removed(list, s) == RemoveFirst(list, s)

\* Faulty: the removal is not saved.
ForgetsToSave(t, list) ==
    LET m == NextId(t)
    IN  /\ messageSubscriberList' = [messageSubscriberList EXCEPT ![m] = list]
        /\ Forget(Subscribed \ {p \in Subscribed : p[2] = m /\ p[1] \notin ToSet(list)})
        /\ Advance(t, FALSE)
        /\ UNCHANGED <<siteHandles, file, requests, undisturbed, raced>>

Replace(t, list) ==
    LET m == NextId(t)
    IN  /\ messageSubscriberList' = [messageSubscriberList EXCEPT ![m] = list]
        /\ Forget(Subscribed \ {p \in Subscribed : p[2] = m /\ p[1] \notin ToSet(list)})
        /\ Advance(t, TRUE)
        /\ UNCHANGED <<siteHandles, file, requests, undisturbed, raced>>

UnsubscribeMessage(t) ==
    /\ Listing(t, "unsubscribe") /\ Known(t)
    /\ <<request[t].site, NextId(t)>> \in Subscribed
    /\ Replace(t, Removed(messageSubscriberList[NextId(t)], request[t].site))

\* erase(end()): the last subscriber is dropped, or the process (see Restart).
EraseEnd(t) ==
    /\ Listing(t, "unsubscribe") /\ Known(t)
    /\ <<request[t].site, NextId(t)>> \notin Subscribed
    /\ messageSubscriberList[NextId(t)] # <<>>
    /\ Replace(t, Front(messageSubscriberList[NextId(t)]))

-----------------------------------------------------------------------------
(* The end of both handlers: saveMessageSubscriber, without a lock.         *)

EndWithoutSave(t) ==
    /\ request[t].pc = "listing" /\ request[t].next > Len(request[t].ids)
    /\ ~request[t].needSave
    /\ AnswerWithoutSave(t)

SaveMessageSubscriber(t) ==
    /\ request[t].pc = "listing" /\ request[t].next > Len(request[t].ids)
    /\ request[t].needSave
    /\ request' = [request EXCEPT ![t] =
                      [pc |-> "dumping", op |-> @.op, site |-> @.site, ids |-> @.ids,
                       changed |-> TRUE, text |-> [m \in {} |-> <<>>],
                       left |-> DOMAIN messageSubscriberList]]
    /\ undisturbed' = IF \E u \in Thread : Saving(u) THEN Nobody ELSE t
    /\ UNCHANGED <<lists, file, requests, answered, entered, raced>>

\* One message id after the other, as many as there were at the start; another
\* thread may change a list in between.  (One that moves the list that is being
\* read may end the process: see Restart.)
DumpMessage(t) ==
    /\ request[t].pc = "dumping"
    /\ \E m \in request[t].left :
          request' = [request EXCEPT ![t].left = @ \ {m},
                                     ![t].text = WithList(@, m, messageSubscriberList[m])]
    /\ UNCHANGED <<lists, file, requests, history>>

\* O_TRUNC.
OpenFile(t) ==
    /\ request[t].pc = "dumping" /\ request[t].left = {}
    /\ request' = [request EXCEPT ![t].pc = "writing"]
    /\ file' = Empty
    /\ UNCHANGED <<lists, requests, history>>

\* What a file holds after f has been written from its start: of another text
\* that was there the end may remain.
Overwritten(f) == IF file = Empty THEN {Dump(f)} ELSE {Dump(f), Garbage}

WriteFile(t) ==
    /\ request[t].pc = "writing"
    /\ file' \in Overwritten(request[t].text)
    /\ Answer(t)
    /\ request' = [request EXCEPT ![t] = Idle]
    /\ raced' = (undisturbed # t) /\ undisturbed' = Nobody
    /\ UNCHANGED <<lists, requests>>

-----------------------------------------------------------------------------
(* The process ends, anywhere, and starts again.                            *)

\* Faulty: only the subscribers of one message are loaded.
LoadsOneMessage ==
    IF file.is = "dump" /\ Entries(file.list) < FileLimit
    THEN [m \in {m \in DOMAIN file.list : file.list[m] # <<>> /\ m = CHOOSE i \in DOMAIN file.list : TRUE}
              |-> file.list[m]]
    ELSE [m \in {} |-> <<>>]

\* An id without subscribers is not subscribed to; a file that fills the
\* buffer is ignored.
Loaded ==
    IF file.is = "dump" /\ Entries(file.list) < FileLimit
    THEN [m \in {m \in DOMAIN file.list : file.list[m] # <<>>} |-> file.list[m]]
    ELSE [m \in {} |-> <<>>]

Restart ==
    /\ messageSubscriberList' = Loaded
    /\ siteHandles' = {p[1] : p \in PairsOf(Loaded)}
    /\ request' = [t \in Thread |-> Idle]
    /\ answered' = answered \cap PairsOf(Loaded)
    /\ entered' = [t \in Thread |-> {}]
    /\ raced' = (PairsOf(Loaded) # Saved) /\ undisturbed' = Nobody
    /\ UNCHANGED <<file, requests>>

Handle(t) ==
    \/ SubscribeMessage(t) \/ UnsubscribeUnknown(t) \/ UnsubscribeMessage(t)
    \/ EraseEnd(t) \/ EndWithoutSave(t)
    \/ SaveMessageSubscriber(t) \/ DumpMessage(t) \/ OpenFile(t) \/ WriteFile(t)

Next ==
    \/ \E t \in Thread, op \in {"subscribe", "unsubscribe"}, s \in Site,
          ids \in BoundedSeq(Id, MaxIds) : Receive(t, op, s, ids)
    \/ \E t \in Thread : Handle(t)
    \/ Restart

Spec == Init /\ [][Next]_vars

-----------------------------------------------------------------------------
IsList(f) == DOMAIN f \subseteq Message /\ \A m \in DOMAIN f : f[m] \in Seq(Site)

\* Types; a site is entered once for a message, and has a handle.
TypeOK ==
    /\ IsList(messageSubscriberList)
    /\ \A m \in DOMAIN messageSubscriberList :
          IsInjective(messageSubscriberList[m]) /\ ToSet(messageSubscriberList[m]) \subseteq siteHandles
    /\ siteHandles \subseteq Site
    /\ \A t \in Thread : request[t].pc \in {"idle", "listing", "dumping", "writing"}
    /\ \A t \in Thread : request[t] # Idle =>
          request[t].site \in Site /\ request[t].ids \in Seq(Id) /\ request[t].changed \in BOOLEAN
    /\ \A t \in Thread : Saving(t) => IsList(request[t].text)
    /\ \/ file \in {Empty, Garbage}
       \/ file = Dump(file.list) /\ IsList(file.list)
    /\ requests \in 0..MaxRequests
    /\ answered \subseteq Site \X Message
    /\ entered \in [Thread -> SUBSET (Site \X Message)]
    /\ undisturbed \in Thread \cup {Nobody} /\ raced \in BOOLEAN

\* When no request is being handled the file holds the subscriptions, unless
\* since the last save that was alone a handler has ended without saving what it
\* or another had changed (need_save of the last id only, the early return of an
\* unsubscription, a repeated subscription), two saves have overlapped, or the
\* file was too long to be loaded.
FileIsCurrent == Quiet /\ ~raced => Saved = Subscribed

\* A subscription ends by its site's own unsubscription, by a restart, or when
\* a site unsubscribes from a message it has not subscribed to.
OthersStay ==
    [][\A p \in Subscribed :
          p \in Subscribed' \/ Restart
          \/ \E t \in Thread :
                /\ Listing(t, "unsubscribe") /\ NextId(t) = p[2]
                /\ request[t].site = p[1] \/ <<request[t].site, p[2]>> \notin Subscribed]_vars

\* Unless handlers raced as above, a restart at any point loses no subscription
\* that has been answered, or all of them at once.
AnsweredSurviveTogether ==
    [][Restart /\ ~raced => Subscribed' = {} \/ answered \subseteq Subscribed']_vars
=============================================================================
