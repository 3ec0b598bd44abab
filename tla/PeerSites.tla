------------------------------ MODULE PeerSites ------------------------------
(***************************************************************************)
(* How the query site of one panel follows the sites of another panel      *)
(* (SiteTree of src/unit/newQuery).  Every ten seconds it asks by mDNS     *)
(* which panels there are; each answer is queued, and the queue's thread   *)
(* fetches that panel's list over HTTP, stores it in discoveredSiteMap and *)
(* subscribes to the panel's node2node messages, which change the list     *)
(* between two fetches.  A panel that is not fetched for a while is        *)
(* dropped by its count.                                                   *)
(*                                                                         *)
(* The other panel is the peer: its own record is SiteTree's localSiteMap, *)
(* with the address each entry carries, and it may change its address,     *)
(* crash and restart.  Messages are lost and overtaken: the promise of     *)
(* InOrderChannel, without its order.  `changes' numbers what happens to   *)
(* the peer's record and bounds it.                                        *)
(***************************************************************************)
EXTENDS Integers, FiniteSets, SequencesExt

CONSTANTS
    Site,           \* the peer's sites besides its query site
    QuerySite,      \* "site_query", always on record
    Ip,             \* addresses the peer may have
    FirstIp,        \* the one it starts with
    OwnIp,          \* the observing panel's address
    Loopback,       \* localIp before an address is known
    None,           \* no address: not on record, or no request
    PingLimit,      \* a panel is dropped when its count reaches this; -3 in the code
    MaxMissed,      \* a reachable panel is fetched once in so many countdowns
    MaxTries,       \* tries of a fetch; 3 in the code
    MaxAnswers,     \* bound: answers queued
    MaxChanges      \* bound: changes, crashes, restarts, new addresses

ASSUME PeerAssumption ==
    /\ QuerySite \notin Site /\ FirstIp \in Ip
    /\ OwnIp \notin Ip /\ Loopback \notin Ip /\ None \notin Ip \cup {Loopback}
ASSUME LimitAssumption ==
    /\ PingLimit \in Int /\ PingLimit < 1
    /\ MaxMissed \in Nat /\ MaxMissed < 1 - PingLimit
    /\ MaxTries \in Nat \ {0} /\ MaxAnswers \in Nat /\ MaxChanges \in Nat

Address == Ip \cup {Loopback}
Message == [site : Site, status : {"online", "offline"}, ip : Address,
            n : 1..MaxChanges]
Idle    == [pc |-> "idle"]

VARIABLES
    \* the peer
    address,        \* its address in the network
    up,             \* whether its query site runs
    localIp,        \* the address its query site knows of
    updating,       \* initLocalIp has assigned localIp and not yet the records
    ready2StartMdnsService,     \* its query site answers mDNS queries
    record,         \* localSiteMap: the address in a site's entry, or None
    registering,    \* the address a register request has read, or None
    subscribed,     \* the observer is subscribed to node2node
    toPublish,      \* node2node messages still to publish, outside the lock
    changes,        \* number of changes so far
    \* the network
    messages,       \* node2node messages under way to the observer
    \* the observer
    responses,      \* queryResponseQueue
    fetch,          \* what the thread of the queue is doing
    discoveredSiteMap,
    discoveredPingCountMap,
    \* history
    missed,         \* countdowns since the peer was last fetched
    seen,           \* per site, the last change the observer's list knows of
    raced,          \* a loss or a race since the list was right
    overtaken       \* sites whose request had read the address before the last
                    \* change of localIp and came after that of the records

init     == <<updating, ready2StartMdnsService>>
peerVars == <<address, up, localIp, init, record, registering, subscribed,
              toPublish, changes, overtaken>>
view     == <<discoveredSiteMap, discoveredPingCountMap>>
vars     == <<peerVars, messages, responses, fetch, view, missed, seen, raced>>

Put(f, k, v) == [x \in DOMAIN f \cup {k} |-> IF x = k THEN v ELSE f[x]]
Drop(f, K)   == [x \in DOMAIN f \ K |-> f[x]]

-----------------------------------------------------------------------------
(* Faulty variants of operations defined below.                             *)

\* The query site is not put on record at the start.
PresentWithoutQuery == {s \in Site : record[s] # None}

\* The thread is counted as started and the records are left as they are.
UpdatesNoRecord ==
    /\ up /\ updating
    /\ overtaken' = {s \in Site : registering[s] \notin {None, localIp}}
    /\ updating' = FALSE /\ ready2StartMdnsService' = TRUE
    /\ UNCHANGED <<address, up, localIp, record, registering, subscribed, toPublish,
                   changes, messages, responses, fetch, view, missed, seen, raced>>

\* The comparison with the own address is the wrong way round.
AsksItself ==
    /\ fetch = Idle /\ responses # <<>>
    /\ responses' = Tail(responses)
    /\ fetch' = IF Head(responses) # OwnIp THEN Idle
                ELSE [pc |-> "asking", ip |-> Head(responses), tryCount |-> 1]
    /\ UNCHANGED <<peerVars, messages, view, missed, seen, raced>>

\* The site is removed from the copy of the list the handler works on.
UpdatesCopy(list, m) ==
    IF m.status = "online" /\ list # {} THEN list \cup {m.site} ELSE list

\* Only a count below the limit is dropped.
ExpiredLate == {ip \in DOMAIN discoveredPingCountMap :
                   discoveredPingCountMap[ip] - 1 < PingLimit}

-----------------------------------------------------------------------------
Present     == {QuerySite} \cup {s \in Site : record[s] # None}
Reachable   == ready2StartMdnsService /\ localIp = address
UnderWay    == toPublish \cup messages
Outstanding == {m.n : m \in UnderWay}

\* A change after change i whose message is not under way any more, or that
\* has none.
Gap(i) == \E k \in (i + 1)..changes : k \notin Outstanding

Init ==
    /\ address = FirstIp /\ up = TRUE /\ localIp = Loopback
    /\ updating = FALSE /\ ready2StartMdnsService = FALSE
    /\ record = [s \in Site |-> None]
    /\ registering = [s \in Site |-> None]
    /\ subscribed = FALSE /\ toPublish = {} /\ changes = 0
    /\ messages = {} /\ responses = <<>> /\ fetch = Idle
    /\ discoveredSiteMap = <<>> /\ discoveredPingCountMap = <<>>
    /\ missed = 0 /\ seen = [s \in Site |-> 0] /\ raced = FALSE /\ overtaken = {}

-----------------------------------------------------------------------------
(* The peer.                                                                *)

Change == changes < MaxChanges /\ changes' = changes + 1

Says(s, status, ip) ==
    toPublish' = toPublish \cup
        {[site |-> s, status |-> status, ip |-> ip, n |-> changes + 1]}

\* site_register_service_handler takes localIp before siteRegister locks.
ReadLocalIp(s) ==
    /\ up /\ registering[s] = None /\ changes < MaxChanges
    /\ registering' = [registering EXCEPT ![s] = localIp]
    /\ UNCHANGED <<address, up, localIp, init, record, subscribed, toPublish, changes,
                   overtaken, messages, responses, fetch, view, missed, seen, raced>>

SiteRegister(s) ==
    /\ up /\ registering[s] # None
    /\ Change
    /\ record' = [record EXCEPT ![s] = registering[s]]
    /\ overtaken' = IF registering[s] = localIp THEN overtaken \ {s} ELSE overtaken
    /\ Says(s, "online", registering[s])
    /\ registering' = [registering EXCEPT ![s] = None]
    /\ UNCHANGED <<address, up, localIp, init, subscribed, messages, responses,
                   fetch, view, missed, seen, raced>>

\* siteUnregister, or localSitePingCountDown for a silent site.
SiteUnregister(s) ==
    /\ up /\ record[s] # None
    /\ Change
    /\ record' = [record EXCEPT ![s] = None]
    /\ Says(s, "offline", record[s])
    /\ UNCHANGED <<address, up, localIp, init, registering, subscribed, overtaken,
                   messages, responses, fetch, view, missed, seen, raced>>

\* publishMessage, in whatever order the threads get to it.
Publish(m) ==
    /\ up /\ m \in toPublish
    /\ toPublish' = toPublish \ {m}
    /\ messages' = IF subscribed THEN messages \cup {m} ELSE messages
    /\ raced' = (raced \/ (~subscribed /\ m.n > seen[m.site]))
    /\ UNCHANGED <<address, up, localIp, init, record, registering, subscribed,
                   changes, overtaken, responses, fetch, view, missed, seen>>

\* A lease runs out or the network is another one: the query site finds out
\* when initLocalIp next looks.
ChangeAddress ==
    /\ Change
    /\ address' \in Ip \ {address}
    /\ raced' = TRUE /\ missed' = 0
    /\ UNCHANGED <<up, localIp, init, record, registering, subscribed, toPublish,
                   overtaken, messages, responses, fetch, view, seen>>

\* initLocalIp assigns localIp without a lock: until updateLocalSiteIp has the
\* lock, the records keep the old address.
AssignLocalIp ==
    /\ up /\ ~updating /\ localIp # address
    /\ localIp' = address
    /\ updating' = TRUE
    /\ missed' = 0
    /\ UNCHANGED <<address, up, ready2StartMdnsService, record, registering, subscribed,
                   toPublish, changes, overtaken, messages, responses, fetch, view,
                   seen, raced>>

\* A request that has read the old address may still register with it.
UpdateLocalSiteIp ==
    /\ up /\ updating
    /\ record' = [s \in Site |-> IF record[s] = None THEN None ELSE localIp]
    /\ overtaken' = {s \in Site : registering[s] \notin {None, localIp}}
    /\ updating' = FALSE /\ ready2StartMdnsService' = TRUE
    /\ UNCHANGED <<address, up, localIp, registering, subscribed, toPublish, changes,
                   messages, responses, fetch, view, missed, seen, raced>>

\* The subscription is in a file, the record is not.
Crash ==
    /\ up /\ Change
    /\ up' = FALSE
    /\ localIp' = Loopback
    /\ updating' = FALSE /\ ready2StartMdnsService' = FALSE
    /\ record' = [s \in Site |-> None]
    /\ registering' = [s \in Site |-> None]
    /\ toPublish' = {} /\ overtaken' = {} /\ raced' = TRUE
    /\ UNCHANGED <<address, subscribed, messages, responses, fetch, view,
                   missed, seen>>

Restart ==
    /\ ~up /\ Change
    /\ up' = TRUE
    /\ UNCHANGED <<address, localIp, init, record, registering, subscribed, toPublish,
                   overtaken, messages, responses, fetch, view, missed, seen, raced>>

Peer ==
    \/ \E s \in Site : ReadLocalIp(s) \/ SiteRegister(s) \/ SiteUnregister(s)
    \/ \E m \in toPublish : Publish(m)
    \/ ChangeAddress \/ AssignLocalIp \/ UpdateLocalSiteIp \/ Crash \/ Restart

-----------------------------------------------------------------------------
(* The network.                                                             *)

LoseMessage(m) ==
    /\ m \in messages
    /\ messages' = messages \ {m}
    /\ raced' = (raced \/ m.n > seen[m.site])
    /\ UNCHANGED <<peerVars, responses, fetch, view, missed, seen>>

\* An answer to the mDNS query, known by the address it comes from; the observer
\* hears itself too.
Answer(ip) ==
    /\ Len(responses) < MaxAnswers
    /\ responses' = Append(responses, ip)
    /\ UNCHANGED <<peerVars, messages, fetch, view, missed, seen, raced>>

\* The mDNS service is started once an address is known.
PeerAnswers == ready2StartMdnsService /\ Answer(address)

-----------------------------------------------------------------------------
(* The observer: the thread of the queue, in addNewFindSite.                *)

TakeAnswer ==
    /\ fetch = Idle /\ responses # <<>>
    /\ responses' = Tail(responses)
    /\ fetch' = IF Head(responses) = OwnIp THEN Idle
                ELSE [pc |-> "asking", ip |-> Head(responses), tryCount |-> 1]
    /\ UNCHANGED <<peerVars, messages, view, missed, seen, raced>>

\* The peer's getLocalSiteInfo, under the peer's lock.
GetLocalSite ==
    /\ fetch.pc = "asking"
    /\ up /\ address = fetch.ip
    /\ fetch' = [pc |-> "answered", ip |-> fetch.ip, siteList |-> Present, n |-> changes]
    /\ UNCHANGED <<peerVars, messages, responses, view, missed, seen, raced>>

GetFails ==
    /\ fetch.pc = "asking"
    /\ fetch' = IF fetch.tryCount < MaxTries THEN [fetch EXCEPT !.tryCount = @ + 1] ELSE Idle
    /\ UNCHANGED <<peerVars, messages, responses, view, missed, seen, raced>>

StoreSiteList ==
    /\ fetch.pc = "answered"
    /\ discoveredSiteMap' = Put(discoveredSiteMap, fetch.ip, fetch.siteList)
    /\ discoveredPingCountMap' = Put(discoveredPingCountMap, fetch.ip, 1)
    /\ missed' = IF fetch.ip = address THEN 0 ELSE missed
    /\ seen' = [s \in Site |-> fetch.n]
    /\ raced' = Gap(fetch.n)
    /\ fetch' = [pc |-> "subscribing", ip |-> fetch.ip]
    /\ UNCHANGED <<peerVars, messages, responses>>

SubscribeMessage(ok) ==
    /\ fetch.pc = "subscribing"
    /\ fetch' = Idle
    /\ subscribed' = (subscribed \/ (ok /\ up /\ address = fetch.ip))
    /\ UNCHANGED <<address, up, localIp, init, record, registering, toPublish, changes,
                   overtaken, messages, responses, view, missed, seen, raced>>

QueueThread ==
    \/ TakeAnswer \/ GetLocalSite \/ GetFails \/ StoreSiteList
    \/ \E ok \in BOOLEAN : SubscribeMessage(ok)

-----------------------------------------------------------------------------
(* The observer: message handlers and the query thread.                     *)

\* A site is appended at the last element of a list: never to an empty one.
Updated(list, m) ==
    IF m.status = "offline" THEN list \ {m.site}
    ELSE IF list = {} THEN {} ELSE list \cup {m.site}

UpdateFindSite(m) ==
    /\ m \in messages
    /\ messages' = messages \ {m}
    /\ discoveredSiteMap' =
          IF m.ip \in DOMAIN discoveredSiteMap
          THEN [discoveredSiteMap EXCEPT ![m.ip] = Updated(@, m)]
          ELSE discoveredSiteMap
    /\ raced' = (raced \/ m.n <= seen[m.site] \/ m.ip # address
                       \/ m.ip \notin DOMAIN discoveredSiteMap)
    /\ seen' = [seen EXCEPT ![m.site] = IF m.n > @ THEN m.n ELSE @]
    /\ UNCHANGED <<peerVars, responses, fetch, discoveredPingCountMap, missed>>

Decremented == [ip \in DOMAIN discoveredPingCountMap |-> discoveredPingCountMap[ip] - 1]
Expired     == {ip \in DOMAIN Decremented : Decremented[ip] <= PingLimit}

\* The guard is the assumption on timing: see MaxMissed.
DiscoveredSitePingCountDown ==
    /\ Reachable => missed < MaxMissed
    /\ missed' = IF Reachable THEN missed + 1 ELSE missed
    /\ discoveredPingCountMap' = Drop(Decremented, Expired)
    /\ discoveredSiteMap' = Drop(discoveredSiteMap, Expired)
    /\ UNCHANGED <<peerVars, messages, responses, fetch, seen, raced>>

\* The observer keeps nothing.
ObserverRestarts ==
    /\ Change
    /\ discoveredSiteMap' = <<>> /\ discoveredPingCountMap' = <<>>
    /\ responses' = <<>> /\ fetch' = Idle
    /\ missed' = 0 /\ raced' = TRUE
    /\ UNCHANGED <<address, up, localIp, init, record, registering, subscribed,
                   toPublish, overtaken, messages, seen>>

-----------------------------------------------------------------------------
Next ==
    \/ Peer
    \/ PeerAnswers \/ Answer(OwnIp)
    \/ \E m \in messages : LoseMessage(m) \/ UpdateFindSite(m)
    \/ QueueThread
    \/ DiscoveredSitePingCountDown
    \/ ObserverRestarts

Spec == Init /\ [][Next]_vars

\* The threads run for ever, and what is tried again every ten seconds (the
\* query, the fetch) gets through now and then.  No message has to arrive.
FairSpec ==
    /\ Spec
    /\ WF_vars(AssignLocalIp) /\ WF_vars(UpdateLocalSiteIp) /\ WF_vars(QueueThread)
    /\ WF_vars(DiscoveredSitePingCountDown)
    /\ SF_vars(PeerAnswers) /\ SF_vars(GetLocalSite)

-----------------------------------------------------------------------------
PeerTypeOK ==
    /\ address \in Ip /\ up \in BOOLEAN /\ localIp \in Address
    /\ record \in [Site -> Address \cup {None}]
    /\ registering \in [Site -> Address \cup {None}]
    /\ updating \in BOOLEAN /\ ready2StartMdnsService \in BOOLEAN
    /\ subscribed \in BOOLEAN /\ overtaken \subseteq Site
    /\ toPublish \subseteq Message /\ messages \subseteq Message
    /\ changes \in 0..MaxChanges

FetchTypeOK ==
    fetch \in {Idle}
       \cup [pc : {"asking"}, ip : Ip, tryCount : 1..MaxTries]
       \cup [pc : {"answered"}, ip : Ip, siteList : SUBSET (Site \cup {QuerySite}),
             n : 0..MaxChanges]
       \cup [pc : {"subscribing"}, ip : Ip]

ViewTypeOK ==
    /\ DOMAIN discoveredSiteMap \subseteq Ip
    /\ DOMAIN discoveredPingCountMap = DOMAIN discoveredSiteMap
    /\ \A ip \in DOMAIN discoveredSiteMap :
          /\ discoveredSiteMap[ip] \subseteq Site \cup {QuerySite}
          /\ discoveredPingCountMap[ip] \in (PingLimit + 1)..1

TypeOK ==
    /\ PeerTypeOK /\ FetchTypeOK /\ ViewTypeOK
    /\ responses \in Seq(Ip \cup {OwnIp})
    /\ missed \in 0..MaxMissed /\ raced \in BOOLEAN
    /\ seen \in [Site -> 0..MaxChanges]

\* updateFindSite could never add a site to an empty list.  No list becomes
\* empty: every one comes with the peer's query site, which no message removes.
EveryListHasQuerySite ==
    \A ip \in DOMAIN discoveredSiteMap : QuerySite \in discoveredSiteMap[ip]

\* With nothing under way the observer's list is the peer's record, unless a
\* message was lost, overtaken, handled between the fetch of a list and its
\* storing, or sent before the subscription.
WrongOnlyWhenRaced ==
    ~raced /\ Outstanding = {} /\ address \in DOMAIN discoveredSiteMap =>
       discoveredSiteMap[address] = Present

\* Once initLocalIp is through, a site on record has the address its panel knows
\* of, unless its request was under way all through the change: it had read the
\* old address before localIp was assigned, and registered only after
\* updateLocalSiteIp.  Registering in between does no harm.
StaleAddressOnlyWhenRaced ==
    ~updating => \A s \in Site : record[s] \in {None, localIp} \/ s \in overtaken

\* Whatever was lost or raced: once the peer changes no more, the observer
\* comes to know it by its address and with its sites, or not at all if it is
\* down.
ViewConverges ==
    <>[](discoveredSiteMap = [ip \in IF up THEN {address} ELSE {} |-> Present])
=============================================================================
